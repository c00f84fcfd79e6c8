-------------------------- MODULE MCUpdateChannel --------------------------
\* Model values for checking UpdateChannel with TLC.
EXTENDS UpdateChannel

CONSTANTS c1, c2

MCClients == {c1, c2}


=============================================================================
