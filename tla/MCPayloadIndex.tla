--------------------------- MODULE MCPayloadIndex ---------------------------
\* Model values for checking PayloadIndex with TLC.
EXTENDS PayloadIndex

CONSTANTS a, b

MCPts == {0, 1}
MCTwoKeys == {a, b}
MCTwoTypes == {"int", "keyword"}
MCOneType == {"int"}

=============================================================================
