\* Two clients, two reconfigurations, before_drop and a snapshot without
\* WAL.  A finished shard waits for requests (Terminating), so deadlock is
\* checked.
CONSTANTS
  c1 = c1  c2 = c2
  Clients <- MCClients
  QueueSize = 2
  MaxReconfigs = 2
  MaxDrops = 1
  None = None
SPECIFICATION FairSpec
INVARIANT TypeOK
INVARIANT PlungerCoversOlderChannels
INVARIANT SnapshotWalCoversSegments
PROPERTY AcceptedOperationsApplied
PROPERTY BeforeDropCompletes
