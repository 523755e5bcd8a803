\* Three tasks on a pool of two connections, nested blocks, one fault.
SPECIFICATION FairSpec
CONSTANTS
  Tasks = {t1, t2, t3}
  Connections = {c1, c2}
  NoConnection = NoConnection
  MaxBlocks = 2
  MaxFaults = 1
INVARIANTS
  TypeOK
  ConnectionsExclusive
  AllOrNothing
  NoConnectionLost
PROPERTIES
  PoolNeverStuck
