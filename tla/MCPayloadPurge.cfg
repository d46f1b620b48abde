SPECIFICATION FairSpec
CONSTANTS
  t1 = t1  t2 = t2  t3 = t3  x = x  y = y  z = z
  Traces <- ThreeRequests
  Length <- Lengths
  Body <- Bodies
  Created <- Times
  Cutoffs = {2}
  BatchRows = 1
  BatchBlobs = 2
  MaxClears = 2
INVARIANTS TypeOK LiveBodiesComplete GarbageIsMarked
PROPERTIES ReaderSpec PurgeEnds
CHECK_DEADLOCK FALSE
