SPECIFICATION FairSpec
CONSTANTS
  Proc = {g1, g2, g3}
  outer = outer
  inner = inner
  Map <- MCMap
  Depth <- MCDepth
  Block = {p1, p2}
  Nobody = Nobody
INVARIANTS TypeOK OneHolder
PROPERTIES LockedWrites LedgerSpec CallsReturn
