SPECIFICATION Spec
CONSTANTS
  Ctx = {c1, c2}
  Block <- MCBlock
  Null = Null
  MaxOwned = 2
INVARIANTS TypeOK NullExplained NoLeak ErrorRead
