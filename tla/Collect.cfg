SPECIFICATION Spec
CONSTANTS
  Block <- MCBlock
  Null = Null
  SizeModulus = 64
  MaxAlloc = 31
  MaxDelivered = 18
  MaxClones = 1
INVARIANTS TypeOK InBounds AllOrNothing NoLeak SingleOwner ErrorReported
PROPERTY ListSpec
