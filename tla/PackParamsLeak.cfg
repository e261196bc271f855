SPECIFICATION Spec
CONSTANTS
  Block <- MCBlock
  Null = Null
  MaxLen <- MCMaxLen
INVARIANT NoLeak
