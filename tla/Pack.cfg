SPECIFICATION Spec
CONSTANTS
  Block <- MCBlock
  Null = Null
  MaxLen <- MCMaxLen
INVARIANTS TypeOK AllOrReported OnlyPairsLeak
