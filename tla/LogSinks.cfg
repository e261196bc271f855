SPECIFICATION LogSpec
CONSTANTS
  Destination = {d1, d2}
  Null = Null
  MaxSinks = 3
  MaxEvents = 3
SYMMETRY Symmetric
INVARIANTS LogTypeOK LoggerIsThere EverySinkGetsEverything
