SPECIFICATION Spec
CONSTANTS
  Path = {p1, p2}
  Link = {l1}
  Null = Null
  MaxPaths = 1
SYMMETRY Symmetry
INVARIANTS TypeOK OutcomeExplained
PROPERTIES DeletesAsAsked RootsProtect
