SPECIFICATION Spec
CONSTANTS
  params = params
  param = param
  options = options
  list = list
  item = item
  hash = hash
  Proc = {g1, g2}
  Var <- MCVar
  Type <- MCType
  Items <- MCItems
  Nested <- MCNested
  Holdings <- MCHoldings
  Copies = 2
  MaxStrings = 2
  MaxLost = 1
SYMMETRY Symmetric
INVARIANT PassValueReclaimable
