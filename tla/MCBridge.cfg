SPECIFICATION Spec
CONSTANTS
  t1 = t1
  t2 = t2
  Transfers = {t1, t2}
  Inputs = {2, 3, 4}
  Whole = 2
  Exact = 4
  Balance = 6
  Escrow = 4
  Validity = 0
  MaxHeight = 1
SYMMETRY Interchangeable
INVARIANTS
  RequestsMatchBurns
  ReleasedIsBurned
PROPERTIES
  LedgerSpec
