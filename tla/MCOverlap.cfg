SPECIFICATION Spec
CONSTANTS
  Books = {b1}
  Users = {u1, u2}
  Workers = {w1, w2}
  Ops = {"borrow", "return"}
  Totals <- OddTotals
  InvRows = {"none", "BORROWED"}
  MaxList = 2
SYMMETRY Symmetry
INVARIANTS TypeOK DriftOnlyFromOverwrite AvailInRange
PROPERTIES BorrowOkMeansLent 
