SPECIFICATION FairSpec
CONSTANTS
  Books = {b1}
  Users = {u1, u2}
  Workers = {w1, w2}
  Ops = {"borrow", "return", "delete"}
  Totals = {1}
  InvRows = {"none"}
  MaxList = 1
INVARIANTS NoOrphanLoans
PROPERTIES ImplementsRegister RequestAnswered
