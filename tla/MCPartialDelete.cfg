SPECIFICATION Spec
CONSTANTS
  Books = {b1, b2}
  Users = {u1}
  Workers = {w1}
  Ops = {"delete"}
  Totals = {1}
  InvRows = {"none"}
  MaxList = 2
PROPERTIES ErrorChangesNothing
