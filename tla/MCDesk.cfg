SPECIFICATION Spec
CONSTANTS
  Users = {admin, u1}
  Admin = admin
  Tabs = {t1, t2}
SYMMETRY Symmetry
INVARIANTS BorrowerFromSomeTab OnlyOvertakenBorrowElsewhere
