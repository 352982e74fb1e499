SPECIFICATION Spec
CONSTANTS
  Users = {admin, u1}
  Admin = admin
  Tabs = {t1}
INVARIANTS BorrowedForPromised
