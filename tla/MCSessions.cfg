SPECIFICATION Spec
CONSTANTS
  Names = {n1}
  Tabs = {t1, t2}
  Roles = {"USER", "ADMIN"}
  TokenLife = 1
  CookieLife = 2
  MaxTime = 2
SYMMETRY Symmetry
INVARIANTS TypeOK DeletionBounded LogoutSticks LoginLeadsToDashboard
