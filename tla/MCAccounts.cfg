SPECIFICATION Spec
CONSTANTS
  Names = {n1, n2}
  Emails = {e1, e2}
  Passwords = {p1}
  Details = {d1, d2}
  FormRoles = {"ADMIN"}
  Ids = {i1, i2}
  MaxPosts = 3
  Workers = {w1, w2}
  Ops = {"register", "add", "profile", "delete"}
SYMMETRY Symmetry
INVARIANTS SoleAccountCanLogIn TypeOK NoTornProfile NoMixedIdentity SharedNameOnlyFromRace
PROPERTIES DeletedStaysDeleted
