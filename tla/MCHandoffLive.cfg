\* Every call that takes the lock gives it back, and an honest return is
\* verified (no symmetry: liveness).
CONSTANTS
  p1 = p1
  f1 = f1
  f2 = f2
  c1 = c1
  own = own
  other = other
  None = None
  Proc = {p1}
  Path = {f1, f2}
  Content = {c1}
  Binding = {own, other}
  OwnBinding = own
  MaxReturnFiles = 2
  Faults = {"crash", "chmod", "remove"}
  MaxEdits = 2
SPECIFICATION FairSpec
PROPERTIES LockIsReleased HonestReturnIsVerified
