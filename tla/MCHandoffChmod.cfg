\* _write_json may fail after it replaced state.json.
CONSTANTS
  p1 = p1
  f1 = f1
  f2 = f2
  c1 = c1
  c2 = c2
  own = own
  other = other
  None = None
  Proc = {p1}
  Path = {f1, f2}
  Content = {c1, c2}
  Binding = {own, other}
  OwnBinding = own
  MaxReturnFiles = 2
  Faults = {"chmod"}
  MaxEdits = 2
SPECIFICATION Spec
SYMMETRY Symmetry
INVARIANTS VerifiedBinding
