\* Three racing calls, one project more than the policy may hold.
CONSTANTS
  p1 = p1
  p2 = p2
  p3 = p3
  i1 = i1
  i2 = i2
  i3 = i3
  s1 = s1
  None = None
  Proc = {p1, p2, p3}
  Project = {i1, i2, i3}
  Setting = {s1}
  MaxProjects = 2
  Faults = {"crash", "write", "chmod"}
SPECIFICATION Spec
SYMMETRY Symmetry
INVARIANTS TypeOK PolicyReadable KeptWhenAlone
