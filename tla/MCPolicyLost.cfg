\* Two registrations at the same time, nothing fails.
CONSTANTS
  p1 = p1
  p2 = p2
  i1 = i1
  i2 = i2
  s1 = s1
  s2 = s2
  None = None
  Proc = {p1, p2}
  Project = {i1, i2}
  Setting = {s1, s2}
  MaxProjects = 2
  Faults = {}
SPECIFICATION Spec
SYMMETRY Symmetry
INVARIANTS RegisteredStays
