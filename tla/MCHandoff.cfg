\* Two processes, every interleaving with a worker that keeps writing,
\* deaths at every step, failing writes and failing removals.
CONSTANTS
  p1 = p1
  p2 = p2
  f1 = f1
  f2 = f2
  c1 = c1
  c2 = c2
  own = own
  other = other
  None = None
  Proc = {p1, p2}
  Path = {f1, f2}
  Content = {c1, c2}
  Binding = {own, other}
  OwnBinding = own
  MaxReturnFiles = 2
  Faults = {"crash", "write", "remove"}
  MaxEdits = 2
SPECIFICATION Spec
SYMMETRY Symmetry
INVARIANTS TypeOK VerifiedBinding PublishedIsComplete
  FailureLeavesNothing StateReadable ReportsHold
PROPERTIES ApprovalIsFresh ImplementsLifecycle
