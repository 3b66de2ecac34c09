\* A clean project nobody edits; every include a caller may write.
CONSTANTS
  p1 = p1
  c1 = c1
  f1 = f1
  f2 = f2
  f3 = f3
  dir = dir
  dirSlash = dirSlash
  file = file
  Proc = {p1}
  File = {f1, f2, f3}
  Content = {c1}
  Include = {dir, dirSlash, file}
  Covers <- MCCovers
  Directory = {dir, dirSlash}
  Plain = {dir, file}
  DeniedFile = {}
  Unsafe = {}
  Unreported = {}
  MaxHandoffs = 1
  MaxEdits = 0
  Faults = {}
SPECIFICATION Spec
INVARIANTS PreparedIsReviewable
