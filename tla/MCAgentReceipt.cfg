\* Any order of the commands beside a worker that changes two files, with
\* failing and dying saves, or alters a control file.
SPECIFICATION Spec
CONSTANTS
  root = root
  d = d
  f1 = f1
  f2 = f2
  out = out
  stray = stray
  Path = {f1, f2, out, stray}
  Dir = {root, d}
  Root = root
  Parent <- MCParent
  Control = {out}
  Content = {"c1", "c2"}
  Absent = Absent
  MaxEdits = 2
  Start <- MCStart
  MaxFiles = 2
  Items = 4
  Kind <- MCKind
  Of <- MCOf
  Expect <- MCExpect
  Matching = {"c1"}
  MustBeFile = {1}
  Absolute = {4}
  None = None
  Context <- Manifest
  Output = out
  Stray = stray
  Modes <- MCModes
  Faults = {"write", "fsync", "crash"}
  Again = FALSE
INVARIANTS TypeOK DirectoryIsSnapshot ManifestWasTree AcceptedIsRerun
  AcceptedWasGood AcceptedReturn HonestIsAccepted
CHECK_DEADLOCK FALSE
