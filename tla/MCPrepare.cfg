\* One call against an editor who changes files, commits and moves HEAD;
\* f2 has a denied name, git status is silent about f3.
CONSTANTS
  p1 = p1
  c1 = c1
  bad = bad
  f1 = f1
  f2 = f2
  f3 = f3
  dir = dir
  dirSlash = dirSlash
  file = file
  Proc = {p1}
  File = {f1, f2, f3}
  Content = {c1, bad}
  Include = {dir, file}
  Covers <- MCCovers
  Directory = {dir}
  Plain = {dir, file}
  DeniedFile = {f2}
  Unsafe = {bad}
  Unreported = {f3}
  MaxHandoffs = 1
  MaxEdits = 3
  Faults = {"crash", "write", "git", "harden", "list", "chmod", "rmtree"}
SPECIFICATION FairSpec
INVARIANTS PacketAtCommit PacketIsSafe CompleteWhenCalm
  FailureLeavesNothing
PROPERTIES ImplementsStore HonestPrepares
