\* Every interleaving of git, two processes it may start, both threads and
\* the time limits.
SPECIFICATION FairSpec
CONSTANTS
  git = git
  d1 = d1
  d2 = d2
  Leader = git
  Desc = {d1, d2}
  Stream = {"stdout"}
  MaxWritten = 3
  MaxOutput = 1
  Faults = {"popen"}
INVARIANTS TypeOK ResultIsComplete
PROPERTIES CallReturns HonestIsAnswered
CHECK_DEADLOCK FALSE
