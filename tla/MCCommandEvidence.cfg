\* Both systems, every failure; a command that may start another process.
SPECIFICATION FairSpec
CONSTANTS
  leader = leader
  d1 = d1
  Leader = leader
  Desc = {d1}
  Stream = {stdout, stderr}
  MaxWritten = 2
  Platforms = {"posix", "nt"}
  Exempt = {{d1}, {leader}}
  MaxOutput = 1
  Faults = {"popen", "eperm", "taskkill", "kill"}
  Clocks = {"prompt", "slow"}
INVARIANTS TypeOK ResultIsComplete LimitIsReal ConfirmedIsGone
PROPERTIES CallReturns HonestIsReported
CHECK_DEADLOCK FALSE
