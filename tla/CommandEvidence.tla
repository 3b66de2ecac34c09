--------------------------- MODULE CommandEvidence ---------------------------
(***************************************************************************)
(* evidence_command: one command run under a time limit and an output      *)
(* limit by a main thread and one reader thread for each stream, with the  *)
(* cleanup of its processes on POSIX and on Windows.                       *)
(*                                                                         *)
(* The readers, the command and the clock move between any two steps of    *)
(* the main thread.  Whether the output contains stdout_contains and the   *)
(* exit code is the expected one is a comparison after the fact and left   *)
(* out: an answer without error carries the exit code and the output.      *)
(***************************************************************************)
EXTENDS ChildProcess

CONSTANTS
  Platforms,  \* the values of os.name: "posix", "nt"
  Exempt,     \* which processes the caller may not signal on POSIX,
              \* such as a set-user-id program: the possible sets
  MaxOutput,  \* MAX_COMMAND_OUTPUT
  Clocks,     \* "slow": time limits overtake threads that could run
  Faults      \* the failures that may happen

ASSUME EvidenceAssumption ==
  /\ Platforms \subseteq {"posix", "nt"}
  /\ Exempt \subseteq SUBSET Process
  /\ MaxOutput \in Nat
  /\ Clocks \subseteq {"prompt", "slow"}
  /\ Faults \subseteq {"popen", "eperm", "taskkill", "kill"}

VARIABLES
  host,         \* the system it all runs on, and the processes
                \* that are exempt from the caller's signals there
  pc,           \* control point of the main thread
  buffers,      \* bytes kept of each stream
  drained,      \* the reader threads that have ended
  output_limit_hit, cleanup_confirmed, cleanup_unconfirmed,
  outlived_parent,
  timed_out,    \* the handler of TimeoutExpired runs
  expired,      \* command_deadline has passed
  answer        \* the evidence

flags == <<cleanup_confirmed, cleanup_unconfirmed>>
readerVars == <<buffers, drained, output_limit_hit>>
mainVars == <<outlived_parent, timed_out, answer>>
vars == <<child, host, pc, readerVars, flags, mainVars, expired>>

NoAnswer == [error |-> "unanswered", exit |-> "none"]

Hosts == [os : Platforms, clock : Clocks, exempt : Exempt \cup {{}}]

Init ==
  /\ ChildInit
  /\ host \in Hosts
  /\ host.os = "nt" => host.exempt = {}
  /\ pc = "popen"
  /\ buffers = [s \in Stream |-> 0]
  /\ drained = {}
  /\ output_limit_hit = FALSE
  /\ cleanup_confirmed = FALSE /\ cleanup_unconfirmed = FALSE
  /\ outlived_parent = FALSE /\ timed_out = FALSE
  /\ expired = FALSE
  /\ answer = NoAnswer

Fault(f) == f \in Faults
Slow == host.clock = "slow"

-----------------------------------------------------------------------------
(* drain: read1 returns between one byte and remaining + 1. *)
Remaining(s) == MaxOutput - buffers[s]
Overrun_AtLimit(n, remaining) == n >= remaining
Overrun(n, remaining) == n > remaining
Kept_Chunk(n, remaining) == n
Kept(n, remaining) == IF n > remaining THEN remaining ELSE n

Drain(s) ==
  /\ pc # "popen" /\ s \notin drained
  /\ \/ \E n \in 1..(Remaining(s) + 1) :
          /\ Read(s, n)
          /\ buffers' = [buffers EXCEPT ![s] = @ + Kept(n, Remaining(s))]
          /\ IF Overrun(n, Remaining(s))
               THEN output_limit_hit' = TRUE /\ drained' = drained \cup {s}
               ELSE UNCHANGED <<output_limit_hit, drained>>
     \/ /\ Eof(s)
        /\ drained' = drained \cup {s}
        /\ UNCHANGED <<child, buffers, output_limit_hit>>
  /\ UNCHANGED <<host, pc, flags, mainVars, expired>>

Closed == drained = Stream
Blocked(s) == pipe[s] = 0 /\ holds[s] # {}

-----------------------------------------------------------------------------
(* _terminate_process; ok is what it returns.                              *)

(* killpg kills the members that may be signalled.  It succeeds when there *)
(* is one, be it only the dead leader (some systems refuse that one with   *)
(* EPERM), and raises when there is none; a leader that still runs then is *)
(* exempt, and proc.kill fails as well.                                    *)
Reach == (alive \cap group) \ host.exempt
Signals == Reach # {} \/ (Ended /\ ~reaped /\ Leader \notin host.exempt)

TerminatePosix(observed, ok) ==
  \/ /\ Signals
     /\ Kill(Reach) /\ UNCHANGED reaped
     /\ ok = TRUE
  \/ /\ ~Signals \/ (alive \cap group = {} /\ Fault("eperm"))
     /\ Kill({}) /\ Poll
     /\ ok = (~observed /\ Ended)

TerminateWindows(ok) ==
  \/ /\ Leader \in alive
     /\ Kill(group) /\ UNCHANGED reaped
     /\ ok = TRUE
  \/ /\ Ended \/ Fault("taskkill")
     /\ \E S \in SUBSET group :
          \/ Kill(S \cup {Leader})
          \/ Kill(S) /\ (Ended \/ Leader \in S \/ Fault("kill"))
     /\ Poll
     /\ ok = FALSE

Terminate(observed, ok) ==
  IF host.os = "posix" THEN TerminatePosix(observed, ok)
                        ELSE TerminateWindows(ok)

(* attempt_cleanup *)
Record_Success(ok) == cleanup_confirmed' = TRUE /\ cleanup_unconfirmed' = FALSE
Record(ok) ==
  /\ cleanup_confirmed' = (ok \/ cleanup_confirmed)
  /\ cleanup_unconfirmed' = IF ok THEN FALSE
                            ELSE cleanup_unconfirmed \/ ~cleanup_confirmed

AttemptCleanup(observed) ==
  \E ok \in BOOLEAN : Terminate(observed, ok) /\ Record(ok)

Unconfirm == cleanup_confirmed' = FALSE /\ cleanup_unconfirmed' = TRUE

-----------------------------------------------------------------------------
Goto(label) == pc' = label
Main == UNCHANGED <<host, readerVars, expired>>

Answer(error) ==
  /\ answer' = [error |-> error,
                exit |-> IF error = "none" THEN code ELSE "none"]
  /\ Goto("done")

Popen ==
  /\ pc = "popen"
  /\ \/ Spawn /\ Goto("loop") /\ UNCHANGED answer
     \/ Fault("popen") /\ Answer("OSError") /\ UNCHANGED child
  /\ UNCHANGED <<flags, outlived_parent, timed_out>>
  /\ Main

CheckLimits ==
  /\ pc = "loop"
  /\ timed_out' = (~output_limit_hit /\ expired)
  /\ Goto(IF output_limit_hit \/ expired THEN "overrun" ELSE "wait")
  /\ UNCHANGED <<child, flags, outlived_parent, answer>>
  /\ Main

Wait ==
  /\ pc = "wait"
  /\ Poll
  /\ Goto(IF Ended THEN "exited" ELSE "loop")
  /\ UNCHANGED <<born, alive, group, holds, written, pipe, code>>
  /\ UNCHANGED <<flags, mainVars>>
  /\ Main

Exited ==
  /\ pc = "exited"
  /\ IF output_limit_hit THEN AttemptCleanup(FALSE) ELSE UNCHANGED <<child, flags>>
  /\ Goto("join")
  /\ UNCHANGED mainVars
  /\ Main

(* Either limit is exceeded: terminate, then wait five seconds. *)
Overrunning ==
  /\ pc = "overrun"
  /\ AttemptCleanup(FALSE)
  /\ Goto("reap")
  /\ UNCHANGED mainVars
  /\ Main

Reap ==
  /\ pc = "reap"
  /\ \/ Ended /\ Kill({}) /\ UNCHANGED flags
     \/ ~Ended /\ Unconfirm /\ Kill({Leader} \ host.exempt)
     \/ ~Ended /\ Unconfirm /\ Fault("kill") /\ Kill({})
  /\ Poll
  /\ Goto("join")
  /\ UNCHANGED mainVars
  /\ Main

(* _join_reader_threads gives up after COMMAND_READER_JOIN_TIMEOUT. *)
JoinTimesOut_Never == FALSE
JoinTimesOut ==
  ~Closed /\ (Slow \/ \A s \in Stream \ drained : Blocked(s))

Join_Unchecked ==
  /\ pc = "join"
  /\ Closed \/ JoinTimesOut
  /\ Goto("settle")
  /\ UNCHANGED <<child, flags, mainVars>>
  /\ Main
Join ==
  /\ pc = "join"
  /\ \/ Closed /\ Goto("settle") /\ UNCHANGED outlived_parent
     \/ JoinTimesOut /\ Goto("sweep") /\ outlived_parent' = TRUE
  /\ UNCHANGED <<child, flags, timed_out, answer>>
  /\ Main

Sweep ==
  /\ pc = "sweep"
  /\ AttemptCleanup(TRUE)
  /\ Goto("rejoin")
  /\ UNCHANGED mainVars
  /\ Main

JoinAgain ==
  /\ pc = "rejoin"
  /\ \/ Closed /\ UNCHANGED flags
     \/ JoinTimesOut /\ Unconfirm
  /\ Goto("settle")
  /\ UNCHANGED <<child, mainVars>>
  /\ Main

(* The limit may have been hit after the last look at it. *)
Settle ==
  /\ pc = "settle"
  /\ IF ~timed_out /\ output_limit_hit /\ ~cleanup_confirmed /\ ~cleanup_unconfirmed
       THEN AttemptCleanup(FALSE)
       ELSE UNCHANGED <<child, flags>>
  /\ Goto("answer")
  /\ UNCHANGED mainVars
  /\ Main

Verdict ==
  CASE timed_out ->
         IF cleanup_unconfirmed THEN "TimeoutExpiredProcessTreeCleanupUnconfirmed"
                                ELSE "TimeoutExpired"
    [] ~timed_out /\ output_limit_hit ->
         IF cleanup_unconfirmed THEN "OutputLimitExceededProcessTreeCleanupUnconfirmed"
                                ELSE "OutputLimitExceeded"
    [] ~timed_out /\ ~output_limit_hit /\ outlived_parent ->
         IF cleanup_unconfirmed THEN "ProcessTreeCleanupUnconfirmed"
                                ELSE "ProcessTreeOutlivedParent"
    [] OTHER -> "none"

Return ==
  /\ pc = "answer"
  /\ Answer(Verdict)
  /\ UNCHANGED <<child, flags, outlived_parent, timed_out>>
  /\ Main

MainStep == Popen \/ CheckLimits \/ Wait \/ Exited \/ Overrunning \/ Reap \/ Join
              \/ Sweep \/ JoinAgain \/ Settle \/ Return

(* The deadline passes; with a clock that does not overtake anybody, only  *)
(* while the command still runs.                                           *)
Tick ==
  /\ pc # "popen" /\ ~expired
  /\ Slow \/ ~Ended
  /\ expired' = TRUE
  /\ UNCHANGED <<child, host, pc, readerVars, flags, mainVars>>

Command ==
  /\ ChildStep
  /\ UNCHANGED <<host, pc, readerVars, flags, mainVars, expired>>

Next == MainStep \/ (\E s \in Stream : Drain(s)) \/ Tick \/ Command

(* The main thread runs and time passes.  Nothing is assumed of the        *)
(* command, and of the readers only where their result is asked for.       *)
Fairness == WF_vars(MainStep) /\ WF_vars(Tick)
ReaderFairness == \A s \in Stream : WF_vars(Drain(s))

Spec == Init /\ [][Next]_vars
FairSpec == Spec /\ Fairness

-----------------------------------------------------------------------------
Confirmed == {"TimeoutExpired", "OutputLimitExceeded", "ProcessTreeOutlivedParent"}
Unconfirmed == {"TimeoutExpiredProcessTreeCleanupUnconfirmed",
                "OutputLimitExceededProcessTreeCleanupUnconfirmed",
                "ProcessTreeCleanupUnconfirmed"}

(* Type invariant; no stream's buffer exceeds MAX_COMMAND_OUTPUT. *)
TypeOK ==
  /\ ChildType
  /\ host \in Hosts
  /\ pc \in {"popen", "loop", "wait", "exited", "overrun", "reap", "join",
             "sweep", "rejoin", "settle", "answer", "done"}
  /\ buffers \in [Stream -> 0..MaxOutput]
  /\ drained \subseteq Stream
  /\ output_limit_hit \in BOOLEAN
  /\ cleanup_confirmed \in BOOLEAN /\ cleanup_unconfirmed \in BOOLEAN
  /\ outlived_parent \in BOOLEAN /\ timed_out \in BOOLEAN /\ expired \in BOOLEAN
  /\ answer \in [error : Confirmed \cup Unconfirmed \cup {"unanswered", "none", "OSError"},
                 exit : {"none", "zero", "nonzero", "killed"}]

(* Evidence without an error is of everything the command and every        *)
(* process that shared its output ever wrote, and of how the command       *)
(* itself ended: nobody is left who could write more (README.md: open      *)
(* readers fail the command instead of reporting success).                 *)
ResultIsComplete ==
  answer.error = "none" =>
    /\ Ended /\ answer.exit = code
    /\ \A s \in Stream : Eof(s) /\ buffers[s] = written[s]

(* The output limit is only ever blamed on a stream that really exceeded   *)
(* it: a stream of exactly MAX_COMMAND_OUTPUT bytes is within the limit.   *)
LimitIsReal ==
  answer.error \in {"OutputLimitExceeded",
                    "OutputLimitExceededProcessTreeCleanupUnconfirmed"} =>
    \E s \in Stream : written[s] > MaxOutput

(* An error that does not say that the cleanup is unconfirmed means that   *)
(* no process of the command's group (POSIX) or tree (Windows) is left, in *)
(* whatever order things exit, are killed or fail (README.md, Command      *)
(* evidence).  The caller must be allowed to signal every process that was *)
(* started: killpg answers success when it reached one member of several,  *)
(* and a refusal counts as success once the command itself has ended.      *)
ConfirmedIsGone ==
  answer.error \in Confirmed /\ born \cap host.exempt = {} => alive \cap group = {}

(* Whatever the command, its descendants and the readers do or refuse to   *)
(* do, the call returns: each of its waits has a time limit.               *)
CallReturns == Slow ~> pc = "done"

(* When a command and all its descendants are gone before the deadline and *)
(* kept within the limit, its result is reported, not an error; this needs *)
(* readers that run, and that no time limit overtakes.                     *)
HonestCommand ==
  /\ pc \in {"loop", "wait"} /\ ~expired /\ ~Slow
  /\ alive = {}
  /\ \A s \in Stream : written[s] <= MaxOutput
HonestIsReported ==
  ReaderFairness => (HonestCommand ~> answer.error = "none")
=============================================================================
