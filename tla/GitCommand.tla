------------------------------ MODULE GitCommand ------------------------------
(***************************************************************************)
(* _git_command: one git command, run by prepare and add_project under a   *)
(* time limit and an output limit, with a main thread and a reader thread. *)
(* The plugin runs on POSIX only (hermes_integration/bootstrap.py).        *)
(*                                                                         *)
(* BufferedReader.read holds the stream's lock until it returns, and close *)
(* takes that lock: the main thread cannot close a stream that is being    *)
(* read.                                                                   *)
(***************************************************************************)
EXTENDS ChildProcess

CONSTANTS
  MaxOutput,  \* the max_output argument
  Faults      \* the failures that may happen

Out == "stdout"

ASSUME GitAssumption ==
  /\ Stream = {Out}
  /\ MaxOutput \in Nat
  /\ Faults \subseteq {"popen"}

VARIABLES
  pc,         \* control point of the main thread
  reader,     \* control point of the reader thread
  raw,        \* bytes read
  raw_holder, \* the reader has appended what it read
  output_exceeded,
  polled,     \* the threads whose terminate has seen the leader running
  raised,     \* a time limit was exceeded
  expired,    \* ten seconds have passed
  answer

threadVars == <<reader, raw, raw_holder, output_exceeded>>
mainVars == <<raised, answer>>
vars == <<child, pc, threadVars, polled, mainVars, expired>>

Init ==
  /\ ChildInit
  /\ pc = "popen"
  /\ reader = "waiting" /\ raw = 0 /\ raw_holder = FALSE
  /\ output_exceeded = FALSE
  /\ polled = {}
  /\ raised = FALSE
  /\ expired = FALSE
  /\ answer = "unanswered"

Fault(f) == f \in Faults
Goto(label) == pc' = label

-----------------------------------------------------------------------------
(* _terminate_posix_process_group in two steps, for the thread t: poll,    *)
(* and killpg unless the leader had ended.                                 *)
TerminatePoll(t) ==
  /\ Poll
  /\ polled' = IF Ended THEN polled \ {t} ELSE polled \cup {t}
  /\ UNCHANGED <<born, alive, group, holds, written, pipe, code>>

TerminateKill(t) ==
  /\ IF t \in polled THEN Kill(group) ELSE Kill({})
  /\ UNCHANGED <<reaped, polled>>

-----------------------------------------------------------------------------
(* read_bounded: one read of at most max_output + 1 bytes, which returns   *)
(* when it has them all or at the end of the output.                       *)
ReadSize_Limit == MaxOutput
ReadSize_All == MaxWritten
ReadSize == MaxOutput + 1
Exceeds_AtLimit(n) == n >= MaxOutput
Exceeds(n) == n > MaxOutput

ReaderStep == UNCHANGED <<pc, mainVars, expired>>

Reading ==
  /\ reader = "reading"
  /\ \/ /\ raw < ReadSize
        /\ \E n \in 1..(ReadSize - raw) : Read(Out, n) /\ raw' = raw + n
        /\ UNCHANGED <<reader, raw_holder, output_exceeded>>
     \/ /\ raw = ReadSize \/ Eof(Out)
        /\ raw_holder' = TRUE
        /\ output_exceeded' = Exceeds(raw)
        /\ reader' = IF Exceeds(raw) THEN "poll" ELSE "done"
        /\ UNCHANGED <<child, raw>>
  /\ UNCHANGED polled
  /\ ReaderStep

ReaderPoll ==
  /\ reader = "poll"
  /\ TerminatePoll("reader")
  /\ reader' = "kill"
  /\ UNCHANGED <<raw, raw_holder, output_exceeded>>
  /\ ReaderStep

ReaderKill ==
  /\ reader = "kill"
  /\ TerminateKill("reader")
  /\ reader' = "done"
  /\ UNCHANGED <<raw, raw_holder, output_exceeded>>
  /\ ReaderStep

Reader == Reading \/ ReaderPoll \/ ReaderKill

-----------------------------------------------------------------------------
Popen ==
  /\ pc = "popen"
  /\ \/ Spawn /\ reader' = "reading" /\ Goto("wait") /\ UNCHANGED answer
     \/ /\ Fault("popen") /\ Goto("done") /\ answer' = "git_check_failed"
        /\ UNCHANGED <<child, reader>>
  /\ UNCHANGED <<raw, raw_holder, output_exceeded, polled, raised, expired>>

(* process.wait(timeout=10) *)
WaitTimesOut_Never == FALSE
WaitTimesOut == expired
Wait ==
  /\ pc = "wait"
  /\ \/ Ended /\ reaped' = TRUE /\ Goto("join") /\ UNCHANGED raised
     \/ WaitTimesOut /\ Goto("poll") /\ raised' = TRUE /\ UNCHANGED reaped
  /\ UNCHANGED <<born, alive, group, holds, written, pipe, code>>
  /\ UNCHANGED <<threadVars, polled, answer, expired>>

(* terminate(): after a time limit, and again in the finally block.        *)
MainPoll ==
  /\ pc \in {"poll", "joinpoll", "finalpoll"}
  /\ TerminatePoll("main")
  /\ Goto(CASE pc = "poll" -> "kill" [] pc = "joinpoll" -> "joinkill"
            [] OTHER -> "finalkill")
  /\ UNCHANGED <<threadVars, mainVars, expired>>

MainKill ==
  /\ pc \in {"kill", "joinkill", "finalkill"}
  /\ TerminateKill("main")
  /\ Goto(CASE pc = "kill" -> "reap" [] pc = "joinkill" -> "finalpoll"
            [] OTHER -> "close")
  /\ UNCHANGED <<threadVars, mainVars, expired>>

(* process.wait(timeout=5); what it raises leads to the same answer. *)
Reap ==
  /\ pc = "reap"
  /\ Poll
  /\ Goto("finalpoll")
  /\ UNCHANGED <<born, alive, group, holds, written, pipe, code>>
  /\ UNCHANGED <<threadVars, polled, mainVars, expired>>

(* reader.join(timeout=5) *)
Join ==
  /\ pc = "join"
  /\ \/ reader = "done" /\ Goto("finalpoll") /\ UNCHANGED raised
     \/ /\ reader # "done"
        /\ Goto("joinpoll") /\ raised' = TRUE
  /\ UNCHANGED <<child, threadVars, polled, answer, expired>>

(* process.stdout.close() *)
CanClose == reader # "reading"

Verdict ==
  CASE raised -> "git_check_failed"
    [] ~raised /\ output_exceeded -> "too_large"
    [] ~raised /\ ~output_exceeded /\ (code # "zero" \/ ~raw_holder) -> "git_check_failed"
    [] OTHER -> "result"

CloseAndReturn ==
  /\ pc = "close"
  /\ CanClose
  /\ answer' = Verdict
  /\ Goto("done")
  /\ UNCHANGED <<child, threadVars, polled, raised, expired>>

MainStep == Popen \/ Wait \/ MainPoll \/ MainKill \/ Reap \/ Join \/ CloseAndReturn

Tick ==
  /\ pc = "wait" /\ ~expired
  /\ expired' = TRUE
  /\ UNCHANGED <<child, pc, threadVars, polled, mainVars>>

Git ==
  /\ ChildStep
  /\ UNCHANGED <<pc, threadVars, polled, mainVars, expired>>

Next == MainStep \/ Reader \/ Tick \/ Git

(* Both threads run and time passes; nothing is assumed of git. *)
Fairness == WF_vars(MainStep) /\ WF_vars(Reader) /\ WF_vars(Tick)

Spec == Init /\ [][Next]_vars
FairSpec == Spec /\ Fairness

-----------------------------------------------------------------------------
(* Type invariant; never more than max_output + 1 bytes are held. *)
TypeOK ==
  /\ ChildType
  /\ pc \in {"popen", "wait", "poll", "kill", "reap", "join", "joinpoll",
             "joinkill", "finalpoll", "finalkill", "close", "done"}
  /\ reader \in {"waiting", "reading", "poll", "kill", "done"}
  /\ raw \in 0..(MaxOutput + 1)
  /\ raw_holder \in BOOLEAN /\ output_exceeded \in BOOLEAN
  /\ polled \subseteq {"main", "reader"}
  /\ raised \in BOOLEAN /\ expired \in BOOLEAN
  /\ answer \in {"unanswered", "git_check_failed", "too_large", "result"}

(* A result is the whole output of a git that ended with code zero, of at  *)
(* most max_output bytes: prepare compares it byte for byte with a commit, *)
(* so a truncated answer would be taken for the project's state.           *)
ResultIsComplete ==
  answer = "result" =>
    /\ code = "zero" /\ Eof(Out)
    /\ raw = written[Out] /\ raw <= MaxOutput

(* A result is refused as too large only if it is. *)
LargeIsLarge ==
  answer = "too_large" => written[Out] > MaxOutput

(* A git that ends with code zero in time, leaves nobody behind and wrote  *)
(* at most max_output bytes is believed, unless the reader's five seconds  *)
(* pass.                                                                   *)
HonestGit ==
  /\ pc = "wait" /\ ~expired /\ alive = {} /\ code = "zero"
  /\ written[Out] <= MaxOutput
HonestIsAnswered == HonestGit ~> answer = "result" \/ raised

(* The call returns, whatever git does and whichever time limit passes, if *)
(* no process git started keeps the output open for ever.                  *)
CallReturns == <>[](holds[Out] \subseteq {Leader}) => <>(pc = "done")
=============================================================================
