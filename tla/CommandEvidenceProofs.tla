------------------------ MODULE CommandEvidenceProofs ------------------------
(***************************************************************************)
(* What an answer of evidence_command means, for any number of processes,  *)
(* streams and bytes, on both platforms, whatever fails.                   *)
(***************************************************************************)
EXTENDS CommandEvidence, ChildProcessProofs

-----------------------------------------------------------------------------
(* The inductive invariant. *)

(* A reader that runs has kept all it read; one that ended without hitting *)
(* the limit has seen the end of its stream.                               *)
ReadInv ==
  /\ \A s \in Stream \ drained : buffers[s] + pipe[s] = written[s]
  /\ \A s \in drained : (Eof(s) /\ buffers[s] = written[s]) \/ output_limit_hit
  /\ output_limit_hit => \E s \in Stream : written[s] > MaxOutput

Flagged == cleanup_confirmed \/ cleanup_unconfirmed

ControlInv ==
  /\ pc = "popen" =>
       born = {} /\ drained = {} /\ ~output_limit_hit /\ ~cleanup_confirmed
  /\ pc # "done" => answer = NoAnswer
  /\ pc \in {"popen", "loop", "wait", "exited"} => ~timed_out
  /\ pc \in {"overrun", "reap"} => timed_out \/ output_limit_hit
  /\ pc \in {"exited", "join", "sweep", "rejoin", "settle", "answer"} =>
       timed_out \/ output_limit_hit \/ Ended
  /\ outlived_parent => pc \in {"sweep", "rejoin", "settle", "answer", "done"}
  /\ pc \in {"sweep", "rejoin"} => outlived_parent
  /\ pc \in {"settle", "answer"} => outlived_parent \/ Closed
  /\ pc \in {"reap", "join", "sweep", "rejoin", "settle", "answer"} /\ timed_out =>
       Flagged
  /\ pc \in {"rejoin", "settle", "answer"} /\ outlived_parent => Flagged
  /\ pc = "answer" /\ output_limit_hit => Flagged

(* The caller may signal everybody who was started. *)
AllHeed == born \cap host.exempt = {}

GoneInv == cleanup_confirmed /\ AllHeed => Gone

Answers == ResultIsComplete /\ LimitIsReal /\ ConfirmedIsGone

IInv == TypeOK /\ ReadInv /\ ControlInv /\ GoneInv /\ Answers

-----------------------------------------------------------------------------
LEMMA InitInv == Init => IInv
  <1> SUFFICES ASSUME Init PROVE IInv
    OBVIOUS
  <1>1. TypeOK
    <2>1. ChildType
      <3>1. holds \in [Stream -> SUBSET alive]
        BY DEF Init, ChildInit
      <3>2. written \in [Stream -> 0..MaxWritten] /\ pipe \in [Stream -> 0..MaxWritten]
            /\ \A s \in Stream : pipe[s] <= written[s]
        BY ChildAssumption DEF Init, ChildInit
      <3> QED
        BY <3>1, <3>2 DEF Init, ChildInit, ChildType
    <2>2. answer \in [error : Confirmed \cup Unconfirmed \cup {"unanswered", "none", "OSError"},
                      exit : {"none", "zero", "nonzero", "killed"}]
      BY DEF Init, NoAnswer
    <2>3. buffers \in [Stream -> 0..MaxOutput]
      BY EvidenceAssumption DEF Init
    <2> QED
      BY <2>1, <2>2, <2>3 DEF Init, TypeOK
  <1>2. ReadInv
    BY DEF Init, ReadInv, ChildInit
  <1>3. ControlInv
    BY DEF Init, ControlInv, ChildInit
  <1>4. GoneInv /\ Answers
    BY DEF Init, GoneInv, Answers, ResultIsComplete, LimitIsReal, ConfirmedIsGone,
           NoAnswer, Confirmed
  <1> QED
    BY <1>1, <1>2, <1>3, <1>4 DEF IInv

(* Steps that read nothing and answer nothing. *)
LEMMA ReadInvLasts ==
  ASSUME IInv, ChildType', Lasting, Unread, UNCHANGED readerVars
  PROVE  ReadInv'
  <1> USE DEF IInv, readerVars
  <1>1. \A s \in Stream \ drained : buffers[s] + pipe'[s] = written'[s]
    BY DEF TypeOK, ChildType, ReadInv, Unread
  <1>2. \A s \in drained : (Eof(s)' /\ buffers[s] = written'[s]) \/ output_limit_hit
    BY DEF TypeOK, ReadInv, Lasting
  <1>3. output_limit_hit => \E s \in Stream : written'[s] > MaxOutput
    <2> SUFFICES ASSUME output_limit_hit
                 PROVE  \E s \in Stream : written'[s] > MaxOutput
      OBVIOUS
    <2>1. PICK s \in Stream : written[s] > MaxOutput
      BY DEF ReadInv
    <2>2. written'[s] >= written[s] /\ written'[s] \in Int /\ written[s] \in Int
      BY DEF Lasting, TypeOK, ChildType
    <2> QED
      BY <2>1, <2>2, EvidenceAssumption
  <1> QED
    BY <1>1, <1>2, <1>3 DEF ReadInv

LEMMA AnswersLast ==
  ASSUME IInv, ChildType', Lasting, UNCHANGED <<answer, buffers, host>>
  PROVE  Answers'
  <1> USE DEF IInv, Answers
  <1>1. ResultIsComplete'
    BY DEF ResultIsComplete, Lasting, Ended
  <1>2. LimitIsReal'
    <2> SUFFICES ASSUME answer.error \in {"OutputLimitExceeded",
                          "OutputLimitExceededProcessTreeCleanupUnconfirmed"}
                 PROVE  \E s \in Stream : written'[s] > MaxOutput
      BY DEF LimitIsReal
    <2>1. PICK s \in Stream : written[s] > MaxOutput
      BY DEF LimitIsReal
    <2>2. written'[s] >= written[s] /\ written'[s] \in Int /\ written[s] \in Int
      BY DEF Lasting, TypeOK, ChildType
    <2> QED
      BY <2>1, <2>2, EvidenceAssumption
  <1>3. ConfirmedIsGone'
    BY DEF ConfirmedIsGone, Lasting, Gone, AllHeed
  <1> QED
    BY <1>1, <1>2, <1>3

(* One attempt at a cleanup: a success means that the group is gone if all *)
(* heed the signal, and either way one of the two flags is set.            *)
LEMMA TerminateFacts ==
  ASSUME TypeOK, NEW observed \in BOOLEAN, NEW ok \in BOOLEAN, Terminate(observed, ok)
  PROVE  ChildType' /\ Lasting /\ Unread /\ (ok /\ AllHeed => Gone')
  <1>1. CASE host.os = "posix"
    <2>1. AllHeed => Reach = alive \cap group
      BY DEF AllHeed, Reach, TypeOK, ChildType
    <2>2. CASE Kill(Reach) /\ UNCHANGED reaped
      BY <2>1, <2>2, KillLasts DEF TypeOK
    <2>3. CASE Kill({}) /\ Poll /\ alive \cap group = {}
      BY <2>3, KillLasts DEF TypeOK, Lasting, Gone
    <2>4. CASE Kill({}) /\ Poll /\ ~Signals
      BY <2>1, <2>4, KillLasts DEF TypeOK, Signals
    <2> QED
      BY <1>1, <2>2, <2>3, <2>4 DEF Terminate, TerminatePosix
  <1>2. CASE host.os # "posix"
    <2>1. CASE Kill(group) /\ UNCHANGED reaped
      BY <2>1, KillLasts DEF TypeOK
    <2>2. CASE (\E S \in SUBSET group : Kill(S \cup {Leader}) \/ Kill(S)) /\ Poll /\ ~ok
      BY <2>2, KillLasts DEF TypeOK
    <2>3. TerminateWindows(ok)
      BY <1>2 DEF Terminate
    <2> QED
      BY <2>1, <2>2, <2>3 DEF TerminateWindows
  <1> QED
    BY <1>1, <1>2

LEMMA CleanupFacts ==
  ASSUME IInv, NEW observed \in BOOLEAN, AttemptCleanup(observed), UNCHANGED host
  PROVE  /\ ChildType' /\ Lasting /\ Unread /\ GoneInv' /\ Flagged'
         /\ cleanup_confirmed' \in BOOLEAN /\ cleanup_unconfirmed' \in BOOLEAN
  <1>1. PICK ok \in BOOLEAN : Terminate(observed, ok) /\ Record(ok)
    BY DEF AttemptCleanup
  <1>2. ChildType' /\ Lasting /\ Unread /\ (ok /\ AllHeed => Gone')
    BY <1>1, TerminateFacts DEF IInv
  <1>3. cleanup_confirmed' \in BOOLEAN /\ cleanup_unconfirmed' \in BOOLEAN /\ Flagged'
    BY <1>1 DEF Record, Flagged, IInv, TypeOK
  <1>4. GoneInv'
    BY <1>1, <1>2 DEF Record, IInv, GoneInv, Lasting, AllHeed
  <1> QED
    BY <1>2, <1>3, <1>4

(* A step of the main thread that does not answer is correct when its      *)
(* place in the program and its flags are.                                 *)
LEMMA MainStepLasts ==
  ASSUME IInv, ChildType', Lasting, Unread, Main, UNCHANGED answer,
         TypeOK', ControlInv', GoneInv'
  PROVE  IInv'
  <1>1. ReadInv'
    BY ReadInvLasts DEF Main
  <1>2. Answers'
    BY AnswersLast DEF Main, readerVars
  <1> QED
    BY <1>1, <1>2 DEF IInv

-----------------------------------------------------------------------------
LEMMA PopenStep == ASSUME IInv, Popen PROVE IInv'
  <1> USE DEF IInv
  <1>1. born = {} /\ alive = {} /\ code = "none" /\ ~reaped
    BY DEF Popen, ControlInv, TypeOK, ChildType
  <1>2. CASE Spawn /\ Goto("loop") /\ UNCHANGED answer
    <2>1. ChildType'
      BY <1>1, <1>2 DEF Spawn, TypeOK, ChildType, Process
    <2>2. \A s \in Stream : written'[s] = written[s] /\ pipe'[s] = pipe[s]
      BY <1>2 DEF Spawn
    <2>3. TypeOK'
      BY <1>2, <2>1 DEF TypeOK, Popen, Goto, Main, flags, readerVars
    <2>4. ReadInv'
      BY <1>2, <2>2 DEF Popen, Main, readerVars, ReadInv, ControlInv
    <2>5. ControlInv'
      BY <1>2 DEF Popen, Goto, Main, flags, readerVars, ControlInv, Flagged
    <2>6. GoneInv'
      BY DEF Popen, flags, ControlInv, GoneInv
    <2>7. Answers'
      BY <1>2 DEF Popen, ControlInv, Answers, ResultIsComplete, LimitIsReal,
                  ConfirmedIsGone, NoAnswer, Confirmed
    <2> QED
      BY <2>3, <2>4, <2>5, <2>6, <2>7
  <1>3. CASE Answer("OSError") /\ UNCHANGED child
    <2>1. ChildType' /\ Lasting /\ Unread
      BY <1>3, StutterLasts DEF TypeOK
    <2>2. TypeOK'
      BY <1>3, <2>1 DEF TypeOK, Popen, Answer, Goto, Main, flags, readerVars
    <2>3. ReadInv'
      BY <2>1, ReadInvLasts DEF Popen, Main
    <2>4. ControlInv'
      BY <1>3 DEF Popen, Answer, Goto, Main, flags, readerVars, ControlInv
    <2>5. GoneInv'
      BY <2>1 DEF Popen, flags, GoneInv, Lasting, AllHeed, Main
    <2>6. Answers'
      BY <1>3 DEF Answer, Answers, ResultIsComplete, LimitIsReal, ConfirmedIsGone, Confirmed
    <2> QED
      BY <2>2, <2>3, <2>4, <2>5, <2>6
  <1> QED
    BY <1>2, <1>3 DEF Popen

LEMMA CheckLimitsStep == ASSUME IInv, CheckLimits PROVE IInv'
  <1> USE DEF IInv
  <1>1. ChildType' /\ Lasting /\ Unread
    BY StutterLasts DEF TypeOK, CheckLimits
  <1>2. TypeOK'
    BY <1>1 DEF TypeOK, CheckLimits, Goto, Main, flags, readerVars
  <1>3. ControlInv'
    BY DEF TypeOK, CheckLimits, Goto, Main, flags, readerVars, ControlInv, Flagged
  <1>4. GoneInv'
    BY <1>1 DEF CheckLimits, flags, GoneInv, Lasting, AllHeed, Main
  <1> QED
    BY <1>1, <1>2, <1>3, <1>4, MainStepLasts DEF CheckLimits

LEMMA WaitStep == ASSUME IInv, Wait PROVE IInv'
  <1> USE DEF IInv
  <1>1. ChildType' /\ Lasting /\ Unread
    BY PollLasts DEF TypeOK, Wait
  <1>2. TypeOK'
    BY <1>1 DEF TypeOK, Wait, Goto, Main, flags, readerVars, mainVars
  <1>3. ControlInv'
    BY DEF Wait, Goto, Main, flags, readerVars, mainVars, ControlInv, Flagged, Ended
  <1>4. GoneInv'
    BY <1>1 DEF Wait, flags, GoneInv, Lasting, AllHeed, Main
  <1> QED
    BY <1>1, <1>2, <1>3, <1>4, MainStepLasts DEF Wait, mainVars

(* Exited, Overrunning, Sweep, Settle: a cleanup or nothing. *)
LEMMA CleanupOrNothing ==
  ASSUME IInv, NEW observed \in BOOLEAN, UNCHANGED host,
         AttemptCleanup(observed) \/ UNCHANGED <<child, flags>>
  PROVE  /\ ChildType' /\ Lasting /\ Unread /\ GoneInv'
         /\ cleanup_confirmed' \in BOOLEAN /\ cleanup_unconfirmed' \in BOOLEAN
         /\ Flagged => Flagged'
         /\ Ended => Ended'
  <1>1. CASE AttemptCleanup(observed)
    BY <1>1, CleanupFacts DEF Lasting, Ended
  <1>2. CASE UNCHANGED <<child, flags>>
    <2>1. ChildType' /\ Lasting /\ Unread
      BY <1>2, StutterLasts DEF IInv, TypeOK
    <2> QED
      BY <1>2, <2>1 DEF IInv, TypeOK, flags, GoneInv, Lasting, AllHeed, Flagged, Ended
  <1> QED
    BY <1>1, <1>2

LEMMA ExitedStep == ASSUME IInv, Exited PROVE IInv'
  <1> USE DEF IInv
  <1>1. AttemptCleanup(FALSE) \/ UNCHANGED <<child, flags>>
    BY DEF Exited
  <1>2. /\ ChildType' /\ Lasting /\ Unread /\ GoneInv'
        /\ cleanup_confirmed' \in BOOLEAN /\ cleanup_unconfirmed' \in BOOLEAN
        /\ Flagged => Flagged'
        /\ Ended => Ended'
    BY <1>1, CleanupOrNothing DEF Exited, Main
  <1>3. TypeOK'
    BY <1>2 DEF TypeOK, Exited, Goto, Main, readerVars, mainVars
  <1>4. ControlInv'
    BY <1>2 DEF Exited, Goto, Main, readerVars, mainVars, ControlInv
  <1> QED
    BY <1>2, <1>3, <1>4, MainStepLasts DEF Exited, mainVars

LEMMA OverrunningStep == ASSUME IInv, Overrunning PROVE IInv'
  <1> USE DEF IInv
  <1>1. /\ ChildType' /\ Lasting /\ Unread /\ GoneInv' /\ Flagged'
        /\ cleanup_confirmed' \in BOOLEAN /\ cleanup_unconfirmed' \in BOOLEAN
    BY CleanupFacts DEF Overrunning, Main
  <1>2. TypeOK'
    BY <1>1 DEF TypeOK, Overrunning, Goto, Main, readerVars, mainVars
  <1>3. ControlInv'
    BY <1>1 DEF Overrunning, Goto, Main, readerVars, mainVars, ControlInv
  <1> QED
    BY <1>1, <1>2, <1>3, MainStepLasts DEF Overrunning, mainVars

LEMMA ReapStep == ASSUME IInv, Reap PROVE IInv'
  <1> USE DEF IInv
  <1>1. ChildType' /\ Lasting /\ Unread
    <2>1. Kill({}) \/ Kill({Leader} \ host.exempt)
      BY DEF Reap
    <2>2. Poll
      BY DEF Reap
    <2> QED
      BY <2>1, <2>2, KillLasts DEF TypeOK
  <1>2. UNCHANGED flags \/ Unconfirm
    BY DEF Reap
  <1>3. TypeOK'
    BY <1>1, <1>2 DEF TypeOK, Reap, Goto, Main, readerVars, mainVars, flags, Unconfirm
  <1>4. GoneInv'
    BY <1>1, <1>2 DEF flags, Unconfirm, GoneInv, Lasting, AllHeed, Main, Reap
  <1>5. ControlInv'
    BY <1>2 DEF Reap, Goto, Main, readerVars, mainVars, flags, Unconfirm,
                ControlInv, Flagged
  <1> QED
    BY <1>1, <1>3, <1>4, <1>5, MainStepLasts DEF Reap, mainVars

LEMMA JoinStep == ASSUME IInv, Join PROVE IInv'
  <1> USE DEF IInv
  <1>1. ChildType' /\ Lasting /\ Unread
    BY StutterLasts DEF TypeOK, Join
  <1>2. TypeOK'
    BY <1>1 DEF TypeOK, Join, Goto, Main, readerVars, flags
  <1>3. GoneInv'
    BY <1>1 DEF Join, flags, GoneInv, Lasting, AllHeed, Main
  <1>4. ControlInv'
    BY DEF Join, Goto, Main, readerVars, flags, ControlInv, Flagged, Closed, child, Ended
  <1> QED
    BY <1>1, <1>2, <1>3, <1>4, MainStepLasts DEF Join

LEMMA SweepStep == ASSUME IInv, Sweep PROVE IInv'
  <1> USE DEF IInv
  <1>1. /\ ChildType' /\ Lasting /\ Unread /\ GoneInv' /\ Flagged'
        /\ cleanup_confirmed' \in BOOLEAN /\ cleanup_unconfirmed' \in BOOLEAN
    BY CleanupFacts DEF Sweep, Main
  <1>2. TypeOK'
    BY <1>1 DEF TypeOK, Sweep, Goto, Main, readerVars, mainVars
  <1>3. ControlInv'
    BY <1>1 DEF Sweep, Goto, Main, readerVars, mainVars, ControlInv, Lasting, Ended
  <1> QED
    BY <1>1, <1>2, <1>3, MainStepLasts DEF Sweep, mainVars

LEMMA JoinAgainStep == ASSUME IInv, JoinAgain PROVE IInv'
  <1> USE DEF IInv
  <1>1. ChildType' /\ Lasting /\ Unread
    BY StutterLasts DEF TypeOK, JoinAgain
  <1>2. (Closed /\ UNCHANGED flags) \/ Unconfirm
    BY DEF JoinAgain
  <1>3. TypeOK'
    BY <1>1, <1>2 DEF TypeOK, JoinAgain, Goto, Main, readerVars, flags, mainVars, Unconfirm
  <1>4. GoneInv'
    BY <1>1, <1>2 DEF flags, Unconfirm, GoneInv, Lasting, AllHeed, Main, JoinAgain
  <1>5. ControlInv'
    BY <1>2 DEF JoinAgain, Goto, Main, readerVars, flags, mainVars, Unconfirm,
                ControlInv, Flagged, Closed, child, Ended
  <1> QED
    BY <1>1, <1>3, <1>4, <1>5, MainStepLasts DEF JoinAgain, mainVars

LEMMA SettleStep == ASSUME IInv, Settle PROVE IInv'
  <1> USE DEF IInv
  <1>1. AttemptCleanup(FALSE) \/ UNCHANGED <<child, flags>>
    BY DEF Settle
  <1>2. /\ ChildType' /\ Lasting /\ Unread /\ GoneInv'
        /\ cleanup_confirmed' \in BOOLEAN /\ cleanup_unconfirmed' \in BOOLEAN
        /\ Flagged => Flagged'
        /\ Ended => Ended'
    BY <1>1, CleanupOrNothing DEF Settle, Main
  <1>3. output_limit_hit => Flagged'
    <2>1. CASE AttemptCleanup(FALSE)
      BY <2>1, CleanupFacts DEF Settle, Main
    <2>2. CASE ~AttemptCleanup(FALSE)
      BY <1>2, <2>2 DEF Settle, Flagged, ControlInv
    <2> QED
      BY <2>1, <2>2
  <1>4. TypeOK'
    BY <1>2 DEF TypeOK, Settle, Goto, Main, readerVars, mainVars
  <1>5. ControlInv'
    BY <1>2, <1>3 DEF Settle, Goto, Main, readerVars, mainVars, ControlInv, Closed
  <1> QED
    BY <1>2, <1>4, <1>5, MainStepLasts DEF Settle, mainVars

LEMMA ReturnStep == ASSUME IInv, Return PROVE IInv'
  <1> USE DEF IInv
  <1>1. ChildType' /\ Lasting /\ Unread
    BY StutterLasts DEF TypeOK, Return
  <1>2. Verdict \in Confirmed \cup Unconfirmed \cup {"none"}
    BY DEF Verdict, Confirmed, Unconfirmed, TypeOK
  <1>3. answer' = [error |-> Verdict, exit |-> IF Verdict = "none" THEN code ELSE "none"]
    BY DEF Return, Answer
  <1>4. TypeOK'
    BY <1>1, <1>2, <1>3
       DEF TypeOK, ChildType, Return, Answer, Goto, Main, readerVars, flags
  <1>5. ReadInv'
    BY <1>1, ReadInvLasts DEF Return, Main
  <1>6. ControlInv'
    BY DEF Return, Answer, Goto, ControlInv
  <1>7. GoneInv'
    BY <1>1 DEF Return, flags, GoneInv, Lasting, AllHeed, Main
  <1>8. Answers'
    <2>1. Verdict = "none" => ~timed_out /\ ~output_limit_hit /\ ~outlived_parent
      BY DEF Verdict, TypeOK
    <2>2. ResultIsComplete'
      <3> SUFFICES ASSUME Verdict = "none"
                   PROVE  /\ Ended' /\ code' = code
                          /\ \A s \in Stream : Eof(s)' /\ buffers'[s] = written'[s]
        BY <1>3 DEF ResultIsComplete, Return, child
      <3>1. Ended /\ Closed
        BY <2>1 DEF ControlInv, Return
      <3>2. \A s \in Stream : Eof(s) /\ buffers[s] = written[s]
        BY <2>1, <3>1 DEF ReadInv, Closed
      <3> QED
        BY <3>1, <3>2 DEF Return, Main, readerVars, child, Ended, Eof
    <2>3. LimitIsReal'
      <3>1. Verdict \in {"OutputLimitExceeded",
                         "OutputLimitExceededProcessTreeCleanupUnconfirmed"} =>
              output_limit_hit
        BY DEF Verdict, TypeOK
      <3> QED
        BY <1>3, <3>1 DEF LimitIsReal, ReadInv, Return, child
    <2>4. ConfirmedIsGone'
      <3>1. Verdict \in Confirmed =>
              ~cleanup_unconfirmed /\ (timed_out \/ output_limit_hit \/ outlived_parent)
        BY DEF Verdict, TypeOK, Confirmed
      <3>2. Verdict \in Confirmed => cleanup_confirmed
        BY <3>1 DEF ControlInv, Return, Flagged
      <3> QED
        BY <1>3, <3>2 DEF ConfirmedIsGone, GoneInv, Gone, Return, child, Main, AllHeed
    <2> QED
      BY <2>2, <2>3, <2>4 DEF Answers
  <1> QED
    BY <1>4, <1>5, <1>6, <1>7, <1>8

LEMMA MainStepInv == ASSUME IInv, MainStep PROVE IInv'
  BY PopenStep, CheckLimitsStep, WaitStep, ExitedStep, OverrunningStep, ReapStep,
     JoinStep, SweepStep, JoinAgainStep, SettleStep, ReturnStep DEF MainStep

-----------------------------------------------------------------------------
LEMMA DrainStep == ASSUME IInv, NEW s \in Stream, Drain(s) PROVE IInv'
  <1> USE DEF IInv
  <1>0. /\ pc # "popen" /\ s \notin drained
        /\ UNCHANGED <<host, pc, flags, mainVars, expired>>
    BY DEF Drain
  <1>1. CASE Eof(s) /\ drained' = drained \cup {s}
             /\ UNCHANGED <<child, buffers, output_limit_hit>>
    <2>1. ChildType' /\ Lasting /\ Unread
      BY <1>1, StutterLasts DEF TypeOK
    <2>2. TypeOK'
      BY <1>0, <1>1, <2>1 DEF TypeOK, flags, mainVars
    <2>3. ReadInv'
      <3>1. buffers[s] = written[s]
        BY <1>0, <1>1 DEF ReadInv, Eof, TypeOK, ChildType
      <3> QED
        BY <1>1, <3>1 DEF ReadInv, child, Eof
    <2>4. ControlInv'
      <3>1. ~Closed
        BY <1>0 DEF Closed
      <3> QED
        BY <1>0, <1>1, <3>1 DEF ControlInv, flags, mainVars, Flagged, child, Ended
    <2>5. GoneInv'
      BY <1>0, <2>1 DEF flags, GoneInv, Lasting, AllHeed
    <2>6. Answers'
      BY <1>0, <1>1, <2>1, AnswersLast DEF mainVars
    <2> QED
      BY <2>2, <2>3, <2>4, <2>5, <2>6
  <1>2. ASSUME NEW n \in 1..(Remaining(s) + 1), Read(s, n),
               buffers' = [buffers EXCEPT ![s] = @ + Kept(n, Remaining(s))],
               IF Overrun(n, Remaining(s))
                 THEN output_limit_hit' = TRUE /\ drained' = drained \cup {s}
                 ELSE UNCHANGED <<output_limit_hit, drained>>
        PROVE  IInv'
    <2> DEFINE r == MaxOutput - buffers[s]
    <2>1. /\ buffers[s] \in 0..MaxOutput /\ r \in 0..MaxOutput /\ n \in 1..(r + 1)
          /\ n \in 1..pipe[s] /\ pipe[s] \in 0..MaxWritten /\ written[s] \in 0..MaxWritten
          /\ buffers[s] + pipe[s] = written[s]
      BY <1>0, <1>2, EvidenceAssumption DEF Remaining, Read, TypeOK, ChildType, ReadInv
    <2>2. pipe' = [pipe EXCEPT ![s] = @ - n]
          /\ UNCHANGED <<born, alive, group, holds, written, code, reaped>>
      BY <1>2 DEF Read
    <2>3. ChildType'
      BY <2>1, <2>2, ChildAssumption DEF TypeOK, ChildType
    <2>4. Lasting
      BY <2>1, <2>2 DEF Lasting, TypeOK, ChildType, Gone, Eof
    <2>5. CASE n > r
      <3>1. /\ output_limit_hit' = TRUE /\ drained' = drained \cup {s}
            /\ buffers' = [buffers EXCEPT ![s] = @ + r]
        BY <1>2, <2>5 DEF Overrun, Kept, Remaining
      <3>2. TypeOK'
        <4>1. buffers[s] + r \in 0..MaxOutput
          BY <2>1, EvidenceAssumption
        <4>2. buffers' \in [Stream -> 0..MaxOutput]
          BY <3>1, <4>1 DEF TypeOK
        <4> QED
          BY <1>0, <2>3, <3>1, <4>2 DEF TypeOK, flags, mainVars
      <3>3. written[s] > MaxOutput
        BY <2>1, <2>5, EvidenceAssumption
      <3>4. ReadInv'
        BY <2>1, <2>2, <3>1, <3>3 DEF ReadInv, TypeOK, ChildType
      <3>5. ControlInv'
        <4>1. pc \in {"settle", "answer"} => outlived_parent
          BY <1>0 DEF ControlInv, Closed
        <4> QED
          BY <1>0, <2>2, <3>1, <4>1 DEF ControlInv, flags, mainVars, Flagged, Ended
      <3>6. GoneInv'
        BY <1>0, <2>4 DEF flags, GoneInv, Lasting, AllHeed
      <3>7. Answers'
        <4>1. answer.error # "none"
          BY <1>0, <2>1 DEF Answers, ResultIsComplete, Eof
        <4>2. ResultIsComplete'
          BY <1>0, <4>1 DEF ResultIsComplete, mainVars
        <4>3. LimitIsReal' /\ ConfirmedIsGone'
          BY <1>0, <2>2 DEF Answers, LimitIsReal, ConfirmedIsGone, mainVars
        <4> QED
          BY <4>2, <4>3 DEF Answers
      <3> QED
        BY <3>2, <3>4, <3>5, <3>6, <3>7
    <2>6. CASE ~(n > r)
      <3>1. /\ UNCHANGED <<output_limit_hit, drained>>
            /\ buffers' = [buffers EXCEPT ![s] = @ + n]
        BY <1>2, <2>6 DEF Overrun, Kept, Remaining
      <3>2. TypeOK'
        BY <1>0, <2>1, <2>3, <2>6, <3>1, EvidenceAssumption DEF TypeOK, flags, mainVars
      <3>3. ReadInv'
        <4>1. \A t \in Stream \ drained : buffers'[t] + pipe'[t] = written[t]
          BY <2>1, <2>2, <3>1 DEF ReadInv, TypeOK, ChildType
        <4>2. \A t \in drained : t # s /\ buffers'[t] = buffers[t] /\ (Eof(t) => Eof(t)')
          BY <1>0, <2>2, <3>1 DEF TypeOK, ChildType, Eof
        <4> QED
          BY <2>2, <3>1, <4>1, <4>2 DEF ReadInv, TypeOK
      <3>4. ControlInv'
        BY <1>0, <2>2, <3>1 DEF ControlInv, flags, mainVars, Flagged, Ended, Closed
      <3>5. GoneInv'
        BY <1>0, <2>4 DEF flags, GoneInv, Lasting, AllHeed
      <3>6. Answers'
        <4>1. answer.error # "none"
          BY <1>0, <2>1 DEF Answers, ResultIsComplete, Eof
        <4>2. ResultIsComplete'
          BY <1>0, <4>1 DEF ResultIsComplete, mainVars
        <4>3. LimitIsReal' /\ ConfirmedIsGone'
          BY <1>0, <2>2 DEF Answers, LimitIsReal, ConfirmedIsGone, mainVars
        <4> QED
          BY <4>2, <4>3 DEF Answers
      <3> QED
        BY <3>2, <3>3, <3>4, <3>5, <3>6
    <2> QED
      BY <2>5, <2>6
  <1> QED
    BY <1>1, <1>2 DEF Drain

LEMMA EnvironmentStep ==
  ASSUME IInv, Command \/ Tick \/ UNCHANGED vars
  PROVE  IInv'
  <1> USE DEF IInv
  <1>1. /\ UNCHANGED <<host, pc, readerVars, flags, mainVars>>
        /\ expired' \in BOOLEAN
    BY DEF Command, Tick, vars, TypeOK
  <1>2. ChildType' /\ Lasting /\ Unread
    BY ChildStepLasts, StutterLasts DEF Command, Tick, vars, TypeOK
  <1>3. pc = "popen" => born' = {}
    <2>1. ASSUME pc = "popen", ChildStep PROVE born' = {}
      BY <2>1 DEF ControlInv, TypeOK, ChildType, ChildStep, Fork, Write, CloseStream,
                  LeaveGroup, Exit
    <2>2. ASSUME pc = "popen", UNCHANGED child PROVE born' = {}
      BY <2>2 DEF ControlInv, child
    <2> QED
      BY <2>1, <2>2 DEF Command, Tick, vars
  <1>4. TypeOK'
    BY <1>1, <1>2 DEF TypeOK, readerVars, flags, mainVars
  <1>5. ReadInv'
    BY <1>1, <1>2, ReadInvLasts
  <1>6. ControlInv'
    BY <1>1, <1>2, <1>3
       DEF ControlInv, readerVars, flags, mainVars, Flagged, Closed, Lasting, Ended
  <1>7. GoneInv'
    BY <1>1, <1>2 DEF flags, GoneInv, Lasting, AllHeed
  <1>8. Answers'
    BY <1>1, <1>2, AnswersLast DEF readerVars, mainVars
  <1> QED
    BY <1>4, <1>5, <1>6, <1>7, <1>8

LEMMA StepInv == IInv /\ [Next]_vars => IInv'
  BY MainStepInv, DrainStep, EnvironmentStep DEF Next

-----------------------------------------------------------------------------
(* The inductive invariant holds always. *)
THEOREM InvHolds == Spec => []IInv
  BY InitInv, StepInv, PTL DEF Spec

(* Every variable keeps its type; no buffer exceeds MAX_COMMAND_OUTPUT. *)
THEOREM TypeCorrect == Spec => []TypeOK
  <1>1. IInv => TypeOK
    BY DEF IInv
  <1> QED
    BY <1>1, InvHolds, PTL

(* Evidence without an error reports the command's own exit and all output *)
(* of everybody who shared its pipes.                                      *)
THEOREM ResultIsCompleteHolds == Spec => []ResultIsComplete
  <1>1. IInv => ResultIsComplete
    BY DEF IInv, Answers
  <1> QED
    BY <1>1, InvHolds, PTL

(* OutputLimitExceeded means that a stream exceeded the limit. *)
THEOREM LimitIsRealHolds == Spec => []LimitIsReal
  <1>1. IInv => LimitIsReal
    BY DEF IInv, Answers
  <1> QED
    BY <1>1, InvHolds, PTL

(* A cleanup that is not called unconfirmed left nobody of the group, as   *)
(* long as the caller may signal every process that was started: whatever  *)
(* is killed, exits or fails in which order.                               *)
THEOREM ConfirmedIsGoneHolds == Spec => []ConfirmedIsGone
  <1>1. IInv => ConfirmedIsGone
    BY DEF IInv, Answers
  <1> QED
    BY <1>1, InvHolds, PTL
=============================================================================
