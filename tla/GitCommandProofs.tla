--------------------------- MODULE GitCommandProofs ---------------------------
(***************************************************************************)
(* What a result of _git_command is, for any git, any descendants it       *)
(* leaves and any amount of output.                                        *)
(***************************************************************************)
EXTENDS GitCommand, ChildProcessProofs

(* The reader has every byte that left the pipe; what it has handed over   *)
(* is all of the output or more than the limit.                            *)
ReaderInv ==
  /\ raw + pipe[Out] = written[Out]
  /\ raw_holder <=> reader \in {"poll", "kill", "done"}
  /\ raw_holder => (output_exceeded <=> raw > MaxOutput)
  /\ raw_holder /\ raw <= MaxOutput => Eof(Out)

ControlInv ==
  /\ pc = "popen" => born = {} /\ reader = "waiting"
  /\ ~raw_holder => ~output_exceeded
  /\ pc # "done" => answer = "unanswered"
  /\ pc \in {"poll", "kill", "reap", "joinpoll", "joinkill"} => raised
  /\ pc = "join" => Ended
  /\ pc \in {"finalpoll", "finalkill", "close"} => raised \/ (Ended /\ reader = "done")

Answers == ResultIsComplete /\ LargeIsLarge

IInv == TypeOK /\ ReaderInv /\ ControlInv /\ Answers

-----------------------------------------------------------------------------
LEMMA Stdout == Out \in Stream /\ MaxOutput \in Nat
  BY GitAssumption

LEMMA InitInv == Init => IInv
  <1> SUFFICES ASSUME Init PROVE IInv
    OBVIOUS
  <1> USE Stdout
  <1>1. ChildType
    <2>1. holds \in [Stream -> SUBSET alive]
      BY DEF Init, ChildInit
    <2>2. written \in [Stream -> 0..MaxWritten] /\ pipe \in [Stream -> 0..MaxWritten]
          /\ \A s \in Stream : pipe[s] <= written[s]
      BY ChildAssumption DEF Init, ChildInit
    <2> QED
      BY <2>1, <2>2 DEF Init, ChildInit, ChildType
  <1>2. TypeOK
    <2>1. raw \in 0..(MaxOutput + 1)
      BY DEF Init
    <2> QED
      BY <1>1, <2>1 DEF Init, TypeOK
  <1>3. ReaderInv /\ ControlInv /\ Answers
    BY DEF Init, ChildInit, ReaderInv, ControlInv, Answers, ResultIsComplete, LargeIsLarge
  <1> QED
    BY <1>2, <1>3 DEF IInv

(* What the threads leave alone stays true while the child moves.          *)
LEMMA ReaderLasts ==
  ASSUME IInv, ChildType', Lasting, Unread, UNCHANGED threadVars
  PROVE  ReaderInv'
  <1>1. /\ written'[Out] - pipe'[Out] = written[Out] - pipe[Out]
        /\ Eof(Out) => Eof(Out)'
    BY Stdout DEF Lasting, Unread
  <1>2. /\ written[Out] \in Int /\ pipe[Out] \in Int /\ raw \in Int
        /\ written'[Out] \in Int /\ pipe'[Out] \in Int
    BY Stdout DEF IInv, TypeOK, ChildType
  <1> QED
    BY <1>1, <1>2 DEF IInv, ReaderInv, threadVars

LEMMA AnswersLast ==
  ASSUME IInv, ChildType', Lasting, UNCHANGED answer, raw' = raw \/ pc # "done"
  PROVE  Answers'
  <1> USE DEF IInv, Answers
  <1>1. /\ written'[Out] >= written[Out]
        /\ Eof(Out) => Eof(Out)' /\ written'[Out] = written[Out]
        /\ code = "zero" => code' = code
        /\ written[Out] \in Int /\ written'[Out] \in Int
    BY Stdout DEF Lasting, Ended, TypeOK, ChildType
  <1>2. ResultIsComplete'
    BY <1>1 DEF ResultIsComplete, ControlInv
  <1>3. LargeIsLarge'
    BY <1>1, Stdout DEF LargeIsLarge
  <1> QED
    BY <1>2, <1>3

-----------------------------------------------------------------------------
LEMMA PollFacts ==
  ASSUME TypeOK, NEW t \in {"main", "reader"}, TerminatePoll(t)
  PROVE  ChildType' /\ Lasting /\ Unread /\ polled' \subseteq {"main", "reader"}
  <1>1. ChildType' /\ Lasting /\ Unread
    BY PollLasts DEF TerminatePoll, TypeOK
  <1> QED
    BY <1>1 DEF TerminatePoll, TypeOK

LEMMA KillFacts ==
  ASSUME TypeOK, NEW t, TerminateKill(t)
  PROVE  ChildType' /\ Lasting /\ Unread /\ UNCHANGED polled
  BY KillLasts DEF TerminateKill, TypeOK

(* A step of the main thread that does not answer. *)
LEMMA MainLasts ==
  ASSUME IInv, ChildType', Lasting, Unread, UNCHANGED <<threadVars, answer>>,
         TypeOK', ControlInv'
  PROVE  IInv'
  <1>1. ReaderInv'
    BY ReaderLasts
  <1>2. Answers'
    BY AnswersLast DEF threadVars
  <1> QED
    BY <1>1, <1>2 DEF IInv

LEMMA PopenStep == ASSUME IInv, Popen PROVE IInv'
  <1> USE DEF IInv
  <1>1. born = {} /\ alive = {} /\ code = "none" /\ ~reaped /\ reader = "waiting"
    BY DEF Popen, ControlInv, TypeOK, ChildType
  <1>2. CASE Spawn /\ reader' = "reading" /\ Goto("wait") /\ UNCHANGED answer
    <2>1. ChildType'
      BY <1>1, <1>2 DEF Spawn, TypeOK, ChildType, Process
    <2>2. TypeOK'
      BY <1>2, <2>1 DEF TypeOK, Popen, Goto
    <2>3. ReaderInv'
      BY <1>1, <1>2 DEF Popen, Spawn, ReaderInv
    <2>4. ControlInv'
      BY <1>2 DEF Popen, Goto, ControlInv
    <2>5. Answers'
      BY <1>2 DEF Popen, ControlInv, Answers, ResultIsComplete, LargeIsLarge
    <2> QED
      BY <2>2, <2>3, <2>4, <2>5
  <1>3. CASE Goto("done") /\ answer' = "git_check_failed" /\ UNCHANGED <<child, reader>>
    <2>1. ChildType' /\ Lasting /\ Unread
      BY <1>3, StutterLasts DEF TypeOK
    <2>2. TypeOK'
      BY <1>3, <2>1 DEF TypeOK, Popen, Goto
    <2>3. ReaderInv'
      BY <1>3, <2>1, ReaderLasts DEF Popen, threadVars
    <2>4. ControlInv'
      BY <1>3 DEF Popen, Goto, ControlInv
    <2>5. Answers'
      BY <1>3 DEF Answers, ResultIsComplete, LargeIsLarge
    <2> QED
      BY <2>2, <2>3, <2>4, <2>5
  <1> QED
    BY <1>2, <1>3 DEF Popen

LEMMA WaitStep == ASSUME IInv, Wait PROVE IInv'
  <1> USE DEF IInv
  <1>1. reaped' = reaped \/ (Ended /\ reaped' = TRUE)
    BY DEF Wait
  <1>2. UNCHANGED <<born, alive, group, holds, written, pipe, code>>
    BY DEF Wait
  <1>3. ChildType' /\ Lasting /\ Unread
    <2>1. CASE reaped' = reaped
      BY <1>2, <2>1, StutterLasts DEF TypeOK, child
    <2>2. CASE Ended /\ reaped' = TRUE
      BY <1>2, <2>2, PollLasts DEF TypeOK, Poll
    <2> QED
      BY <1>1, <2>1, <2>2
  <1>4. TypeOK'
    BY <1>3 DEF TypeOK, Wait, Goto, threadVars
  <1>5. ControlInv'
    BY DEF Wait, Goto, threadVars, ControlInv, Ended
  <1> QED
    BY <1>3, <1>4, <1>5, MainLasts DEF Wait

LEMMA MainPollStep == ASSUME IInv, MainPoll PROVE IInv'
  <1> USE DEF IInv
  <1>1. ChildType' /\ Lasting /\ Unread /\ polled' \subseteq {"main", "reader"}
    BY PollFacts DEF MainPoll
  <1>2. TypeOK'
    BY <1>1 DEF TypeOK, MainPoll, Goto, threadVars, mainVars
  <1>3. ControlInv'
    BY DEF MainPoll, TerminatePoll, Goto, threadVars, mainVars, ControlInv, Ended
  <1> QED
    BY <1>1, <1>2, <1>3, MainLasts DEF MainPoll, mainVars

LEMMA MainKillStep == ASSUME IInv, MainKill PROVE IInv'
  <1> USE DEF IInv
  <1>1. ChildType' /\ Lasting /\ Unread /\ UNCHANGED polled
    BY KillFacts DEF MainKill
  <1>2. TypeOK'
    BY <1>1 DEF TypeOK, MainKill, Goto, threadVars, mainVars
  <1>3. ControlInv'
    BY <1>1 DEF MainKill, Goto, threadVars, mainVars, ControlInv, Lasting, Ended
  <1> QED
    BY <1>1, <1>2, <1>3, MainLasts DEF MainKill, mainVars

LEMMA ReapStep == ASSUME IInv, Reap PROVE IInv'
  <1> USE DEF IInv
  <1>1. ChildType' /\ Lasting /\ Unread
    BY PollLasts DEF Reap, TypeOK
  <1>2. TypeOK'
    BY <1>1 DEF TypeOK, Reap, Goto, threadVars, mainVars
  <1>3. ControlInv'
    BY DEF Reap, Goto, threadVars, mainVars, ControlInv
  <1> QED
    BY <1>1, <1>2, <1>3, MainLasts DEF Reap, mainVars

LEMMA JoinStep == ASSUME IInv, Join PROVE IInv'
  <1> USE DEF IInv
  <1>1. ChildType' /\ Lasting /\ Unread
    BY StutterLasts DEF Join, TypeOK
  <1>2. TypeOK'
    BY <1>1 DEF TypeOK, Join, Goto, threadVars
  <1>3. ControlInv'
    BY DEF Join, Goto, threadVars, child, ControlInv, Ended
  <1> QED
    BY <1>1, <1>2, <1>3, MainLasts DEF Join

LEMMA ReturnStep == ASSUME IInv, CloseAndReturn PROVE IInv'
  <1> USE DEF IInv
  <1>1. ChildType' /\ Lasting /\ Unread
    BY StutterLasts DEF CloseAndReturn, TypeOK
  <1>2. TypeOK'
    BY <1>1 DEF TypeOK, CloseAndReturn, Goto, threadVars, Verdict
  <1>3. ReaderInv'
    BY <1>1, ReaderLasts DEF CloseAndReturn
  <1>4. ControlInv'
    BY DEF CloseAndReturn, Goto, threadVars, ControlInv
  <1>5. Answers'
    <2>1. written[Out] \in Nat /\ pipe[Out] \in Nat /\ raw \in Nat
      BY Stdout DEF TypeOK, ChildType
    <2>2. ResultIsComplete'
      <3> SUFFICES ASSUME Verdict = "result"
                   PROVE  /\ code = "zero" /\ Eof(Out)
                          /\ raw = written[Out] /\ raw <= MaxOutput
        BY DEF CloseAndReturn, ResultIsComplete, child, threadVars, Eof
      <3>1. ~raised /\ ~output_exceeded /\ code = "zero" /\ raw_holder
        BY DEF Verdict, TypeOK
      <3>2. raw <= MaxOutput
        BY <2>1, <3>1, Stdout DEF ReaderInv
      <3> QED
        BY <2>1, <3>1, <3>2 DEF ReaderInv, Eof
    <2>3. LargeIsLarge'
      <3> SUFFICES ASSUME Verdict = "too_large"
                   PROVE  written[Out] > MaxOutput
        BY DEF CloseAndReturn, LargeIsLarge, child
      <3>1. raw_holder /\ output_exceeded
        BY DEF Verdict, ControlInv, TypeOK
      <3> QED
        BY <2>1, <3>1, Stdout DEF ReaderInv
    <2> QED
      BY <2>2, <2>3 DEF Answers
  <1> QED
    BY <1>2, <1>3, <1>4, <1>5

-----------------------------------------------------------------------------
LEMMA ReadingStep == ASSUME IInv, Reading PROVE IInv'
  <1> USE DEF IInv
  <1>1. /\ reader = "reading" /\ pc # "popen" /\ ~raw_holder /\ ~output_exceeded
        /\ UNCHANGED <<pc, raised, answer, expired, polled>>
    BY DEF Reading, ReaderStep, mainVars, ControlInv, ReaderInv
  <1>2. /\ written[Out] \in 0..MaxWritten /\ pipe[Out] \in 0..MaxWritten
        /\ raw \in 0..(MaxOutput + 1)
    BY Stdout DEF TypeOK, ChildType
  <1>3. ASSUME NEW n \in 1..(ReadSize - raw), Read(Out, n), raw' = raw + n,
               UNCHANGED <<reader, raw_holder, output_exceeded>>
        PROVE  IInv'
    <2>1. /\ pipe' = [pipe EXCEPT ![Out] = @ - n] /\ n \in 1..pipe[Out]
          /\ UNCHANGED <<born, alive, group, holds, written, code, reaped>>
      BY <1>3 DEF Read
    <2>2. ChildType'
      BY <1>2, <2>1, ChildAssumption, Stdout DEF TypeOK, ChildType
    <2>3. Lasting
      BY <1>2, <2>1, Stdout DEF Lasting, TypeOK, ChildType, Gone, Eof
    <2>4. TypeOK'
      BY <1>1, <1>2, <1>3, <2>2, Stdout DEF TypeOK, ReadSize
    <2>5. raw' + pipe'[Out] = written'[Out]
      BY <1>2, <1>3, <2>1, Stdout DEF ReaderInv, TypeOK, ChildType
    <2>6. ReaderInv'
      BY <1>1, <1>3, <2>5 DEF ReaderInv
    <2>7. ControlInv'
      BY <1>1, <1>3, <2>1 DEF ControlInv, Ended
    <2>8. Answers'
      <3>1. answer # "result"
        BY <1>2, <2>1 DEF Answers, ResultIsComplete, Eof
      <3> QED
        BY <1>1, <2>1, <3>1 DEF Answers, ResultIsComplete, LargeIsLarge
    <2> QED
      BY <2>4, <2>6, <2>7, <2>8
  <1>4. CASE /\ raw = ReadSize \/ Eof(Out)
             /\ raw_holder' = TRUE
             /\ output_exceeded' = Exceeds(raw)
             /\ reader' = IF Exceeds(raw) THEN "poll" ELSE "done"
             /\ UNCHANGED <<child, raw>>
    <2>1. ChildType' /\ Lasting /\ Unread
      BY <1>4, StutterLasts DEF TypeOK
    <2>2. Exceeds(raw) \in BOOLEAN
      BY DEF Exceeds
    <2>3. TypeOK'
      BY <1>1, <1>4, <2>1, <2>2 DEF TypeOK
    <2>4. ReaderInv'
      <3>1. raw <= MaxOutput => Eof(Out)
        BY <1>2, <1>4, Stdout DEF ReadSize
      <3> QED
        BY <1>4, <3>1 DEF ReaderInv, Exceeds, child, Eof
    <2>5. ControlInv'
      BY <1>1, <1>4 DEF ControlInv, Ended, child
    <2>6. Answers'
      BY <1>1, <1>4, <2>1, AnswersLast
    <2> QED
      BY <2>3, <2>4, <2>5, <2>6
  <1> QED
    BY <1>3, <1>4 DEF Reading

LEMMA ReaderTerminateStep == ASSUME IInv, ReaderPoll \/ ReaderKill PROVE IInv'
  <1> USE DEF IInv
  <1>1. /\ UNCHANGED <<pc, raised, answer, expired, raw, raw_holder, output_exceeded>>
        /\ reader \in {"poll", "kill"} /\ reader' \in {"kill", "done"}
    BY DEF ReaderPoll, ReaderKill, ReaderStep, mainVars
  <1>2. /\ ChildType' /\ Lasting /\ Unread
        /\ polled' \subseteq {"main", "reader"}
    <2>1. CASE ReaderPoll
      BY <2>1, PollFacts DEF ReaderPoll
    <2>2. CASE ReaderKill
      BY <2>2, KillFacts DEF ReaderKill, TypeOK
    <2> QED
      BY <2>1, <2>2
  <1>3. TypeOK'
    BY <1>1, <1>2 DEF TypeOK
  <1>4. ReaderInv'
    <2>1. /\ written'[Out] - pipe'[Out] = written[Out] - pipe[Out]
          /\ Eof(Out) => Eof(Out)'
      BY <1>2, Stdout DEF Lasting, Unread
    <2>2. /\ written[Out] \in Int /\ pipe[Out] \in Int /\ raw \in Int
          /\ written'[Out] \in Int /\ pipe'[Out] \in Int
      BY <1>2, Stdout DEF TypeOK, ChildType
    <2> QED
      BY <1>1, <2>1, <2>2 DEF ReaderInv
  <1>5. ControlInv'
    BY <1>1, <1>2 DEF ControlInv, Lasting, Ended
  <1>6. Answers'
    BY <1>1, <1>2, AnswersLast
  <1> QED
    BY <1>3, <1>4, <1>5, <1>6

LEMMA EnvironmentStep ==
  ASSUME IInv, Git \/ Tick \/ UNCHANGED vars
  PROVE  IInv'
  <1> USE DEF IInv
  <1>1. UNCHANGED <<pc, threadVars, polled, mainVars>> /\ expired' \in BOOLEAN
    BY DEF Git, Tick, vars, TypeOK
  <1>2. ChildType' /\ Lasting /\ Unread
    BY ChildStepLasts, StutterLasts DEF Git, Tick, vars, TypeOK
  <1>3. pc = "popen" => born' = {}
    <2>1. ASSUME pc = "popen", ChildStep PROVE born' = {}
      BY <2>1 DEF ControlInv, TypeOK, ChildType, ChildStep, Fork, Write, CloseStream,
                  LeaveGroup, Exit
    <2>2. ASSUME pc = "popen", UNCHANGED child PROVE born' = {}
      BY <2>2 DEF ControlInv, child
    <2> QED
      BY <2>1, <2>2 DEF Git, Tick, vars
  <1>4. TypeOK'
    BY <1>1, <1>2 DEF TypeOK, threadVars, mainVars
  <1>5. ReaderInv'
    BY <1>1, <1>2, ReaderLasts
  <1>6. ControlInv'
    BY <1>1, <1>2, <1>3 DEF ControlInv, threadVars, mainVars, Lasting, Ended
  <1>7. Answers'
    BY <1>1, <1>2, AnswersLast DEF threadVars, mainVars
  <1> QED
    BY <1>4, <1>5, <1>6, <1>7

LEMMA StepInv == IInv /\ [Next]_vars => IInv'
  BY PopenStep, WaitStep, MainPollStep, MainKillStep, ReapStep, JoinStep, ReturnStep,
     ReadingStep, ReaderTerminateStep, EnvironmentStep DEF Next, MainStep, Reader

-----------------------------------------------------------------------------
(* The inductive invariant holds always. *)
THEOREM InvHolds == Spec => []IInv
  BY InitInv, StepInv, PTL DEF Spec

(* Every variable keeps its type; at most max_output + 1 bytes are held. *)
THEOREM TypeCorrect == Spec => []TypeOK
  <1>1. IInv => TypeOK
    BY DEF IInv
  <1> QED
    BY <1>1, InvHolds, PTL

(* A result is the whole output of a git that succeeded. *)
THEOREM ResultIsCompleteHolds == Spec => []ResultIsComplete
  <1>1. IInv => ResultIsComplete
    BY DEF IInv, Answers
  <1> QED
    BY <1>1, InvHolds, PTL

(* A result refused as too large is too large. *)
THEOREM LargeIsLargeHolds == Spec => []LargeIsLarge
  <1>1. IInv => LargeIsLarge
    BY DEF IInv, Answers
  <1> QED
    BY <1>1, InvHolds, PTL
=============================================================================
