-------------------------- MODULE ChildProcessProofs --------------------------
(***************************************************************************)
(* What no step of a child, of its descendants or of its parent undoes.    *)
(***************************************************************************)
EXTENDS ChildProcess, TLAPS

(* Nobody of the group is left. *)
Gone == alive \cap group = {}

(* The end of the child, the end of an output and the end of a group are   *)
(* final; what was written does not become less, nor those who were born.  *)
Lasting ==
  /\ Ended => code' = code
  /\ Gone => Gone'
  /\ born \subseteq born'
  /\ \A s \in Stream : /\ written'[s] >= written[s]
                       /\ Eof(s) => Eof(s)' /\ written'[s] = written[s]

(* What is still unread of a stream is what was written and not read. *)
Unread == \A s \in Stream : written'[s] - pipe'[s] = written[s] - pipe[s]

LEMMA ForkLasts ==
  ASSUME ChildType, Fork
  PROVE  ChildType' /\ Lasting /\ Unread
  <1>1. PICK p \in alive, d \in Desc \ born :
          /\ born' = born \cup {d}
          /\ alive' = alive \cup {d}
          /\ group' = IF p \in group THEN group \cup {d} ELSE group
          /\ holds' = [s \in Stream |->
                        IF p \in holds[s] THEN holds[s] \cup {d} ELSE holds[s]]
    BY DEF Fork
  <1>2. UNCHANGED <<written, pipe, code, reaped>>
    BY DEF Fork
  <1>3. ChildType'
    <2>1. Leader \in born' \ alive' <=> Leader \in born \ alive
      BY <1>1, ChildAssumption DEF ChildType
    <2>2. born' \subseteq Process /\ alive' \subseteq born' /\ group' \subseteq born'
      BY <1>1 DEF ChildType, Process
    <2>3. holds' \in [Stream -> SUBSET alive']
      BY <1>1 DEF ChildType
    <2> QED
      BY <1>2, <2>1, <2>2, <2>3 DEF ChildType
  <1>4. Lasting
    <2>1. Gone => Gone'
      BY <1>1 DEF Gone, ChildType
    <2>2. \A s \in Stream : Eof(s) => Eof(s)'
      BY <1>1, <1>2 DEF Eof
    <2> QED
      BY <1>1, <1>2, <2>1, <2>2 DEF Lasting, ChildType
  <1>5. Unread
    BY <1>2 DEF Unread
  <1> QED
    BY <1>3, <1>4, <1>5

LEMMA WriteLasts ==
  ASSUME ChildType, Write
  PROVE  ChildType' /\ Lasting /\ Unread
  <1>1. PICK s \in Stream :
          /\ holds[s] # {} /\ written[s] < MaxWritten
          /\ written' = [written EXCEPT ![s] = @ + 1]
          /\ pipe' = [pipe EXCEPT ![s] = @ + 1]
    BY DEF Write
  <1>2. UNCHANGED <<born, alive, group, holds, code, reaped>>
    BY DEF Write
  <1>3. ChildType'
    BY <1>1, <1>2, ChildAssumption DEF ChildType
  <1>4. Lasting
    BY <1>1, <1>2 DEF Lasting, ChildType, Gone, Eof
  <1>5. Unread
    BY <1>1, <1>2 DEF Unread, ChildType
  <1> QED
    BY <1>3, <1>4, <1>5

LEMMA CloseLasts ==
  ASSUME ChildType, CloseStream
  PROVE  ChildType' /\ Lasting /\ Unread
  <1>1. UNCHANGED <<born, alive, group, written, pipe, code, reaped>>
    BY DEF CloseStream
  <1>2. \A s \in Stream : holds'[s] \subseteq holds[s]
    BY DEF CloseStream, ChildType
  <1>3. holds' \in [Stream -> SUBSET alive]
    BY DEF CloseStream, ChildType
  <1>4. ChildType'
    BY <1>1, <1>3 DEF ChildType
  <1>5. Lasting
    BY <1>1, <1>2 DEF Lasting, ChildType, Gone, Eof
  <1>6. Unread
    BY <1>1 DEF Unread
  <1> QED
    BY <1>4, <1>5, <1>6

LEMMA LeaveLasts ==
  ASSUME ChildType, LeaveGroup
  PROVE  ChildType' /\ Lasting /\ Unread
  <1>1. UNCHANGED <<born, alive, holds, written, pipe, code, reaped>>
    BY DEF LeaveGroup
  <1>2. group' \subseteq group
    BY DEF LeaveGroup
  <1>3. ChildType'
    BY <1>1, <1>2 DEF ChildType
  <1>4. Lasting
    BY <1>1, <1>2 DEF Lasting, ChildType, Gone, Eof
  <1>5. Unread
    BY <1>1 DEF Unread
  <1> QED
    BY <1>3, <1>4, <1>5

LEMMA ExitLasts ==
  ASSUME ChildType, Exit
  PROVE  ChildType' /\ Lasting /\ Unread
  <1>1. PICK p \in alive :
          /\ Die({p})
          /\ IF p = Leader THEN code' \in {"zero", "nonzero"} ELSE UNCHANGED code
    BY DEF Exit
  <1>2. UNCHANGED <<born, group, written, pipe, reaped>>
    BY DEF Exit
  <1>3. alive' = alive \ {p} /\ holds' \in [Stream -> SUBSET alive']
    BY <1>1 DEF Die, ChildType
  <1>4. ChildType'
    <2>1. CASE p = Leader
      BY <1>1, <1>2, <1>3, <2>1 DEF ChildType
    <2>2. CASE p # Leader
      BY <1>1, <1>2, <1>3, <2>2 DEF ChildType
    <2> QED
      BY <2>1, <2>2
  <1>5. Lasting
    <2>1. Ended => code' = code
      BY <1>1 DEF ChildType, Ended
    <2>2. \A s \in Stream : holds[s] = {} => holds'[s] = {}
      BY <1>1 DEF Die
    <2> QED
      BY <1>2, <1>3, <2>1, <2>2 DEF Lasting, ChildType, Gone, Eof
  <1>6. Unread
    BY <1>2 DEF Unread
  <1> QED
    BY <1>4, <1>5, <1>6

LEMMA ChildStepLasts ==
  ASSUME ChildType, ChildStep
  PROVE  ChildType' /\ Lasting /\ Unread
  BY ForkLasts, WriteLasts, CloseLasts, LeaveLasts, ExitLasts DEF ChildStep

(* Killing any processes, and reaping the child or not. *)
LEMMA KillLasts ==
  ASSUME ChildType, NEW S, Kill(S), UNCHANGED reaped \/ Poll
  PROVE  /\ ChildType' /\ Lasting /\ Unread
         /\ alive \cap group \subseteq S => Gone'
         /\ Ended \/ Leader \in S \cap alive => Ended'
  <1>1. UNCHANGED <<born, group, written, pipe>>
    BY DEF Kill
  <1>2. alive' = alive \ S /\ holds' \in [Stream -> SUBSET alive']
    BY DEF Kill, Die, ChildType
  <1>3. code' = IF Leader \in S \cap alive THEN "killed" ELSE code
    BY DEF Kill
  <1>4. ChildType'
    <2>1. reaped' => code' # "none"
      BY <1>3 DEF Poll, Ended, ChildType
    <2>2. reaped' \in BOOLEAN
      BY DEF Poll, Ended, ChildType
    <2>3. code' # "none" <=> Leader \in born' \ alive'
      BY <1>1, <1>2, <1>3 DEF ChildType
    <2>4. code' \in {"none", "zero", "nonzero", "killed"}
      BY <1>3 DEF ChildType
    <2> QED
      BY <1>1, <1>2, <2>1, <2>2, <2>3, <2>4 DEF ChildType
  <1>5. Lasting
    <2>1. Ended => code' = code
      <3>1. Ended => Leader \notin S \cap alive
        BY DEF ChildType, Ended
      <3> QED
        BY <1>3, <3>1
    <2>2. \A s \in Stream : holds[s] = {} => holds'[s] = {}
      BY DEF Kill, Die
    <2> QED
      BY <1>1, <1>2, <2>1, <2>2 DEF Lasting, ChildType, Gone, Eof
  <1>6. Unread
    BY <1>1 DEF Unread
  <1> QED
    BY <1>1, <1>2, <1>3, <1>4, <1>5, <1>6 DEF Gone, Ended

(* Reaping without killing. *)
LEMMA PollLasts ==
  ASSUME ChildType, Poll, UNCHANGED <<born, alive, group, holds, written, pipe, code>>
  PROVE  ChildType' /\ Lasting /\ Unread
  BY DEF ChildType, Poll, Lasting, Unread, Gone, Eof, Ended

LEMMA StutterLasts ==
  ASSUME ChildType, UNCHANGED child
  PROVE  ChildType' /\ Lasting /\ Unread
  BY DEF ChildType, child, Lasting, Unread, Gone, Eof, Ended
=============================================================================
