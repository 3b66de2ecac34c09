---------------------------- MODULE ChildProcess ----------------------------
(***************************************************************************)
(* A child started with its own process group and pipes for its output, as *)
(* CommandEvidence and GitCommand start theirs: what it and its            *)
(* descendants may do, and what the parent can do to them.  All of it is   *)
(* the operating system's; the code decides only when to read and kill.    *)
(*                                                                         *)
(* A group is the POSIX process group; on Windows it is the tree below the *)
(* child that taskkill /T can follow.  Output is counted, not spelt.       *)
(***************************************************************************)
EXTENDS Integers, FiniteSets

CONSTANTS
  Leader,      \* the process that is started
  Desc,        \* its possible descendants
  Stream,      \* the pipes
  MaxWritten   \* bound: output on one pipe

ASSUME ChildAssumption ==
  /\ Leader \notin Desc
  /\ MaxWritten \in Nat

Process == Desc \cup {Leader}

VARIABLES
  born,     \* processes that were started
  alive,    \* those that run
  group,    \* members of the group, dead ones included
  holds,    \* who has the write end of each pipe
  written,  \* output so far
  pipe,     \* output not yet read
  code,     \* how the leader ended: "none" before it did
  reaped    \* the parent has its exit status (Popen.returncode)

child == <<born, alive, group, holds, written, pipe, code, reaped>>

ChildInit ==
  /\ born = {} /\ alive = {} /\ group = {}
  /\ holds = [s \in Stream |-> {}]
  /\ written = [s \in Stream |-> 0]
  /\ pipe = [s \in Stream |-> 0]
  /\ code = "none"
  /\ reaped = FALSE

ChildType ==
  /\ born \subseteq Process /\ alive \subseteq born /\ group \subseteq born
  /\ holds \in [Stream -> SUBSET alive]
  /\ written \in [Stream -> 0..MaxWritten]
  /\ pipe \in [Stream -> 0..MaxWritten]
  /\ \A s \in Stream : pipe[s] <= written[s]
  /\ code \in {"none", "zero", "nonzero", "killed"}
  /\ code # "none" <=> Leader \in born \ alive
  /\ reaped \in BOOLEAN
  /\ reaped => code # "none"

Ended == code # "none"
Eof(s) == pipe[s] = 0 /\ holds[s] = {}

(* A group exists while a member runs or its dead leader is not reaped.    *)
GroupExists == alive \cap group # {} \/ (Ended /\ ~reaped)

-----------------------------------------------------------------------------
(* What the parent does. *)

Spawn ==
  /\ born' = {Leader} /\ alive' = {Leader} /\ group' = {Leader}
  /\ holds' = [s \in Stream |-> {Leader}]
  /\ UNCHANGED <<written, pipe, code, reaped>>

Die(S) ==
  /\ alive' = alive \ S
  /\ holds' = [s \in Stream |-> holds[s] \ S]

Kill(S) ==
  /\ Die(S)
  /\ code' = IF Leader \in S \cap alive THEN "killed" ELSE code
  /\ UNCHANGED <<born, group, written, pipe>>

(* Popen.poll, Popen.wait: reap the leader if it has ended. *)
Poll == reaped' = Ended

Read(s, n) ==
  /\ n \in 1..pipe[s]
  /\ pipe' = [pipe EXCEPT ![s] = @ - n]
  /\ UNCHANGED <<born, alive, group, holds, written, code, reaped>>

-----------------------------------------------------------------------------
(* What the child and its descendants do. *)

Fork ==
  /\ \E p \in alive, d \in Desc \ born :
       /\ born' = born \cup {d}
       /\ alive' = alive \cup {d}
       /\ group' = IF p \in group THEN group \cup {d} ELSE group
       /\ holds' = [s \in Stream |->
                      IF p \in holds[s] THEN holds[s] \cup {d} ELSE holds[s]]
  /\ UNCHANGED <<written, pipe, code, reaped>>

Write ==
  /\ \E s \in Stream :
       /\ holds[s] # {} /\ written[s] < MaxWritten
       /\ written' = [written EXCEPT ![s] = @ + 1]
       /\ pipe' = [pipe EXCEPT ![s] = @ + 1]
  /\ UNCHANGED <<born, alive, group, holds, code, reaped>>

(* Redirecting an output, or closing it. *)
CloseStream ==
  /\ \E s \in Stream : \E p \in holds[s] : holds' = [holds EXCEPT ![s] = @ \ {p}]
  /\ UNCHANGED <<born, alive, group, written, pipe, code, reaped>>

(* setsid; on Windows, the parent of a descendant ends. *)
LeaveGroup ==
  /\ \E d \in Desc \cap alive \cap group : group' = group \ {d}
  /\ UNCHANGED <<born, alive, holds, written, pipe, code, reaped>>

Exit ==
  /\ \E p \in alive :
       /\ Die({p})
       /\ IF p = Leader THEN code' \in {"zero", "nonzero"} ELSE UNCHANGED code
  /\ UNCHANGED <<born, group, written, pipe, reaped>>

ChildStep == Fork \/ Write \/ CloseStream \/ LeaveGroup \/ Exit
=============================================================================
