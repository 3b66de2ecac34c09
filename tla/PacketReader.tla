---------------------------- MODULE PacketReader -----------------------------
(***************************************************************************)
(* What inspect and materialize promise their callers, without copies,     *)
(* signatures or members: a call takes the archive as it is at one moment, *)
(* once; it answers for what it took and for nothing else, if that has the *)
(* digest that was asked for; a packet appears at a free destination at    *)
(* once, whole, and stays, and only the call that put it there answers for *)
(* it.  A call may still fail or die in front of the answer, and then the  *)
(* packet has none.  Materialize.tla implements this specification.        *)
(***************************************************************************)
CONSTANTS
  Proc,      \* the calls there may be at a time
  Archive,   \* what an archive may be
  Declared,  \* the files the manifest of each lists
  Call,      \* the arguments of a call: its op, and the digest it wants
  None,      \* no archive, no digest
  Free,      \* what a destination may be that a packet can be put at
  Occupied   \* what else it may be, a packet apart

VARIABLES
  archive,  \* what is at the archive's path
  dest,     \* the destination
  stage,    \* of every call: "idle", "working", "placed", "ok" or
            \* "refused"
  asked,    \* its arguments
  taken,    \* the archive it took
  answer    \* the packet it answered for

readerVars == <<archive, dest, stage, asked, taken, answer>>

Init ==
  /\ archive \in Archive /\ dest \in Free
  /\ stage = [p \in Proc |-> "idle"]
  /\ asked \in [Proc -> Call]
  /\ taken = [p \in Proc |-> None] /\ answer = [p \in Proc |-> None]

(* A call begins, is refused, at once or later, or dies.                   *)
Enter(p, s) ==
  /\ stage' = [stage EXCEPT ![p] = s]
  /\ \E c \in Call : asked' = [asked EXCEPT ![p] = c]
  /\ taken' = [taken EXCEPT ![p] = None] /\ answer' = [answer EXCEPT ![p] = None]
  /\ UNCHANGED <<archive, dest>>

Running == {"working", "placed"}
Begin(p) == stage[p] \notin Running /\ Enter(p, "working")
Refuse(p) == Enter(p, "refused")
Die(p) == stage[p] \in Running /\ Enter(p, "idle")

Take(p) ==
  /\ stage[p] = "working" /\ taken[p] = None
  /\ taken' = [taken EXCEPT ![p] = archive]
  /\ UNCHANGED <<archive, dest, stage, asked, answer>>

(* What call p may put at the destination and answer for.                  *)
Packet(p) == [by |-> p, payload |-> taken[p], files |-> Declared[taken[p]]]
Ready(p) ==
  stage[p] = "working" /\ taken[p] # None /\ asked[p].want \in {None, taken[p]}

Place(p) ==
  /\ Ready(p) /\ asked[p].op = "materialize"
  /\ dest \in Free /\ dest' = Packet(p)
  /\ stage' = [stage EXCEPT ![p] = "placed"]
  /\ UNCHANGED <<archive, asked, taken, answer>>

Answer(p) ==
  /\ \/ Ready(p) /\ asked[p].op = "inspect"
     \/ stage[p] = "placed" /\ dest = Packet(p)
  /\ stage' = [stage EXCEPT ![p] = "ok"]
  /\ answer' = [answer EXCEPT ![p] = Packet(p)]
  /\ UNCHANGED <<archive, dest, asked, taken>>

(* Somebody else: another archive, or a destination without a packet.      *)
Change ==
  /\ archive' \in Archive
  /\ UNCHANGED <<dest, stage, asked, taken, answer>>
Occupy ==
  /\ dest \in Free \cup Occupied /\ dest' \in Free \cup Occupied
  /\ UNCHANGED <<archive, stage, asked, taken, answer>>

Next == \/ \E p \in Proc : Begin(p) \/ Refuse(p) \/ Die(p) \/ Take(p)
                        \/ Place(p) \/ Answer(p)
        \/ Change \/ Occupy

Spec == Init /\ [][Next]_readerVars
=============================================================================
