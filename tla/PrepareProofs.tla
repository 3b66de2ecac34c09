--------------------------- MODULE PrepareProofs ----------------------------
(***************************************************************************)
(* What a published packet holds, for every project, every include list,   *)
(* every number of racing calls and every change made to the project while *)
(* they run.  The argument: commits never change once they are made, so    *)
(* what a call found out about its packet and its commit stays true.  The  *)
(* last part shows that Prepare implements HandoffStore.                   *)
(***************************************************************************)
EXTENDS Prepare, SequenceTheorems, FiniteSetTheorems, TLAPS

Selectable(f, S) == f \notin DeniedFile /\ \E i \in S : f \in Covers[i]

AtCommit(t, commit) ==
  \A f \in DOMAIN t : f \in DOMAIN trees[commit] /\ trees[commit][f] = t[f]

(* What the locals of call p say. *)
CallOk(p) ==
  /\ \A x \in unseen[p] : x[1] \in include[p] /\ x[2] \in Covers[x[1]]
  /\ \A f \in selected[p] : Selectable(f, include[p])
  /\ \A f \in DOMAIN packet[p] : f \in selected[p] /\ packet[p][f] \notin Unsafe
  /\ pc[p] = "idle" =>
       unseen[p] = {} /\ selected[p] = {} /\ DOMAIN packet[p] = {}
  /\ pc[p] = "read" => selected[p] # {}
  /\ pc[p] \in {"bind", "head2", "status2", "publish"} => DOMAIN packet[p] # {}
  /\ pc[p] \in {"head2", "status2", "publish"} => AtCommit(packet[p], base[p])

(* What is recorded of a published handoff. *)
HandoffOk(h) ==
  /\ h.commit \in 1..Len(trees)
  /\ AtCommit(h.packet, h.commit)
  /\ \A f \in DOMAIN h.packet :
       Selectable(f, h.include) /\ h.packet[f] \notin Unsafe

IInv ==
  /\ TypeOK
  /\ \A p \in Proc : CallOk(p)
  /\ \A n \in DOMAIN handoffs : HandoffOk(handoffs[n])

-----------------------------------------------------------------------------
LEMMA TreeType ==
  ASSUME NEW t
  PROVE  t \in Tree <=> t \in [DOMAIN t -> Content] /\ DOMAIN t \subseteq File
  BY DEF Tree

LEMMA EmptyType == Empty \in Tree /\ DOMAIN Empty = {}
  <1>1. DOMAIN Empty = {} /\ Empty \in [{} -> Content]
    BY DEF Empty
  <1> QED
    BY <1>1, TreeType

LEMMA WithType ==
  ASSUME NEW t \in Tree, NEW f \in File, NEW c \in Content
  PROVE  With(t, f, c) \in Tree
  <1>1. t \in [DOMAIN t -> Content] /\ DOMAIN t \subseteq File
    BY TreeType
  <1>2. With(t, f, c) \in [DOMAIN t \cup {f} -> Content]
    BY <1>1 DEF With
  <1> QED
    BY <1>1, <1>2, TreeType

LEMMA InitInv == Init => IInv
  <1> SUFFICES ASSUME Init PROVE IInv
    OBVIOUS
  <1>1. PICK t \in Tree : trees = <<t>>
    BY DEF Init
  <1>2. trees \in Seq(Tree) /\ Len(trees) = 1
    BY <1>1
  <1>3. handoffs \in Seq(Handoff) /\ DOMAIN handoffs = {}
    BY DEF Init
  <1>4. TypeOK
    BY <1>2, <1>3, EmptyType, PrepareAssumption DEF Init, TypeOK
  <1>5. \A p \in Proc : CallOk(p)
    BY EmptyType DEF Init, CallOk
  <1> QED
    BY <1>3, <1>4, <1>5 DEF IInv

-----------------------------------------------------------------------------
(* A step of call p that changes neither the project nor a handoff. *)
OnlyOf(p) ==
  /\ UNCHANGED <<trees, handoffs>>
  /\ \A q \in Proc \ {p} :
       /\ pc'[q] = pc[q] /\ include'[q] = include[q] /\ base'[q] = base[q]
       /\ unseen'[q] = unseen[q] /\ selected'[q] = selected[q]
       /\ packet'[q] = packet[q]

LEMMA OwnStep ==
  ASSUME IInv, NEW p \in Proc, OnlyOf(p), TypeOK', CallOk(p)'
  PROVE  IInv'
  <1>1. ASSUME NEW q \in Proc PROVE CallOk(q)'
    <2>1. CASE q = p
      BY <2>1
    <2>2. CASE q # p
      BY <2>2 DEF IInv, OnlyOf, CallOk, AtCommit
    <2> QED
      BY <2>1, <2>2
  <1>2. \A n \in DOMAIN handoffs' : HandoffOk(handoffs[n])'
    BY DEF IInv, OnlyOf, HandoffOk, AtCommit
  <1> QED
    BY <1>1, <1>2 DEF IInv

(* The end of a call, whatever it counts. *)
LEMMA EndStep ==
  ASSUME IInv, NEW p \in Proc, End(p), UNCHANGED <<project, handoffs>>,
         orphans' \in Nat, told' \in Nat, mishaps' \in Nat, calm' \subseteq Proc
  PROVE  IInv'
  <1> USE DEF IInv
  <1>1. OnlyOf(p)
    BY DEF OnlyOf, End, Goto, TypeOK, project
  <1>2. TypeOK'
    BY EmptyType DEF TypeOK, End, Goto, project
  <1>3. CallOk(p)'
    BY EmptyType DEF TypeOK, End, Goto, CallOk
  <1> QED
    BY <1>1, <1>2, <1>3, OwnStep

(* A step of a call that touches nothing but its locals.                   *)
Quiet == Local /\ calm' \subseteq calm

LEMMA QuietStep ==
  ASSUME NEW p \in Proc,
         \/ ReadHead(p) \/ ReadStatus(p) \/ CheckLimit(p)
         \/ Look(p) \/ EndWalk(p) \/ ReadFile(p) \/ Bind(p)
         \/ ReadHeadAgain(p) \/ ReadStatusAgain(p)
  PROVE  Quiet
  <1>1. CASE ReadHead(p) \/ ReadStatus(p) \/ CheckLimit(p) \/ EndWalk(p)
    BY <1>1 DEF Quiet, Fine, Fails, ReadHead, ReadStatus, CheckLimit, EndWalk
  <1>2. CASE Look(p)
    <2>1. PICK x \in unseen[p] : calm' = calm \/ calm' = calm \ {p}
      BY <1>2 DEF Look, Fine, Fails
    <2> QED
      BY <1>2, <2>1 DEF Look, Quiet
  <1>3. CASE ReadFile(p)
    <2>1. calm' = calm \/ calm' = calm \ {p}
      BY <1>3 DEF ReadFile, Fine, Fails
    <2> QED
      BY <1>3, <2>1 DEF ReadFile, Quiet
  <1>4. CASE Bind(p) \/ ReadHeadAgain(p) \/ ReadStatusAgain(p)
    BY <1>4 DEF Quiet, Fine, Fails, Bind, ReadHeadAgain, ReadStatusAgain
  <1> QED
    BY <1>1, <1>2, <1>3, <1>4

(* Making and removing the directory do the same or end the call and leave *)
(* it behind.                                                              *)
LeftBehind(p) == End(p) /\ Leaves /\ calm' \subseteq calm

LEMMA DirectoryStep ==
  ASSUME NEW p \in Proc, MakeDirectory(p) \/ Cleanup(p)
  PROVE  Quiet \/ LeftBehind(p)
  <1>1. CASE MakeDirectory(p)
    BY <1>1 DEF MakeDirectory, Quiet, LeftBehind, Fine, Fails
  <1>2. CASE Cleanup(p)
    BY <1>2 DEF Cleanup, Quiet, LeftBehind, Fine, Fails
  <1> QED
    BY <1>1, <1>2

(* A step that only moves call p on; what its new place requires holds. *)
LEMMA MoveStep ==
  ASSUME IInv, NEW p \in Proc, NEW label, Goto(p, label), UNCHANGED locals, Quiet,
         label \in Building \cup {"limit", "mkdir"},
         label = "read" => selected[p] # {},
         label \in {"bind", "head2", "status2", "publish"} => DOMAIN packet[p] # {},
         label \in {"head2", "status2", "publish"} => AtCommit(packet[p], base[p])
  PROVE  IInv'
  <1> USE DEF IInv
  <1>1. OnlyOf(p)
    BY DEF OnlyOf, Goto, TypeOK, locals, Quiet, Local, project, handoffVars
  <1>2. TypeOK'
    BY DEF TypeOK, Goto, locals, Quiet, Local, project, handoffVars
  <1>3. CallOk(p)'
    BY DEF TypeOK, Goto, CallOk, AtCommit, locals, Quiet, Local, project, Building
  <1> QED
    BY <1>1, <1>2, <1>3, OwnStep

LEMMA RefuseStep ==
  ASSUME IInv, NEW p \in Proc, Refuse(p), Quiet
  PROVE  IInv'
  BY MoveStep DEF Refuse, Building

LEMMA LocalEnd ==
  ASSUME IInv, NEW p \in Proc, End(p), Quiet
  PROVE  IInv'
  BY EndStep DEF IInv, TypeOK, Quiet, Local, handoffVars

LEMMA LeftBehindStep ==
  ASSUME IInv, NEW p \in Proc, LeftBehind(p)
  PROVE  IInv'
  BY EndStep DEF IInv, TypeOK, LeftBehind, Leaves

-----------------------------------------------------------------------------
LEMMA CallStep ==
  ASSUME IInv, NEW p \in Proc, NEW S \in SUBSET Include, Call(p, S)
  PROVE  IInv'
  <1> USE DEF IInv
  <1>1. OnlyOf(p)
    BY DEF OnlyOf, Call, Goto, TypeOK, project, handoffVars
  <1>2. TypeOK'
    BY DEF TypeOK, Call, Goto, project, handoffVars
  <1>3. unseen[p] = {} /\ selected[p] = {} /\ DOMAIN packet[p] = {}
    BY DEF Call, At, CallOk
  <1>4. CallOk(p)'
    BY <1>3 DEF TypeOK, Call, Goto, CallOk
  <1> QED
    BY <1>1, <1>2, <1>4, OwnStep

LEMMA ReadHeadStep ==
  ASSUME IInv, NEW p \in Proc, ReadHead(p)
  PROVE  IInv'
  <1>0. Quiet
    BY QuietStep
  <1> USE DEF IInv
  <1>1. CASE End(p)
    BY <1>0, <1>1, LocalEnd
  <1>2. CASE /\ base' = [base EXCEPT ![p] = head]
             /\ Goto(p, "status")
             /\ UNCHANGED <<include, unseen, selected, packet>>
    <2>1. OnlyOf(p)
      BY <1>0, <1>2 DEF OnlyOf, ReadHead, Goto, TypeOK, Quiet, Local, project, handoffVars
    <2>2. TypeOK'
      BY <1>0, <1>2 DEF TypeOK, ReadHead, Goto, Quiet, Local, project, handoffVars
    <2>3. CallOk(p)'
      BY <1>2 DEF TypeOK, Goto, CallOk
    <2> QED
      BY <2>1, <2>2, <2>3, OwnStep
  <1> QED
    BY <1>1, <1>2 DEF ReadHead, Fails

LEMMA ReadStatusStep ==
  ASSUME IInv, NEW p \in Proc, ReadStatus(p)
  PROVE  IInv'
  <1>0. Quiet
    BY QuietStep
  <1>1. CASE End(p)
    BY <1>0, <1>1, LocalEnd
  <1>2. CASE Goto(p, "limit") /\ UNCHANGED locals
    BY <1>0, <1>2, MoveStep DEF ReadStatus
  <1> QED
    BY <1>1, <1>2 DEF ReadStatus, Fails

LEMMA CheckLimitStep ==
  ASSUME IInv, NEW p \in Proc, CheckLimit(p)
  PROVE  IInv'
  <1>0. Quiet
    BY QuietStep
  <1>1. CASE End(p)
    BY <1>0, <1>1, LocalEnd
  <1>2. CASE Goto(p, "mkdir") /\ UNCHANGED locals
    BY <1>0, <1>2, MoveStep DEF CheckLimit
  <1> QED
    BY <1>1, <1>2 DEF CheckLimit

LEMMA MakeDirectoryStep ==
  ASSUME IInv, NEW p \in Proc, MakeDirectory(p)
  PROVE  IInv'
  <1>0. Quiet \/ LeftBehind(p)
    BY DirectoryStep
  <1> USE DEF IInv
  <1>1. CASE End(p)
    BY <1>0, <1>1, LocalEnd, LeftBehindStep
  <1>2. CASE /\ Quiet
             /\ unseen' = [unseen EXCEPT ![p] =
                             {x \in include[p] \X File : x[2] \in Covers[x[1]]}]
             /\ Goto(p, "walk")
             /\ UNCHANGED <<include, base, selected, packet>>
    <2>1. OnlyOf(p)
      BY <1>2 DEF OnlyOf, MakeDirectory, Goto, TypeOK, Quiet, Local, project, handoffVars
    <2>2. TypeOK'
      BY <1>2 DEF TypeOK, MakeDirectory, Goto, Quiet, Local, project, handoffVars, Building
    <2>3. CallOk(p)'
      BY <1>2 DEF TypeOK, Goto, CallOk
    <2> QED
      BY <2>1, <2>2, <2>3, OwnStep
  <1>3. ~End(p) => Quiet
    BY <1>0 DEF LeftBehind
  <1> QED
    BY <1>1, <1>2, <1>3 DEF MakeDirectory, Fails

LEMMA LookStep ==
  ASSUME IInv, NEW p \in Proc, Look(p)
  PROVE  IInv'
  <1>0. Quiet
    BY QuietStep
  <1> USE DEF IInv
  <1>1. Quiet /\ pc[p] = "walk"
    BY <1>0 DEF Look, At
  <1>2. PICK x \in unseen[p] :
          \/ /\ x[2] \notin DeniedFile
             /\ selected' = [selected EXCEPT ![p] = @ \cup {x[2]}]
             /\ unseen' = [unseen EXCEPT ![p] = @ \ {x}]
             /\ UNCHANGED <<pc, include, base, packet>>
          \/ /\ unseen' = [unseen EXCEPT ![p] = @ \ {x}]
             /\ UNCHANGED <<pc, include, base, selected, packet>>
          \/ Refuse(p)
    BY DEF Look
  <1>3. CASE Refuse(p)
    BY <1>1, <1>3, RefuseStep
  <1>4. CASE /\ x[2] \notin DeniedFile
             /\ selected' = [selected EXCEPT ![p] = @ \cup {x[2]}]
             /\ unseen' = [unseen EXCEPT ![p] = @ \ {x}]
             /\ UNCHANGED <<pc, include, base, packet>>
    <2>1. OnlyOf(p)
      BY <1>1, <1>4 DEF OnlyOf, TypeOK, Quiet, Local, project, handoffVars
    <2>2. x \in Include \X File /\ x[2] \in File
      BY DEF TypeOK
    <2>3. TypeOK'
      BY <1>1, <1>4, <2>2 DEF TypeOK, Quiet, Local, project, handoffVars
    <2>4. Selectable(x[2], include[p])
      BY <1>4 DEF Selectable, CallOk
    <2>5. /\ unseen'[p] = unseen[p] \ {x} /\ selected'[p] = selected[p] \cup {x[2]}
          /\ pc' = pc /\ include' = include /\ base' = base /\ packet' = packet
      BY <1>4 DEF TypeOK
    <2>6. CallOk(p)'
      BY <1>1, <2>4, <2>5 DEF CallOk, Selectable
    <2> QED
      BY <2>1, <2>3, <2>6, OwnStep
  <1>5. CASE /\ unseen' = [unseen EXCEPT ![p] = @ \ {x}]
             /\ UNCHANGED <<pc, include, base, selected, packet>>
    <2>1. OnlyOf(p)
      BY <1>1, <1>5 DEF OnlyOf, TypeOK, Quiet, Local, project, handoffVars
    <2>2. TypeOK'
      BY <1>1, <1>5 DEF TypeOK, Quiet, Local, project, handoffVars
    <2>3. CallOk(p)'
      BY <1>1, <1>5 DEF TypeOK, CallOk, Selectable
    <2> QED
      BY <2>1, <2>2, <2>3, OwnStep
  <1> QED
    BY <1>2, <1>3, <1>4, <1>5

LEMMA EndWalkStep ==
  ASSUME IInv, NEW p \in Proc, EndWalk(p)
  PROVE  IInv'
  <1>0. Quiet
    BY QuietStep
  <1>1. CASE selected[p] = {}
    BY <1>0, <1>1, MoveStep DEF EndWalk, Building
  <1>2. CASE selected[p] # {}
    BY <1>0, <1>2, MoveStep DEF EndWalk, Building
  <1> QED
    BY <1>1, <1>2

LEMMA ReadFileStep ==
  ASSUME IInv, NEW p \in Proc, ReadFile(p)
  PROVE  IInv'
  <1>0. Quiet
    BY QuietStep
  <1> USE DEF IInv
  <1>1. Quiet /\ pc[p] = "read"
    BY <1>0 DEF ReadFile, At
  <1>2. PICK f \in selected[p] \ DOMAIN packet[p] :
          \/ /\ Readable(f)
             /\ packet' = [packet EXCEPT ![p] = With(@, f, work[f])]
             /\ Goto(p, IF DOMAIN packet'[p] = selected[p] THEN "bind" ELSE "read")
             /\ UNCHANGED <<include, base, unseen, selected>>
          \/ Refuse(p)
    BY DEF ReadFile
  <1>3. CASE Refuse(p)
    BY <1>1, <1>3, RefuseStep
  <1>4. CASE /\ Readable(f)
             /\ packet' = [packet EXCEPT ![p] = With(@, f, work[f])]
             /\ Goto(p, IF DOMAIN packet'[p] = selected[p] THEN "bind" ELSE "read")
             /\ UNCHANGED <<include, base, unseen, selected>>
    <2>1. OnlyOf(p)
      BY <1>1, <1>4 DEF OnlyOf, Goto, TypeOK, Quiet, Local, project, handoffVars
    <2>2. f \in File /\ work[f] \in Content /\ work[f] \notin Unsafe /\ packet[p] \in Tree
      BY <1>4, TreeType DEF TypeOK, Readable
    <2>3. With(packet[p], f, work[f]) \in Tree
      BY <2>2, WithType
    <2>4. /\ packet'[p] = With(packet[p], f, work[f])
          /\ pc'[p] \in {"bind", "read"}
          /\ include' = include /\ base' = base /\ unseen' = unseen /\ selected' = selected
      BY <1>4 DEF TypeOK, Goto
    <2>5. TypeOK'
      BY <1>1, <1>4, <2>3 DEF TypeOK, Goto, Quiet, Local, project, handoffVars, Building
    <2>6. /\ DOMAIN packet'[p] = DOMAIN packet[p] \cup {f}
          /\ \A g \in DOMAIN packet'[p] :
               packet'[p][g] = IF g = f THEN work[f] ELSE packet[p][g]
      BY <2>4 DEF With
    <2>7. CallOk(p)'
      BY <2>2, <2>4, <2>6 DEF CallOk, Selectable
    <2> QED
      BY <2>1, <2>5, <2>7, OwnStep
  <1> QED
    BY <1>2, <1>3, <1>4

LEMMA BindStep ==
  ASSUME IInv, NEW p \in Proc, Bind(p)
  PROVE  IInv'
  <1>0. Quiet
    BY QuietStep
  <1>1. Quiet /\ DOMAIN packet[p] # {}
    BY <1>0 DEF Bind, At, IInv, CallOk
  <1>2. CASE Refuse(p)
    BY <1>1, <1>2, RefuseStep
  <1>3. CASE MatchesCommit(p) /\ Goto(p, "head2") /\ UNCHANGED locals
    <2>1. AtCommit(packet[p], base[p])
      BY <1>3 DEF MatchesCommit, AtCommit
    <2> QED
      BY <1>1, <1>3, <2>1, MoveStep DEF Building
  <1> QED
    BY <1>2, <1>3 DEF Bind, Fails

LEMMA ReadHeadAgainStep ==
  ASSUME IInv, NEW p \in Proc, ReadHeadAgain(p)
  PROVE  IInv'
  <1>0. Quiet
    BY QuietStep
  <1>1. Quiet /\ DOMAIN packet[p] # {} /\ AtCommit(packet[p], base[p])
    BY <1>0 DEF ReadHeadAgain, At, IInv, CallOk
  <1>2. CASE Refuse(p)
    BY <1>1, <1>2, RefuseStep
  <1>3. CASE Goto(p, "status2") /\ UNCHANGED locals
    BY <1>1, <1>3, MoveStep DEF Building
  <1> QED
    BY <1>2, <1>3 DEF ReadHeadAgain, Fails

LEMMA ReadStatusAgainStep ==
  ASSUME IInv, NEW p \in Proc, ReadStatusAgain(p)
  PROVE  IInv'
  <1>0. Quiet
    BY QuietStep
  <1>1. Quiet /\ DOMAIN packet[p] # {} /\ AtCommit(packet[p], base[p])
    BY <1>0 DEF ReadStatusAgain, At, IInv, CallOk
  <1>2. CASE Refuse(p)
    BY <1>1, <1>2, RefuseStep
  <1>3. CASE Goto(p, "publish") /\ UNCHANGED locals
    BY <1>1, <1>3, MoveStep DEF Building
  <1> QED
    BY <1>2, <1>3 DEF ReadStatusAgain, Fails

(* The only step that adds a handoff: it records what the call found out.  *)
LEMMA PublishStep ==
  ASSUME IInv, NEW p \in Proc, Publish(p)
  PROVE  IInv'
  <1> USE DEF IInv
  <1>1. CASE Refuse(p) /\ UNCHANGED handoffs
    BY <1>1, RefuseStep DEF Publish, Fails, Fine, Quiet, Local, handoffVars, project
  <1> DEFINE h == [commit |-> base[p], include |-> include[p],
                   packet |-> packet[p], calm |-> p \in calm]
  <1>2. CASE handoffs' = Append(handoffs, h) /\ Goto(p, "harden") /\ UNCHANGED locals
    <2>1. /\ pc[p] = "publish" /\ CallOk(p) /\ AtCommit(packet[p], base[p])
          /\ UNCHANGED <<project, orphans, told, mishaps, calm>>
      BY <1>2 DEF Publish, At, CallOk, Fine, Refuse, Goto, TypeOK
    <2>2. packet[p] \in Tree \ {Empty} /\ base[p] \in 1..Len(trees)
      BY <2>1, EmptyType DEF TypeOK, CallOk
    <2>3. h \in Handoff
      BY <2>2 DEF Handoff, TypeOK
    <2>4. TypeOK'
      BY <1>2, <2>1, <2>3, AppendProperties DEF TypeOK, Goto, locals, project
    <2>5. HandoffOk(h)
      BY <2>1, <2>2 DEF HandoffOk, CallOk
    <2>6. \A n \in DOMAIN handoffs' :
            handoffs'[n] = IF n = Len(handoffs) + 1 THEN h ELSE handoffs[n]
      BY <1>2, <2>3 DEF TypeOK
    <2>7. \A n \in DOMAIN handoffs' : n \in DOMAIN handoffs \/ n = Len(handoffs) + 1
      BY <1>2, <2>3 DEF TypeOK
    <2>8. \A n \in DOMAIN handoffs' : HandoffOk(handoffs'[n])
      BY <2>5, <2>6, <2>7
    <2>9. \A n \in DOMAIN handoffs' : HandoffOk(handoffs[n])'
      BY <2>1, <2>8 DEF HandoffOk, AtCommit, project
    <2>10. \A q \in Proc : CallOk(q)'
      BY <1>2, <2>1 DEF CallOk, AtCommit, TypeOK, Goto, locals, project
    <2> QED
      BY <2>4, <2>9, <2>10
  <1> QED
    BY <1>1, <1>2 DEF Publish

LEMMA HardenStep ==
  ASSUME IInv, NEW p \in Proc, Harden(p)
  PROVE  IInv'
  BY EndStep DEF IInv, TypeOK, Harden

LEMMA CleanupStep ==
  ASSUME IInv, NEW p \in Proc, Cleanup(p)
  PROVE  IInv'
  BY LocalEnd, LeftBehindStep, DirectoryStep DEF Cleanup

LEMMA CrashStep ==
  ASSUME IInv, NEW p \in Proc, Crash(p)
  PROVE  IInv'
  BY EndStep DEF IInv, TypeOK, Crash

-----------------------------------------------------------------------------
(* A change of the project leaves every existing commit as it is, and that *)
(* is all the calls and the handoffs depend on.                            *)
LEMMA EditStep ==
  ASSUME IInv, Edit, trees' \in Seq(Tree), Len(trees') >= Len(trees),
         \A n \in 1..Len(trees) : trees'[n] = trees[n],
         head' \in 1..Len(trees'), work' \in Tree
  PROVE  IInv'
  <1> USE DEF IInv
  <1>1. TypeOK'
    BY PrepareAssumption DEF TypeOK, Edit, handoffVars, locals
  <1>2. ASSUME NEW p \in Proc PROVE CallOk(p)'
    BY DEF CallOk, AtCommit, TypeOK, Edit, locals
  <1>3. ASSUME NEW n \in DOMAIN handoffs' PROVE HandoffOk(handoffs[n])'
    <2>1. HandoffOk(handoffs[n]) /\ handoffs'[n] = handoffs[n]
      BY DEF Edit, handoffVars
    <2>2. handoffs[n].commit \in 1..Len(trees)
      BY <2>1 DEF HandoffOk
    <2> QED
      BY <2>1, <2>2 DEF HandoffOk, AtCommit, TypeOK
  <1> QED
    BY <1>1, <1>2, <1>3

LEMMA EditFileStep == ASSUME IInv, EditFile PROVE IInv'
  BY EditStep DEF IInv, TypeOK, EditFile

LEMMA CommitStep == ASSUME IInv, Commit PROVE IInv'
  <1>1. PICK t \in Tree : trees' = Append(trees, t)
    BY DEF Commit
  <1>2. /\ trees \in Seq(Tree) /\ work' \in Tree /\ head' = Len(trees) + 1
        /\ Len(trees) \in Nat /\ Edit
    BY DEF Commit, IInv, TypeOK
  <1>3. /\ trees' \in Seq(Tree) /\ Len(trees') = Len(trees) + 1
        /\ \A n \in 1..Len(trees) : trees'[n] = trees[n]
    BY <1>1, <1>2, AppendProperties
  <1> QED
    BY <1>2, <1>3, EditStep

LEMMA MoveHeadStep == ASSUME IInv, MoveHead PROVE IInv'
  BY EditStep DEF IInv, TypeOK, MoveHead

LEMMA NextInv == IInv /\ [Next]_vars => IInv'
  <1> SUFFICES ASSUME IInv, [Next]_vars PROVE IInv'
    OBVIOUS
  <1>1. CASE UNCHANGED vars
    <2>1. TypeOK'
      BY <1>1 DEF vars, project, handoffVars, locals, IInv, TypeOK
    <2>2. \A p \in Proc : CallOk(p)'
      BY <1>1 DEF vars, project, handoffVars, locals, IInv, CallOk, AtCommit
    <2>3. \A n \in DOMAIN handoffs' : HandoffOk(handoffs[n])'
      BY <1>1 DEF vars, project, handoffVars, IInv, HandoffOk, AtCommit
    <2> QED
      BY <2>1, <2>2, <2>3 DEF IInv
  <1>2. ASSUME NEW p \in Proc, Step(p) PROVE IInv'
    BY <1>2, ReadHeadStep, ReadStatusStep, CheckLimitStep, MakeDirectoryStep, LookStep,
       EndWalkStep, ReadFileStep, BindStep, ReadHeadAgainStep, ReadStatusAgainStep,
       PublishStep, HardenStep, CleanupStep DEF Step
  <1>3. ASSUME NEW p \in Proc, NEW S \in SUBSET Include, Call(p, S) PROVE IInv'
    BY <1>3, CallStep
  <1> QED
    BY <1>1, <1>2, <1>3, CrashStep, EditFileStep, CommitStep, MoveHeadStep DEF Next

(* The inductive invariant.                                                *)
THEOREM InvHolds == Spec => []IInv
  BY InitInv, NextInv, PTL DEF Spec

(* Every variable keeps its type; in particular no handoff is published    *)
(* with an empty file list, which _state would refuse.                     *)
THEOREM TypeCorrect == Spec => []TypeOK
  <1>1. IInv => TypeOK
    BY DEF IInv
  <1> QED
    BY <1>1, InvHolds, PTL

(* Every file of a published packet has the bytes it has in the commit the *)
(* handoff records, whatever happened to the project.                      *)
THEOREM PacketAtCommitHolds == Spec => []PacketAtCommit
  <1>1. IInv => PacketAtCommit
    BY DEF IInv, PacketAtCommit, Published, HandoffOk, AtCommit
  <1> QED
    BY <1>1, InvHolds, PTL

(* No published packet holds a denied file, a file outside the include     *)
(* list, or content the scanner refuses.                                   *)
THEOREM PacketIsSafeHolds == Spec => []PacketIsSafe
  <1>1. IInv => PacketIsSafe
    BY DEF IInv, PacketIsSafe, Published, HandoffOk, Selectable
  <1> QED
    BY <1>1, InvHolds, PTL

-----------------------------------------------------------------------------
(* How many directories there are: every step moves one call, so it is a   *)
(* matter of counting the calls at certain places.                         *)
InPlace(S) == {q \in Proc : pc[q] \in S}
Among(S) == Cardinality(InPlace(S))

LEMMA AmongType ==
  ASSUME NEW S
  PROVE  IsFiniteSet(InPlace(S)) /\ Among(S) \in Nat /\ Among(S) <= Cardinality(Proc)
  <1>1. InPlace(S) \in SUBSET Proc /\ IsFiniteSet(Proc)
    BY PrepareAssumption DEF InPlace
  <1> QED
    BY <1>1, FS_Subset, FS_CardinalityType DEF Among

LEMMA AmongMoves ==
  ASSUME TypeOK, NEW p \in Proc, NEW l, Goto(p, l), NEW S
  PROVE  Among(S)' = Among(S) - (IF pc[p] \in S THEN 1 ELSE 0) + (IF l \in S THEN 1 ELSE 0)
  <1>1. \A q \in Proc : pc'[q] = IF q = p THEN l ELSE pc[q]
    BY DEF Goto, TypeOK
  <1>2. IsFiniteSet(InPlace(S)) /\ Among(S) \in Nat /\ (p \in InPlace(S) <=> pc[p] \in S)
    BY AmongType DEF InPlace
  <1>3. CASE l \in S
    <2>1. InPlace(S)' = InPlace(S) \cup {p}
      BY <1>1, <1>3 DEF InPlace
    <2>2. Among(S)' = IF pc[p] \in S THEN Among(S) ELSE Among(S) + 1
      BY <1>2, <2>1, FS_AddElement DEF Among
    <2> QED
      BY <1>2, <1>3, <2>2
  <1>4. CASE l \notin S
    <2>1. InPlace(S)' = InPlace(S) \ {p}
      BY <1>1, <1>4 DEF InPlace
    <2>2. Among(S)' = IF pc[p] \in S THEN Among(S) - 1 ELSE Among(S)
      BY <1>2, <2>1, FS_RemoveElement DEF Among
    <2> QED
      BY <1>2, <1>4, <2>2
  <1> QED
    BY <1>3, <1>4

LEMMA AmongStays ==
  ASSUME UNCHANGED pc, NEW S
  PROVE  Among(S)' = Among(S)
  BY DEF Among, InPlace

(* A call between the limit check and its directory has a claim to one.    *)
Claims == Building \cup {"mkdir"}
RoomInv ==
  Len(handoffs) + orphans + Among(Claims) <= MaxHandoffs + Cardinality(Proc) - 1

(* A handoff not yet hardened is not yet accounted for.                    *)
Hardening == {"harden"}
AccountInv == orphans + Len(handoffs) = told + mishaps + Among(Hardening)

CountInv == RoomInv /\ AccountInv

LEMMA CountTypes ==
  ASSUME TypeOK
  PROVE  /\ Len(handoffs) \in Nat /\ orphans \in Nat /\ told \in Nat /\ mishaps \in Nat
         /\ Among(Claims) \in Nat /\ Among(Hardening) \in Nat
         /\ Cardinality(Proc) \in Nat /\ MaxHandoffs \in Nat \ {0}
  BY AmongType, PrepareAssumption, FS_CardinalityType DEF TypeOK

LEMMA CountInit == Init => CountInv
  <1> SUFFICES ASSUME Init PROVE CountInv
    OBVIOUS
  <1>1. InPlace(Claims) = {} /\ InPlace(Hardening) = {}
    BY DEF Init, InPlace, Claims, Building, Hardening
  <1>2. Cardinality(Proc) \in Nat /\ (Cardinality(Proc) = 0 <=> Proc = {})
    BY PrepareAssumption, FS_CardinalityType, FS_EmptySet
  <1>3. MaxHandoffs >= 1 /\ MaxHandoffs \in Nat /\ Len(handoffs) = 0
    BY PrepareAssumption DEF Init
  <1>4. Among(Claims) = 0 /\ Among(Hardening) = 0
    BY <1>1, FS_EmptySet DEF Among
  <1>5. orphans = 0 /\ told = 0 /\ mishaps = 0
    BY DEF Init
  <1> QED
    BY <1>2, <1>3, <1>4, <1>5 DEF CountInv, RoomInv, AccountInv

(* A step that counts nothing and takes no call to mkdir or harden.        *)
LEMMA CountLocal ==
  ASSUME TypeOK, CountInv, NEW p \in Proc, UNCHANGED handoffVars,
         \/ UNCHANGED pc
         \/ \E l : /\ Goto(p, l) /\ pc[p] # "harden" /\ l # "harden"
                   /\ l \in Claims => pc[p] \in Claims
  PROVE  CountInv'
  <1>1. /\ Among(Claims) \in Nat /\ Among(Hardening) \in Nat /\ Cardinality(Proc) \in Nat
        /\ Len(handoffs) \in Nat /\ orphans \in Nat /\ MaxHandoffs \in Nat
    BY CountTypes
  <1>2. CASE UNCHANGED pc
    BY <1>2, AmongStays DEF CountInv, RoomInv, AccountInv, handoffVars
  <1>3. ASSUME NEW l, Goto(p, l), pc[p] # "harden", l # "harden",
               l \in Claims => pc[p] \in Claims
        PROVE  CountInv'
    <2>1. /\ Among(Claims)' = Among(Claims) - (IF pc[p] \in Claims THEN 1 ELSE 0)
                                            + (IF l \in Claims THEN 1 ELSE 0)
          /\ Among(Hardening)' = Among(Hardening)
      BY <1>1, <1>3, AmongMoves DEF Hardening
    <2>2. Among(Claims)' <= Among(Claims) /\ Among(Claims)' \in Int
      BY <1>1, <1>3, <2>1
    <2>3. RoomInv'
      BY <1>1, <2>2 DEF CountInv, RoomInv, handoffVars
    <2> QED
      BY <2>1, <2>3 DEF CountInv, AccountInv, handoffVars
  <1> QED
    BY <1>2, <1>3

(* Fewer than MaxHandoffs directories, and the other claims are those of   *)
(* calls other than p.                                                     *)
LEMMA CountCheckLimit ==
  ASSUME TypeOK, CountInv, NEW p \in Proc, CheckLimit(p)
  PROVE  CountInv'
  <1>1. pc[p] = "limit" /\ UNCHANGED handoffVars
    BY DEF CheckLimit, At, Local
  <1>2. CASE ~HasRoom
    BY <1>1, <1>2, CountLocal DEF CheckLimit, End, Claims, Building
  <1>3. CASE HasRoom
    <2>1. Goto(p, "mkdir")
      BY <1>3 DEF CheckLimit
    <2>2. /\ Among(Building) \in Nat /\ Among({"mkdir"}) \in Nat
          /\ IsFiniteSet(InPlace(Building)) /\ IsFiniteSet(InPlace({"mkdir"}))
          /\ Among(Hardening) \in Nat /\ Cardinality(Proc) \in Nat
          /\ Among({"mkdir"})' <= Cardinality(Proc)
      <3>1. Among({"mkdir"})' <= Cardinality(Proc)
        <4>1. InPlace({"mkdir"})' \in SUBSET Proc
          BY DEF InPlace
        <4> QED
          BY <4>1, PrepareAssumption, FS_Subset DEF Among
      <3> QED
        BY <3>1, AmongType, PrepareAssumption, FS_CardinalityType
    <2>3. /\ Among({"mkdir"})' = Among({"mkdir"}) + 1
          /\ Among(Hardening)' = Among(Hardening)
          /\ Among(Claims)' = Among(Claims) + 1
      BY <1>1, <2>1, <2>2, AmongMoves, AmongType DEF Claims, Building, Hardening
    <2>4. Among(Claims) <= Among(Building) + Among({"mkdir"}) /\ Among(Claims) \in Nat
      <3>1. InPlace(Claims) = InPlace(Building) \cup InPlace({"mkdir"})
        BY DEF InPlace, Claims
      <3>2. InPlace(Building) \cap InPlace({"mkdir"}) = {}
        BY DEF InPlace, Building
      <3>3. Among(Claims) = Among(Building) + Among({"mkdir"}) - Cardinality({})
        BY <2>2, <3>1, <3>2, FS_Union DEF Among
      <3> QED
        BY <2>2, <3>3, FS_EmptySet
    <2>5. Len(handoffs) + orphans + Among(Building) <= MaxHandoffs - 1
      <3>1. Len(handoffs) + orphans + Among(Building) < MaxHandoffs
        BY <1>3 DEF HasRoom, Entries, Among, InPlace
      <3> QED
        BY <2>2, <3>1, PrepareAssumption DEF TypeOK
    <2>6. RoomInv'
      <3>1. /\ Len(handoffs) \in Nat /\ orphans \in Nat /\ MaxHandoffs \in Nat
            /\ Len(handoffs)' = Len(handoffs) /\ orphans' = orphans
        BY <1>1, CountTypes DEF handoffVars
      <3>2. Among({"mkdir"}) + 1 <= Cardinality(Proc)
        BY <2>2, <2>3
      <3>3. Len(handoffs) + orphans + (Among(Claims) + 1) <= MaxHandoffs + Cardinality(Proc) - 1
        BY <2>2, <2>4, <2>5, <3>1, <3>2
      <3> QED
        BY <2>3, <3>1, <3>3 DEF RoomInv
    <2> QED
      BY <1>1, <2>3, <2>6 DEF CountInv, AccountInv, handoffVars
  <1> QED
    BY <1>2, <1>3

LEMMA CountMoves ==
  ASSUME TypeOK, NEW p \in Proc, NEW l, Goto(p, l)
  PROVE  /\ Among(Claims) \in Nat /\ Among(Hardening) \in Nat
         /\ Among(Claims)' = Among(Claims) - (IF pc[p] \in Claims THEN 1 ELSE 0)
                                           + (IF l \in Claims THEN 1 ELSE 0)
         /\ Among(Hardening)' = Among(Hardening) - (IF pc[p] = "harden" THEN 1 ELSE 0)
                                                   + (IF l = "harden" THEN 1 ELSE 0)
  <1>1. /\ Among(Claims)' = Among(Claims) - (IF pc[p] \in Claims THEN 1 ELSE 0)
                                          + (IF l \in Claims THEN 1 ELSE 0)
        /\ Among(Hardening)' = Among(Hardening) - (IF pc[p] \in Hardening THEN 1 ELSE 0)
                                                  + (IF l \in Hardening THEN 1 ELSE 0)
    BY AmongMoves
  <1> QED
    BY <1>1, AmongType DEF Hardening

LEMMA CountPublish ==
  ASSUME TypeOK, CountInv, NEW p \in Proc, Publish(p)
  PROVE  CountInv'
  <1>1. pc[p] = "publish" /\ UNCHANGED <<orphans, told, mishaps>>
    BY DEF Publish, At
  <1>2. CASE Refuse(p) /\ UNCHANGED handoffs
    BY <1>1, <1>2, CountLocal DEF Refuse, handoffVars, Claims, Building
  <1>3. CASE \E h : handoffs' = Append(handoffs, h) /\ Goto(p, "harden")
    <2>1. Len(handoffs') = Len(handoffs) + 1 /\ Goto(p, "harden") /\ Len(handoffs) \in Nat
      BY <1>3 DEF TypeOK
    <2>2. /\ Among(Claims)' = Among(Claims) - 1 /\ Among(Claims) \in Nat
          /\ Among(Hardening)' = Among(Hardening) + 1 /\ Among(Hardening) \in Nat
      BY <1>1, <2>1, CountMoves DEF Claims, Building
    <2>3. Len(handoffs)' = Len(handoffs) + 1
      BY <2>1
    <2>4. RoomInv'
      <3>1. /\ Len(handoffs) + orphans + Among(Claims) <= MaxHandoffs + Cardinality(Proc) - 1
            /\ orphans \in Nat /\ MaxHandoffs \in Nat /\ Cardinality(Proc) \in Nat
        BY CountTypes DEF CountInv, RoomInv
      <3>2. Len(handoffs)' + orphans + Among(Claims)' <= MaxHandoffs + Cardinality(Proc) - 1
        BY <2>1, <2>2, <2>3, <3>1
      <3> QED
        BY <1>1, <3>2 DEF RoomInv
    <2>5. AccountInv'
      <3>1. /\ orphans + Len(handoffs) = told + mishaps + Among(Hardening)
            /\ orphans \in Nat /\ told \in Nat /\ mishaps \in Nat
        BY CountTypes DEF CountInv, AccountInv
      <3>2. orphans + Len(handoffs)' = told + mishaps + Among(Hardening)'
        BY <2>1, <2>2, <2>3, <3>1
      <3> QED
        BY <1>1, <3>2 DEF AccountInv
    <2> QED
      BY <2>4, <2>5 DEF CountInv
  <1> QED
    BY <1>2, <1>3 DEF Publish

LEMMA CountHarden ==
  ASSUME TypeOK, CountInv, NEW p \in Proc, Harden(p)
  PROVE  CountInv'
  <1>1. /\ pc[p] = "harden" /\ Goto(p, "idle") /\ UNCHANGED <<handoffs, orphans>>
        /\ \/ told' = told + 1 /\ mishaps' = mishaps
           \/ told' = told /\ mishaps' = mishaps + 1
    BY DEF Harden, At, End
  <1>2. /\ Among(Claims)' = Among(Claims)
        /\ Among(Hardening)' = Among(Hardening) - 1 /\ Among(Hardening) \in Nat
    BY <1>1, CountMoves DEF Claims, Building
  <1> QED
    BY <1>1, <1>2 DEF CountInv, RoomInv, AccountInv, TypeOK

LEMMA CountCrash ==
  ASSUME TypeOK, CountInv, NEW p \in Proc, Crash(p)
  PROVE  CountInv'
  <1>1. /\ Goto(p, "idle") /\ UNCHANGED <<handoffs, told>>
        /\ orphans' = orphans + (IF pc[p] \in Building THEN 1 ELSE 0)
        /\ mishaps' = mishaps + (IF pc[p] \in Building \cup {"harden"} THEN 1 ELSE 0)
    BY DEF Crash, End
  <1>2. /\ Among(Claims) \in Nat /\ Among(Hardening) \in Nat
        /\ Among(Claims)' = Among(Claims) - (IF pc[p] \in Claims THEN 1 ELSE 0)
        /\ Among(Hardening)' = Among(Hardening) - (IF pc[p] = "harden" THEN 1 ELSE 0)
    BY <1>1, CountMoves DEF Claims, Building
  <1>3. Len(handoffs)' = Len(handoffs)
    BY <1>1
  <1>4. CASE pc[p] \in Building
    <2>1. /\ orphans' = orphans + 1 /\ mishaps' = mishaps + 1 /\ told' = told
          /\ Among(Claims)' = Among(Claims) - 1 /\ Among(Hardening)' = Among(Hardening)
      BY <1>1, <1>2, <1>4 DEF Claims, Building
    <2>2. RoomInv'
      <3>1. /\ Len(handoffs) + orphans + Among(Claims) <= MaxHandoffs + Cardinality(Proc) - 1
            /\ orphans \in Nat /\ MaxHandoffs \in Nat /\ Cardinality(Proc) \in Nat
            /\ Len(handoffs) \in Nat /\ Among(Claims) \in Nat
        BY CountTypes DEF CountInv, RoomInv
      <3> QED
        BY <1>3, <2>1, <3>1 DEF RoomInv
    <2>3. orphans + Len(handoffs) = told + mishaps + Among(Hardening)
      BY DEF CountInv, AccountInv
    <2>4. (orphans + 1) + Len(handoffs) = told + (mishaps + 1) + Among(Hardening)
      <3>1. /\ orphans \in Nat /\ told \in Nat /\ mishaps \in Nat
            /\ Len(handoffs) \in Nat /\ Among(Hardening) \in Nat
        BY CountTypes
      <3> QED
        BY <2>3, <3>1
    <2>5. AccountInv'
      BY <1>3, <2>1, <2>4 DEF AccountInv
    <2> QED
      BY <2>2, <2>5 DEF CountInv
  <1>5. CASE pc[p] \notin Building
    <2>1. /\ orphans' = orphans + 0 /\ told' = told
          /\ mishaps' = mishaps + (IF pc[p] = "harden" THEN 1 ELSE 0)
          /\ Among(Claims)' <= Among(Claims) /\ Among(Claims)' \in Int
      BY <1>1, <1>2, <1>5
    <2>2. RoomInv'
      <3>1. /\ Len(handoffs) + orphans + Among(Claims) <= MaxHandoffs + Cardinality(Proc) - 1
            /\ orphans \in Nat /\ MaxHandoffs \in Nat /\ Cardinality(Proc) \in Nat
            /\ Len(handoffs) \in Nat /\ Among(Claims) \in Nat
        BY CountTypes DEF CountInv, RoomInv
      <3> QED
        BY <1>3, <2>1, <3>1 DEF RoomInv
    <2>3. AccountInv'
      <3>1. /\ orphans + Len(handoffs) = told + mishaps + Among(Hardening)
            /\ orphans \in Nat /\ told \in Nat /\ mishaps \in Nat /\ Len(handoffs) \in Nat
        BY CountTypes DEF CountInv, AccountInv
      <3>2. CASE pc[p] = "harden"
        <4>1. mishaps' = mishaps + 1 /\ Among(Hardening)' = Among(Hardening) - 1
              /\ Among(Hardening) \in Nat
          BY <1>2, <2>1, <3>2
        <4>2. orphans + Len(handoffs) = told + (mishaps + 1) + (Among(Hardening) - 1)
          BY <3>1, <4>1
        <4>3. orphans' = orphans /\ told' = told
          BY <2>1, <3>1
        <4> QED
          BY <1>3, <4>1, <4>2, <4>3 DEF AccountInv
      <3>3. CASE pc[p] # "harden"
        <4>1. mishaps' = mishaps + 0 /\ Among(Hardening)' = Among(Hardening) - 0
              /\ Among(Hardening) \in Nat
          BY <1>2, <2>1, <3>3
        <4>2. mishaps' = mishaps /\ Among(Hardening)' = Among(Hardening) /\ orphans' = orphans
              /\ told' = told
          BY <2>1, <3>1, <4>1
        <4> QED
          BY <1>3, <3>1, <4>2 DEF AccountInv
      <3> QED
        BY <3>2, <3>3
    <2> QED
      BY <2>2, <2>3 DEF CountInv
  <1> QED
    BY <1>4, <1>5

(* A directory that stays takes the place of the call that made it.        *)
LEMMA CountLeaves ==
  ASSUME TypeOK, CountInv, NEW p \in Proc, pc[p] \in Claims, LeftBehind(p)
  PROVE  CountInv'
  <1>1. Goto(p, "idle") /\ Len(handoffs)' = Len(handoffs)
    BY DEF LeftBehind, Leaves, End
  <1>2. /\ orphans' = orphans + 1 /\ mishaps' = mishaps + 1 /\ told' = told
        /\ Among(Claims)' = Among(Claims) - 1 /\ Among(Hardening)' = Among(Hardening)
    BY <1>1, CountMoves DEF LeftBehind, Leaves, Claims, Building
  <1>3. RoomInv'
    <2>1. /\ Len(handoffs) + orphans + Among(Claims) <= MaxHandoffs + Cardinality(Proc) - 1
          /\ orphans \in Nat /\ MaxHandoffs \in Nat /\ Cardinality(Proc) \in Nat
          /\ Len(handoffs) \in Nat /\ Among(Claims) \in Nat
      BY CountTypes DEF CountInv, RoomInv
    <2> QED
      BY <1>1, <1>2, <2>1 DEF RoomInv
  <1>4. (orphans + 1) + Len(handoffs) = told + (mishaps + 1) + Among(Hardening)
    <2>1. /\ orphans + Len(handoffs) = told + mishaps + Among(Hardening)
          /\ orphans \in Nat /\ told \in Nat /\ mishaps \in Nat
          /\ Len(handoffs) \in Nat /\ Among(Hardening) \in Nat
      BY CountTypes DEF CountInv, AccountInv
    <2> QED
      BY <2>1
  <1>5. AccountInv'
    BY <1>1, <1>2, <1>4 DEF AccountInv
  <1> QED
    BY <1>3, <1>5 DEF CountInv

LEMMA CountStep ==
  ASSUME TypeOK, CountInv, NEW p \in Proc, Step(p)
  PROVE  CountInv'
  <1> USE DEF At, Goto, End, Refuse, Local, Fails, Claims, Building
  <1>1. CASE ReadHead(p)
    BY <1>1, CountLocal DEF ReadHead
  <1>2. CASE ReadStatus(p)
    BY <1>2, CountLocal DEF ReadStatus
  <1>3. CASE MakeDirectory(p)
    <2>1. pc[p] = "mkdir" /\ (Quiet \/ LeftBehind(p))
      BY <1>3, DirectoryStep DEF MakeDirectory
    <2>2. CASE LeftBehind(p)
      BY <2>1, <2>2, CountLeaves
    <2>3. CASE Quiet
      BY <1>3, <2>1, <2>3, CountLocal DEF MakeDirectory, Quiet
    <2> QED
      BY <2>1, <2>2, <2>3
  <1>4. CASE Look(p)
    BY <1>4, CountLocal DEF Look
  <1>5. CASE EndWalk(p)
    BY <1>5, CountLocal DEF EndWalk
  <1>6. CASE ReadFile(p)
    BY <1>6, CountLocal DEF ReadFile
  <1>7. CASE Bind(p)
    BY <1>7, CountLocal DEF Bind
  <1>8. CASE ReadHeadAgain(p)
    BY <1>8, CountLocal DEF ReadHeadAgain
  <1>9. CASE ReadStatusAgain(p)
    BY <1>9, CountLocal DEF ReadStatusAgain
  <1>10. CASE Cleanup(p)
    <2>1. pc[p] = "cleanup" /\ (Quiet \/ LeftBehind(p))
      BY <1>10, DirectoryStep DEF Cleanup
    <2>2. CASE LeftBehind(p)
      BY <2>1, <2>2, CountLeaves
    <2>3. CASE Quiet
      BY <1>10, <2>1, <2>3, CountLocal DEF Cleanup, Quiet
    <2> QED
      BY <2>1, <2>2, <2>3
  <1> QED
    BY <1>1, <1>2, <1>3, <1>4, <1>5, <1>6, <1>7, <1>8, <1>9, <1>10,
       CountCheckLimit, CountPublish, CountHarden DEF Step

LEMMA CountNext == TypeOK /\ CountInv /\ [Next]_vars => CountInv'
  <1> SUFFICES ASSUME TypeOK, CountInv, [Next]_vars PROVE CountInv'
    OBVIOUS
  <1>1. CASE UNCHANGED <<handoffVars, pc>>
    BY <1>1, AmongStays DEF CountInv, RoomInv, AccountInv, handoffVars
  <1>2. ASSUME NEW p \in Proc, NEW S, Call(p, S) PROVE CountInv'
    BY <1>2, CountLocal DEF Call, At, Claims, Building
  <1>3. CASE EditFile \/ Commit \/ MoveHead
    BY <1>1, <1>3 DEF EditFile, Commit, MoveHead, Edit
  <1>4. CASE UNCHANGED vars
    BY <1>1, <1>4 DEF vars
  <1> QED
    BY <1>2, <1>3, <1>4, CountStep, CountCrash DEF Next

(* The count of entries and claims behind LimitHolds.                      *)
THEOREM CountHolds == Spec => []CountInv
  BY CountInit, CountNext, TypeCorrect, PTL DEF Spec

(* However many calls race between the check of MAX_HANDOFFS and the       *)
(* making of the directory, and however many die, handoffs/ has at most    *)
(* one directory too many for every call but one.                          *)
THEOREM LimitHoldsAlways == Spec => []LimitHolds
  <1>1. TypeOK /\ CountInv => LimitHolds
    <2> SUFFICES ASSUME TypeOK, CountInv PROVE LimitHolds
      OBVIOUS
    <2>1. InPlace(Building) \in SUBSET InPlace(Claims) /\ IsFiniteSet(InPlace(Claims))
      BY AmongType DEF InPlace, Claims
    <2>2. Among(Building) <= Among(Claims) /\ Among(Building) \in Nat /\ Among(Claims) \in Nat
      BY <2>1, AmongType, FS_Subset DEF Among
    <2>3. Entries = Len(handoffs) + orphans + Among(Building)
      BY DEF Entries, Among, InPlace
    <2>4. Cardinality(Proc) \in Nat /\ MaxHandoffs \in Nat /\ Len(handoffs) \in Nat
      BY PrepareAssumption, FS_CardinalityType DEF TypeOK
    <2> QED
      BY <2>2, <2>3, <2>4 DEF LimitHolds, CountInv, RoomInv, TypeOK
  <1> QED
    BY <1>1, CountHolds, TypeCorrect, PTL

(* Whatever is refused, fails, dies or races: when no call is running,     *)
(* there are as many unannounced entries in handoffs/ as there were deaths *)
(* and uncaught exceptions with an entry, failed chmods of a new           *)
(* directory, failed removals and failed last hardenings.                  *)
THEOREM FailureLeavesNothingHolds == Spec => []FailureLeavesNothing
  <1>1. TypeOK /\ CountInv => FailureLeavesNothing
    <2> SUFFICES ASSUME TypeOK, CountInv, \A p \in Proc : At(p, "idle")
                 PROVE  orphans + (Len(handoffs) - told) = mishaps
      BY DEF FailureLeavesNothing
    <2>1. InPlace(Hardening) = {}
      BY DEF InPlace, At, Hardening
    <2>2. Among(Hardening) = 0
      BY <2>1, FS_EmptySet DEF Among
    <2> QED
      BY <2>2 DEF CountInv, AccountInv, TypeOK
  <1> QED
    BY <1>1, CountHolds, TypeCorrect, PTL

-----------------------------------------------------------------------------
(* What a call sees while nothing fails and nobody edits: the project it   *)
(* saw first.                                                              *)
Chosen(p) ==
  {x \in include[p] \X File : x[2] \in Covers[x[1]] /\ x[2] \in DOMAIN work}

Packed == {"bind", "head2", "status2", "publish"}

QuietOk(p) ==
  /\ pc[p] # "idle" => include[p] # {}
  /\ pc[p] \notin {"idle", "head"} => base[p] = head
  /\ pc[p] \in {"limit", "mkdir", "walk", "read"} \cup Packed => Clean
  /\ selected[p] \subseteq DOMAIN work
  /\ pc[p] = "walk" => \A x \in Chosen(p) : x \in unseen[p] \/ x[2] \in selected[p]
  /\ pc[p] \in {"read"} \cup Packed => \A x \in Chosen(p) : x[2] \in selected[p]
  /\ \A f \in DOMAIN packet[p] : f \in DOMAIN work /\ packet[p][f] = work[f]
  /\ pc[p] \in Packed => DOMAIN packet[p] = selected[p]
  /\ pc[p] = "cleanup" => ~HonestInclude(include[p])

QuietInv == \A p \in calm : pc[p] # "harden" => QuietOk(p)

LEMMA QuietInit == Init => QuietInv
  BY DEF Init, QuietInv

(* A step of call p that leaves the project as it is. *)
LEMMA QuietOwn ==
  ASSUME QuietInv, TypeOK, NEW p \in Proc, UNCHANGED project, calm' \subseteq calm \cup {p},
         \A q \in Proc \ {p} :
           /\ pc'[q] = pc[q] /\ include'[q] = include[q] /\ base'[q] = base[q]
           /\ unseen'[q] = unseen[q] /\ selected'[q] = selected[q]
           /\ packet'[q] = packet[q],
         p \in calm' /\ pc'[p] # "harden" => QuietOk(p)'
  PROVE  QuietInv'
  <1> SUFFICES ASSUME NEW q \in calm', pc'[q] # "harden" PROVE QuietOk(q)'
    BY DEF QuietInv
  <1>1. CASE q = p
    BY <1>1
  <1>2. CASE q # p
    <2>1. q \in Proc \ {p} /\ q \in calm /\ pc[q] # "harden" /\ QuietOk(q)
      BY <1>2 DEF QuietInv, TypeOK
    <2>2. Chosen(q)' = Chosen(q) /\ Clean' = Clean
      BY <2>1 DEF Chosen, Clean, project
    <2>3. HonestInclude(include[q])' = HonestInclude(include[q])
      BY <2>1 DEF HonestInclude, project
    <2> QED
      BY <2>1, <2>2, <2>3 DEF QuietOk, project
  <1> QED
    BY <1>1, <1>2

(* The end of a call. *)
LEMMA QuietEnd ==
  ASSUME QuietInv, TypeOK, NEW p \in Proc, End(p), UNCHANGED project, calm' \subseteq calm
  PROVE  QuietInv'
  <1>1. /\ pc'[p] = "idle" /\ selected'[p] = {} /\ packet'[p] = Empty
        /\ \A q \in Proc \ {p} :
             /\ pc'[q] = pc[q] /\ include'[q] = include[q] /\ base'[q] = base[q]
             /\ unseen'[q] = unseen[q] /\ selected'[q] = selected[q]
             /\ packet'[q] = packet[q]
    BY DEF End, Goto, TypeOK
  <1>2. QuietOk(p)'
    BY <1>1, EmptyType DEF QuietOk, Packed
  <1> QED
    BY <1>1, <1>2, QuietOwn

(* A step that only moves call p on; what its new place requires holds. *)
LEMMA QuietMove ==
  ASSUME QuietInv, TypeOK, NEW p \in Proc, NEW l, Goto(p, l), UNCHANGED locals,
         UNCHANGED project, calm' \subseteq calm,
         pc[p] \notin {"idle", "head", "harden"}, l # "walk",
         p \in calm' =>
           /\ l \in {"limit", "mkdir", "read"} \cup Packed => Clean
           /\ l \in {"read"} \cup Packed => \A x \in Chosen(p) : x[2] \in selected[p]
           /\ l \in Packed => DOMAIN packet[p] = selected[p]
           /\ l = "cleanup" => ~HonestInclude(include[p])
  PROVE  QuietInv'
  <1>1. /\ pc'[p] = l
        /\ \A q \in Proc \ {p} :
             /\ pc'[q] = pc[q] /\ include'[q] = include[q] /\ base'[q] = base[q]
             /\ unseen'[q] = unseen[q] /\ selected'[q] = selected[q]
             /\ packet'[q] = packet[q]
    BY DEF Goto, TypeOK, locals
  <1>2. Chosen(p)' = Chosen(p) /\ Clean' = Clean
    BY DEF Chosen, Clean, project, locals
  <1>3. HonestInclude(include[p])' = HonestInclude(include[p])
    BY DEF HonestInclude, project, locals
  <1>4. ASSUME p \in calm' PROVE QuietOk(p)'
    <2>1. QuietOk(p)
      BY <1>4 DEF QuietInv
    <2>2. /\ l \in {"limit", "mkdir", "walk", "read"} \cup Packed => Clean'
          /\ l \in {"read"} \cup Packed => \A x \in Chosen(p)' : x[2] \in selected'[p]
          /\ l \in Packed => DOMAIN packet'[p] = selected'[p]
          /\ l = "cleanup" => ~HonestInclude(include[p])'
      BY <1>2, <1>3, <1>4 DEF locals
    <2> QED
      BY <1>1, <2>1, <2>2 DEF QuietOk, project, locals
  <1> QED
    BY <1>1, <1>4, QuietOwn

(* An include that is not honest shows in the file that call p met.        *)
LEMMA NotHonest ==
  ASSUME NEW S, NEW i \in S, NEW f \in Covers[i], f \in DOMAIN work,
         \/ f \in DeniedFile \/ work[f] \in Unsafe
         \/ ~(f \in DOMAIN trees[head] /\ work[f] = trees[head][f])
  PROVE  ~HonestInclude(S)
  BY DEF HonestInclude

LEMMA QuietLook ==
  ASSUME IInv, QuietInv, NEW p \in Proc, Look(p)
  PROVE  QuietInv'
  <1>1. /\ TypeOK /\ pc[p] = "walk" /\ UNCHANGED project /\ calm' \subseteq calm
        /\ (p \in calm' => p \in calm /\ QuietOk(p))
    <2>1. calm' \subseteq calm /\ UNCHANGED project
      BY QuietStep DEF Quiet, Local
    <2> QED
      BY <2>1 DEF IInv, Look, At, QuietInv
  <1>2. PICK x \in unseen[p] :
          \/ /\ x[2] \in DOMAIN work
             /\ selected' = [selected EXCEPT ![p] = @ \cup {x[2]}]
             /\ unseen' = [unseen EXCEPT ![p] = @ \ {x}]
             /\ UNCHANGED <<pc, include, base, packet>>
          \/ /\ p \in calm' => x[2] \notin DOMAIN work
             /\ unseen' = [unseen EXCEPT ![p] = @ \ {x}]
             /\ UNCHANGED <<pc, include, base, selected, packet>>
          \/ /\ p \in calm' =>
                  IF x[2] \in DOMAIN work THEN x[2] \in DeniedFile ELSE Missed(p, x[1])
             /\ Refuse(p)
    BY DEF Look, MaySkip, Fails
  <1>3. x[1] \in include[p] /\ x[2] \in Covers[x[1]] /\ x[1] \in Include
    BY DEF IInv, CallOk, TypeOK
  <1>4. CASE /\ \/ x[2] \in DOMAIN work /\ selected' = [selected EXCEPT ![p] = @ \cup {x[2]}]
                \/ (p \in calm' => x[2] \notin DOMAIN work) /\ selected' = selected
             /\ unseen' = [unseen EXCEPT ![p] = @ \ {x}]
             /\ UNCHANGED <<pc, include, base, packet>>
    <2>1. /\ \A q \in Proc \ {p} :
               /\ pc'[q] = pc[q] /\ include'[q] = include[q] /\ base'[q] = base[q]
               /\ unseen'[q] = unseen[q] /\ selected'[q] = selected[q]
               /\ packet'[q] = packet[q]
          /\ unseen'[p] = unseen[p] \ {x}
          /\ \/ x[2] \in DOMAIN work /\ selected'[p] = selected[p] \cup {x[2]}
             \/ (p \in calm' => x[2] \notin DOMAIN work) /\ selected'[p] = selected[p]
      BY <1>1, <1>4 DEF TypeOK
    <2>2. ASSUME p \in calm' PROVE QuietOk(p)'
      <3>1. Chosen(p)' = Chosen(p) /\ Clean' = Clean
        BY <1>1, <1>4 DEF Chosen, Clean, project
      <3>2. \A y \in Chosen(p) : y # x => y \in unseen'[p] \/ y[2] \in selected'[p]
        BY <1>1, <2>1, <2>2 DEF QuietOk
      <3>3. x \in Chosen(p) => x[2] \in selected'[p]
        BY <2>1, <2>2 DEF Chosen
      <3> QED
        BY <1>1, <1>4, <2>1, <2>2, <3>1, <3>2, <3>3 DEF QuietOk, Packed, project
    <2> QED
      BY <1>1, <2>1, <2>2, QuietOwn
  <1>5. CASE /\ p \in calm' =>
                  IF x[2] \in DOMAIN work THEN x[2] \in DeniedFile ELSE Missed(p, x[1])
             /\ Refuse(p)
    <2>1. ASSUME p \in calm' PROVE ~HonestInclude(include[p])
      <3>1. CASE x[2] \in DOMAIN work
        BY <1>3, <1>5, <2>1, <3>1, NotHonest
      <3>2. CASE x[2] \notin DOMAIN work
        <4>1. Covers[x[1]] \cap DOMAIN work = {}
          BY <1>1, <1>3, <1>5, <2>1, <3>2, PrepareAssumption DEF Missed
        <4> QED
          BY <1>3, <4>1 DEF HonestInclude
      <3> QED
        BY <3>1, <3>2
    <2> QED
      BY <1>1, <1>5, <2>1, QuietMove DEF Refuse, Packed
  <1> QED
    BY <1>2, <1>4, <1>5

LEMMA QuietEndWalk ==
  ASSUME IInv, QuietInv, NEW p \in Proc, EndWalk(p)
  PROVE  QuietInv'
  <1>1. /\ TypeOK /\ pc[p] = "walk" /\ UNCHANGED project /\ calm' = calm
        /\ unseen[p] = {} /\ UNCHANGED locals
        /\ (p \in calm => QuietOk(p))
    BY DEF IInv, EndWalk, At, Local, Fine, QuietInv
  <1>2. p \in calm => Clean /\ \A x \in Chosen(p) : x[2] \in selected[p]
    BY <1>1 DEF QuietOk
  <1>3. CASE selected[p] # {}
    BY <1>1, <1>2, <1>3, QuietMove DEF EndWalk, Packed
  <1>4. CASE selected[p] = {}
    <2>1. ASSUME p \in calm PROVE ~HonestInclude(include[p])
      <3>1. PICK i \in include[p] : i \in Include
        BY <1>1, <2>1 DEF QuietOk, TypeOK
      <3>2. \A f \in Covers[i] \cap DOMAIN work : <<i, f>> \in Chosen(p)
        BY <3>1, PrepareAssumption DEF Chosen
      <3>3. Covers[i] \cap DOMAIN work = {}
        BY <1>2, <1>4, <2>1, <3>2
      <3> QED
        BY <3>1, <3>3 DEF HonestInclude
    <2> QED
      BY <1>1, <1>4, <2>1, QuietMove DEF EndWalk, Packed
  <1> QED
    BY <1>3, <1>4

LEMMA QuietReadFile ==
  ASSUME IInv, QuietInv, NEW p \in Proc, ReadFile(p)
  PROVE  QuietInv'
  <1>1. /\ TypeOK /\ pc[p] = "read" /\ UNCHANGED project /\ calm' \subseteq calm
        /\ (p \in calm' => p \in calm /\ QuietOk(p))
    <2>1. calm' \subseteq calm /\ UNCHANGED project
      BY QuietStep DEF Quiet, Local
    <2> QED
      BY <2>1 DEF IInv, ReadFile, At, QuietInv
  <1>2. PICK f \in selected[p] \ DOMAIN packet[p] :
          \/ /\ Readable(f)
             /\ packet' = [packet EXCEPT ![p] = With(@, f, work[f])]
             /\ Goto(p, IF DOMAIN packet'[p] = selected[p] THEN "bind" ELSE "read")
             /\ UNCHANGED <<include, base, unseen, selected>>
          \/ /\ p \in calm' => ~Readable(f)
             /\ Refuse(p)
    BY DEF ReadFile, Fails, Fine
  <1>3. CASE /\ Readable(f)
             /\ packet' = [packet EXCEPT ![p] = With(@, f, work[f])]
             /\ Goto(p, IF DOMAIN packet'[p] = selected[p] THEN "bind" ELSE "read")
             /\ UNCHANGED <<include, base, unseen, selected>>
    <2>1. /\ \A q \in Proc \ {p} :
               /\ pc'[q] = pc[q] /\ include'[q] = include[q] /\ base'[q] = base[q]
               /\ unseen'[q] = unseen[q] /\ selected'[q] = selected[q]
               /\ packet'[q] = packet[q]
          /\ packet'[p] = With(packet[p], f, work[f])
          /\ pc'[p] = IF DOMAIN packet'[p] = selected[p] THEN "bind" ELSE "read"
      BY <1>1, <1>3 DEF TypeOK, Goto
    <2>2. /\ DOMAIN packet'[p] = DOMAIN packet[p] \cup {f}
          /\ \A g \in DOMAIN packet'[p] :
               packet'[p][g] = IF g = f THEN work[f] ELSE packet[p][g]
      BY <2>1 DEF With
    <2>3. ASSUME p \in calm' PROVE QuietOk(p)'
      <3>1. Chosen(p)' = Chosen(p) /\ Clean' = Clean
        BY <1>1, <1>3 DEF Chosen, Clean, project
      <3>2. \A g \in DOMAIN packet'[p] : g \in DOMAIN work /\ packet'[p][g] = work[g]
        BY <1>1, <1>3, <2>2, <2>3 DEF QuietOk, Readable
      <3> QED
        BY <1>1, <1>3, <2>1, <2>3, <3>1, <3>2 DEF QuietOk, Packed, project
    <2> QED
      BY <1>1, <2>1, <2>3, QuietOwn
  <1>4. CASE (p \in calm' => ~Readable(f)) /\ Refuse(p)
    <2>1. ASSUME p \in calm' PROVE ~HonestInclude(include[p])
      <3>1. f \in DOMAIN work /\ work[f] \in Unsafe
        BY <1>1, <1>4, <2>1 DEF QuietOk, Readable
      <3>2. \E i \in include[p] : f \in Covers[i]
        BY DEF IInv, CallOk, Selectable
      <3> QED
        BY <3>1, <3>2, NotHonest
    <2> QED
      BY <1>1, <1>4, <2>1, QuietMove DEF Refuse, Packed
  <1> QED
    BY <1>2, <1>3, <1>4

(* Comparing with the commit, looking again, publishing.                   *)
LEMMA QuietChecks ==
  ASSUME IInv, QuietInv, NEW p \in Proc,
         Bind(p) \/ ReadHeadAgain(p) \/ ReadStatusAgain(p) \/ Publish(p)
  PROVE  QuietInv'
  <1>1. /\ TypeOK /\ pc[p] \in Packed /\ UNCHANGED project /\ calm' \subseteq calm
        /\ (p \in calm => QuietOk(p))
    BY DEF IInv, Bind, ReadHeadAgain, ReadStatusAgain, Publish, At, Local, Fine, Fails,
           Packed, QuietInv
  <1>2. CASE Refuse(p) /\ ~(p \in calm' /\ HonestInclude(include[p]))
    BY <1>1, <1>2, QuietMove DEF Refuse, Packed
  <1>3. CASE \E l \in Packed : Goto(p, l) /\ UNCHANGED locals
    <2>1. p \in calm => /\ Clean /\ DOMAIN packet[p] = selected[p]
                        /\ \A x \in Chosen(p) : x[2] \in selected[p]
      BY <1>1 DEF QuietOk
    <2>2. PICK l \in Packed : Goto(p, l) /\ UNCHANGED locals
      BY <1>3
    <2>3. l # "walk" /\ l # "cleanup" /\ pc[p] \notin {"idle", "head", "harden"}
      BY <1>1 DEF Packed
    <2> QED
      BY <1>1, <2>1, <2>2, <2>3, QuietMove
  <1>4. CASE Goto(p, "harden") /\ UNCHANGED locals
    BY <1>1, <1>4, QuietOwn DEF Goto, locals, TypeOK
  <1>5. CASE Bind(p)
    <2>1. ASSUME p \in calm, ~MatchesCommit(p) PROVE ~HonestInclude(include[p])
      <3>1. PICK f \in DOMAIN packet[p] :
              ~(f \in DOMAIN trees[base[p]] /\ trees[base[p]][f] = packet[p][f])
        BY <2>1 DEF MatchesCommit
      <3>2. f \in DOMAIN work /\ packet[p][f] = work[f] /\ base[p] = head
        BY <1>1, <2>1 DEF QuietOk, Packed
      <3>3. \E i \in include[p] : f \in Covers[i]
        BY DEF IInv, CallOk, Selectable
      <3> QED
        BY <3>1, <3>2, <3>3, NotHonest
    <2> QED
      BY <1>2, <1>3, <1>5, <2>1 DEF Bind, Fails, Fine, Packed
  <1>6. CASE ReadHeadAgain(p)
    <2>1. p \in calm => head = base[p]
      BY <1>1 DEF QuietOk, Packed
    <2> QED
      BY <1>2, <1>3, <1>6, <2>1 DEF ReadHeadAgain, Fails, Fine, Packed
  <1>7. CASE ReadStatusAgain(p)
    <2>1. p \in calm => Clean
      BY <1>1 DEF QuietOk
    <2> QED
      BY <1>2, <1>3, <1>7, <2>1 DEF ReadStatusAgain, Fails, Fine, Packed
  <1>8. CASE Publish(p)
    BY <1>2, <1>4, <1>8 DEF Publish, Fails
  <1> QED
    BY <1>5, <1>6, <1>7, <1>8

LEMMA QuietBegin ==
  ASSUME IInv, QuietInv, NEW p \in Proc,
         ReadHead(p) \/ ReadStatus(p) \/ CheckLimit(p) \/ MakeDirectory(p)
  PROVE  QuietInv'
  <1>1. /\ TypeOK /\ pc[p] \in {"head", "status", "limit", "mkdir"}
        /\ UNCHANGED project /\ calm' \subseteq calm
        /\ (p \in calm => QuietOk(p))
    BY DEF IInv, ReadHead, ReadStatus, CheckLimit, MakeDirectory, At, Local, Fine, Fails,
           Leaves, QuietInv
  <1>2. CASE End(p)
    BY <1>1, <1>2, QuietEnd
  <1>3. CASE ReadHead(p) /\ ~End(p)
    <2>1. /\ base' = [base EXCEPT ![p] = head] /\ Goto(p, "status")
          /\ UNCHANGED <<include, unseen, selected, packet>> /\ calm' = calm
      BY <1>3 DEF ReadHead, Fails, Fine
    <2>2. /\ \A q \in Proc \ {p} :
               /\ pc'[q] = pc[q] /\ include'[q] = include[q] /\ base'[q] = base[q]
               /\ unseen'[q] = unseen[q] /\ selected'[q] = selected[q]
               /\ packet'[q] = packet[q]
          /\ base'[p] = head /\ pc'[p] = "status" /\ pc[p] = "head"
      BY <1>3, <2>1, <1>1 DEF TypeOK, Goto, ReadHead, At
    <2>3. p \in calm => QuietOk(p)'
      BY <1>1, <2>1, <2>2 DEF QuietOk, Packed, project
    <2> QED
      BY <1>1, <2>1, <2>2, <2>3, QuietOwn
  <1>4. CASE ReadStatus(p) /\ ~End(p)
    BY <1>1, <1>4, QuietMove DEF ReadStatus, At, Fails, Fine, Packed
  <1>5. CASE CheckLimit(p) /\ ~End(p)
    BY <1>1, <1>5, QuietMove DEF CheckLimit, At, Fine, Packed, QuietOk
  <1>6. CASE MakeDirectory(p) /\ ~End(p)
    <2>1. /\ unseen' = [unseen EXCEPT ![p] =
                          {x \in include[p] \X File : x[2] \in Covers[x[1]]}]
          /\ Goto(p, "walk") /\ UNCHANGED <<include, base, selected, packet>> /\ calm' = calm
      BY <1>6 DEF MakeDirectory, Fails, Fine
    <2>2. /\ \A q \in Proc \ {p} :
               /\ pc'[q] = pc[q] /\ include'[q] = include[q] /\ base'[q] = base[q]
               /\ unseen'[q] = unseen[q] /\ selected'[q] = selected[q]
               /\ packet'[q] = packet[q]
          /\ unseen'[p] = {x \in include[p] \X File : x[2] \in Covers[x[1]]}
          /\ pc'[p] = "walk" /\ pc[p] = "mkdir"
      BY <1>6, <2>1, <1>1 DEF TypeOK, Goto, MakeDirectory, At
    <2>3. ASSUME p \in calm PROVE QuietOk(p)'
      <3>1. Clean' = Clean /\ \A x \in Chosen(p)' : x \in unseen'[p]
        BY <1>1, <2>1, <2>2 DEF Chosen, Clean, project
      <3> QED
        BY <1>1, <2>1, <2>2, <2>3, <3>1 DEF QuietOk, Packed, project
    <2> QED
      BY <1>1, <2>1, <2>2, <2>3, QuietOwn
  <1> QED
    BY <1>2, <1>3, <1>4, <1>5, <1>6

LEMMA QuietCall ==
  ASSUME IInv, QuietInv, NEW p \in Proc, NEW S \in (SUBSET Include) \ {{}}, Call(p, S)
  PROVE  QuietInv'
  <1>1. /\ TypeOK /\ pc[p] = "idle" /\ UNCHANGED project /\ calm' = calm \cup {p}
        /\ selected[p] = {} /\ DOMAIN packet[p] = {}
    BY DEF IInv, Call, At, CallOk
  <1>2. /\ \A q \in Proc \ {p} :
             /\ pc'[q] = pc[q] /\ include'[q] = include[q] /\ base'[q] = base[q]
             /\ unseen'[q] = unseen[q] /\ selected'[q] = selected[q]
             /\ packet'[q] = packet[q]
        /\ pc'[p] = "head" /\ include'[p] = S
        /\ selected'[p] = {} /\ DOMAIN packet'[p] = {}
    BY <1>1 DEF Call, Goto, TypeOK
  <1>3. QuietOk(p)'
    BY <1>2 DEF QuietOk, Packed
  <1> QED
    BY <1>1, <1>2, <1>3, QuietOwn

LEMMA QuietNext == IInv /\ QuietInv /\ [Next]_vars => QuietInv'
  <1> SUFFICES ASSUME IInv, QuietInv, [Next]_vars PROVE QuietInv'
    OBVIOUS
  <1>1. ASSUME NEW p \in Proc, Step(p) PROVE QuietInv'
    <2>1. CASE Harden(p) \/ Cleanup(p)
      BY <2>1, QuietEnd DEF Harden, Cleanup, IInv, Local, Fine, Fails, Leaves
    <2> QED
      BY <1>1, <2>1, QuietBegin, QuietLook, QuietEndWalk, QuietReadFile, QuietChecks DEF Step
  <1>2. ASSUME NEW p \in Proc, Crash(p) PROVE QuietInv'
    BY <1>2, QuietEnd DEF Crash, IInv
  <1>3. CASE EditFile \/ Commit \/ MoveHead
    BY <1>3 DEF EditFile, Commit, MoveHead, Edit, QuietInv
  <1>4. CASE UNCHANGED vars
    <2> SUFFICES ASSUME NEW p \in calm', pc'[p] # "harden" PROVE QuietOk(p)'
      BY DEF QuietInv
    <2>1. QuietOk(p)
      BY <1>4 DEF vars, QuietInv
    <2>2. Chosen(p)' = Chosen(p) /\ Clean' = Clean
      BY <1>4 DEF vars, project, locals, Chosen, Clean
    <2>3. HonestInclude(include[p])' = HonestInclude(include[p])
      BY <1>4 DEF vars, project, locals, HonestInclude
    <2> QED
      BY <1>4, <2>1, <2>2, <2>3 DEF vars, project, locals, QuietOk
  <1> QED
    BY <1>1, <1>2, <1>3, <1>4, QuietCall DEF Next

LEMMA QuietHolds == Spec => [](IInv /\ QuietInv)
  <1>1. Init => IInv /\ QuietInv
    BY InitInv, QuietInit
  <1>2. (IInv /\ QuietInv) /\ [Next]_vars => (IInv /\ QuietInv)'
    BY NextInv, QuietNext
  <1> QED
    BY <1>1, <1>2, PTL DEF Spec

(* The packet that an undisturbed call publishes has every file of the     *)
(* commit that git status would report.                                    *)
LEMMA CompletePublish ==
  ASSUME IInv, QuietInv, CompleteWhenCalm, NEW p \in Proc, Publish(p)
  PROVE  CompleteWhenCalm'
  <1> DEFINE new == [commit |-> base[p], include |-> include[p],
                     packet |-> packet[p], calm |-> p \in calm]
  <1>1. TypeOK /\ pc[p] = "publish" /\ trees' = trees
    BY DEF IInv, Publish, At, project
  <1>2. CASE handoffs' = handoffs
    BY <1>1, <1>2 DEF CompleteWhenCalm, Published
  <1>3. CASE handoffs' = Append(handoffs, new)
    <2>1. \A h \in Published' : h \in Published \/ h = new
      BY <1>1, <1>3 DEF TypeOK, Published
    <2>2. ASSUME p \in calm, NEW i \in include[p], NEW f \in Covers[i] \ Unreported,
                 f \in DOMAIN trees[base[p]]
          PROVE  f \in DOMAIN packet[p]
      <3>1. /\ base[p] = head /\ Clean /\ DOMAIN packet[p] = selected[p]
            /\ \A x \in Chosen(p) : x[2] \in selected[p]
        BY <1>1, <2>2 DEF QuietInv, QuietOk, Packed
      <3>2. i \in Include /\ f \in File \ Unreported
        BY <1>1, PrepareAssumption DEF TypeOK
      <3>3. f \in DOMAIN work
        BY <2>2, <3>1, <3>2 DEF Clean, Agree
      <3>4. <<i, f>> \in Chosen(p)
        BY <3>2, <3>3 DEF Chosen
      <3> QED
        BY <3>1, <3>4
    <2>3. new.calm =>
            \A i \in new.include : \A f \in Covers[i] \ Unreported :
              f \in DOMAIN trees[new.commit] => f \in DOMAIN new.packet
      BY <2>2
    <2> QED
      BY <1>1, <2>1, <2>3 DEF CompleteWhenCalm
  <1> QED
    BY <1>2, <1>3 DEF Publish

LEMMA CompleteNext == IInv /\ QuietInv /\ CompleteWhenCalm /\ [Next]_vars => CompleteWhenCalm'
  <1> SUFFICES ASSUME IInv, QuietInv, CompleteWhenCalm, [Next]_vars PROVE CompleteWhenCalm'
    OBVIOUS
  <1>1. CASE UNCHANGED <<trees, handoffs>>
    BY <1>1 DEF CompleteWhenCalm, Published
  <1>2. CASE \E p \in Proc : Publish(p)
    BY <1>2, CompletePublish
  <1>3. CASE Commit
    <2>1. PICK t \in Tree : trees' = Append(trees, t) /\ handoffs' = handoffs
      BY <1>3 DEF Commit, Edit, handoffVars
    <2>2. \A n \in 1..Len(trees) : trees'[n] = trees[n]
      BY <2>1 DEF IInv, TypeOK
    <2>3. \A h \in Published : h.commit \in 1..Len(trees)
      BY DEF IInv, HandoffOk, Published
    <2> QED
      BY <2>1, <2>2, <2>3 DEF CompleteWhenCalm, Published
  <1>4. \/ UNCHANGED <<trees, handoffs>> \/ Commit
        \/ \E p \in Proc : Publish(p)
    <2>1. ASSUME NEW p \in Proc, Step(p), ~Publish(p) PROVE UNCHANGED <<trees, handoffs>>
      BY <2>1 DEF Step, ReadHead, ReadStatus, CheckLimit, MakeDirectory, Look, EndWalk, ReadFile,
           Bind, ReadHeadAgain, ReadStatusAgain, Harden, Cleanup, Local, Leaves, project,
           handoffVars
    <2>2. ASSUME NEW p \in Proc, Crash(p) \/ \E S \in (SUBSET Include) \ {{}} : Call(p, S)
          PROVE  UNCHANGED <<trees, handoffs>>
      BY <2>2 DEF Crash, Call, project, handoffVars
    <2>3. ASSUME EditFile \/ MoveHead PROVE UNCHANGED <<trees, handoffs>>
      BY <2>3 DEF EditFile, MoveHead, Edit, handoffVars
    <2>4. ASSUME UNCHANGED vars PROVE UNCHANGED <<trees, handoffs>>
      BY <2>4 DEF vars, project, handoffVars
    <2> QED
      BY <2>1, <2>2, <2>3, <2>4 DEF Next
  <1> QED
    BY <1>1, <1>2, <1>3, <1>4

(* When nothing failed during the call, no listing of a directory either,  *)
(* and nobody edited, its packet has every file of the recorded commit     *)
(* below the includes, except those git status is silent about; later      *)
(* commits do not change that.                                             *)
THEOREM CompleteWhenCalmHolds == Spec => []CompleteWhenCalm
  <1>1. Init => CompleteWhenCalm
    BY DEF Init, CompleteWhenCalm, Published
  <1> QED
    BY <1>1, CompleteNext, QuietHolds, PTL DEF Spec

(* No check refuses an undisturbed call whose includes hold safe committed *)
(* files, and what it is about to publish passes a review.                 *)
THEOREM HonestPassesHolds == Spec => []HonestPasses
  <1>1. IInv /\ QuietInv => HonestPasses
    <2> SUFFICES ASSUME IInv, QuietInv, NEW p \in calm, HonestInclude(include[p])
                 PROVE  /\ ~At(p, "cleanup")
                        /\ At(p, "publish") =>
                             Reviewable([include |-> include[p], packet |-> packet[p]])
      BY DEF HonestPasses
    <2>1. At(p, "cleanup") => FALSE
      BY DEF QuietInv, QuietOk, At
    <2>2. ASSUME At(p, "publish"), NEW i \in include[p]
          PROVE  i \in Plain /\ Covers[i] \cap DOMAIN packet[p] # {}
      <3>1. PICK f \in Covers[i] : f \in DOMAIN work
        BY DEF HonestInclude
      <3>2. i \in Plain /\ i \in Include /\ f \in File
        BY PrepareAssumption DEF HonestInclude
      <3>3. <<i, f>> \in Chosen(p)
        BY <3>1, <3>2 DEF Chosen
      <3>4. f \in DOMAIN packet[p]
        BY <2>2, <3>3 DEF QuietInv, QuietOk, Packed, At
      <3> QED
        BY <3>1, <3>2, <3>4
    <2> QED
      BY <2>1, <2>2 DEF Reviewable
  <1> QED
    BY <1>1, QuietHolds, PTL
-----------------------------------------------------------------------------
(* Prepare implements HandoffStore.                                        *)

(* Every directory left behind is due to a mishap.                         *)
OrphanInv == orphans <= mishaps

LEMMA OrphanInit == Init => OrphanInv
  BY DEF Init, OrphanInv

(* What every other step leaves alone. *)
LEMMA StoreUntouched ==
  ASSUME [Next]_vars, ~Commit,
         \A p \in Proc : ~Publish(p) /\ ~Harden(p) /\ ~Crash(p) /\ ~LeftBehind(p)
  PROVE  UNCHANGED <<trees, handoffVars>>
  <1>1. ASSUME NEW p \in Proc, Step(p) PROVE UNCHANGED <<trees, handoffVars>>
    <2>1. Quiet
      BY <1>1, QuietStep, DirectoryStep DEF Step
    <2> QED
      BY <2>1 DEF Quiet, Local, project
  <1>2. ASSUME NEW p \in Proc, NEW S, Call(p, S) PROVE UNCHANGED <<trees, handoffVars>>
    BY <1>2 DEF Call, project
  <1>3. ASSUME EditFile \/ MoveHead PROVE UNCHANGED <<trees, handoffVars>>
    BY <1>3 DEF EditFile, MoveHead, Edit
  <1>4. ASSUME UNCHANGED vars PROVE UNCHANGED <<trees, handoffVars>>
    BY <1>4 DEF vars, project
  <1> QED
    BY <1>1, <1>2, <1>3, <1>4 DEF Next

LEMMA OrphanNext == TypeOK /\ OrphanInv /\ [Next]_vars => OrphanInv'
  <1> SUFFICES ASSUME TypeOK, OrphanInv, [Next]_vars PROVE OrphanInv'
    OBVIOUS
  <1>1. CASE UNCHANGED handoffVars
    BY <1>1 DEF OrphanInv, handoffVars
  <1>2. ASSUME NEW p \in Proc, Publish(p) PROVE OrphanInv'
    BY <1>2 DEF Publish, OrphanInv
  <1>3. ASSUME NEW p \in Proc, Harden(p) PROVE OrphanInv'
    BY <1>3 DEF Harden, OrphanInv, TypeOK
  <1>4. ASSUME NEW p \in Proc, Crash(p) PROVE OrphanInv'
    BY <1>4 DEF Crash, OrphanInv, TypeOK
  <1>6. ASSUME NEW p \in Proc, LeftBehind(p) PROVE OrphanInv'
    BY <1>6 DEF LeftBehind, Leaves, OrphanInv, TypeOK
  <1>5. CASE Commit
    BY <1>1, <1>5 DEF Commit, Edit
  <1> QED
    BY <1>1, <1>2, <1>3, <1>4, <1>5, <1>6, StoreUntouched

(* What the call packed of its commit is, as a function, the files of the  *)
(* commit it selected.                                                     *)
LEMMA PacketOfCommit ==
  ASSUME NEW t, t \in Tree, NEW commit, AtCommit(t, commit)
  PROVE  t = [f \in DOMAIN t |-> trees[commit][f]]
  <1>1. t = [f \in DOMAIN t |-> t[f]]
    BY TreeType
  <1> QED
    BY <1>1 DEF AtCommit

LEMMA SeenPublish ==
  ASSUME IInv, QuietInv, CompleteWhenCalm, NEW p \in Proc, Publish(p)
  PROVE  [Store!Next]_(Store!storeVars)
  <1>1. /\ TypeOK /\ pc[p] = "publish" /\ CallOk(p) /\ AtCommit(packet[p], base[p])
        /\ UNCHANGED <<trees, told>>
    BY DEF IInv, Publish, At, CallOk, project
  <1>2. CASE handoffs' = handoffs
    BY <1>1, <1>2 DEF Store!storeVars
  <1> DEFINE t == packet[p]
             c == base[p]
             S == include[p]
             F == DOMAIN t
             new == [commit |-> c, include |-> S, packet |-> t, calm |-> p \in calm]
  <1>3. CASE handoffs' = Append(handoffs, new)
    <2>1. c \in 1..Len(trees) /\ S \in SUBSET Include /\ t \in Tree /\ F # {}
      BY <1>1 DEF TypeOK, CallOk
    <2>2. F \in SUBSET (Store!Selected(trees[c], S) \cap Store!Allowed(trees[c]))
      BY <1>1 DEF CallOk, AtCommit, Selectable, Store!Selected, Store!Allowed
    <2>3. t = [f \in F |-> trees[c][f]]
      BY <1>1, <2>1, PacketOfCommit
    <2>4. (p \in calm) => Store!Selected(trees[c], S) \ Unreported \subseteq F
      <3> SUFFICES ASSUME p \in calm, NEW f \in DOMAIN trees[c], f \notin Unreported,
                          NEW i \in S, f \in Covers[i]
                   PROVE  f \in F
        BY DEF Store!Selected
      <3>1. CompleteWhenCalm' /\ new \in Published'
        <4>1. handoffs \in Seq(Handoff)
          BY <1>1 DEF TypeOK
        <4>2. handoffs'[Len(handoffs) + 1] = new /\ Len(handoffs) + 1 \in DOMAIN handoffs'
          BY <1>3, <4>1
        <4> QED
          BY <4>2, CompletePublish DEF Published
      <3> QED
        BY <1>1, <3>1 DEF CompleteWhenCalm
    <2>5. (p \in calm) \in BOOLEAN
      OBVIOUS
    <2>6. new = [commit |-> c, include |-> S, packet |-> [f \in F |-> trees[c][f]],
                 calm |-> p \in calm]
      BY <2>3
    <2>7. Len(handoffs') = Len(handoffs) + 1
      BY <1>1, <1>3 DEF TypeOK
    <2>8. Store!Publish
      BY <1>1, <1>3, <2>1, <2>2, <2>4, <2>5, <2>6, <2>7 DEF Store!Publish
    <2> QED
      BY <2>8 DEF Store!Next
  <1> QED
    BY <1>2, <1>3 DEF Publish

(* A call that announces its handoff is one for which none was announced. *)
LEMMA SeenHarden ==
  ASSUME TypeOK, CountInv, OrphanInv, NEW p \in Proc, Harden(p)
  PROVE  [Store!Next]_(Store!storeVars)
  <1>1. UNCHANGED <<trees, handoffs>>
    BY DEF Harden, project
  <1>2. CASE told' = told
    BY <1>1, <1>2 DEF Store!storeVars
  <1>3. CASE told' = told + 1
    <2>1. p \in InPlace(Hardening) /\ IsFiniteSet(InPlace(Hardening))
      BY AmongType DEF Harden, At, InPlace, Hardening
    <2>2. Among(Hardening) \in Nat /\ Among(Hardening) # 0
      BY <2>1, AmongType, FS_EmptySet DEF Among
    <2>3. told < Len(handoffs)
      BY <2>2, CountTypes DEF CountInv, AccountInv, OrphanInv
    <2>4. Store!Announce
      BY <1>1, <1>3, <2>3 DEF Store!Announce
    <2> QED
      BY <2>4 DEF Store!Next
  <1> QED
    BY <1>2, <1>3 DEF Harden

(* Whatever is edited, committed or checked out, however many calls race,  *)
(* fail or die: handoffs/ only ever gets one more handoff, which is right  *)
(* at that moment, and each answer "prepared" has a handoff of its own.    *)
THEOREM PrepareImplementsStore == Spec => ImplementsStore
  <1>1. Init => Store!Init
    BY DEF Init, Store!Init
  <1>2. (IInv /\ QuietInv) /\ CompleteWhenCalm /\ TypeOK /\ CountInv /\ OrphanInv /\ [Next]_vars
          => [Store!Next]_(Store!storeVars)
    <2> SUFFICES ASSUME IInv, QuietInv, CompleteWhenCalm, TypeOK, CountInv, OrphanInv, [Next]_vars
                 PROVE  [Store!Next]_(Store!storeVars)
      OBVIOUS
    <2>1. ASSUME NEW p \in Proc, Publish(p) \/ Harden(p) PROVE [Store!Next]_(Store!storeVars)
      BY <2>1, SeenPublish, SeenHarden
    <2>2. ASSUME NEW p \in Proc, Crash(p) \/ LeftBehind(p) PROVE [Store!Next]_(Store!storeVars)
      BY <2>2 DEF Crash, LeftBehind, Leaves, project, Store!storeVars
    <2>3. CASE Commit
      <3>1. Store!Commit
        BY <2>3 DEF Commit, Edit, handoffVars, Store!Commit
      <3> QED
        BY <3>1 DEF Store!Next
    <2>4. CASE UNCHANGED <<trees, handoffVars>>
      BY <2>4 DEF handoffVars, Store!storeVars
    <2> QED
      BY <2>1, <2>2, <2>3, <2>4, StoreUntouched
  <1>3. Spec => []OrphanInv
    BY OrphanInit, OrphanNext, TypeCorrect, PTL DEF Spec
  <1> QED
    BY <1>1, <1>2, <1>3, QuietHolds, CompleteWhenCalmHolds, TypeCorrect, CountHolds, PTL
       DEF Spec, ImplementsStore, Store!Spec
=============================================================================
