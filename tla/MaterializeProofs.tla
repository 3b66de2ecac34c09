-------------------------- MODULE MaterializeProofs --------------------------
(***************************************************************************)
(* What inspect and materialize answer for, for any archives, any number   *)
(* of calls, pieces and members, and whatever happens to the source and    *)
(* the destination.  The argument: while the file a call reads has the     *)
(* signature of before, what was copied is a part of what the file held    *)
(* then; from the second fstat on, only the copy is used.  So a call is an *)
(* atomic look at the archive: Materialize implements PacketReader.        *)
(***************************************************************************)
EXTENDS Materialize, SequenceTheorems, FiniteSetTheorems, TLAPS

Record(p) == [by |-> p, payload |-> copy[p], files |-> names[p]]

(* Call p has put a packet at the destination, and still knows it. *)
Owner(p) == pc[p] \in {"return", "ok"} /\ asked[p].op = "materialize"

(* What the locals of call p say. *)
CallOk(p) ==
  /\ same[p] => pc[p] = "read"
  /\ pc[p] \in {"open", "stat"} => copy[p] = <<>>
  /\ pc[p] \in {"stat", "read"} => fd[p] \in 1..current
  /\ same[p] => /\ whole[p] = content[fd[p]]
                /\ \A i \in 1..Len(copy[p]) : copy[p][i] = whole[p][i]
  /\ pc[p] \in {"unpack", "recheck", "rename", "return", "ok"} =>
       copy[p] = whole[p] /\ asked[p].want \in {None, whole[p]}
  /\ pc[p] \in {"recheck", "rename", "return", "ok"} => names[p] = Declared[copy[p]]
  /\ pc[p] \in {"recheck", "rename", "return"} => asked[p].op = "materialize"
  /\ Owner(p) => dest = Record(p)

DestOk == dest \in Packet => dest.files = Declared[dest.payload]

IInv == /\ TypeOK /\ current <= changes + 1
        /\ \A p \in Proc : CallOk(p)
        /\ DestOk

-----------------------------------------------------------------------------
LEMMA InitInv == Init => IInv
  <1> SUFFICES ASSUME Init PROVE IInv
    OBVIOUS
  <1>1. 1 \in File /\ NoCall \in Call
    BY MaterializeAssumption DEF File, NoCall, Call
  <1>2. content \in [File -> Archive]
    <2>1. PICK a \in Archive : content = [f \in File |-> IF f = 1 THEN a ELSE NotYet]
      BY DEF Init
    <2>2. NotYet \in Archive
      BY DEF NotYet
    <2> QED
      BY <2>1, <2>2
  <1>3. TypeOK
    BY <1>1, <1>2, MaterializeAssumption DEF Init, TypeOK, Returned
  <1>4. \A p \in Proc : CallOk(p)
    BY DEF Init, CallOk, Owner
  <1>5. DestOk
    BY MaterializeAssumption DEF Init, DestOk
  <1> QED
    BY <1>3, <1>4, <1>5 DEF Init, IInv

(* A step of call p that leaves the archive and the destination alone. *)
OnlyOf(p) ==
  /\ UNCHANGED <<archive, dest, changes>>
  /\ \A q \in Proc \ {p} :
       /\ pc'[q] = pc[q] /\ asked'[q] = asked[q] /\ fd'[q] = fd[q]
       /\ same'[q] = same[q] /\ copy'[q] = copy[q]
       /\ names'[q] = names[q] /\ whole'[q] = whole[q]

LEMMA OwnStep ==
  ASSUME IInv, NEW p \in Proc, OnlyOf(p), TypeOK', CallOk(p)'
  PROVE  IInv'
  <1>1. ASSUME NEW q \in Proc PROVE CallOk(q)'
    <2>1. CASE q = p
      BY <2>1
    <2>2. CASE q # p
      BY <2>2 DEF IInv, OnlyOf, CallOk, archive, Record, Owner
    <2> QED
      BY <2>1, <2>2
  <1> QED
    BY <1>1 DEF IInv, OnlyOf, DestOk, archive

LEMMA ForgetType ==
  ASSUME TypeOK, NEW p \in Proc, Forget(p), NEW l \in {"open", "refused", "idle"}, To(p, l)
  PROVE  /\ pc' \in [Proc -> Returned \cup Working]
         /\ fd' \in [Proc -> File \cup {0}] /\ same' \in [Proc -> BOOLEAN]
         /\ names' \in [Proc -> SUBSET Member] /\ whole' \in [Proc -> Archive \cup {None}]
         /\ copy' \in [Proc -> Seq(Chunk)]
         /\ \A q \in Proc : /\ Len(copy'[q]) <= Chunks
                            /\ pc'[q] \in {"unpack", "recheck", "rename", "return", "ok"} =>
                                 copy'[q] \in DOMAIN Tar
  <1>1. /\ fd' \in [Proc -> File \cup {0}] /\ same' \in [Proc -> BOOLEAN]
        /\ names' \in [Proc -> SUBSET Member] /\ whole' \in [Proc -> Archive \cup {None}]
        /\ copy' \in [Proc -> Seq(Chunk)]
    BY DEF Forget, Close, TypeOK
  <1>2. pc' \in [Proc -> Returned \cup Working]
    BY DEF To, TypeOK, Returned, Working
  <1>3. \A q \in Proc : /\ copy'[q] = IF q = p THEN <<>> ELSE copy[q]
                       /\ pc'[q] = IF q = p THEN l ELSE pc[q]
    BY DEF Forget, To, TypeOK
  <1>4. Len(<<>>) <= Chunks
    BY MaterializeAssumption
  <1> QED
    BY <1>1, <1>2, <1>3, <1>4 DEF TypeOK

(* A call that is refused or dies. *)
LEMMA DropStep ==
  ASSUME IInv, NEW p \in Proc, NEW l \in {"refused", "idle"}, To(p, l), Forget(p),
         asked' = [asked EXCEPT ![p] = NoCall], UNCHANGED <<archive, dest, changes>>,
         calm' \subseteq Proc, faults' \in 0..MaxFaults
  PROVE  IInv'
  <1>1. OnlyOf(p)
    BY DEF OnlyOf, To, Forget, Close, IInv, TypeOK, archive
  <1>2. NoCall \in Call
    BY DEF NoCall, Call
  <1>3. TypeOK'
    BY <1>2, ForgetType DEF IInv, TypeOK, archive
  <1>4. CallOk(p)'
    BY DEF CallOk, Owner, To, Forget, Close, IInv, TypeOK, archive
  <1> QED
    BY <1>1, <1>3, <1>4, OwnStep

LEMMA RefuseStep ==
  ASSUME IInv, NEW p \in Proc, Refuse(p), UNCHANGED <<archive, dest, changes, faults>>,
         calm' \subseteq Proc
  PROVE  IInv'
  BY DropStep DEF Refuse, IInv, TypeOK

-----------------------------------------------------------------------------
LEMMA BeginStep ==
  ASSUME IInv, NEW p \in Proc, Begin(p)
  PROVE  IInv'
  <1> USE DEF IInv
  <1>1. calm' \subseteq Proc /\ UNCHANGED <<archive, dest, changes, faults>>
    BY DEF Begin, TypeOK
  <1>2. CASE Refuse(p)
    BY <1>1, <1>2, RefuseStep
  <1>3. CASE \E c \in Call : To(p, "open") /\ Forget(p) /\ asked' = [asked EXCEPT ![p] = c]
    <2>1. OnlyOf(p)
      BY <1>1, <1>3 DEF OnlyOf, To, Forget, Close, TypeOK
    <2>2. TypeOK'
      BY <1>1, <1>3, ForgetType DEF TypeOK, archive
    <2>3. CallOk(p)'
      BY <1>1, <1>3 DEF CallOk, Owner, To, Forget, Close, TypeOK, archive
    <2> QED
      BY <2>1, <2>2, <2>3, OwnStep
  <1> QED
    BY <1>2, <1>3 DEF Begin

LEMMA OpenStep ==
  ASSUME IInv, NEW p \in Proc, Open(p)
  PROVE  IInv'
  <1> USE DEF IInv, Open, To
  <1>1. OnlyOf(p)
    BY DEF OnlyOf, TypeOK
  <1>2. TypeOK'
    BY DEF TypeOK, archive, Working
  <1>3. current \in 1..current
    BY DEF TypeOK, File
  <1>4. CallOk(p)'
    BY <1>3 DEF CallOk, Owner, TypeOK, archive
  <1> QED
    BY <1>1, <1>2, <1>4, OwnStep

LEMMA StatStep ==
  ASSUME IInv, NEW p \in Proc, Stat(p)
  PROVE  IInv'
  <1> USE DEF IInv
  <1>1. CASE Refuse(p)
    BY <1>1, RefuseStep DEF Stat, TypeOK
  <1>2. CASE fd[p] = current
    <2>1. OnlyOf(p)
      BY <1>2 DEF Stat, To, OnlyOf, TypeOK
    <2>2. content[current] \in Archive
      BY DEF TypeOK
    <2>3. TypeOK'
      BY <1>2, <2>2 DEF Stat, To, TypeOK, archive, Working
    <2>4. copy[p] = <<>>
      BY DEF Stat, CallOk
    <2>5. CallOk(p)'
      BY <1>2, <2>4 DEF Stat, To, CallOk, Owner, TypeOK, archive
    <2> QED
      BY <2>1, <2>3, <2>5, OwnStep
  <1> QED
    BY <1>1, <1>2 DEF Stat

(* The next piece is of the file as it is now; while its signature is that *)
(* of before, that is what it held then.                                   *)
LEMMA ReadStep ==
  ASSUME IInv, NEW p \in Proc, Read(p)
  PROVE  IInv'
  <1> USE DEF IInv
  <1>1. OnlyOf(p)
    BY DEF Read, OnlyOf, TypeOK
  <1> DEFINE n == Len(copy[p])
             c == content[fd[p]][n + 1]
  <1>2. /\ copy[p] \in Seq(Chunk) /\ n \in Nat /\ n < Chunks /\ Chunks \in Nat
        /\ fd[p] \in File /\ content[fd[p]] \in Archive
    <2>1. fd[p] \in 1..current
      BY DEF Read, CallOk
    <2> QED
      BY <2>1, MaterializeAssumption DEF Read, TypeOK, File
  <1>3. c \in Chunk
    BY <1>2 DEF Archive
  <1>4. /\ copy'[p] = Append(copy[p], c) /\ copy'[p] \in Seq(Chunk) /\ Len(copy'[p]) = n + 1
        /\ \A i \in 1..n + 1 : copy'[p][i] = IF i = n + 1 THEN c ELSE copy[p][i]
    <2>1. copy'[p] = Append(copy[p], c)
      BY DEF Read, TypeOK
    <2> QED
      BY <1>2, <1>3, <2>1, AppendProperties
  <1>5. TypeOK'
    BY <1>2, <1>4 DEF Read, TypeOK, archive
  <1>6. CallOk(p)'
    BY <1>2, <1>4 DEF Read, CallOk, Owner, TypeOK, archive
  <1> QED
    BY <1>1, <1>5, <1>6, OwnStep

(* The whole file was copied and it is what the file held at the first     *)
(* look.                                                                   *)
LEMMA CopiedStep ==
  ASSUME IInv, NEW p \in Proc, Copied(p)
  PROVE  IInv'
  <1> USE DEF IInv
  <1>1. CASE Refuse(p)
    BY <1>1, RefuseStep DEF Copied, TypeOK
  <1>2. CASE /\ Unchanged(p) /\ asked[p].want \in {None, copy[p]} /\ copy[p] \in DOMAIN Tar
             /\ To(p, "unpack") /\ Close(p) /\ UNCHANGED <<asked, copy, names, whole>>
    <2>1. OnlyOf(p)
      BY <1>2 DEF Copied, To, Close, OnlyOf, TypeOK
    <2>2. TypeOK'
      BY <1>2 DEF Copied, To, Close, TypeOK, archive, Working
    <2>3. copy[p] = whole[p]
      <3>1. /\ copy[p] \in Archive /\ Len(copy[p]) = Chunks /\ copy[p] \in Seq(Chunk)
            /\ \A i \in 1..Chunks : copy[p][i] = whole[p][i]
        BY <1>2, MaterializeAssumption DEF Copied, Unchanged, CallOk, TypeOK
      <3>2. fd[p] \in File /\ whole[p] = content[fd[p]]
        BY <1>2 DEF Copied, Unchanged, CallOk, TypeOK, File
      <3>3. whole[p] \in Archive
        BY <3>2 DEF TypeOK
      <3> QED
        BY <3>1, <3>3 DEF Archive
    <2>4. CallOk(p)'
      BY <1>2, <2>3 DEF Copied, To, Close, CallOk, Owner, TypeOK, archive
    <2> QED
      BY <2>1, <2>2, <2>4, OwnStep
  <1> QED
    BY <1>1, <1>2 DEF Copied, Wanted

LEMMA UnpackStep ==
  ASSUME IInv, NEW p \in Proc, Unpack(p)
  PROVE  IInv'
  <1> USE DEF IInv
  <1>1. CASE Refuse(p)
    BY <1>1, RefuseStep DEF Unpack, TypeOK
  <1> DEFINE t == Tar[copy[p]]
             k == Cardinality(names[p]) + 1
  <1>2. CASE /\ t[k] \in Intact[copy[p]] /\ names' = [names EXCEPT ![p] = @ \cup {t[k]}]
             /\ UNCHANGED <<pc, asked, fd, same, copy, whole>>
    <2>1. OnlyOf(p)
      BY <1>2 DEF Unpack, OnlyOf, TypeOK
    <2>2. copy[p] \in DOMAIN Tar
      BY DEF Unpack, TypeOK
    <2>3. t[k] \in Member
      BY <1>2, <2>2, MaterializeAssumption
    <2>4. TypeOK'
      BY <1>2, <2>3 DEF Unpack, TypeOK, archive
    <2>5. CallOk(p)'
      BY <1>2 DEF Unpack, CallOk, Owner, TypeOK, archive
    <2> QED
      BY <2>1, <2>4, <2>5, OwnStep
  <1> QED
    BY <1>1, <1>2 DEF Unpack

(* A step that only moves call p on; what its new place requires holds. *)
LEMMA ContinueStep ==
  ASSUME IInv, NEW p \in Proc, NEW l \in {"recheck", "rename", "ok"}, Continue(p, l),
         UNCHANGED <<archive, dest, calm, changes, faults>>,
         pc[p] \in {"unpack", "recheck", "return"}, names[p] = Declared[copy[p]],
         l = "ok" <=> pc[p] = "return" \/ asked[p].op # "materialize"
  PROVE  IInv'
  <1> USE DEF IInv
  <1>1. OnlyOf(p)
    BY DEF Continue, To, OnlyOf, TypeOK, data
  <1>2. TypeOK'
    BY DEF Continue, To, TypeOK, data, archive, Working, Returned
  <1>3. CallOk(p)'
    BY DEF Continue, To, CallOk, Owner, Record, TypeOK, data, archive
  <1> QED
    BY <1>1, <1>2, <1>3, OwnStep

LEMMA UnpackedStep ==
  ASSUME IInv, NEW p \in Proc, Unpacked(p)
  PROVE  IInv'
  <1>1. CASE Refuse(p)
    BY <1>1, RefuseStep DEF Unpacked, IInv, TypeOK
  <1>2. CASE /\ names[p] = Declared[copy[p]]
             /\ Continue(p, IF asked[p].op = "inspect" THEN "ok" ELSE "recheck")
    <2>1. asked[p].op \in {"inspect", "materialize"}
      BY DEF IInv, TypeOK, Call
    <2> QED
      BY <1>2, <2>1, ContinueStep DEF Unpacked
  <1> QED
    BY <1>1, <1>2 DEF Unpacked

LEMMA RecheckStep ==
  ASSUME IInv, NEW p \in Proc, Recheck(p)
  PROVE  IInv'
  <1>1. CASE Refuse(p)
    BY <1>1, RefuseStep DEF Recheck, IInv, TypeOK
  <1>2. CASE Continue(p, "rename")
    BY <1>2, ContinueStep DEF Recheck, IInv, CallOk
  <1> QED
    BY <1>1, <1>2 DEF Recheck

LEMMA ReturnStep ==
  ASSUME IInv, NEW p \in Proc, Return(p)
  PROVE  IInv'
  BY ContinueStep DEF Return, IInv, CallOk

(* A packet at the destination is what the call unpacked; as the           *)
(* destination was free, no other call answered for a packet there.        *)
LEMMA RenameStep ==
  ASSUME IInv, NEW p \in Proc, Rename(p)
  PROVE  IInv'
  <1> USE DEF IInv
  <1>1. CASE Refuse(p) /\ UNCHANGED <<dest, calm>>
    BY <1>1, RefuseStep DEF Rename, TypeOK
  <1>2. CASE /\ dest \in {Absent, Empty} /\ dest' = Record(p) /\ Continue(p, "return")
             /\ calm' = {q \in calm : q = p \/ asked[q].op = "inspect"}
    <2>1. /\ copy[p] \in DOMAIN Tar /\ copy[p] \in Archive
          /\ names[p] = Declared[copy[p]] /\ pc[p] = "rename"
      BY MaterializeAssumption DEF Rename, TypeOK, CallOk
    <2>2. Record(p) \in Packet
      BY <2>1 DEF Record, Packet, TypeOK
    <2>3. /\ UNCHANGED <<archive, asked, data, changes, faults>>
          /\ pc' = [pc EXCEPT ![p] = "return"]
      BY <1>2 DEF Rename, Continue, To
    <2>4. TypeOK'
      BY <1>2, <2>1, <2>2, <2>3 DEF TypeOK, data, archive, Working, Returned
    <2>5. dest \notin Packet
      BY <1>2, MaterializeAssumption
    <2>6. ASSUME NEW q \in Proc PROVE CallOk(q)'
      <3>1. CASE q = p
        BY <1>2, <2>1, <2>3, <3>1 DEF CallOk, Owner, TypeOK, data, archive, Record
      <3>2. CASE q # p
        <4>1. ~Owner(q)
          <5> SUFFICES ASSUME Owner(q) PROVE FALSE
            OBVIOUS
          <5>1. copy[q] \in Archive
            BY MaterializeAssumption DEF TypeOK, Owner
          <5>2. Record(q) \in Packet /\ dest = Record(q)
            BY <5>1 DEF CallOk, Record, Packet, TypeOK
          <5> QED
            BY <2>5, <5>2
        <4> QED
          BY <2>3, <3>2, <4>1 DEF CallOk, Owner, TypeOK, data, archive
      <3> QED
        BY <3>1, <3>2
    <2>7. DestOk'
      BY <1>2, <2>1 DEF DestOk, Record
    <2> QED
      BY <2>3, <2>4, <2>6, <2>7 DEF archive
  <1> QED
    BY <1>1, <1>2 DEF Rename, Record

LEMMA FaultStep ==
  ASSUME IInv, NEW p \in Proc, Fault(p)
  PROVE  IInv'
  <1>1. faults' \in 0..MaxFaults /\ calm' \subseteq Proc
    BY MaterializeAssumption DEF Fault, IInv, TypeOK
  <1> QED
    BY <1>1, DropStep DEF Fault, Refuse

-----------------------------------------------------------------------------
(* Whoever reads a file that is written to notices.                        *)
LEMMA OverwriteStep ==
  ASSUME IInv, Overwrite
  PROVE  IInv'
  <1> USE DEF IInv
  <1>1. PICK f \in 1..current, i \in 1..Chunks, c \in Chunk :
          /\ content' = [content EXCEPT ![f][i] = c]
          /\ same' = [p \in Proc |-> same[p] /\ fd[p] # f]
    BY DEF Overwrite
  <1>2. /\ UNCHANGED <<current, dest, pc, asked, fd, copy, names, whole, faults>>
        /\ calm' = {} /\ changes' = changes + 1 /\ changes < MaxChanges
    BY DEF Overwrite, Disturb
  <1>3. f \in File /\ content[f] \in Archive
    BY MaterializeAssumption DEF TypeOK, File
  <1>4. content' \in [File -> Archive] /\ \A g \in File : g # f => content'[g] = content[g]
    BY <1>1, <1>3 DEF TypeOK, Archive
  <1>5. same' \in [Proc -> BOOLEAN]
    BY <1>1
  <1>6. changes' \in 0..MaxChanges
    BY <1>2, MaterializeAssumption DEF TypeOK
  <1>7. TypeOK'
    BY <1>2, <1>4, <1>5, <1>6 DEF TypeOK
  <1>8. ASSUME NEW p \in Proc PROVE CallOk(p)'
    <2>1. same'[p] => same[p] /\ fd[p] # f
      BY <1>1
    <2>2. same[p] => fd[p] \in File
      BY DEF CallOk, TypeOK, File
    <2> QED
      BY <1>2, <1>4, <2>1, <2>2 DEF CallOk, Owner, Record
  <1>9. DestOk'
    BY <1>2 DEF DestOk
  <1>10. current' <= changes' + 1
    BY <1>2 DEF TypeOK, File
  <1> QED
    BY <1>7, <1>8, <1>9, <1>10

(* A call that has opened the file that was replaced goes on reading it.   *)
LEMMA ReplaceStep ==
  ASSUME IInv, Replace
  PROVE  IInv'
  <1> USE DEF IInv
  <1>1. PICK a \in Archive : content' = [content EXCEPT ![current + 1] = a]
    BY DEF Replace
  <1>2. PICK touched \in BOOLEAN :
          same' = [p \in Proc |-> same[p] /\ ~(touched /\ fd[p] = current)]
    BY DEF Replace
  <1>3. /\ UNCHANGED <<dest, pc, asked, fd, copy, names, whole, faults>>
        /\ calm' = {} /\ changes' = changes + 1 /\ changes < MaxChanges
        /\ current' = current + 1
    BY DEF Replace, Disturb
  <1>4. current + 1 \in File /\ changes' \in 0..MaxChanges
    BY <1>3, MaterializeAssumption DEF TypeOK, File
  <1>5. /\ content' \in [File -> Archive]
        /\ \A g \in 1..current : content'[g] = content[g]
    BY <1>1, <1>4 DEF TypeOK, File
  <1>6. same' \in [Proc -> BOOLEAN]
    BY <1>2
  <1>7. TypeOK'
    BY <1>3, <1>4, <1>5, <1>6 DEF TypeOK
  <1>8. ASSUME NEW p \in Proc PROVE CallOk(p)'
    <2>1. same'[p] => same[p]
      BY <1>2
    <2>2. \A g \in 1..current : g \in 1..current'
      BY <1>3 DEF TypeOK, File
    <2>3. same[p] => fd[p] \in 1..current
      BY DEF CallOk
    <2> QED
      BY <1>3, <1>5, <2>1, <2>2, <2>3 DEF CallOk, Owner, Record
  <1>9. DestOk'
    BY <1>3 DEF DestOk
  <1>10. current' <= changes' + 1
    BY <1>3 DEF TypeOK, File
  <1> QED
    BY <1>7, <1>8, <1>9, <1>10

LEMMA OccupyStep ==
  ASSUME IInv, Occupy
  PROVE  IInv'
  <1> USE DEF IInv
  <1>1. /\ UNCHANGED <<archive, call, faults>> /\ dest \notin Packet
        /\ dest' \in {Absent, Empty, Taken} /\ dest' \notin Packet
        /\ calm' = {} /\ changes' = changes + 1 /\ changes < MaxChanges
    BY MaterializeAssumption DEF Occupy, Disturb
  <1>2. changes' \in 0..MaxChanges /\ current' <= changes' + 1
    BY <1>1, MaterializeAssumption DEF TypeOK, File, archive
  <1>3. TypeOK'
    BY <1>1, <1>2 DEF TypeOK, archive, call, data
  <1>4. ASSUME NEW p \in Proc PROVE CallOk(p)'
    <2>1. Owner(p) => Record(p) \in Packet
      <3>1. Owner(p) => copy[p] \in Archive
        BY MaterializeAssumption DEF TypeOK, Owner
      <3> QED
        BY <3>1 DEF Record, Packet, TypeOK
    <2>2. ~Owner(p)
      BY <1>1, <2>1 DEF CallOk
    <2> QED
      BY <1>1, <2>2 DEF CallOk, Owner, archive, call, data
  <1> QED
    BY <1>1, <1>2, <1>3, <1>4 DEF DestOk

LEMMA NextInv == IInv /\ [Next]_vars => IInv'
  <1> SUFFICES ASSUME IInv, [Next]_vars PROVE IInv'
    OBVIOUS
  <1>1. CASE UNCHANGED vars
    <2>1. TypeOK'
      BY <1>1 DEF vars, archive, call, data, IInv, TypeOK
    <2>2. \A p \in Proc : CallOk(p)'
      BY <1>1 DEF vars, archive, call, data, IInv, CallOk, Owner, Record
    <2> QED
      BY <1>1, <2>1, <2>2 DEF vars, archive, IInv, DestOk
  <1>2. ASSUME NEW p \in Proc, Step(p) PROVE IInv'
    BY <1>2, BeginStep, OpenStep, StatStep, ReadStep, CopiedStep, UnpackStep,
       UnpackedStep, RecheckStep, RenameStep, ReturnStep, FaultStep DEF Step
  <1> QED
    BY <1>1, <1>2, OverwriteStep, ReplaceStep, OccupyStep DEF Next

(* The inductive invariant, for any number of calls.                       *)
THEOREM InvHolds == Spec => []IInv
  BY InitInv, NextInv, PTL DEF Spec

(* Every variable keeps its type; in particular no call unpacks what       *)
(* cannot be unpacked.                                                     *)
THEOREM TypeCorrect == Spec => []TypeOK
  <1>1. IInv => TypeOK
    BY DEF IInv
  <1> QED
    BY <1>1, InvHolds, PTL

(* What a call answers for, or has unpacked, is one archive: what one file *)
(* held at one moment, with the expected digest and all its files.         *)
THEOREM AnswerIsOneArchiveHolds == Spec => []AnswerIsOneArchive
  <1>1. IInv => AnswerIsOneArchive
    BY DEF IInv, AnswerIsOneArchive, CallOk, Owner, DestOk, Record
  <1> QED
    BY <1>1, InvHolds, PTL

-----------------------------------------------------------------------------
(* A call that ought to succeed has met what it saw at the start: a sound  *)
(* archive that nobody touches and a free destination.                     *)
FirstMembers(p) ==
  LET t == Tar[copy[p]]  k == Cardinality(names[p]) IN
  IsFiniteSet(names[p]) /\ k <= Len(t) /\ names[p] = {t[i] : i \in 1..k}

HonestOk(p) ==
  /\ pc[p] \in Working \cup {"ok"}
  /\ pc[p] \in Working \ {"return"} =>
       /\ Sound(content[current]) /\ asked[p].want \in {None, content[current]}
       /\ asked[p].op = "materialize" => dest = Absent
  /\ pc[p] \in {"stat", "read"} => fd[p] = current
  /\ pc[p] = "read" => same[p]
  /\ pc[p] \in {"open", "stat", "read"} => names[p] = {}
  /\ pc[p] \in {"unpack", "recheck", "rename"} => copy[p] = content[current]
  /\ pc[p] = "unpack" => FirstMembers(p)

HonestInv == \A p \in calm : HonestOk(p)

LEMMA HonestInit == Init => HonestInv
  BY DEF Init, HonestInv

(* A step of call p; the destination stays as it is for the other calls    *)
(* that need it free.                                                      *)
LEMMA HonestOwn ==
  ASSUME IInv, HonestInv, NEW p \in Proc, UNCHANGED archive, calm' \subseteq calm \cup {p},
         \A q \in calm' \ {p} : asked[q].op = "inspect" \/ dest' = dest,
         \A q \in Proc \ {p} :
           /\ pc'[q] = pc[q] /\ asked'[q] = asked[q] /\ fd'[q] = fd[q]
           /\ same'[q] = same[q] /\ copy'[q] = copy[q] /\ names'[q] = names[q],
         p \in calm' => HonestOk(p)'
  PROVE  HonestInv'
  <1> SUFFICES ASSUME NEW q \in calm', q # p PROVE HonestOk(q)'
    BY DEF HonestInv
  <1>1. q \in Proc \ {p} /\ HonestOk(q)
    BY DEF HonestInv, IInv, TypeOK
  <1>2. Sound(content[current])' = Sound(content[current])
    BY DEF Sound, archive
  <1>3. FirstMembers(q)' = FirstMembers(q)
    BY <1>1 DEF FirstMembers
  <1>4. asked[q].op = "materialize" => dest' = dest
    OBVIOUS
  <1> QED
    BY <1>1, <1>2, <1>3, <1>4 DEF HonestOk, archive

LEMMA HonestBegin ==
  ASSUME IInv, HonestInv, NEW p \in Proc, Begin(p)
  PROVE  HonestInv'
  <1>1. PICK c \in Call :
          /\ IF c.op = "materialize" /\ ~Fresh THEN Refuse(p)
             ELSE To(p, "open") /\ Forget(p) /\ asked' = [asked EXCEPT ![p] = c]
          /\ calm' = IF /\ Sound(content[current]) /\ c.want \in {None, content[current]}
                        /\ c.op = "materialize" => Fresh
                     THEN calm \cup {p} ELSE calm \ {p}
    BY DEF Begin
  <1>2. /\ UNCHANGED <<archive, dest>> /\ TypeOK
        /\ \A q \in Proc \ {p} :
             /\ pc'[q] = pc[q] /\ asked'[q] = asked[q] /\ fd'[q] = fd[q]
             /\ same'[q] = same[q] /\ copy'[q] = copy[q] /\ names'[q] = names[q]
    BY <1>1 DEF Begin, IInv, TypeOK, To, Refuse, Forget, Close
  <1>3. ASSUME p \in calm' PROVE HonestOk(p)'
    <2>1. /\ Sound(content[current]) /\ c.want \in {None, content[current]}
          /\ c.op = "materialize" => dest = Absent
      BY <1>1, <1>3 DEF Fresh
    <2>2. pc'[p] = "open" /\ names'[p] = {} /\ asked'[p] = c
      BY <1>1, <1>2, <2>1 DEF TypeOK, To, Forget, Fresh
    <2>3. Sound(content[current])'
      BY <1>2, <2>1 DEF Sound, archive
    <2> QED
      BY <1>2, <2>1, <2>2, <2>3 DEF HonestOk, Working, archive
  <1> QED
    BY <1>1, <1>2, <1>3, HonestOwn

(* A step that touches neither the archive nor the destination nor calm.   *)
LEMMA HonestLocal ==
  ASSUME IInv, HonestInv, NEW p \in Proc, UNCHANGED <<archive, dest, calm>>,
         \A q \in Proc \ {p} :
           /\ pc'[q] = pc[q] /\ asked'[q] = asked[q] /\ fd'[q] = fd[q]
           /\ same'[q] = same[q] /\ copy'[q] = copy[q] /\ names'[q] = names[q],
         p \in calm => HonestOk(p)'
  PROVE  HonestInv'
  BY HonestOwn

LEMMA SoundStays == UNCHANGED archive => Sound(content[current])' = Sound(content[current])
  BY DEF Sound, archive

LEMMA HonestOpenStatRead ==
  ASSUME IInv, HonestInv, NEW p \in Proc, Open(p) \/ Stat(p) \/ Read(p)
  PROVE  HonestInv'
  <1>1. /\ UNCHANGED <<archive, dest, calm>> /\ TypeOK
        /\ \A q \in Proc \ {p} :
             /\ pc'[q] = pc[q] /\ asked'[q] = asked[q] /\ fd'[q] = fd[q]
             /\ same'[q] = same[q] /\ copy'[q] = copy[q] /\ names'[q] = names[q]
    BY DEF Open, Stat, Read, IInv, TypeOK, To, Refuse, Forget, Close
  <1>2. ASSUME p \in calm PROVE HonestOk(p)'
    <2>1. HonestOk(p) /\ Sound(content[current])' = Sound(content[current])
      BY <1>1, <1>2, SoundStays DEF HonestInv
    <2>2. CASE Open(p)
      <3>1. /\ pc[p] = "open" /\ pc'[p] = "stat" /\ fd'[p] = current
            /\ UNCHANGED <<asked, names>>
        BY <2>2, <1>1 DEF Open, To, TypeOK
      <3> QED
        BY <1>1, <2>1, <3>1 DEF HonestOk, Working, archive
    <2>3. CASE Stat(p)
      <3>1. pc[p] = "stat" /\ fd[p] = current
        BY <2>1, <2>3 DEF Stat, HonestOk
      <3>2. pc'[p] = "read" /\ same'[p] = TRUE /\ UNCHANGED <<asked, fd, names>>
        BY <1>1, <2>3, <3>1 DEF Stat, To, TypeOK
      <3> QED
        BY <1>1, <2>1, <3>1, <3>2 DEF HonestOk, Working, archive
    <2>4. CASE Read(p)
      <3>1. pc[p] = "read" /\ UNCHANGED <<pc, asked, fd, same, names>>
        BY <2>4 DEF Read
      <3> QED
        BY <1>1, <2>1, <3>1 DEF HonestOk, Working, archive
    <2> QED
      BY <2>2, <2>3, <2>4
  <1> QED
    BY <1>1, <1>2, HonestLocal

(* What was copied is the archive, so nothing is refused.                  *)
LEMMA HonestCopied ==
  ASSUME IInv, HonestInv, NEW p \in Proc, Copied(p)
  PROVE  HonestInv'
  <1>1. /\ UNCHANGED <<archive, dest, calm>> /\ TypeOK
        /\ \A q \in Proc \ {p} :
             /\ pc'[q] = pc[q] /\ asked'[q] = asked[q] /\ fd'[q] = fd[q]
             /\ same'[q] = same[q] /\ copy'[q] = copy[q] /\ names'[q] = names[q]
    BY DEF Copied, IInv, TypeOK, To, Refuse, Forget, Close
  <1>2. ASSUME p \in calm PROVE HonestOk(p)'
    <2>1. /\ HonestOk(p) /\ Sound(content[current])' = Sound(content[current])
          /\ pc[p] = "read" /\ Len(copy[p]) = Chunks
      BY <1>1, <1>2, SoundStays DEF HonestInv, Copied
    <2>2. /\ same[p] /\ fd[p] = current /\ names[p] = {} /\ Sound(content[current])
          /\ asked[p].want \in {None, content[current]}
      BY <2>1 DEF HonestOk, Working
    <2>3. copy[p] = content[current]
      <3>1. /\ Len(copy[p]) = Chunks /\ copy[p] \in Seq(Chunk)
            /\ \A i \in 1..Chunks : copy[p][i] = content[current][i]
        BY <1>1, <2>1, <2>2 DEF IInv, CallOk, TypeOK
      <3>2. content[current] \in Seq(Chunk) /\ Len(content[current]) = Chunks
        BY <1>1, <2>2, MaterializeAssumption DEF TypeOK, Archive
      <3> QED
        BY <3>1, <3>2, SeqEqual
    <2>4. pc'[p] = "unpack" /\ UNCHANGED <<asked, copy, names>>
      BY <1>1, <2>2, <2>3 DEF Copied, Unchanged, Wanted, Sound, To, TypeOK
    <2>5. FirstMembers(p)'
      <3>1. Tar[copy[p]] \in Seq(Member)
        BY <2>2, <2>3, MaterializeAssumption DEF Sound
      <3>2. IsFiniteSet({}) /\ Cardinality({}) = 0
        BY FS_EmptySet
      <3>3. 0 <= Len(Tar[copy[p]]) /\ {} = {Tar[copy[p]][i] : i \in 1..0}
        BY <3>1
      <3>4. names'[p] = {} /\ copy'[p] = copy[p]
        BY <2>2, <2>4
      <3>5. Cardinality(names[p])' = 0 /\ IsFiniteSet(names[p])'
        BY <3>2, <3>4
      <3> QED
        BY <3>3, <3>4, <3>5 DEF FirstMembers
    <2> QED
      BY <1>1, <2>1, <2>2, <2>3, <2>4, <2>5 DEF HonestOk, Working, archive
  <1> QED
    BY <1>1, <1>2, HonestLocal

(* The next member is within the limit, new and intact.                    *)
LEMMA HonestUnpack ==
  ASSUME IInv, HonestInv, NEW p \in Proc, Unpack(p)
  PROVE  HonestInv'
  <1>1. /\ UNCHANGED <<archive, dest, calm>> /\ TypeOK
        /\ \A q \in Proc \ {p} :
             /\ pc'[q] = pc[q] /\ asked'[q] = asked[q] /\ fd'[q] = fd[q]
             /\ same'[q] = same[q] /\ copy'[q] = copy[q] /\ names'[q] = names[q]
    BY DEF Unpack, IInv, TypeOK, To, Refuse, Forget, Close
  <1>2. ASSUME p \in calm PROVE HonestOk(p)'
    <2> DEFINE t == Tar[copy[p]]
               n == Cardinality(names[p])
    <2>1. /\ HonestOk(p) /\ Sound(content[current])' = Sound(content[current])
          /\ pc[p] = "unpack" /\ n + 1 <= Len(t)
      BY <1>1, <1>2, SoundStays DEF HonestInv, Unpack
    <2>2. Sound(copy[p]) /\ copy[p] = content[current] /\ FirstMembers(p)
      BY <2>1 DEF HonestOk, Working
    <2>3. /\ n \in Nat /\ IsFiniteSet(names[p]) /\ n <= Len(t)
          /\ names[p] = {t[i] : i \in 1..n}
      BY <2>2, FS_CardinalityType DEF FirstMembers
    <2>4. t \in Seq(Member) /\ Len(t) \in Nat /\ MaxMembers \in Nat
      BY <2>2, MaterializeAssumption DEF Sound
    <2>5. n + 1 \in 1..Len(t) /\ \A i \in 1..n : i \in 1..Len(t) /\ i # n + 1
      BY <2>1, <2>3, <2>4
    <2>6. t[n + 1] \notin names[p]
      BY <2>2, <2>3, <2>5 DEF Sound
    <2>7. t[n + 1] \in Intact[copy[p]] /\ WithinLimit(n + 1)
      <3>1. t[n + 1] \in Intact[copy[p]]
        BY <2>2, <2>5 DEF Sound
      <3>2. n + 1 + 1 <= MaxMembers
        BY <2>1, <2>2, <2>3, <2>4 DEF Sound
      <3> QED
        BY <3>1, <3>2 DEF WithinLimit
    <2>8. names' = [names EXCEPT ![p] = @ \cup {t[n + 1]}] /\ UNCHANGED <<pc, asked, fd, same, copy>>
      BY <2>6, <2>7 DEF Unpack
    <2>9. names'[p] = names[p] \cup {t[n + 1]}
      BY <1>1, <2>8 DEF TypeOK
    <2>10. FirstMembers(p)'
      <3>1. IsFiniteSet(names'[p]) /\ Cardinality(names'[p]) = n + 1
        BY <2>3, <2>6, <2>9, FS_AddElement
      <3>2. 1..(n + 1) = 1..n \cup {n + 1}
        BY <2>3
      <3>3. names'[p] = {t[i] : i \in 1..(n + 1)}
        BY <2>3, <2>9, <3>2
      <3> QED
        BY <2>1, <2>8, <3>1, <3>3 DEF FirstMembers
    <2> QED
      BY <1>1, <2>1, <2>8, <2>10 DEF HonestOk, Working, archive
  <1> QED
    BY <1>1, <1>2, HonestLocal

(* All members were unpacked, and they are those the manifest lists.       *)
LEMMA HonestUnpacked ==
  ASSUME IInv, HonestInv, NEW p \in Proc, Unpacked(p)
  PROVE  HonestInv'
  <1>1. /\ UNCHANGED <<archive, dest, calm>> /\ TypeOK
        /\ \A q \in Proc \ {p} :
             /\ pc'[q] = pc[q] /\ asked'[q] = asked[q] /\ fd'[q] = fd[q]
             /\ same'[q] = same[q] /\ copy'[q] = copy[q] /\ names'[q] = names[q]
    BY DEF Unpacked, IInv, TypeOK, To, Continue, Refuse, Forget, Close, data
  <1>2. ASSUME p \in calm PROVE HonestOk(p)'
    <2> DEFINE t == Tar[copy[p]]
               n == Cardinality(names[p])
    <2>1. /\ HonestOk(p) /\ Sound(content[current])' = Sound(content[current])
          /\ pc[p] = "unpack" /\ n + 1 > Len(t)
      BY <1>1, <1>2, SoundStays DEF HonestInv, Unpacked
    <2>2. Sound(copy[p]) /\ copy[p] = content[current] /\ FirstMembers(p)
      BY <2>1 DEF HonestOk, Working
    <2>3. /\ n \in Nat /\ n <= Len(t) /\ names[p] = {t[i] : i \in 1..n}
          /\ Len(t) \in Nat
      BY <2>2, FS_CardinalityType, MaterializeAssumption DEF FirstMembers, Sound
    <2>4. n = Len(t)
      BY <2>1, <2>3
    <2>5. names[p] = Declared[copy[p]]
      BY <2>2, <2>3, <2>4 DEF Sound
    <2>6. /\ pc'[p] \in {"ok", "recheck"} /\ UNCHANGED <<asked, copy>>
      BY <1>1, <2>5 DEF Unpacked, Continue, To, TypeOK, data
    <2> QED
      BY <1>1, <2>1, <2>6 DEF HonestOk, Working, archive
  <1> QED
    BY <1>1, <1>2, HonestLocal

LEMMA HonestRecheck ==
  ASSUME IInv, HonestInv, NEW p \in Proc, Recheck(p)
  PROVE  HonestInv'
  <1>1. /\ UNCHANGED <<archive, dest, calm>> /\ TypeOK
        /\ \A q \in Proc \ {p} :
             /\ pc'[q] = pc[q] /\ asked'[q] = asked[q] /\ fd'[q] = fd[q]
             /\ same'[q] = same[q] /\ copy'[q] = copy[q] /\ names'[q] = names[q]
    BY DEF Recheck, IInv, TypeOK, To, Continue, Refuse, Forget, Close, data
  <1>2. ASSUME p \in calm PROVE HonestOk(p)'
    <2>1. /\ HonestOk(p) /\ Sound(content[current])' = Sound(content[current])
          /\ pc[p] = "recheck" /\ asked[p].op = "materialize"
      BY <1>1, <1>2, SoundStays DEF HonestInv, Recheck, IInv, CallOk
    <2>2. Fresh
      BY <2>1 DEF HonestOk, Working, Fresh
    <2>3. pc'[p] = "rename" /\ UNCHANGED <<asked, copy>>
      BY <1>1, <2>2 DEF Recheck, Continue, To, TypeOK, data
    <2> QED
      BY <1>1, <2>1, <2>3 DEF HonestOk, Working, archive
  <1> QED
    BY <1>1, <1>2, HonestLocal

(* Another call that wants the destination is no longer expected to get it. *)
LEMMA HonestRename ==
  ASSUME IInv, HonestInv, NEW p \in Proc, Rename(p)
  PROVE  HonestInv'
  <1>1. /\ UNCHANGED archive /\ TypeOK /\ calm' \subseteq calm
        /\ \A q \in Proc \ {p} :
             /\ pc'[q] = pc[q] /\ asked'[q] = asked[q] /\ fd'[q] = fd[q]
             /\ same'[q] = same[q] /\ copy'[q] = copy[q] /\ names'[q] = names[q]
        /\ \A q \in calm' \ {p} : asked[q].op = "inspect" \/ dest' = dest
    BY DEF Rename, IInv, TypeOK, To, Continue, Refuse, Forget, Close, data
  <1>2. ASSUME p \in calm' PROVE HonestOk(p)'
    <2>1. HonestOk(p) /\ pc[p] = "rename" /\ asked[p].op = "materialize"
      BY <1>1, <1>2 DEF HonestInv, Rename, IInv, CallOk
    <2>2. dest = Absent
      BY <2>1 DEF HonestOk, Working
    <2>3. pc'[p] = "return"
      BY <1>1, <2>2 DEF Rename, Continue, To, TypeOK
    <2> QED
      BY <2>3 DEF HonestOk, Working
  <1> QED
    BY <1>1, <1>2, HonestOwn

LEMMA HonestReturn ==
  ASSUME IInv, HonestInv, NEW p \in Proc, Return(p)
  PROVE  HonestInv'
  <1>1. /\ UNCHANGED <<archive, dest, calm>> /\ TypeOK /\ pc'[p] = "ok"
        /\ \A q \in Proc \ {p} :
             /\ pc'[q] = pc[q] /\ asked'[q] = asked[q] /\ fd'[q] = fd[q]
             /\ same'[q] = same[q] /\ copy'[q] = copy[q] /\ names'[q] = names[q]
    BY DEF Return, IInv, TypeOK, To, Continue, data
  <1>2. HonestOk(p)'
    BY <1>1 DEF HonestOk, Working
  <1> QED
    BY <1>1, <1>2, HonestLocal

LEMMA HonestFault ==
  ASSUME IInv, HonestInv, NEW p \in Proc, Fault(p)
  PROVE  HonestInv'
  <1>1. /\ UNCHANGED <<archive, dest>> /\ TypeOK /\ calm' = calm \ {p}
        /\ \A q \in Proc \ {p} :
             /\ pc'[q] = pc[q] /\ asked'[q] = asked[q] /\ fd'[q] = fd[q]
             /\ same'[q] = same[q] /\ copy'[q] = copy[q] /\ names'[q] = names[q]
    BY DEF Fault, IInv, TypeOK, To, Refuse, Forget, Close
  <1> QED
    BY <1>1, HonestOwn

LEMMA HonestNext == IInv /\ HonestInv /\ [Next]_vars => HonestInv'
  <1> SUFFICES ASSUME IInv, HonestInv, [Next]_vars PROVE HonestInv'
    OBVIOUS
  <1>1. CASE UNCHANGED vars
    <2> SUFFICES ASSUME NEW p \in calm PROVE HonestOk(p)'
      BY <1>1 DEF HonestInv, vars
    <2>1. /\ HonestOk(p) /\ Sound(content[current])' = Sound(content[current])
          /\ FirstMembers(p)' = FirstMembers(p)
      BY <1>1, SoundStays DEF HonestInv, vars, call, data, FirstMembers
    <2> QED
      BY <1>1, <2>1 DEF HonestOk, vars, call, data, archive
  <1>2. ASSUME NEW p \in Proc, Step(p) PROVE HonestInv'
    BY <1>2, HonestBegin, HonestOpenStatRead, HonestCopied, HonestUnpack,
       HonestUnpacked, HonestRecheck, HonestRename, HonestReturn, HonestFault DEF Step
  <1>3. CASE Overwrite \/ Replace \/ Occupy
    BY <1>3 DEF Overwrite, Replace, Occupy, Disturb, HonestInv
  <1> QED
    BY <1>1, <1>2, <1>3 DEF Next

(* A call that nothing disturbs, on a sound archive, with its digest or    *)
(* none and a free destination, is not refused, however many others run.   *)
THEOREM HonestSucceedsHolds == Spec => []HonestSucceeds
  <1>1. Init => IInv /\ HonestInv
    BY InitInv, HonestInit
  <1>2. (IInv /\ HonestInv) /\ [Next]_vars => (IInv /\ HonestInv)'
    BY NextInv, HonestNext
  <1>3. HonestInv => HonestSucceeds
    BY DEF HonestInv, HonestOk, HonestSucceeds, Working
  <1> QED
    BY <1>1, <1>2, <1>3, PTL DEF Spec

-----------------------------------------------------------------------------
(* Materialize implements PacketReader.                                    *)

(* Nothing is taken before the file has been found at the path.            *)
TakenInv == \A p \in Proc : pc[p] \in {"open", "stat"} => whole[p] = None

LEMMA TakenInit == Init => TakenInv
  BY DEF Init, TakenInv

LEMMA TakenNext == IInv /\ TakenInv /\ [Next]_vars => TakenInv'
  <1> SUFFICES ASSUME IInv, TakenInv, [Next]_vars PROVE TakenInv'
    OBVIOUS
  <1>1. ASSUME NEW p \in Proc, Step(p) PROVE TakenInv'
    <2> USE <1>1 DEF IInv, TypeOK, TakenInv, To
    <2>1. CASE Begin(p) \/ Fault(p)
      BY <2>1 DEF Begin, Fault, Refuse, Forget
    <2>2. CASE Open(p) \/ Stat(p)
      BY <2>2 DEF Open, Stat, Refuse, Forget
    <2>3. CASE Read(p) \/ Copied(p) \/ Unpack(p)
      BY <2>3 DEF Read, Copied, Unpack, Refuse, Forget
    <2>4. CASE Unpacked(p) \/ Recheck(p) \/ Rename(p) \/ Return(p)
      BY <2>4 DEF Unpacked, Recheck, Rename, Return, Continue, Refuse, Forget, data
    <2> QED
      BY <2>1, <2>2, <2>3, <2>4 DEF Step
  <1>2. CASE Overwrite \/ Replace \/ Occupy \/ UNCHANGED vars
    BY <1>2 DEF Overwrite, Replace, Occupy, vars, call, data, TakenInv
  <1> QED
    BY <1>1, <1>2 DEF Next

(* What a caller sees of its call when it is at l.                         *)
Seen(l) ==
  IF l = "return" THEN "placed" ELSE IF l \in Working THEN "working" ELSE l

LEMMA SeenOfStep ==
  ASSUME TypeOK, NEW p \in Proc, NEW l, To(p, l),
         \A q \in Proc \ {p} : copy'[q] = copy[q] /\ names'[q] = names[q]
  PROVE  /\ Stage' = [Stage EXCEPT ![p] = Seen(l)]
         /\ Answered' = [Answered EXCEPT ![p] = IF l = "ok" THEN Record(p)' ELSE None]
  <1>1. \A q \in Proc : pc'[q] = IF q = p THEN l ELSE pc[q]
    BY DEF To, TypeOK
  <1> QED
    BY <1>1 DEF Stage, Answered, Record, Seen

(* A step that callers do not see. *)
LEMMA Unseen ==
  ASSUME TypeOK, UNCHANGED <<archive, dest, asked, whole>>,
         \A q \in Proc :
           \/ pc[q] \in Working \ {"return"} /\ pc'[q] \in Working \ {"return"}
           \/ pc'[q] = pc[q] /\ copy'[q] = copy[q] /\ names'[q] = names[q]
  PROVE  UNCHANGED Reader!readerVars
  <1>1. "ok" \notin Working
    BY DEF Working
  <1>2. Stage' = Stage
    BY DEF Stage
  <1>3. Answered' = Answered
    BY <1>1 DEF Answered
  <1> QED
    BY <1>2, <1>3 DEF Reader!readerVars, archive

LEMMA SeenEnter ==
  ASSUME TypeOK, NEW p \in Proc, NEW l \in {"open", "refused", "idle"}, To(p, l), Forget(p),
         NEW c \in Call, asked' = [asked EXCEPT ![p] = c], UNCHANGED <<archive, dest>>
  PROVE  Reader!Enter(p, IF l = "open" THEN "working" ELSE l)
  <1>1. \A q \in Proc \ {p} : copy'[q] = copy[q] /\ names'[q] = names[q]
    BY DEF Forget, TypeOK
  <1>2. /\ Stage' = [Stage EXCEPT ![p] = Seen(l)]
        /\ Answered' = [Answered EXCEPT ![p] = IF l = "ok" THEN Record(p)' ELSE None]
    BY <1>1, SeenOfStep
  <1>3. Seen(l) = (IF l = "open" THEN "working" ELSE l) /\ l # "ok"
    BY DEF Working, Seen
  <1>4. /\ Stage' = [Stage EXCEPT ![p] = IF l = "open" THEN "working" ELSE l]
        /\ Answered' = [Answered EXCEPT ![p] = None]
    BY <1>2, <1>3
  <1>5. whole' = [whole EXCEPT ![p] = None] /\ content'[current'] = content[current]
    BY DEF Forget, archive
  <1> QED
    BY <1>4, <1>5 DEF Reader!Enter

LEMMA SeenRefuse ==
  ASSUME TypeOK, NEW p \in Proc, Refuse(p), UNCHANGED <<archive, dest>>
  PROVE  Reader!Next
  <1>1. NoCall \in Call
    BY DEF NoCall, Call
  <1>2. Reader!Enter(p, "refused")
    BY <1>1, SeenEnter DEF Refuse
  <1> QED
    BY <1>2 DEF Reader!Next, Reader!Refuse

LEMMA SeenBegin ==
  ASSUME TypeOK, NEW p \in Proc, Begin(p)
  PROVE  Reader!Next
  <1>1. CASE Refuse(p)
    BY <1>1, SeenRefuse DEF Begin
  <1>2. CASE \E c \in Call : To(p, "open") /\ Forget(p) /\ asked' = [asked EXCEPT ![p] = c]
    <2>1. Reader!Enter(p, "working")
      BY <1>2, SeenEnter DEF Begin
    <2>2. Stage[p] \notin Reader!Running
      BY DEF Begin, Returned, Working, Stage, Reader!Running
    <2> QED
      BY <2>1, <2>2 DEF Reader!Next, Reader!Begin
  <1> QED
    BY <1>1, <1>2 DEF Begin

LEMMA SeenFault ==
  ASSUME TypeOK, NEW p \in Proc, Fault(p)
  PROVE  Reader!Next
  <1>1. CASE Refuse(p)
    BY <1>1, SeenRefuse DEF Fault
  <1>2. CASE To(p, "idle") /\ Forget(p) /\ asked' = [asked EXCEPT ![p] = NoCall]
    <2>1. NoCall \in Call /\ Stage[p] \in Reader!Running
      BY DEF NoCall, Call, Fault, Stage, Reader!Running
    <2>2. Reader!Enter(p, "idle")
      BY <1>2, <2>1, SeenEnter DEF Fault
    <2> QED
      BY <2>1, <2>2 DEF Reader!Next, Reader!Die
  <1> QED
    BY <1>1, <1>2 DEF Fault

(* The archive is taken.                                                   *)
LEMMA SeenStat ==
  ASSUME IInv, TakenInv, NEW p \in Proc, Stat(p)
  PROVE  Reader!Next
  <1>1. CASE Refuse(p)
    BY <1>1, SeenRefuse DEF Stat, IInv
  <1>2. CASE To(p, "read") /\ whole' = [whole EXCEPT ![p] = content[current]]
             /\ UNCHANGED <<asked, fd, copy, names>>
    <2>1. Stage[p] = "working" /\ whole[p] = None /\ UNCHANGED <<content, current, dest>>
      BY DEF Stat, Stage, Working, TakenInv, archive
    <2>2. \A q \in Proc : pc'[q] = IF q = p THEN "read" ELSE pc[q]
      BY <1>2 DEF To, IInv, TypeOK
    <2>3. Stage' = Stage /\ Answered' = Answered
      BY <1>2, <2>2 DEF Stat, Stage, Answered, Working
    <2>4. Reader!Take(p)
      BY <1>2, <2>1, <2>3 DEF Reader!Take
    <2> QED
      BY <2>4 DEF Reader!Next
  <1> QED
    BY <1>1, <1>2 DEF Stat

(* What the call has unpacked is the packet it may put at the destination  *)
(* and answer for.                                                         *)
LEMMA SeenPacket ==
  ASSUME IInv, NEW p \in Proc, pc[p] \in {"unpack", "rename", "return"},
         names[p] = Declared[copy[p]]
  PROVE  Record(p) = Reader!Packet(p) /\ (pc[p] # "return" => Reader!Ready(p))
  <1>1. copy[p] = whole[p] /\ whole[p] # None /\ asked[p].want \in {None, whole[p]}
    BY MaterializeAssumption DEF IInv, CallOk, TypeOK
  <1>2. pc[p] # "return" => Stage[p] = "working"
    BY DEF Working, Stage
  <1> QED
    BY <1>1, <1>2 DEF Record, Reader!Packet, Reader!Ready

(* The call answers, for what it took.                                     *)
LEMMA SeenAnswer ==
  ASSUME IInv, NEW p \in Proc, Continue(p, "ok"), UNCHANGED <<archive, dest>>,
         names[p] = Declared[copy[p]],
         \/ pc[p] = "unpack" /\ asked[p].op = "inspect"
         \/ pc[p] = "return"
  PROVE  Reader!Next
  <1>1. /\ To(p, "ok") /\ UNCHANGED <<asked, copy, names, whole, content, current>> /\ TypeOK
    BY DEF Continue, data, archive, IInv
  <1>2. Record(p)' = Record(p)
    BY <1>1 DEF Record
  <1>3. Seen("ok") = "ok"
    BY DEF Seen, Working
  <1>4. Stage' = [Stage EXCEPT ![p] = "ok"] /\ Answered' = [Answered EXCEPT ![p] = Record(p)]
    BY <1>1, <1>2, <1>3, SeenOfStep
  <1>5. Record(p) = Reader!Packet(p) /\ (pc[p] # "return" => Reader!Ready(p))
    BY SeenPacket
  <1>6. pc[p] = "return" => Stage[p] = "placed" /\ dest = Record(p)
    BY DEF Stage, IInv, CallOk, Owner
  <1>7. Reader!Answer(p)
    BY <1>1, <1>4, <1>5, <1>6 DEF Reader!Answer
  <1> QED
    BY <1>7 DEF Reader!Next

LEMMA SeenUnpacked ==
  ASSUME IInv, NEW p \in Proc, Unpacked(p)
  PROVE  [Reader!Next]_(Reader!readerVars)
  <1>1. CASE Refuse(p)
    BY <1>1, SeenRefuse DEF Unpacked, IInv
  <1>2. ASSUME names[p] = Declared[copy[p]], asked[p].op = "inspect", Continue(p, "ok")
        PROVE  Reader!Next
    BY <1>2, SeenAnswer DEF Unpacked
  <1>3. ASSUME asked[p].op # "inspect", Continue(p, "recheck")
        PROVE  UNCHANGED Reader!readerVars
    BY <1>3, Unseen DEF Unpacked, Continue, To, data, IInv, TypeOK, Working
  <1> QED
    BY <1>1, <1>2, <1>3 DEF Unpacked

LEMMA SeenRename ==
  ASSUME IInv, NEW p \in Proc, Rename(p)
  PROVE  Reader!Next
  <1>1. CASE Refuse(p) /\ UNCHANGED dest
    BY <1>1, SeenRefuse DEF Rename, IInv
  <1>2. CASE dest \in {Absent, Empty} /\ dest' = Record(p) /\ Continue(p, "return")
    <2>1. /\ names[p] = Declared[copy[p]] /\ asked[p].op = "materialize"
          /\ pc[p] = "rename" /\ TypeOK
      BY DEF Rename, IInv, CallOk
    <2>2. Record(p) = Reader!Packet(p) /\ Reader!Ready(p)
      BY <2>1, SeenPacket
    <2>3. To(p, "return") /\ UNCHANGED <<asked, copy, names, whole, content, current>>
      BY <1>2 DEF Rename, Continue, data, archive
    <2>4. Seen("return") = "placed" /\ Answered[p] = None
      BY <2>1 DEF Seen, Answered
    <2>5. Stage' = [Stage EXCEPT ![p] = "placed"] /\ Answered' = Answered
      <3>1. /\ Stage' = [Stage EXCEPT ![p] = Seen("return")]
            /\ Answered' = [Answered EXCEPT ![p] =
                              IF "return" = "ok" THEN Record(p)' ELSE None]
        BY <2>1, <2>3, SeenOfStep
      <3>2. Answered = [Answered EXCEPT ![p] = None]
        BY <2>4 DEF Answered
      <3> QED
        BY <2>4, <3>1, <3>2
    <2>6. Reader!Place(p)
      BY <1>2, <2>1, <2>2, <2>3, <2>5 DEF Reader!Place
    <2> QED
      BY <2>6 DEF Reader!Next
  <1> QED
    BY <1>1, <1>2 DEF Rename, Record

LEMMA SeenReturn ==
  ASSUME IInv, NEW p \in Proc, Return(p)
  PROVE  Reader!Next
  <1>1. pc[p] = "return" /\ names[p] = Declared[copy[p]]
    BY DEF Return, IInv, CallOk
  <1> QED
    BY <1>1, SeenAnswer DEF Return

(* Looking, copying, unpacking: nobody sees it unless the call is refused. *)
LEMMA SeenWork ==
  ASSUME IInv, NEW p \in Proc,
         Open(p) \/ Read(p) \/ Copied(p) \/ Unpack(p) \/ Recheck(p)
  PROVE  [Reader!Next]_(Reader!readerVars)
  <1>1. CASE Refuse(p)
    <2>1. UNCHANGED <<archive, dest>>
      BY DEF Open, Read, Copied, Unpack, Recheck
    <2> QED
      BY <1>1, <2>1, SeenRefuse DEF IInv
  <1>2. CASE ~Refuse(p)
    <2>1. /\ UNCHANGED <<archive, dest, asked, whole>>
          /\ pc[p] \in Working \ {"return"} /\ pc'[p] \in Working \ {"return"}
          /\ \A q \in Proc \ {p} : pc'[q] = pc[q] /\ copy'[q] = copy[q] /\ names'[q] = names[q]
      BY <1>2 DEF Open, Read, Copied, Unpack, Recheck, Continue, To, Close, data, IInv, TypeOK, Working
    <2> QED
      BY <2>1, Unseen DEF IInv
  <1> QED
    BY <1>1, <1>2

LEMMA SeenOthers ==
  ASSUME IInv, IInv', Overwrite \/ Replace \/ Occupy
  PROVE  Reader!Next
  <1>1. CASE Overwrite \/ Replace
    <2>1. UNCHANGED <<dest, pc, asked, copy, names, whole>>
      BY <1>1 DEF Overwrite, Replace
    <2>2. Stage' = Stage /\ Answered' = Answered
      BY <2>1 DEF Stage, Answered
    <2>3. content'[current'] \in Archive
      BY DEF IInv, TypeOK
    <2>4. Reader!Change
      BY <2>1, <2>2, <2>3 DEF Reader!Change
    <2> QED
      BY <2>4 DEF Reader!Next
  <1>2. CASE Occupy
    <2>1. /\ UNCHANGED <<content, current, pc, asked, copy, names, whole>>
          /\ dest \in {Absent, Empty, Taken} /\ dest' \in {Absent, Empty, Taken}
      BY <1>2 DEF Occupy, archive, call, data
    <2>2. Stage' = Stage /\ Answered' = Answered
      BY <2>1 DEF Stage, Answered
    <2>3. Reader!Occupy
      BY <2>1, <2>2 DEF Reader!Occupy
    <2> QED
      BY <2>3 DEF Reader!Next
  <1> QED
    BY <1>1, <1>2

(* However many calls there are and whatever happens to the source and the *)
(* destination: each call is an atomic look at the archive; a packet       *)
(* appears at once, whole, at a free destination, and stays; and a call    *)
(* answers for what it took alone, and only while that packet is there.    *)
(* A call that fails or dies after the rename leaves a whole packet and no *)
(* answer.                                                                 *)
THEOREM MaterializeImplementsReader == Spec => ImplementsReader
  <1>1. Init => Reader!Init
    <2> SUFFICES ASSUME Init PROVE Reader!Init
      OBVIOUS
    <2>1. content[current] \in Archive /\ NoCall \in Call
      BY MaterializeAssumption DEF Init, File, NoCall, Call
    <2>2. Stage = [p \in Proc |-> "idle"] /\ Answered = [p \in Proc |-> None]
      BY DEF Init, Stage, Answered, Working
    <2> QED
      BY <2>1, <2>2 DEF Init, Reader!Init
  <1>2. IInv /\ TakenInv /\ IInv' /\ [Next]_vars => [Reader!Next]_(Reader!readerVars)
    <2> SUFFICES ASSUME IInv, TakenInv, IInv', [Next]_vars
                 PROVE  [Reader!Next]_(Reader!readerVars)
      OBVIOUS
    <2>1. ASSUME NEW p \in Proc, Step(p) PROVE [Reader!Next]_(Reader!readerVars)
      BY <2>1, SeenBegin, SeenStat, SeenWork, SeenUnpacked, SeenRename, SeenReturn,
         SeenFault DEF Step, IInv
    <2>2. CASE Overwrite \/ Replace \/ Occupy
      BY <2>2, SeenOthers
    <2>3. CASE UNCHANGED vars
      BY <2>3, Unseen DEF vars, call, data, IInv
    <2> QED
      BY <2>1, <2>2, <2>3 DEF Next
  <1> QED
    BY <1>1, <1>2, InvHolds, TakenInit, TakenNext, PTL DEF Spec, ImplementsReader, Reader!Spec
=============================================================================
