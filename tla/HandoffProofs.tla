--------------------------- MODULE HandoffProofs ---------------------------
(***************************************************************************)
(* Proofs about Handoff, for every number of processes, every set of paths *)
(* and contents and every bound.                                           *)
(***************************************************************************)
EXTENDS Handoff, FiniteSetTheorems, TLAPS

-----------------------------------------------------------------------------
(* Trees: a tree is a function on some of the paths. *)
LEMMA TreeDomain ==
  ASSUME NEW t \in Tree
  PROVE  DOMAIN t \subseteq Path /\ t \in [DOMAIN t -> Content]
BY DEF Tree

LEMMA TreeIntro ==
  ASSUME NEW S \in SUBSET Path, NEW t \in [S -> Content]
  PROVE  t \in Tree
BY DEF Tree

(* Adding or replacing one file of a tree gives a tree. *)
LEMMA TreeWithFile ==
  ASSUME NEW t \in Tree, NEW f \in Path, NEW c \in Content
  PROVE  [g \in DOMAIN t \cup {f} |-> IF g = f THEN c ELSE t[g]] \in Tree
<1> DEFINE S == DOMAIN t \cup {f}
           u == [g \in S |-> IF g = f THEN c ELSE t[g]]
<1>1. S \in SUBSET Path BY TreeDomain
<1>2. u \in [S -> Content] BY TreeDomain
<1> QED BY <1>1, <1>2, TreeIntro

LEMMA NoCopyType == NoCopy \in Bundle
<1>1. [f \in {} |-> None] \in [{} -> Content] OBVIOUS
<1>2. [f \in {} |-> None] \in Tree BY <1>1, TreeIntro
<1> QED BY <1>2 DEF NoCopy, Bundle

LEMMA FilesType ==
  ASSUME NEW t \in Tree
  PROVE  Cardinality(DOMAIN t) \in Nat
BY TreeDomain, FS_Subset, FS_CardinalityType, BundleAssumption

-----------------------------------------------------------------------------
(* Who is inside: exactly the holder of the lock. *)
LockInv == \A p \in Proc : pc[p] \in Inside <=> lock = p

Control == pc \in [Proc -> Inside \cup {"idle", "wait"}] /\ lock \in Proc \cup {None}

LEMMA LockInvInit == Init => Control /\ LockInv
BY HandoffAssumption DEF Init, Control, LockInv, Inside

LEMMA LockInvStep == Control /\ LockInv /\ [Next]_vars => Control' /\ LockInv'
<1> SUFFICES ASSUME Control, LockInv, [Next]_vars PROVE Control' /\ LockInv'
    OBVIOUS
<1> USE HandoffAssumption DEF Control, LockInv, Inside, Goto
<1>1. ASSUME NEW p \in Proc, NEW o \in Operation, Call(p, o) PROVE Control' /\ LockInv'
      BY <1>1 DEF Call
<1>2. ASSUME NEW p \in Proc, Acquire(p) PROVE Control' /\ LockInv'
      BY <1>2 DEF Acquire, LockIsFree
<1>3. ASSUME NEW p \in Proc, Unlock(p) PROVE Control' /\ LockInv'
      BY <1>3 DEF Unlock, Running, Ended
<1>4. ASSUME NEW p \in Proc, Crash(p) PROVE Control' /\ LockInv'
      BY <1>4 DEF Crash, Ended
<1>5. ASSUME NEW p \in Proc, Work(p), ~Unlock(p)
      PROVE  Control' /\ LockInv'
  <2>1. /\ lock' = lock /\ lock = p
        /\ pc' = pc \/ \E l \in Inside : pc' = [pc EXCEPT ![p] = l]
    BY <1>5
       DEF Work, Read, Running, ReadOnly, Return, BeginWrite, Abandon, OnWriteError,
           Review, ReadStatus, ReturnPath, VerifiedPath, Approve, Reject, VerifyBegin,
           LoadManifest, Scan, CopyFile, CopyManifest, CopyReceipt, CheckCopy,
           Publish, Cleanup, WriteState, Rollback
  <2> QED BY <2>1
<1>6. ASSUME Outside PROVE Control' /\ LockInv'
      BY <1>6 DEF Outside, Deliver, ChangeFile, RewriteManifest, RewriteReceipt,
                  RelabelReceipt, DropControlFile, AlterPacket, Edit
<1>7. CASE UNCHANGED vars BY <1>7 DEF vars
<1> QED BY <1>1, <1>2, <1>3, <1>4, <1>5, <1>6, <1>7 DEF Next

(* No two calls are ever inside the critical section (_handoff_lock), for  *)
(* any number of processes and whatever fails.                             *)
THEOREM MutualExclusionHolds == Spec => []MutualExclusion
<1>1. Control /\ LockInv => MutualExclusion BY DEF LockInv, MutualExclusion
<1> QED BY <1>1, LockInvInit, LockInvStep, PTL DEF Spec

-----------------------------------------------------------------------------
(* The inductive invariant.  Copying are the steps that have a private     *)
(* copy, Verifying the steps only verify_return takes.                     *)
Copying == {"copy", "copy_manifest", "copy_receipt", "check", "publish"}
Verifying == Copying \cup {"load", "scan", "rollback", "cleanup"}

RecordOf(out) == [manifest |-> out.manifest, receipt |-> out.receipt,
                  files |-> Cardinality(DOMAIN out.manifest)]

(* What a call in front of _write_json is about to write. *)
WriteInv(p) ==
  /\ pending \in State
  /\ StateValid(pending)
  /\ \/ /\ op[p] = "verify"
        /\ state.status = "approved" /\ pending.status = "verified"
        /\ snapshot \in VerifiedOutput
        /\ pending.verification = RecordOf(snapshot)
     \/ /\ op[p] # "verify"
        /\ state.status = "prepared" /\ pending.status = "approved"
        /\ pending.verification = None
     \/ /\ op[p] # "verify"
        /\ state.status \in {"prepared", "approved"} /\ pending.status = "rejected"
        /\ pending.verification = None

(* What the holder of the lock knows at each of its steps. *)
Phase(p) ==
  /\ pc[p] \in Verifying => op[p] = "verify"
  /\ pc[p] \in Copying \cup {"load", "scan"} =>
       state.status = "approved" /\ quarantine \in Bundle
  /\ pc[p] \in Copying \cup {"scan"} => manifest \in Tree
  /\ pc[p] \in Copying => /\ tmp \in Bundle /\ snapshot = None
                          /\ WithinBounds(manifest)
                          /\ todo \subseteq DOMAIN manifest
  /\ pc[p] = "publish" => Acceptable(tmp, manifest)
  /\ pc[p] = "write" => WriteInv(p)
  /\ pc[p] = "rollback" => /\ snapshot \in Bundle
                           /\ "chmod" \notin Faults => state.status # "verified"

Store ==
  /\ PublishedIsComplete
  /\ StateReadable
  /\ "chmod" \notin Faults => VerifiedBinding

IInv == TypeOK /\ LockInv /\ Store /\ \A p \in Proc : lock = p => Phase(p)

LEMMA IInvInit == Init => IInv
<1> SUFFICES ASSUME Init PROVE IInv OBVIOUS
<1>1. TypeOK
  <2>1. state \in State BY DEF Init, State, Status
  <2>2. pc \in [Proc -> Inside \cup {"idle", "wait"}] BY DEF Init
  <2>3. op \in [Proc -> Operation] BY DEF Init, Operation
  <2>4. edits \in 0..MaxEdits BY HandoffAssumption DEF Init
  <2> QED BY <2>1, <2>2, <2>3, <2>4 DEF Init, TypeOK
<1>2. LockInv BY LockInvInit
<1>3. Store
  BY DEF Init, Store, PublishedIsComplete, StateReadable, StateValid, VerifiedBinding
<1>4. \A p \in Proc : lock # p BY HandoffAssumption DEF Init
<1> QED BY <1>1, <1>2, <1>3, <1>4 DEF IInv

(* Every operator that is a part of a step, to be expanded with it. *)
LEMMA ReportedType ==
  ASSUME TypeOK
  PROVE  Reported(state, snapshot) \in Status \cup {"error"}
BY DEF TypeOK, State, Reported

(* What is on disk stays sound when it is left alone, unless a removal is  *)
(* cut short.                                                              *)
LEMMA StoreFrame ==
  ASSUME Store, UNCHANGED <<state, snapshot>>, mishaps \subseteq mishaps',
         "cut" \in mishaps' \/ \A p \in Proc : Running(p, "rollback") => Running(p, "rollback")'
  PROVE  Store'
BY DEF Store, PublishedIsComplete, StateReadable, VerifiedBinding

(* The steps that only look and answer keep the invariant. *)
LEMMA ReadOnlyStep ==
  ASSUME IInv, NEW p \in Proc, lock = p, pc[p] # "rollback",
         NEW a \in Status \cup {"error"}, Return(p, a), ReadOnly
  PROVE  IInv'
<1>1. TypeOK'
  BY DEF IInv, TypeOK, ReadOnly, Return, Goto, Inside, diskVars, outside
<1>2. LockInv'
  BY DEF IInv, TypeOK, ReadOnly, Return, Goto, Inside, LockInv
<1>3. Store'
  BY StoreFrame DEF IInv, ReadOnly, diskVars, Running
<1>4. pc'[p] = "unlock" /\ lock' = p
  BY DEF IInv, TypeOK, Return, Goto, ReadOnly
<1>5. \A q \in Proc : lock' = q => Phase(q)'
  BY <1>4 DEF Phase, Copying, Verifying
<1> QED BY <1>1, <1>2, <1>3, <1>5 DEF IInv

(* A step of the holder p that leaves it the holder. *)
LEMMA HolderStep ==
  ASSUME IInv, NEW p \in Proc, lock = p, lock' = lock,
         NEW l \in Inside, pc' = [pc EXCEPT ![p] = l],
         TypeOK', Store', Phase(p)'
  PROVE  IInv'
<1>1. LockInv' BY DEF IInv, TypeOK, LockInv
<1> QED BY <1>1 DEF IInv

LEMMA ReadSteps ==
  ASSUME IInv, NEW p \in Proc,
         Review(p) \/ ReadStatus(p) \/ ReturnPath(p) \/ VerifiedPath(p)
  PROVE  IInv'
<1>1. Reported(state, snapshot) \in Status \cup {"error"} BY ReportedType DEF IInv
<1>2. CASE Review(p) BY <1>2, ReadOnlyStep DEF Review, Read, Running, Status
<1>3. CASE ReadStatus(p) BY <1>1, <1>3, ReadOnlyStep DEF ReadStatus, Read, Running
<1>4. CASE ReturnPath(p) BY <1>4, ReadOnlyStep DEF ReturnPath, Read, Running, Status
<1>5. CASE VerifiedPath(p) BY <1>1, <1>5, ReadOnlyStep DEF VerifiedPath, Read, Running
<1> QED BY <1>2, <1>3, <1>4, <1>5

LEMMA ApproveStep ==
  ASSUME IInv, NEW p \in Proc, Approve(p)
  PROVE  IInv'
<1> USE DEF Approve, Read, Running, Return, BeginWrite, Goto, MayApprove, ReviewPasses
<1>1. CASE MayApprove
  <2> DEFINE s == [state EXCEPT !.status = "approved", !.approval = "approved_at"]
  <2>1. /\ s \in State /\ s.status = "approved" /\ s.approval = "approved_at"
        /\ s.verification = state.verification
    BY DEF IInv, TypeOK, State, Status
  <2>2. /\ pending' = s /\ pc' = [pc EXCEPT ![p] = "write"] /\ lock' = p /\ lock = p
        /\ op' = op /\ op[p] = "approve" /\ UNCHANGED <<diskVars, outside>>
        /\ UNCHANGED <<reply, manifest, todo, entryPacket, mishaps, told>>
    BY <1>1
  <2>3. StateValid(s) /\ s.verification = None
    BY <1>1, <2>1 DEF StateValid
  <2>4. TypeOK' BY <2>1, <2>2 DEF IInv, TypeOK, diskVars, outside, Inside
  <2>5. Store' BY <2>2, StoreFrame DEF IInv, diskVars, TypeOK
  <2>6. pc'[p] = "write" BY <2>2 DEF IInv, TypeOK
  <2>7. WriteInv(p)' BY <1>1, <2>1, <2>2, <2>3 DEF WriteInv, diskVars, StateValid
  <2>8. Phase(p)' BY <2>6, <2>7 DEF Phase, Copying, Verifying
  <2> QED BY <2>2, <2>4, <2>5, <2>8, HolderStep DEF Inside
<1>2. CASE ~MayApprove
  <2>1. PICK a \in Status \cup {"error"} : Return(p, a)
    BY <1>2 DEF Status
  <2> QED BY <1>2, <2>1, ReadOnlyStep DEF ReadOnly
<1> QED BY <1>1, <1>2

LEMMA RejectStep ==
  ASSUME IInv, NEW p \in Proc, Reject(p)
  PROVE  IInv'
<1> USE DEF Reject, Read, Running, Return, BeginWrite, Goto, MayReject, RejectedState
<1>1. CASE MayReject
  <2> DEFINE s == [state EXCEPT !.status = "rejected", !.approval = "rejected_at"]
  <2>1. /\ s \in State /\ s.status = "rejected" /\ s.approval = "rejected_at"
        /\ s.verification = state.verification
    BY DEF IInv, TypeOK, State, Status
  <2>2. /\ pending' = s /\ pc' = [pc EXCEPT ![p] = "write"] /\ lock' = p /\ lock = p
        /\ op' = op /\ op[p] = "reject" /\ UNCHANGED <<diskVars, outside>>
        /\ UNCHANGED <<reply, manifest, todo, entryPacket, mishaps, told>>
    BY <1>1
  <2>3. StateValid(s) /\ s.verification = None
    BY <1>1, <2>1 DEF StateValid
  <2>4. TypeOK' BY <2>1, <2>2 DEF IInv, TypeOK, diskVars, outside, Inside
  <2>5. Store' BY <2>2, StoreFrame DEF IInv, diskVars, TypeOK
  <2>6. pc'[p] = "write" BY <2>2 DEF IInv, TypeOK
  <2>7. WriteInv(p)' BY <1>1, <2>1, <2>2, <2>3 DEF WriteInv, diskVars, StateValid
  <2>8. Phase(p)' BY <2>6, <2>7 DEF Phase, Copying, Verifying
  <2> QED BY <2>2, <2>4, <2>5, <2>8, HolderStep DEF Inside
<1>2. CASE ~MayReject
  <2>1. PICK a \in Status \cup {"error"} : Return(p, a)
    BY <1>2 DEF Status
  <2> QED BY <1>2, <2>1, ReadOnlyStep DEF ReadOnly
<1> QED BY <1>1, <1>2

(* What a step of verify_return that keeps state.json and the published    *)
(* snapshot has to show. *)
LEMMA VerifyStep ==
  ASSUME IInv, NEW p \in Proc, lock = p, lock' = lock, op' = op, op[p] = "verify",
         UNCHANGED <<state, snapshot, outside, entryPacket, told, pending>>,
         mishaps \subseteq mishaps', mishaps' \subseteq {"died", "cut", "kept"},
         pc[p] # "rollback", NEW l \in Inside \ {"rollback"}, pc' = [pc EXCEPT ![p] = l],
         reply' \in Status \cup {"error"},
         tmp' \in Bundle \cup {None},
         manifest' \in Tree \cup {None}, todo' \in SUBSET Path,
         l # "write",
         l \in Copying \cup {"load", "scan"} =>
           state.status = "approved" /\ quarantine \in Bundle,
         l \in Copying \cup {"scan"} => manifest' \in Tree,
         l \in Copying => /\ tmp' \in Bundle /\ snapshot = None
                         /\ WithinBounds(manifest') /\ todo' \subseteq DOMAIN manifest',
         l = "publish" => Acceptable(tmp', manifest')
  PROVE  IInv'
<1>1. TypeOK' BY DEF IInv, TypeOK, outside
<1>2. Store' BY StoreFrame DEF IInv, Running
<1>3. pc'[p] = l BY DEF IInv, TypeOK
<1>4. Phase(p)' BY <1>3 DEF Phase, outside
<1> QED BY <1>1, <1>2, <1>4, HolderStep

LEMMA VerifyBeginStep ==
  ASSUME IInv, NEW p \in Proc, VerifyBegin(p)
  PROVE  IInv'
<1> USE DEF VerifyBegin, Read, Running
<1>1. CASE /\ StateValid(state) /\ state.status = "approved" /\ quarantine # None
           /\ Goto(p, "load") /\ UNCHANGED reply /\ ReadOnly
  <2>1. quarantine \in Bundle BY <1>1 DEF IInv, TypeOK
  <2> QED BY <1>1, <2>1, VerifyStep
             DEF ReadOnly, diskVars, outside, Goto, Copying, Inside, IInv, TypeOK
<1>2. CASE /\ Return(p, IF state.status = "verified" THEN Reported(state, snapshot)
                        ELSE "error")
           /\ ReadOnly
  <2>1. Reported(state, snapshot) \in Status \cup {"error"} BY ReportedType DEF IInv
  <2> QED BY <1>2, <2>1, ReadOnlyStep
<1> QED BY <1>1, <1>2

LEMMA LoadManifestStep ==
  ASSUME IInv, NEW p \in Proc, LoadManifest(p)
  PROVE  IInv'
<1>1. /\ lock = p /\ pc[p] = "load" /\ Phase(p) /\ TypeOK
      /\ op[p] = "verify" /\ state.status = "approved" /\ quarantine \in Bundle
  BY DEF LoadManifest, Running, IInv, Phase, Verifying
<1>2. CASE quarantine.manifest # None /\ quarantine.receipt # None
  <2>1. quarantine.manifest \in Tree BY <1>1, <1>2 DEF Bundle
  <2>2. /\ lock' = lock /\ op' = op /\ manifest' = quarantine.manifest
        /\ pc' = [pc EXCEPT ![p] = "scan"]
        /\ UNCHANGED <<state, snapshot, tmp, outside, entryPacket, mishaps, told,
                       pending, todo, reply>>
    BY <1>2 DEF LoadManifest, Goto, diskVars, outside
  <2> QED BY <1>1, <2>1, <2>2, VerifyStep DEF TypeOK, Copying, Inside
<1>3. CASE ~(quarantine.manifest # None /\ quarantine.receipt # None)
  <2>1. Return(p, "error") /\ ReadOnly
    BY <1>3 DEF LoadManifest, ReadOnly, diskVars, outside
  <2> QED BY <1>1, <2>1, ReadOnlyStep
<1> QED BY <1>2, <1>3

LEMMA ScanStep ==
  ASSUME IInv, NEW p \in Proc, Scan(p)
  PROVE  IInv'
<1>1. /\ lock = p /\ pc[p] = "scan" /\ TypeOK /\ op[p] = "verify"
      /\ state.status = "approved" /\ quarantine \in Bundle /\ manifest \in Tree
  BY DEF Scan, Running, IInv, Phase, Verifying, Copying
<1>2. CASE ScanPasses
  <2>1. /\ lock' = lock /\ op' = op /\ tmp' = NoCopy /\ todo' = DOMAIN manifest
        /\ pc' = [pc EXCEPT ![p] = "copy"]
        /\ UNCHANGED <<state, snapshot, outside, entryPacket, mishaps, told,
                       pending, manifest, reply>>
    BY <1>2 DEF Scan, Goto, outside
  <2>2. DOMAIN manifest \in SUBSET Path BY <1>1, TreeDomain
  <2>3. snapshot = None /\ WithinBounds(manifest) BY <1>2 DEF ScanPasses
  <2>4. WithinBounds(manifest') BY <2>1, <2>3
  <2> QED BY <1>1, <2>1, <2>2, <2>3, <2>4, NoCopyType, VerifyStep
             DEF TypeOK, Copying, Inside
<1>3. CASE ~ScanPasses
  <2>1. Return(p, "error") /\ ReadOnly
    BY <1>3 DEF Scan, ReadOnly, diskVars, outside
  <2> QED BY <1>1, <2>1, ReadOnlyStep
<1> QED BY <1>2, <1>3

(* A failure while there is a private copy. *)
LEMMA AbandonStep ==
  ASSUME IInv, NEW p \in Proc, lock = p, lock' = lock, op' = op, op[p] = "verify",
         pc[p] # "rollback", Abandon(p),
         UNCHANGED <<state, snapshot, outside, entryPacket, mishaps, told, pending,
                     tmp, manifest, todo>>
  PROVE  IInv'
BY VerifyStep DEF Abandon, Goto, Inside, Copying, IInv, TypeOK

LEMMA CopyFileStep ==
  ASSUME IInv, NEW p \in Proc, CopyFile(p)
  PROVE  IInv'
<1>1. /\ lock = p /\ pc[p] = "copy" /\ TypeOK /\ op[p] = "verify"
      /\ state.status = "approved" /\ quarantine \in Bundle /\ manifest \in Tree
      /\ tmp \in Bundle /\ snapshot = None /\ WithinBounds(manifest)
      /\ todo \subseteq DOMAIN manifest
  BY DEF CopyFile, Running, IInv, Phase, Verifying, Copying
<1>2. /\ lock' = lock /\ op' = op
      /\ UNCHANGED <<state, snapshot, outside, entryPacket, mishaps, told, pending,
                     manifest>>
  BY DEF CopyFile, outside
<1>3. ASSUME NEW f \in todo, f \in DOMAIN quarantine.tree,
             tmp' = [tmp EXCEPT !.tree =
                       [g \in DOMAIN tmp.tree \cup {f} |->
                          IF g = f THEN quarantine.tree[f] ELSE tmp.tree[g]]],
             todo' = todo \ {f},
             Goto(p, IF todo = {f} THEN "copy_manifest" ELSE "copy"),
             UNCHANGED reply
      PROVE  IInv'
  <2>1. quarantine.tree \in Tree /\ tmp.tree \in Tree BY <1>1 DEF Bundle
  <2>2. f \in Path /\ quarantine.tree[f] \in Content BY <1>3, <2>1, TreeDomain
  <2>3. [g \in DOMAIN tmp.tree \cup {f} |->
           IF g = f THEN quarantine.tree[f] ELSE tmp.tree[g]] \in Tree
    BY <2>1, <2>2, TreeWithFile
  <2>4. tmp' \in Bundle BY <1>1, <1>3, <2>3 DEF Bundle
  <2>5. todo' \in SUBSET Path /\ todo' \subseteq DOMAIN manifest'
    BY <1>1, <1>2, <1>3 DEF TypeOK
  <2>6. PICK l \in {"copy", "copy_manifest"} : pc' = [pc EXCEPT ![p] = l]
    BY <1>3 DEF Goto
  <2>7. WithinBounds(manifest') BY <1>1, <1>2
  <2> QED BY <1>1, <1>2, <1>3, <2>4, <2>5, <2>6, <2>7, VerifyStep
             DEF TypeOK, Copying, Inside
<1>4. ASSUME Abandon(p), UNCHANGED <<tmp, todo>> PROVE IInv'
  BY <1>1, <1>2, <1>4, AbandonStep
<1> QED BY <1>3, <1>4 DEF CopyFile

LEMMA CopyControlStep ==
  ASSUME IInv, NEW p \in Proc, CopyManifest(p) \/ CopyReceipt(p)
  PROVE  IInv'
<1>1. /\ lock = p /\ pc[p] \in {"copy_manifest", "copy_receipt"} /\ TypeOK
      /\ op[p] = "verify"
      /\ state.status = "approved" /\ quarantine \in Bundle /\ manifest \in Tree
      /\ tmp \in Bundle /\ snapshot = None /\ WithinBounds(manifest)
      /\ todo \subseteq DOMAIN manifest
  BY DEF CopyManifest, CopyReceipt, Running, IInv, Phase, Verifying, Copying
<1>2. /\ lock' = lock /\ op' = op
      /\ UNCHANGED <<state, snapshot, outside, entryPacket, mishaps, told, pending,
                     manifest, todo>>
  BY DEF CopyManifest, CopyReceipt, outside
<1>3. CASE CopyManifest(p) /\ quarantine.manifest # None
  <2>1. tmp' \in Bundle BY <1>1, <1>3 DEF CopyManifest, Bundle
  <2>2. pc' = [pc EXCEPT ![p] = "copy_receipt"] /\ reply' = reply
    BY <1>3 DEF CopyManifest, Goto
  <2>3. WithinBounds(manifest') BY <1>1, <1>2
  <2> QED BY <1>1, <1>2, <2>1, <2>2, <2>3, VerifyStep DEF TypeOK, Copying, Inside
<1>4. CASE CopyReceipt(p) /\ quarantine.receipt # None
  <2>1. tmp' \in Bundle BY <1>1, <1>4 DEF CopyReceipt, Bundle
  <2>2. pc' = [pc EXCEPT ![p] = "check"] /\ reply' = reply
    BY <1>4 DEF CopyReceipt, Goto
  <2>3. WithinBounds(manifest') BY <1>1, <1>2
  <2> QED BY <1>1, <1>2, <2>1, <2>2, <2>3, VerifyStep DEF TypeOK, Copying, Inside
<1>5. CASE Abandon(p) /\ UNCHANGED tmp BY <1>1, <1>2, <1>5, AbandonStep
<1> QED BY <1>3, <1>4, <1>5 DEF CopyManifest, CopyReceipt

LEMMA CheckCopyStep ==
  ASSUME IInv, NEW p \in Proc, CheckCopy(p)
  PROVE  IInv'
<1>1. /\ lock = p /\ pc[p] = "check" /\ TypeOK /\ op[p] = "verify"
      /\ state.status = "approved" /\ quarantine \in Bundle /\ manifest \in Tree
      /\ tmp \in Bundle /\ snapshot = None /\ WithinBounds(manifest)
      /\ todo \subseteq DOMAIN manifest
  BY DEF CheckCopy, Running, IInv, Phase, Verifying, Copying
<1>2. /\ lock' = lock /\ op' = op
      /\ UNCHANGED <<state, snapshot, outside, entryPacket, mishaps, told, pending,
                     manifest, todo, tmp>>
  BY DEF CheckCopy, ReadOnly, diskVars, outside
<1>3. CASE CopyPasses
  <2>1. pc' = [pc EXCEPT ![p] = "publish"] /\ reply' = reply
    BY <1>3 DEF CheckCopy, Goto
  <2>2. WithinBounds(manifest') /\ Acceptable(tmp', manifest')
    BY <1>1, <1>2, <1>3 DEF CopyPasses
  <2> QED BY <1>1, <1>2, <2>1, <2>2, VerifyStep DEF TypeOK, Copying, Inside
<1>4. CASE ~CopyPasses
  <2>1. Abandon(p) BY <1>4 DEF CheckCopy
  <2> QED BY <1>1, <1>2, <2>1, AbandonStep
<1> QED BY <1>3, <1>4

(* A copy that passed the checks is a verified output. *)
LEMMA AcceptedIsOutput ==
  ASSUME NEW copy \in Bundle, NEW mf \in Tree, Acceptable(copy, mf), WithinBounds(mf)
  PROVE  copy \in VerifiedOutput /\ copy.manifest = mf
<1>1. copy.manifest = mf /\ copy.receipt # None BY DEF Acceptable
<1>2. copy \in [tree : Tree, manifest : Tree, receipt : Receipt] BY <1>1 DEF Bundle
<1> QED BY <1>1, <1>2 DEF VerifiedOutput

LEMMA PublishStep ==
  ASSUME IInv, NEW p \in Proc, Publish(p)
  PROVE  IInv'
<1>1. /\ lock = p /\ pc[p] = "publish" /\ TypeOK /\ op[p] = "verify"
      /\ state.status = "approved" /\ quarantine \in Bundle /\ manifest \in Tree
      /\ tmp \in Bundle /\ snapshot = None /\ WithinBounds(manifest)
      /\ todo \subseteq DOMAIN manifest /\ Acceptable(tmp, manifest)
  BY DEF Publish, Running, IInv, Phase, Verifying, Copying
<1> DEFINE ver == [manifest |-> manifest, receipt |-> tmp.receipt,
                   files |-> Cardinality(DOMAIN manifest)]
           s == [state EXCEPT !.status = "verified", !.verification = ver]
<1>2. CASE /\ snapshot' = tmp /\ tmp' = None /\ BeginWrite(p, s)
           /\ UNCHANGED <<state, outside, lock, op, manifest, todo, entryPacket,
                          mishaps, told>>
  <2>1. tmp \in VerifiedOutput /\ tmp.manifest = manifest BY <1>1, AcceptedIsOutput
  <2>2. tmp.receipt \in Receipt BY <2>1 DEF VerifiedOutput
  <2>3. ver \in Verification /\ Cardinality(DOMAIN manifest) \in Nat
    BY <1>1, <2>2, FilesType DEF Verification
  <2>4. /\ s \in State /\ s.status = "verified" /\ s.approval = state.approval
        /\ s.verification = ver
    BY <1>1, <2>3 DEF TypeOK, State, Status
  <2>5. StateValid(s)
    <3>1. state.approval = "approved_at"
      BY <1>1 DEF IInv, Store, StateReadable, StateValid
    <3>2. ver # None BY <2>3, BundleAssumption
    <3>3. ver.files <= MaxReturnFiles BY <1>1 DEF WithinBounds
    <3> QED BY <2>4, <3>1, <3>2, <3>3 DEF StateValid
  <2>6. /\ pending' = s /\ pc' = [pc EXCEPT ![p] = "write"] /\ reply' = reply
    BY <1>2 DEF BeginWrite, Goto
  <2>7. TypeOK' BY <1>1, <1>2, <2>4, <2>6 DEF TypeOK, outside, Inside
  <2>8. Store' BY <1>1, <1>2, <2>1
               DEF IInv, Store, PublishedIsComplete, StateReadable, VerifiedBinding
  <2>9. ver = RecordOf(tmp) BY <2>1 DEF RecordOf
  <2>10. RecordOf(snapshot') = RecordOf(tmp) BY <1>2
  <2>11. WriteInv(p)'
    <3>1. /\ pending' \in State /\ StateValid(pending') /\ op'[p] = "verify"
          /\ state'.status = "approved" /\ pending'.status = "verified"
          /\ snapshot' \in VerifiedOutput
          /\ pending'.verification = RecordOf(snapshot')
      BY <1>1, <1>2, <2>1, <2>4, <2>5, <2>6, <2>9, <2>10
    <3> QED BY <3>1 DEF WriteInv
  <2>12. pc'[p] = "write" BY <1>1, <2>6 DEF TypeOK
  <2>13. Phase(p)' BY <2>11, <2>12 DEF Phase, Copying, Verifying
  <2> QED BY <1>1, <1>2, <2>6, <2>7, <2>8, <2>13, HolderStep DEF Inside
<1>3. CASE /\ Abandon(p)
           /\ UNCHANGED <<snapshot, tmp, pending, state, outside, lock, op, manifest,
                          todo, entryPacket, mishaps, told>>
  BY <1>1, <1>3, AbandonStep
<1> QED BY <1>2, <1>3 DEF Publish

LEMMA CleanupStep ==
  ASSUME IInv, NEW p \in Proc, Cleanup(p)
  PROVE  IInv'
<1>1. /\ lock = p /\ pc[p] = "cleanup" /\ TypeOK /\ op[p] = "verify"
  BY DEF Cleanup, Running, IInv, Phase, Verifying
<1>2. /\ lock' = lock /\ op' = op /\ tmp' = None /\ pc' = [pc EXCEPT ![p] = "unlock"]
      /\ UNCHANGED <<state, snapshot, outside, entryPacket, told, pending,
                     manifest, todo, reply>>
      /\ mishaps' \in {mishaps, mishaps \cup {"kept"}}
  BY DEF Cleanup, Goto, localVars, outside
<1> QED BY <1>1, <1>2, VerifyStep DEF TypeOK, Copying, Inside

(* Taking one file away from a bundle leaves a bundle. *)
LEMMA OneLessType ==
  ASSUME NEW b \in Bundle, NEW c \in OneLess(b)
  PROVE  c \in Bundle
<1>1. b.tree \in Tree BY DEF Bundle
<1>2. ASSUME NEW f \in DOMAIN b.tree
      PROVE  Restrict(b.tree, DOMAIN b.tree \ {f}) \in Tree
  <2> DEFINE S == DOMAIN b.tree \ {f}
  <2>1. S \in SUBSET Path BY <1>1, TreeDomain
  <2>2. [x \in S |-> b.tree[x]] \in [S -> Content] BY <1>1, TreeDomain
  <2>3. [x \in S |-> b.tree[x]] \in Tree BY <2>1, <2>2, TreeIntro
  <2> QED BY <2>3 DEF Restrict
<1>3. CASE \E f \in DOMAIN b.tree :
             c = [b EXCEPT !.tree = Restrict(b.tree, DOMAIN b.tree \ {f})]
  BY <1>2, <1>3 DEF Bundle
<1>4. CASE c = [b EXCEPT !.manifest = None] \/ c = [b EXCEPT !.receipt = None]
  BY <1>4 DEF Bundle
<1> QED BY <1>3, <1>4 DEF OneLess

LEMMA RollbackStep ==
  ASSUME IInv, NEW p \in Proc, Rollback(p)
  PROVE  IInv'
<1>1. /\ lock = p /\ pc[p] = "rollback" /\ TypeOK /\ op[p] = "verify"
      /\ snapshot \in Bundle
      /\ "chmod" \notin Faults => state.status # "verified"
  BY DEF Rollback, Running, IInv, Phase, Verifying
<1>2. /\ lock' = lock /\ op' = op
      /\ UNCHANGED <<state, tmp, outside, entryPacket, told, pending,
                     manifest, todo, reply>>
  BY DEF Rollback, localVars, outside
<1>3. ASSUME NEW l \in {"rollback", "cleanup"}, pc' = [pc EXCEPT ![p] = l],
             mishaps \subseteq mishaps', mishaps' \subseteq {"died", "cut", "kept"},
             \/ snapshot' \in Bundle /\ l = "rollback"
             \/ snapshot' = None /\ l = "cleanup"
             \/ UNCHANGED snapshot /\ "cut" \in mishaps'
      PROVE  IInv'
  <2>1. snapshot' \in Bundle \cup {None} BY <1>1, <1>3
  <2>2. TypeOK' BY <1>1, <1>2, <1>3, <2>1 DEF TypeOK, outside, Inside
  <2>3. pc'[p] = l BY <1>1, <1>3 DEF TypeOK
  <2>4. PublishedIsComplete'
    BY <1>1, <1>2, <1>3, <2>3 DEF PublishedIsComplete, Running
  <2>5. Store' BY <1>1, <1>2, <2>4 DEF IInv, Store, StateReadable, VerifiedBinding
  <2>6. l = "rollback" => snapshot' \in Bundle
    BY <1>1, <1>3, <2>3, BundleAssumption
  <2>7. Phase(p)' BY <1>1, <1>2, <1>3, <2>3, <2>6 DEF Phase, Copying, Verifying
  <2> QED BY <1>1, <1>2, <1>3, <2>2, <2>5, <2>7, HolderStep DEF Inside
<1>4. CASE snapshot' \in OneLess(snapshot) \ {snapshot} /\ UNCHANGED <<pc, mishaps>>
  <2>1. snapshot' \in Bundle BY <1>1, <1>4, OneLessType
  <2>2. pc' = [pc EXCEPT ![p] = "rollback"] BY <1>1, <1>4 DEF TypeOK
  <2> QED BY <1>1, <1>3, <1>4, <2>1, <2>2 DEF TypeOK
<1>5. CASE snapshot' = None /\ Goto(p, "cleanup") /\ UNCHANGED mishaps
  BY <1>1, <1>3, <1>5 DEF Goto, TypeOK
<1>6. CASE /\ mishaps' = mishaps \cup {"cut"}
           /\ Goto(p, "cleanup") /\ UNCHANGED snapshot
  BY <1>1, <1>3, <1>6 DEF Goto, TypeOK
<1> QED BY <1>4, <1>5, <1>6 DEF Rollback

LEMMA OutputRecord ==
  ASSUME NEW out \in VerifiedOutput
  PROVE  /\ RecordOf(out).manifest = out.manifest
         /\ RecordOf(out).receipt = out.receipt
         /\ Cardinality(DOMAIN out.tree) = RecordOf(out).files
BY DEF VerifiedOutput, RecordOf, Acceptable, ManifestHolds

LEMMA OutputType ==
  ASSUME NEW out \in VerifiedOutput
  PROVE  out \in Bundle
BY DEF VerifiedOutput, Bundle

(* What writing the pending state establishes. *)
LEMMA PendingStored ==
  ASSUME IInv, NEW p \in Proc, WriteInv(p), state' = pending, snapshot' = snapshot,
         mishaps' = mishaps, lock = p, pc[p] = "write"
  PROVE  state' \in State /\ Store'
<1>1. PublishedIsComplete' BY DEF IInv, Store, PublishedIsComplete, Running
<1>2. StateReadable' BY DEF WriteInv, StateReadable
<1>3. VerifiedBinding'
  <2>1. CASE pending.status = "verified"
    BY <2>1, OutputRecord DEF WriteInv, VerifiedBinding
  <2>2. CASE pending.status # "verified" BY <2>2 DEF VerifiedBinding
  <2> QED BY <2>1, <2>2
<1> QED BY <1>1, <1>2, <1>3 DEF Store, WriteInv

LEMMA WriteStateStep ==
  ASSUME IInv, NEW p \in Proc, WriteState(p)
  PROVE  IInv'
<1>1. /\ lock = p /\ pc[p] = "write" /\ TypeOK /\ WriteInv(p) /\ pending \in State
      /\ UNCHANGED <<snapshot, tmp, outside, lock, op, manifest, todo, pending,
                     entryPacket, mishaps, told>>
  BY DEF WriteState, Running, IInv, Phase, WriteInv
<1>0. op[p] = "verify" => snapshot \in Bundle
  BY <1>1, OutputType DEF WriteInv
<1>2. CASE state' = pending /\ Return(p, pending.status)
  <2>1. state' \in State /\ Store' BY <1>1, <1>2, PendingStored
  <2>2. pc' = [pc EXCEPT ![p] = "unlock"] /\ reply' \in Status
    BY <1>1, <1>2 DEF Return, Goto, State
  <2>3. TypeOK' BY <1>1, <2>1, <2>2 DEF TypeOK, outside, Inside
  <2>4. pc'[p] = "unlock" BY <1>1, <2>2 DEF TypeOK
  <2>5. Phase(p)' BY <2>4 DEF Phase, Copying, Verifying
  <2> QED BY <1>1, <2>1, <2>2, <2>3, <2>5, HolderStep DEF Inside
<1>3. ASSUME OnWriteError(p), state' \in State, Store',
             op[p] = "verify" => snapshot \in Bundle,
             op[p] = "verify" /\ "chmod" \notin Faults => state'.status # "verified"
      PROVE  IInv'
  <2>1. PICK l \in {"rollback", "unlock"} :
          pc' = [pc EXCEPT ![p] = l] /\ (l = "rollback" => op[p] = "verify")
    BY <1>3 DEF OnWriteError, Goto
  <2>2. TypeOK' BY <1>1, <1>3, <2>1 DEF TypeOK, outside, Inside, OnWriteError
  <2>3. pc'[p] = l BY <1>1, <2>1 DEF TypeOK
  <2>4. Phase(p)' BY <1>1, <1>3, <2>1, <2>3 DEF Phase, Copying, Verifying
  <2> QED BY <1>1, <1>3, <2>1, <2>2, <2>4, HolderStep DEF Inside
<1>4. CASE UNCHANGED state /\ OnWriteError(p)
  <2>1. Store' BY <1>1, <1>4, StoreFrame DEF IInv, Running
  <2>2. op[p] = "verify" => state.status = "approved" BY <1>1 DEF WriteInv
  <2> QED BY <1>0, <1>1, <1>3, <1>4, <2>1, <2>2 DEF TypeOK
<1>5. CASE "chmod" \in Faults /\ state' = pending /\ OnWriteError(p)
  BY <1>0, <1>1, <1>3, <1>5, PendingStored
<1> QED BY <1>2, <1>4, <1>5 DEF WriteState

(* The steps that give the lock back. *)
LEMMA ReleaseStep ==
  ASSUME IInv, NEW p \in Proc, Unlock(p) \/ Crash(p), lock = p
  PROVE  IInv'
<1>1. /\ lock' = None /\ pc' = [pc EXCEPT ![p] = "idle"]
      /\ op' = [op EXCEPT ![p] = "status"]
      /\ UNCHANGED <<state, snapshot, outside>>
      /\ tmp' \in {tmp, None} /\ manifest' = None /\ todo' = {} /\ pending' = None
      /\ reply' = "error" /\ entryPacket' = "built" 
      /\ mishaps \subseteq mishaps' /\ mishaps' \subseteq {"died", "cut", "kept"}
      /\ pc[p] = "rollback" => "cut" \in mishaps'
  BY DEF Unlock, Crash, Ended, Goto, diskVars, outside, localVars, Running, IInv, TypeOK
<1>2. told' \in SUBSET Status
  BY DEF Unlock, Crash, IInv, TypeOK, Answered
<1>3. TypeOK' BY <1>1, <1>2 DEF IInv, TypeOK, outside, Inside, Operation
<1>4. LockInv'
  BY LockInvStep DEF IInv, TypeOK, Control, Next, Work, outside
<1>5. Store' BY <1>1, StoreFrame DEF IInv, Running
<1>6. \A q \in Proc : lock' # q BY <1>1, HandoffAssumption
<1> QED BY <1>3, <1>4, <1>5, <1>6 DEF IInv

(* The steps of a process that does not hold the lock. *)
LEMMA WaiterStep ==
  ASSUME IInv, NEW p \in Proc,
         \/ \E o \in Operation : Call(p, o)
         \/ Crash(p) /\ lock # p
  PROVE  IInv'
<1>1. /\ UNCHANGED <<diskVars, outside, lock, localVars, told>>
      /\ \E l \in {"idle", "wait"} : pc' = [pc EXCEPT ![p] = l]
      /\ op' = op \/ \E o \in Operation : op' = [op EXCEPT ![p] = o]
      /\ mishaps \subseteq mishaps' /\ mishaps' \subseteq {"died", "cut", "kept"}
      /\ lock # p
  <2>1. CASE \E o \in Operation : Call(p, o)
    <3>1. lock # p BY <2>1 DEF Call, IInv, LockInv, Inside
    <3> QED BY <2>1, <3>1 DEF Call, Goto, IInv, TypeOK
  <2>2. CASE Crash(p) /\ lock # p
    <3>1. "status" \in Operation BY DEF Operation
    <3> QED BY <2>2, <3>1 DEF Crash, Ended, Goto, diskVars, Running, IInv, TypeOK
  <2> QED BY <2>1, <2>2
<1>2. TypeOK'
  <2>1. pc' \in [Proc -> Inside \cup {"idle", "wait"}] BY <1>1 DEF IInv, TypeOK
  <2>2. op' \in [Proc -> Operation] BY <1>1 DEF IInv, TypeOK
  <2> QED BY <1>1, <2>1, <2>2 DEF IInv, TypeOK, diskVars, outside, localVars
<1>3. LockInv' BY <1>1 DEF IInv, TypeOK, LockInv, Inside
<1>4. Store'
  <2>1. \A q \in Proc : Running(q, "rollback") => Running(q, "rollback")'
    BY <1>1 DEF IInv, TypeOK, Running
  <2> QED BY <1>1, <2>1, StoreFrame DEF IInv, diskVars
<1>5. ASSUME NEW q \in Proc, lock' = q PROVE Phase(q)'
  <2>1. q # p /\ pc'[q] = pc[q] /\ op'[q] = op[q] /\ Phase(q)
    BY <1>1, <1>5 DEF IInv, TypeOK
  <2> QED BY <1>1, <2>1 DEF Phase, WriteInv, diskVars, outside, localVars
<1> QED BY <1>2, <1>3, <1>4, <1>5 DEF IInv

LEMMA AcquireStep ==
  ASSUME IInv, NEW p \in Proc, Acquire(p)
  PROVE  IInv'
<1>1. /\ UNCHANGED <<diskVars, outside, op, manifest, todo, pending, reply, mishaps, told>>
      /\ lock' = p /\ pc' = [pc EXCEPT ![p] = "read"] /\ entryPacket' = packet
      /\ lock = None
  BY DEF Acquire, Goto, LockIsFree
<1>2. TypeOK' BY <1>1 DEF IInv, TypeOK, diskVars, outside, Inside
<1>3. LockInv' BY <1>1, HandoffAssumption DEF IInv, TypeOK, LockInv, Inside
<1>4. Store'
  BY <1>1, StoreFrame, HandoffAssumption DEF IInv, diskVars, Running
<1>5. pc'[p] = "read" BY <1>1 DEF IInv, TypeOK
<1>6. \A q \in Proc : lock' = q => Phase(q)'
  BY <1>1, <1>5 DEF Phase, Copying, Verifying
<1> QED BY <1>2, <1>3, <1>4, <1>6 DEF IInv

(* What happens outside changes the quarantine and the packet only, and    *)
(* never removes the quarantine.                                           *)
LEMMA OutsideStep ==
  ASSUME IInv, Outside
  PROVE  IInv'
<1>1. /\ UNCHANGED <<diskVars, lock, pc, op, localVars, mishaps, told>>
      /\ edits' = edits + 1 /\ edits < MaxEdits
  BY DEF Outside, Deliver, ChangeFile, RewriteManifest, RewriteReceipt,
         RelabelReceipt, DropControlFile, AlterPacket, Edit
<1>2. packet' \in {"built", "altered"}
  BY DEF Outside, Deliver, ChangeFile, RewriteManifest, RewriteReceipt,
         RelabelReceipt, DropControlFile, AlterPacket, SetReturn, IInv, TypeOK
<1>3. quarantine' \in Bundle \/ quarantine' = quarantine
  <2>1. CASE Deliver
    <3>1. PICK t \in Tree, b \in Binding, c \in BOOLEAN :
            quarantine' = [tree |-> t, manifest |-> t,
                           receipt |-> [binding |-> b, manifest |-> t, evidence |-> t,
                                        commands |-> c, sealed |-> TRUE]]
      BY <2>1 DEF Deliver, SetReturn
    <3>2. [binding |-> b, manifest |-> t, evidence |-> t,
           commands |-> c, sealed |-> TRUE] \in Receipt
      BY DEF Receipt
    <3> QED BY <3>1, <3>2 DEF Bundle
  <2>2. ASSUME quarantine # None PROVE quarantine \in Bundle
    BY <2>2 DEF IInv, TypeOK
  <2>3. CASE ChangeFile
    BY <2>2, <2>3 DEF ChangeFile, SetReturn, Bundle
  <2>4. CASE RewriteManifest
    BY <2>2, <2>4 DEF RewriteManifest, SetReturn, Bundle
  <2>5. CASE RewriteReceipt
    <3>1. quarantine \in Bundle /\ quarantine.manifest \in Tree /\ quarantine.tree \in Tree
      BY <2>2, <2>5 DEF RewriteReceipt, Bundle
    <3>2. PICK b \in Binding :
            quarantine' = [quarantine EXCEPT !.receipt =
                    [binding |-> b, manifest |-> quarantine.manifest,
                     evidence |-> quarantine.tree, commands |-> FALSE, sealed |-> TRUE]]
      BY <2>5 DEF RewriteReceipt, SetReturn
    <3>3. [binding |-> b, manifest |-> quarantine.manifest,
           evidence |-> quarantine.tree, commands |-> FALSE, sealed |-> TRUE] \in Receipt
      BY <3>1 DEF Receipt
    <3> QED BY <3>1, <3>2, <3>3 DEF Bundle
  <2>6. CASE RelabelReceipt
    <3>1. quarantine \in Bundle /\ quarantine.receipt \in Receipt
      BY <2>2, <2>6 DEF RelabelReceipt, Bundle
    <3>2. [quarantine.receipt EXCEPT !.binding = OwnBinding, !.sealed = FALSE] \in Receipt
      BY <3>1, BundleAssumption DEF Receipt
    <3>3. quarantine' = [quarantine EXCEPT !.receipt =
             [quarantine.receipt EXCEPT !.binding = OwnBinding, !.sealed = FALSE]]
      BY <2>6, <3>1 DEF RelabelReceipt, SetReturn, Bundle, Receipt
    <3> QED BY <3>1, <3>2, <3>3 DEF Bundle
  <2>7. CASE DropControlFile
    BY <2>2, <2>7 DEF DropControlFile, SetReturn, Bundle
  <2>8. CASE AlterPacket BY <2>8 DEF AlterPacket
  <2> QED BY <2>1, <2>3, <2>4, <2>5, <2>6, <2>7, <2>8 DEF Outside
<1>4. edits' \in 0..MaxEdits BY <1>1, HandoffAssumption DEF IInv, TypeOK
<1>5. TypeOK'
  BY <1>1, <1>2, <1>3, <1>4 DEF IInv, TypeOK, diskVars, localVars
<1>6. LockInv' BY <1>1 DEF IInv, LockInv
<1>7. Store' BY <1>1, StoreFrame DEF IInv, diskVars, Running
<1>8. ASSUME NEW q \in Proc, lock' = q PROVE Phase(q)'
  <2>1. Phase(q) BY <1>1, <1>8 DEF IInv
  <2> QED BY <1>1, <1>3, <2>1 DEF Phase, WriteInv, diskVars, localVars
<1> QED BY <1>5, <1>6, <1>7, <1>8 DEF IInv

LEMMA IInvStep == IInv /\ [Next]_vars => IInv'
<1> SUFFICES ASSUME IInv, [Next]_vars PROVE IInv' OBVIOUS
<1>1. ASSUME NEW p \in Proc, NEW o \in Operation, Call(p, o) PROVE IInv'
  BY <1>1, WaiterStep
<1>2. ASSUME NEW p \in Proc, Acquire(p) PROVE IInv' BY <1>2, AcquireStep
<1>3. ASSUME NEW p \in Proc, Work(p) PROVE IInv'
  <2>1. CASE Unlock(p) BY <2>1, ReleaseStep DEF Unlock, Running
  <2> QED BY <1>3, <2>1, ReadSteps, ApproveStep, RejectStep, VerifyBeginStep,
             LoadManifestStep, ScanStep, CopyFileStep, CopyControlStep, CheckCopyStep,
             PublishStep, CleanupStep, WriteStateStep, RollbackStep
          DEF Work
<1>4. ASSUME NEW p \in Proc, Crash(p) PROVE IInv' BY <1>4, ReleaseStep, WaiterStep
<1>5. CASE Outside BY <1>5, OutsideStep
<1>6. CASE UNCHANGED vars
  BY <1>6 DEF vars, diskVars, outside, localVars, IInv, TypeOK, LockInv, Store,
              PublishedIsComplete, StateReadable, VerifiedBinding, Phase, WriteInv,
              Running
<1> QED BY <1>1, <1>2, <1>3, <1>4, <1>5, <1>6 DEF Next

LEMMA Invariance == Spec => []IInv
BY IInvInit, IInvStep, PTL DEF Spec

-----------------------------------------------------------------------------
(* Every variable keeps its type.                                          *)
THEOREM TypeCorrect == Spec => []TypeOK
<1>1. IInv => TypeOK BY DEF IInv
<1> QED BY <1>1, Invariance, PTL

(* Whatever happens to the quarantine and whichever calls die or fail,     *)
(* what is found under verified-snapshot/ is complete and checked, but for *)
(* a copy being taken back or one whose removal was cut short              *)
(* (_snapshot_return, _verify_return_locked, _remove_private_tree).        *)
THEOREM PublishedIsCompleteHolds == Spec => []PublishedIsComplete
<1>1. IInv => PublishedIsComplete BY DEF IInv, Store
<1> QED BY <1>1, Invariance, PTL

(* No operation, failure or death writes a state.json that _state would    *)
(* refuse.                                                                 *)
THEOREM StateReadableHolds == Spec => []StateReadable
<1>1. IInv => StateReadable BY DEF IInv, Store
<1> QED BY <1>1, Invariance, PTL

(* Unless _write_json fails after its replacement of state.json, a handoff *)
(* recorded as verified has the snapshot its record describes, bound to    *)
(* the handoff's packet and commit (verify_return).                        *)
THEOREM VerifiedBindingHolds ==
  ASSUME "chmod" \notin Faults
  PROVE  Spec => []VerifiedBinding
<1>1. IInv => VerifiedBinding BY DEF IInv, Store
<1> QED BY <1>1, Invariance, PTL
-----------------------------------------------------------------------------
(* Handoff implements HandoffLifecycle, the verified record is final and   *)
(* what was reported holds: the theorems that need to know, besides the    *)
(* inductive invariant, what a call is about to answer.  All but the       *)
(* answers assume that _write_json does not fail after it has replaced     *)
(* state.json.                                                             *)

(* A call answers the status that state.json has, or an error. *)
AnswerInv ==
  \A p \in Proc : lock = p =>
    /\ pc[p] = "unlock" => reply \in {"error", state.status}
    /\ pc[p] \in {"rollback", "cleanup"} => reply = "error"

LEMMA AnswerInit == Init => AnswerInv
BY HandoffAssumption DEF Init, AnswerInv

(* The holder p moved to l and answers a. *)
LEMMA AnswerAt ==
  ASSUME TypeOK, NEW p \in Proc, lock = p, lock' = p,
         NEW l \in Inside, pc' = [pc EXCEPT ![p] = l],
         l = "unlock" => reply' \in {"error", state'.status},
         l \in {"rollback", "cleanup"} => reply' = "error"
  PROVE  AnswerInv'
BY DEF TypeOK, AnswerInv

LEMMA ReportedStatus ==
  Reported(state, snapshot) \in {"error", state.status}
BY DEF Reported

LEMMA AnswerWork ==
  ASSUME IInv, AnswerInv, NEW p \in Proc, Work(p), ~Unlock(p)
  PROVE  AnswerInv'
<1> USE AnswerAt DEF Read, Running, Return, Goto, Inside
<1>1. TypeOK BY DEF IInv
<1>2. Reported(state, snapshot) \in {"error", state.status} BY ReportedStatus
<1>3. CASE Review(p)
  BY <1>1, <1>3 DEF Review, ReadOnly, diskVars, ReviewPasses
<1>4. CASE ReadStatus(p) BY <1>1, <1>2, <1>4 DEF ReadStatus, ReadOnly, diskVars
<1>5. CASE ReturnPath(p) BY <1>1, <1>5 DEF ReturnPath, ReadOnly, diskVars
<1>6. CASE VerifiedPath(p) BY <1>1, <1>2, <1>6 DEF VerifiedPath, ReadOnly, diskVars
<1>7. CASE Approve(p) BY <1>1, <1>7 DEF Approve, BeginWrite, diskVars
<1>8. CASE Reject(p) BY <1>1, <1>8 DEF Reject, BeginWrite, diskVars
<1>9. CASE VerifyBegin(p) BY <1>1, <1>2, <1>9 DEF VerifyBegin, ReadOnly, diskVars
<1>10. CASE LoadManifest(p) BY <1>1, <1>10 DEF LoadManifest
<1>11. CASE Scan(p) BY <1>1, <1>11 DEF Scan
<1>12. CASE CopyFile(p)
  <2>1. CASE Abandon(p) BY <1>1, <1>12, <2>1 DEF CopyFile, Abandon
  <2>2. CASE \E l \in {"copy", "copy_manifest"} : Goto(p, l)
    BY <1>1, <1>12, <2>2 DEF CopyFile
  <2> QED BY <1>12, <2>1, <2>2 DEF CopyFile
<1>13. CASE CopyManifest(p) BY <1>1, <1>13 DEF CopyManifest, Abandon
<1>14. CASE CopyReceipt(p) BY <1>1, <1>14 DEF CopyReceipt, Abandon
<1>15. CASE CheckCopy(p) BY <1>1, <1>15 DEF CheckCopy, ReadOnly, Abandon
<1>16. CASE Publish(p) BY <1>1, <1>16 DEF Publish, Abandon, BeginWrite
<1>17. CASE Cleanup(p) BY <1>1, <1>17 DEF Cleanup, localVars, AnswerInv
<1>18. CASE WriteState(p) BY <1>1, <1>18 DEF WriteState, OnWriteError
<1>19. CASE Rollback(p) BY <1>1, <1>19 DEF Rollback, localVars, AnswerInv
<1> QED BY <1>3, <1>4, <1>5, <1>6, <1>7, <1>8, <1>9, <1>10, <1>11, <1>12, <1>13,
           <1>14, <1>15, <1>16, <1>17, <1>18, <1>19 DEF Work

LEMMA AnswerStep == IInv /\ AnswerInv /\ [Next]_vars => AnswerInv'
<1> SUFFICES ASSUME IInv, AnswerInv, [Next]_vars PROVE AnswerInv' OBVIOUS
<1>1. ASSUME NEW p \in Proc, NEW o \in Operation, Call(p, o) PROVE AnswerInv'
  BY <1>1 DEF Call, Goto, AnswerInv, IInv, TypeOK, LockInv, Inside, diskVars, localVars
<1>2. ASSUME NEW p \in Proc, Acquire(p) PROVE AnswerInv'
  BY <1>2 DEF Acquire, Goto, AnswerInv, IInv, TypeOK
<1>3. ASSUME NEW p \in Proc, Unlock(p) PROVE AnswerInv'
  BY <1>3, HandoffAssumption DEF Unlock, AnswerInv
<1>4. ASSUME NEW p \in Proc, Work(p), ~Unlock(p) PROVE AnswerInv'
  BY <1>4, AnswerWork
<1>5. ASSUME NEW p \in Proc, Crash(p) PROVE AnswerInv'
  <2>1. CASE lock = p BY <1>5, <2>1, HandoffAssumption DEF Crash, AnswerInv
  <2>2. CASE lock # p
    BY <1>5, <2>2 DEF Crash, Ended, Goto, AnswerInv, IInv, TypeOK, localVars
  <2> QED BY <2>1, <2>2
<1>6. CASE Outside
  BY <1>6 DEF Outside, Deliver, ChangeFile, RewriteManifest, RewriteReceipt,
              RelabelReceipt, DropControlFile, AlterPacket, Edit, AnswerInv,
              diskVars, localVars
<1>7. CASE UNCHANGED vars BY <1>7 DEF vars, diskVars, localVars, AnswerInv
<1> QED BY <1>1, <1>2, <1>3, <1>4, <1>5, <1>6, <1>7 DEF Next

LEMMA AnswerInvariance == Spec => [](IInv /\ AnswerInv)
BY IInvInit, IInvStep, AnswerInit, AnswerStep, PTL DEF Spec

-----------------------------------------------------------------------------
(* What one step may do to the three things the lifecycle talks about. *)
StatusStep ==
  \/ state.status = "prepared" /\ state'.status = "approved"
  \/ state.status \in {"prepared", "approved"} /\ state'.status = "rejected"
  \/ state.status = "approved" /\ state'.status = "verified" /\ snapshot' \in VerifiedOutput

StepEffect ==
  \/ UNCHANGED <<state, told>> /\ (state.status = "verified" => UNCHANGED snapshot)
  \/ StatusStep /\ UNCHANGED told
  \/ UNCHANGED <<state, snapshot>> /\ told' = told \cup {state.status}

LEMMA StepEffects ==
  ASSUME "chmod" \notin Faults, IInv, AnswerInv, [Next]_vars
  PROVE  StepEffect
<1> USE DEF StepEffect
<1>1. ASSUME NEW p \in Proc, WriteState(p) PROVE StepEffect
  <2>1. WriteInv(p) /\ snapshot' = snapshot /\ told' = told
    BY <1>1 DEF WriteState, Running, IInv, Phase
  <2>2. CASE state' = state BY <2>1, <2>2
  <2>3. CASE state' = pending
    BY <2>1, <2>3 DEF WriteInv, StatusStep
  <2> QED BY <1>1, <2>2, <2>3 DEF WriteState
<1>2. ASSUME NEW p \in Proc, Publish(p) PROVE StepEffect
  <2>1. state.status = "approved"
    BY <1>2 DEF Publish, Running, IInv, Phase, Copying
  <2> QED BY <1>2, <2>1 DEF Publish
<1>3. ASSUME NEW p \in Proc, Rollback(p) PROVE StepEffect
  <2>1. state.status # "verified" BY <1>3 DEF Rollback, Running, IInv, Phase
  <2> QED BY <1>3, <2>1 DEF Rollback
<1>4. ASSUME NEW p \in Proc, Unlock(p) PROVE StepEffect
  <2>1. reply \in {"error", state.status} BY <1>4 DEF Unlock, Running, AnswerInv
  <2>2. told' = told \/ told' = told \cup {state.status}
    BY <1>4, <2>1 DEF Unlock, Answered
  <2> QED BY <1>4, <2>2 DEF Unlock, diskVars
<1>5. ASSUME NEW p \in Proc, Work(p), ~WriteState(p), ~Publish(p), ~Rollback(p), ~Unlock(p)
      PROVE  StepEffect
  BY <1>5
     DEF Work, ReadOnly, diskVars, Review, ReadStatus, ReturnPath, VerifiedPath,
         Approve, Reject, VerifyBegin, LoadManifest, Scan, CopyFile, CopyManifest,
         CopyReceipt, CheckCopy, Cleanup
<1>6. ASSUME NEW p \in Proc, NEW o \in Operation, Call(p, o) \/ Acquire(p) \/ Crash(p)
      PROVE  StepEffect
  BY <1>6 DEF Call, Acquire, Crash, diskVars
<1>7. CASE Outside
  BY <1>7 DEF Outside, Deliver, ChangeFile, RewriteManifest, RewriteReceipt,
              RelabelReceipt, DropControlFile, AlterPacket, Edit, diskVars
<1>8. CASE UNCHANGED vars BY <1>8 DEF vars, diskVars
<1>9. \E o \in Operation : TRUE BY DEF Operation
<1> QED BY <1>1, <1>2, <1>3, <1>4, <1>5, <1>6, <1>7, <1>8, <1>9 DEF Next

(* Once a handoff is verified its record and its snapshot never change and *)
(* never go away.                                                          *)
THEOREM VerifiedIsFinalHolds ==
  ASSUME "chmod" \notin Faults
  PROVE  Spec => VerifiedIsFinal
<1>1. IInv /\ AnswerInv /\ [Next]_vars
        => [state.status = "verified" => UNCHANGED <<state, snapshot>>]_vars
  <2> SUFFICES ASSUME IInv, AnswerInv, [Next]_vars, state.status = "verified"
               PROVE  UNCHANGED <<state, snapshot>>
      OBVIOUS
  <2>1. StepEffect BY StepEffects
  <2> QED BY <2>1 DEF StepEffect, StatusStep
<1> QED BY <1>1, AnswerInvariance, PTL DEF Spec, VerifiedIsFinal

(* Nobody is ever told a status that the handoff does not have or has not  *)
(* passed through.                                                         *)
THEOREM ReportsHoldAlways ==
  ASSUME "chmod" \notin Faults
  PROVE  Spec => []ReportsHold
<1>1. Init => ReportsHold BY DEF Init, ReportsHold
<1>2. IInv /\ AnswerInv /\ ReportsHold /\ [Next]_vars => ReportsHold'
  <2> SUFFICES ASSUME IInv, AnswerInv, ReportsHold, [Next]_vars PROVE ReportsHold'
      OBVIOUS
  <2>1. StepEffect BY StepEffects
  <2>2. state.status \in Status BY DEF IInv, TypeOK, State
  <2>3. CASE UNCHANGED <<state, told>> BY <2>3 DEF ReportsHold
  <2>4. CASE StatusStep /\ UNCHANGED told
    BY <2>4 DEF StatusStep, ReportsHold, Past
  <2>5. CASE UNCHANGED state /\ told' = told \cup {state.status}
    BY <2>2, <2>5 DEF ReportsHold, Past, Status
  <2> QED BY <2>1, <2>3, <2>4, <2>5 DEF StepEffect
<1> QED BY <1>1, <1>2, AnswerInvariance, PTL DEF Spec

(* The whole protocol - lock, copies, failures, deaths and a worker that   *)
(* keeps writing - implements the lifecycle: a status that moves forward,  *)
(* an output that appears with "verified" and stays, and true answers.     *)
THEOREM HandoffImplementsLifecycle ==
  ASSUME "chmod" \notin Faults
  PROVE  Spec => ImplementsLifecycle
<1>1. Init => Lifecycle!Init
  BY DEF Init, Lifecycle!Init
<1>2. IInv /\ AnswerInv /\ [Next]_vars => [Lifecycle!Next]_(Lifecycle!lifeVars)
  <2> SUFFICES ASSUME IInv, AnswerInv, [Next]_vars
               PROVE  [Lifecycle!Next]_(Lifecycle!lifeVars)
      OBVIOUS
  <2> USE DEF Lifecycle!Next, Lifecycle!lifeVars, Lifecycle!Approve, Lifecycle!Reject,
              Lifecycle!Verify, Lifecycle!Report
  <2>1. StepEffect BY StepEffects
  <2>2. CASE UNCHANGED <<state, told>> /\ (state.status = "verified" => UNCHANGED snapshot)
    BY <2>2
  <2>3. CASE StatusStep /\ UNCHANGED told
    <3>1. CASE state.status = "prepared" /\ state'.status = "approved"
      BY <2>3, <3>1
    <3>2. CASE state.status \in {"prepared", "approved"} /\ state'.status = "rejected"
      BY <2>3, <3>2
    <3>3. CASE /\ state.status = "approved" /\ state'.status = "verified"
               /\ snapshot' \in VerifiedOutput
      <4>1. Lifecycle!Verify BY <2>3, <3>3
      <4> QED BY <4>1
    <3> QED BY <2>3, <3>1, <3>2, <3>3 DEF StatusStep
  <2>4. CASE UNCHANGED <<state, snapshot>> /\ told' = told \cup {state.status}
    BY <2>4
  <2> QED BY <2>1, <2>2, <2>3, <2>4 DEF StepEffect
<1> QED BY <1>1, <1>2, AnswerInvariance, PTL
       DEF Spec, ImplementsLifecycle, Lifecycle!Spec

-----------------------------------------------------------------------------
(* What failures leave behind, and what an approval rests on. *)

Paired == "cut" \notin mishaps => (snapshot # None <=> state.status = "verified")

(* Between the two effects of a verification, or taking back the first. *)
Halfway(p) == pc[p] = "rollback" \/ (pc[p] = "write" /\ op[p] = "verify")

Tidy ==
  /\ lock = None => (tmp = None /\ Paired)
  /\ \A p \in Proc : lock = p =>
       /\ pc[p] \notin Copying \cup {"cleanup"} => tmp = None
       /\ ~Halfway(p) => Paired

TidyInv == "died" \notin mishaps => Tidy

LEMMA OutputIsThere ==
  ASSUME NEW out \in VerifiedOutput
  PROVE  out # None
BY BundleAssumption DEF VerifiedOutput, Bundle

LEMMA TidyInit == Init => TidyInv
BY HandoffAssumption DEF Init, TidyInv, Tidy, Paired

(* The holder p moved to l. *)
LEMMA TidyAt ==
  ASSUME TypeOK, NEW p \in Proc, lock = p, lock' = p,
         NEW l \in Inside, pc' = [pc EXCEPT ![p] = l], op' = op,
         l \notin Copying \cup {"cleanup"} => tmp' = None,
         l # "rollback" /\ ~(l = "write" /\ op[p] = "verify") => Paired'
  PROVE  Tidy'
<1>1. pc'[p] = l /\ op'[p] = op[p] BY DEF TypeOK
<1>2. p # None BY HandoffAssumption
<1> QED BY <1>1, <1>2 DEF Tidy, Halfway

(* A step of the holder that leaves the three files as they are. *)
LEMMA TidyFrame ==
  ASSUME TypeOK, Tidy, NEW p \in Proc, lock = p, lock' = p,
         NEW l \in Inside, pc' = [pc EXCEPT ![p] = l], op' = op,
         UNCHANGED <<diskVars, mishaps>>, ~Halfway(p),
         l \notin Copying \cup {"cleanup"} => pc[p] \notin Copying \cup {"cleanup"}
  PROVE  Tidy'
<1>1. Paired' BY DEF Tidy, Paired, diskVars
<1>2. l \notin Copying \cup {"cleanup"} => tmp' = None BY DEF Tidy, diskVars
<1> QED BY <1>1, <1>2, TidyAt

LEMMA TidyWrite ==
  ASSUME "chmod" \notin Faults, IInv, Tidy, NEW p \in Proc, WriteState(p)
  PROVE  Tidy'
<1>1. /\ lock = p /\ pc[p] = "write" /\ TypeOK /\ WriteInv(p)
      /\ tmp = None /\ (op[p] # "verify" => Paired)
      /\ UNCHANGED <<snapshot, tmp, lock, op, mishaps>>
  BY DEF WriteState, Running, IInv, Phase, Tidy, Halfway, Copying
<1>2. CASE state' = pending /\ Return(p, pending.status)
  <2>1. Paired' BY <1>1, <1>2, OutputIsThere DEF WriteInv, Paired
  <2> QED BY <1>1, <1>2, <2>1, TidyAt DEF Return, Goto, Inside
<1>3. CASE UNCHANGED state /\ OnWriteError(p)
  <2>1. op[p] # "verify" => Paired' BY <1>1, <1>3 DEF Paired
  <2>2. PICK l \in {"rollback", "unlock"} :
          /\ pc' = [pc EXCEPT ![p] = l]
          /\ l = "unlock" => op[p] # "verify"
    BY <1>3 DEF OnWriteError, Goto
  <2> QED BY <1>1, <2>1, <2>2, TidyAt DEF Inside
<1> QED BY <1>2, <1>3 DEF WriteState

LEMMA TidyWork ==
  ASSUME "chmod" \notin Faults, IInv, Tidy, NEW p \in Proc, Work(p), ~Unlock(p)
  PROVE  Tidy'
<1> USE DEF Read, Running, Return, Goto, Inside
<1>1. TypeOK BY DEF IInv
<1>2. lock = p => Phase(p) BY DEF IInv
<1>3. CASE \/ Review(p) \/ ReadStatus(p) \/ ReturnPath(p) \/ VerifiedPath(p)
           \/ VerifyBegin(p) \/ LoadManifest(p)
  BY <1>1, <1>3, TidyFrame
     DEF Review, ReadStatus, ReturnPath, VerifiedPath, VerifyBegin, LoadManifest,
         ReadOnly, Halfway, Copying
<1>4. CASE Approve(p) \/ Reject(p)
  <2>1. /\ lock = p /\ lock' = p /\ pc[p] = "read" /\ op[p] # "verify" /\ op' = op
        /\ UNCHANGED <<diskVars, mishaps>>
        /\ \E l \in {"write", "unlock"} : pc' = [pc EXCEPT ![p] = l]
    BY <1>4 DEF Approve, Reject, BeginWrite
  <2> QED BY <1>1, <2>1, TidyFrame DEF Halfway, Copying
<1>5. CASE Scan(p) /\ ScanPasses
  <2>1. Paired' BY <1>5 DEF Scan, Tidy, Halfway, Paired
  <2> QED BY <1>1, <1>5, <2>1, TidyAt DEF Scan, Copying
<1>6. CASE Scan(p) /\ ~ScanPasses
  BY <1>1, <1>6, TidyFrame DEF Scan, Halfway, Copying, diskVars
<1>7. CASE CopyFile(p) \/ CopyManifest(p) \/ CopyReceipt(p)
  <2>1. /\ lock = p /\ lock' = p /\ op' = op /\ UNCHANGED <<state, snapshot, mishaps>>
        /\ pc[p] \in Copying
        /\ \E l \in Copying \cup {"cleanup"} : pc' = [pc EXCEPT ![p] = l]
    BY <1>7 DEF CopyFile, CopyManifest, CopyReceipt, Abandon, Copying
  <2>2. Paired' BY <2>1 DEF Tidy, Halfway, Paired, Copying
  <2> QED BY <1>1, <2>1, <2>2, TidyAt DEF Copying
<1>8. CASE CheckCopy(p)
  BY <1>1, <1>8, TidyFrame DEF CheckCopy, Abandon, ReadOnly, Halfway, Copying
<1>9. CASE Publish(p)
  <2>1. lock = p /\ lock' = p /\ op' = op /\ op[p] = "verify" /\ state' = state
    BY <1>2, <1>9 DEF Publish, Phase, Verifying, Copying
  <2>2. CASE tmp' = None /\ pc' = [pc EXCEPT ![p] = "write"]
    BY <1>1, <2>1, <2>2, TidyAt
  <2>3. CASE Abandon(p) /\ UNCHANGED <<snapshot, tmp>>
    BY <1>1, <1>9, <2>1, <2>3, TidyFrame DEF Publish, Abandon, Halfway, diskVars
  <2> QED BY <1>9, <2>2, <2>3 DEF Publish, BeginWrite
<1>10. CASE Cleanup(p)
  <2>1. Paired' BY <1>10 DEF Cleanup, Tidy, Halfway, Paired
  <2> QED BY <1>1, <1>10, <2>1, TidyAt DEF Cleanup
<1>11. CASE WriteState(p) BY <1>11, TidyWrite
<1>12. CASE Rollback(p)
  <2>1. PICK l \in {"rollback", "cleanup"} :
          /\ pc' = [pc EXCEPT ![p] = l]
          /\ l = "cleanup" => snapshot' = None \/ "cut" \in mishaps'
    BY <1>1, <1>12 DEF Rollback, TypeOK
  <2>2. l = "cleanup" => Paired'
    BY <1>2, <1>12, <2>1 DEF Rollback, Phase, Paired
  <2>3. tmp' = None /\ op' = op /\ lock = p /\ lock' = p
    BY <1>12 DEF Rollback, Tidy, Copying
  <2> QED BY <1>1, <2>1, <2>2, <2>3, TidyAt
<1> QED BY <1>3, <1>4, <1>5, <1>6, <1>7, <1>8, <1>9, <1>10, <1>11, <1>12 DEF Work

LEMMA TidyStep ==
  ASSUME "chmod" \notin Faults
  PROVE  IInv /\ TidyInv /\ [Next]_vars => TidyInv'
<1> SUFFICES ASSUME IInv, TidyInv, [Next]_vars, "died" \notin mishaps' PROVE Tidy'
    BY DEF TidyInv
<1> USE HandoffAssumption
<1>0. "died" \notin mishaps /\ Tidy
  <2>1. mishaps \subseteq mishaps'
    BY DEF Next, Call, Acquire, Work, Crash, Outside, ReadOnly, Review, ReadStatus,
           ReturnPath, VerifiedPath, Approve, Reject, VerifyBegin, LoadManifest, Scan,
           CopyFile, CopyManifest, CopyReceipt, CheckCopy, Publish, Cleanup, WriteState,
           Rollback, Unlock, Deliver, ChangeFile, RewriteManifest, RewriteReceipt,
           RelabelReceipt, DropControlFile, AlterPacket, Edit, vars
  <2> QED BY <2>1 DEF TidyInv
<1>1. ASSUME NEW p \in Proc, NEW o \in Operation, Call(p, o) PROVE Tidy'
  BY <1>0, <1>1 DEF Call, Goto, Tidy, Halfway, Paired, IInv, TypeOK, LockInv, Inside,
                    diskVars, localVars
<1>2. ASSUME NEW p \in Proc, Acquire(p) PROVE Tidy'
  BY <1>0, <1>2 DEF Acquire, LockIsFree, Goto, Tidy, Halfway, Paired, IInv, TypeOK, diskVars
<1>3. ASSUME NEW p \in Proc, Unlock(p) PROVE Tidy'
  BY <1>0, <1>3 DEF Unlock, Ended, Running, Goto, Tidy, Halfway, Paired, Copying, diskVars
<1>4. ASSUME NEW p \in Proc, Work(p), ~Unlock(p) PROVE Tidy'
  BY <1>0, <1>4, TidyWork
<1>5. ASSUME NEW p \in Proc, Crash(p) PROVE FALSE BY <1>5 DEF Crash
<1>6. CASE Outside
  BY <1>0, <1>6 DEF Outside, Deliver, ChangeFile, RewriteManifest, RewriteReceipt,
         RelabelReceipt, DropControlFile, AlterPacket, Edit, Tidy, Halfway, Paired,
         diskVars, localVars
<1>7. CASE UNCHANGED vars
  BY <1>0, <1>7 DEF vars, diskVars, localVars, Tidy, Halfway, Paired
<1> QED BY <1>1, <1>2, <1>3, <1>4, <1>5, <1>6, <1>7 DEF Next

(* As long as no process has died, a verification that fails or is         *)
(* refused, at whatever step and whatever the worker wrote meanwhile,      *)
(* leaves no snapshot unless taking it back failed, and no temporary copy  *)
(* unless removing that failed; one that succeeds leaves both the snapshot *)
(* and the record (_verify_return_locked).                                 *)
THEOREM FailureLeavesNothingHolds ==
  ASSUME "chmod" \notin Faults
  PROVE  Spec => []FailureLeavesNothing
<1>1. TidyInv => FailureLeavesNothing BY DEF TidyInv, Tidy, Paired, FailureLeavesNothing
<1> QED BY <1>1, Invariance, TidyInit, TidyStep, PTL DEF Spec

-----------------------------------------------------------------------------
(* An approval being written was reviewed in this call, whose lock was     *)
(* taken before; and what was altered stays altered.                       *)
FreshInv ==
  /\ packet = "built" => entryPacket = "built"
  /\ \A p \in Proc :
       lock = p /\ pc[p] = "write" /\ pending.status = "approved" => entryPacket = "built"

LEMMA FreshInit == Init => FreshInv
BY HandoffAssumption DEF Init, FreshInv

(* A step of the holder that puts nothing new up for writing. *)
LEMMA FreshAt ==
  ASSUME IInv, FreshInv, NEW p \in Proc, lock = p, lock' = p,
         NEW l \in Inside \ {"write"}, pc' = [pc EXCEPT ![p] = l],
         UNCHANGED <<packet, entryPacket>>
  PROVE  FreshInv'
BY DEF IInv, TypeOK, FreshInv

LEMMA FreshWork ==
  ASSUME IInv, FreshInv, NEW p \in Proc, Work(p), ~Unlock(p)
  PROVE  FreshInv'
<1>1. CASE Approve(p)
  <2>1. CASE MayApprove
    <3>1. /\ packet = "built" /\ entryPacket' = entryPacket /\ packet' = packet
      BY <1>1, <2>1 DEF Approve, MayApprove, ReviewPasses, outside
    <3> QED BY <3>1 DEF FreshInv
  <2>2. CASE ~MayApprove
    BY <1>1, <2>2, FreshAt DEF Approve, Read, Running, Return, Goto, Inside, outside
  <2> QED BY <2>1, <2>2
<1>2. CASE Reject(p)
  <2>1. CASE MayReject
    <3>1. /\ pending' = RejectedState /\ lock' = p /\ UNCHANGED <<packet, entryPacket>>
      BY <1>2, <2>1 DEF Reject, Read, Running, BeginWrite, outside
    <3>2. pending'.status = "rejected"
      BY <3>1 DEF IInv, TypeOK, State, RejectedState
    <3> QED BY <3>1, <3>2 DEF FreshInv
  <2>2. CASE ~MayReject
    BY <1>2, <2>2, FreshAt DEF Reject, Read, Running, Return, Goto, Inside, outside
  <2> QED BY <2>1, <2>2
<1>3. CASE Publish(p)
  <2>1. lock' = p /\ UNCHANGED <<packet, entryPacket>>
    BY <1>3 DEF Publish, Running, outside
  <2>2. CASE Abandon(p)
    BY <1>3, <2>1, <2>2, FreshAt DEF Publish, Running, Abandon, Goto, Inside
  <2>3. CASE BeginWrite(p, [state EXCEPT !.status = "verified",
             !.verification = [manifest |-> manifest,
                               receipt |-> tmp.receipt,
                               files |-> Cardinality(DOMAIN manifest)]])
    <3>1. pending'.status = "verified"
      BY <2>3 DEF BeginWrite, IInv, TypeOK, State
    <3> QED BY <2>1, <3>1 DEF FreshInv
  <2> QED BY <1>3, <2>2, <2>3 DEF Publish
<1>4. CASE \/ Review(p) \/ ReadStatus(p) \/ ReturnPath(p) \/ VerifiedPath(p)
           \/ VerifyBegin(p) \/ LoadManifest(p) \/ Scan(p) \/ CopyFile(p)
           \/ CopyManifest(p) \/ CopyReceipt(p) \/ CheckCopy(p) \/ Cleanup(p)
           \/ WriteState(p)
  <2>1. /\ lock = p /\ lock' = p /\ UNCHANGED <<packet, entryPacket>>
        /\ \E l \in Inside \ {"write"} : pc' = [pc EXCEPT ![p] = l]
    BY <1>4 DEF Review, ReadStatus, ReturnPath, VerifiedPath, VerifyBegin, LoadManifest,
           Scan, CopyFile, CopyManifest, CopyReceipt, CheckCopy, Cleanup, WriteState,
           Read, Running, ReadOnly, Return, Goto, Abandon, OnWriteError, Inside,
           outside, localVars
  <2> QED BY <2>1, FreshAt
<1>5. CASE Rollback(p)
  <2>1. /\ lock = p /\ lock' = p /\ UNCHANGED <<packet, entryPacket>>
        /\ pc[p] = "rollback" /\ pc \in [Proc -> Inside \cup {"idle", "wait"}]
        /\ pc' = pc \/ pc' = [pc EXCEPT ![p] = "cleanup"]
    BY <1>5 DEF Rollback, Running, Goto, IInv, TypeOK, outside, localVars
  <2>2. PICK l \in Inside \ {"write"} : pc' = [pc EXCEPT ![p] = l]
    BY <2>1 DEF Inside
  <2> QED BY <2>1, <2>2, FreshAt
<1> QED BY <1>1, <1>2, <1>3, <1>4, <1>5 DEF Work

LEMMA FreshStep == IInv /\ FreshInv /\ [Next]_vars => FreshInv'
<1> SUFFICES ASSUME IInv, FreshInv, [Next]_vars PROVE FreshInv' OBVIOUS
<1> USE HandoffAssumption
<1>1. ASSUME NEW p \in Proc, NEW o \in Operation, Call(p, o) PROVE FreshInv'
  BY <1>1 DEF Call, Goto, FreshInv, IInv, TypeOK, LockInv, Inside, outside, localVars
<1>2. ASSUME NEW p \in Proc, Acquire(p) PROVE FreshInv'
  BY <1>2 DEF Acquire, Goto, FreshInv, IInv, TypeOK, outside
<1>3. ASSUME NEW p \in Proc, Unlock(p) PROVE FreshInv'
  BY <1>3 DEF Unlock, FreshInv
<1>4. ASSUME NEW p \in Proc, Work(p), ~Unlock(p) PROVE FreshInv'
  BY <1>4, FreshWork
<1>5. ASSUME NEW p \in Proc, Crash(p) PROVE FreshInv'
  <2>1. CASE lock = p BY <1>5, <2>1 DEF Crash, FreshInv
  <2>2. CASE lock # p
    BY <1>5, <2>2 DEF Crash, Ended, Goto, FreshInv, IInv, TypeOK, outside, localVars
  <2> QED BY <2>1, <2>2
<1>6. CASE Outside
  BY <1>6 DEF Outside, Deliver, ChangeFile, RewriteManifest, RewriteReceipt,
         RelabelReceipt, DropControlFile, AlterPacket, Edit, SetReturn, FreshInv, localVars
<1>7. CASE UNCHANGED vars BY <1>7 DEF vars, outside, localVars, FreshInv
<1> QED BY <1>1, <1>2, <1>3, <1>4, <1>5, <1>6, <1>7 DEF Next

(* Only writing state.json changes the status, and it stores what was put  *)
(* up for writing.                                                         *)
LEMMA StatusChange ==
  ASSUME [Next]_vars, state' # state
  PROVE  \E p \in Proc : lock = p /\ pc[p] = "write" /\ state' = pending
BY DEF Next, Call, Acquire, Work, Crash, Outside, ReadOnly, Review, ReadStatus,
       ReturnPath, VerifiedPath, Approve, Reject, VerifyBegin, LoadManifest, Scan,
       CopyFile, CopyManifest, CopyReceipt, CheckCopy, Publish, Cleanup, WriteState,
       Rollback, Unlock, Deliver, ChangeFile, RewriteManifest, RewriteReceipt,
       RelabelReceipt, DropControlFile, AlterPacket, Edit, vars, diskVars, Running

(* A handoff becomes approved only in a call that reviewed the packet      *)
(* itself: one that took the lock while the packet was as built            *)
(* (_approve_locked), whatever fails and whoever altered it since.         *)
THEOREM ApprovalIsFreshHolds == Spec => ApprovalIsFresh
<1>1. IInv /\ FreshInv /\ [Next]_vars
        => [state.status = "prepared" /\ state'.status = "approved"
              => entryPacket = "built"]_vars
  <2> SUFFICES ASSUME IInv, FreshInv, [Next]_vars,
                      state.status = "prepared", state'.status = "approved"
               PROVE  entryPacket = "built"
      OBVIOUS
  <2>1. PICK p \in Proc : lock = p /\ pc[p] = "write" /\ state' = pending
    BY StatusChange
  <2> QED BY <2>1 DEF FreshInv
<1> QED BY <1>1, Invariance, FreshInit, FreshStep, PTL DEF Spec, ApprovalIsFresh
=============================================================================
