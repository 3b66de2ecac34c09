------------------------------ MODULE Handoff ------------------------------
(***************************************************************************)
(* One handoff directory of TrustRuntime (hermes_integration/core.py) and  *)
(* the processes that operate on it: CLI invocations and tool handlers,    *)
(* each of which takes the directory's flock, reads state.json, does its   *)
(* work and releases the lock.  Outside the lock the worker's side keeps   *)
(* writing to the return quarantine, and the packet's files may change on  *)
(* disk.  A process may die at any step; the kernel then drops its lock.   *)
(*                                                                         *)
(* Each step below is one effect on the file system, or one observation of *)
(* it, in the order of the code.  The locals of a call exist only while it *)
(* holds the lock, so there is one copy of them.                           *)
(***************************************************************************)
EXTENDS ReturnBundle, Functions

CONSTANTS
  Proc,      \* processes
  Faults,    \* what may happen: "crash", "write", "chmod", "remove"
  MaxEdits   \* bound: changes to the quarantine and the packet

ASSUME HandoffAssumption ==
  /\ None \notin Proc
  /\ Faults \subseteq {"crash", "write", "chmod", "remove"}
  /\ MaxEdits \in Nat

VARIABLES
  \* on disk
  state,       \* state.json
  snapshot,    \* verified-snapshot/
  tmp,         \* .verification.*.tmp of the running call
  quarantine,  \* return/
  packet,      \* packet/: "built" as recorded, or "altered"
  \* in the kernel
  lock,        \* the holder of directory/.lock
  \* in the processes
  pc, op,      \* control point and operation of every process
  manifest,    \* manifest_data of the running verification
  todo,        \* manifest entries it has still to copy
  pending,     \* the state_data being written
  reply,       \* the answer being returned: a status, or "error"
  \* bookkeeping
  entryPacket, \* packet when the running call took the lock
  mishaps,     \* "died": a process has died; "cut": the removal of a
               \* snapshot ended early; "kept": that of a temporary copy did
  told,        \* every status a call has reported
  edits        \* changes made from outside

diskVars  == <<state, snapshot, tmp>>
outside   == <<quarantine, packet, edits>>
localVars == <<manifest, todo, pending, reply, entryPacket>>
vars == <<diskVars, outside, lock, pc, op, localVars, mishaps, told>>

Operation == {"review", "approve", "reject", "status", "verify",
              "return_path", "verified_path"}
Status == {"prepared", "approved", "rejected", "verified"}
State == [status : Status,
          approval : {None, "approved_at", "rejected_at"},
          verification : Verification \cup {None}]
Inside == {"read", "load", "scan", "copy", "copy_manifest", "copy_receipt",
           "check", "publish", "write", "rollback", "cleanup", "unlock"}

-----------------------------------------------------------------------------
(* The checks of _state that tie the fields of state.json together. *)
StateValid(s) ==
  /\ s.status = "prepared" => s.approval = None
  /\ s.status \in {"approved", "verified"} => s.approval = "approved_at"
  /\ s.status = "rejected" => s.approval = "rejected_at"
  /\ s.status = "verified" <=> s.verification # None
  /\ s.status = "verified" => s.verification.files <= MaxReturnFiles

(* _assert_verified_snapshot does not raise. *)
SnapshotMatches(s, copy) ==
  /\ copy # None
  /\ copy.manifest # None
  /\ Acceptable(copy, s.verification.manifest)
  /\ Cardinality(DOMAIN copy.tree) = s.verification.files
  /\ copy.receipt = s.verification.receipt

(* The status a reader reports: status, list_handoffs, verify on a         *)
(* verified handoff.                                                       *)
Reported(s, copy) ==
  IF StateValid(s) /\ (s.status = "verified" => SnapshotMatches(s, copy))
    THEN s.status ELSE "error"

(* doctor()["ok"] for this handoff. *)
DoctorOk == Reported(state, snapshot) # "error"

NoCopy == [tree |-> [f \in {} |-> None], manifest |-> None, receipt |-> None]

Init ==
  /\ state = [status |-> "prepared", approval |-> None, verification |-> None]
  /\ snapshot = None /\ tmp = None
  /\ quarantine = None /\ packet = "built" /\ edits = 0
  /\ lock = None
  /\ pc = [p \in Proc |-> "idle"] /\ op = [p \in Proc |-> "status"]
  /\ manifest = None /\ todo = {} /\ pending = None /\ reply = "error"
  /\ entryPacket = "built"
  /\ mishaps = {} /\ told = {}

-----------------------------------------------------------------------------
(* Helpers: where process p goes next, and with what answer. *)
Goto(p, label) == pc' = [pc EXCEPT ![p] = label]
Return(p, answer) == Goto(p, "unlock") /\ reply' = answer
Running(p, label) == lock = p /\ pc[p] = label

(* The call of p is over; nothing of it is kept. *)
Ended(p) == Goto(p, "idle") /\ op' = [op EXCEPT ![p] = "status"]

Call(p, o) ==
  /\ pc[p] = "idle"
  /\ op' = [op EXCEPT ![p] = o]
  /\ Goto(p, "wait")
  /\ UNCHANGED <<diskVars, outside, lock, localVars, mishaps, told>>

LockIsFree == lock = None

(* Blocks in flock(LOCK_EX) until the lock is free. *)
Acquire(p) ==
  /\ pc[p] = "wait" /\ LockIsFree
  /\ lock' = p
  /\ Goto(p, "read")
  /\ entryPacket' = packet
  /\ UNCHANGED <<diskVars, outside, op, manifest, todo, pending, reply,
                 mishaps, told>>

Read(p, o) == Running(p, "read") /\ op[p] = o
ReadOnly == UNCHANGED <<diskVars, outside, lock, op, manifest, todo, pending,
                        entryPacket, mishaps, told>>

(* _review_locked does not raise: the archive, its local copies and the    *)
(* recorded digest agree. *)
ReviewPasses_Unchecked == StateValid(state) /\ state.status = "prepared"
ReviewPasses == StateValid(state) /\ state.status = "prepared" /\ packet = "built"

Review(p) ==
  /\ Read(p, "review")
  /\ Return(p, IF ReviewPasses THEN "prepared" ELSE "error")
  /\ ReadOnly

ReadStatus(p) ==
  /\ Read(p, "status")
  /\ Return(p, Reported(state, snapshot))
  /\ ReadOnly

ReturnPath(p) ==
  /\ Read(p, "return_path")
  /\ Return(p, IF StateValid(state) /\ state.status = "approved" /\ quarantine = None
                 THEN "approved" ELSE "error")
  /\ ReadOnly

VerifiedPath(p) ==
  /\ Read(p, "verified_path")
  /\ Return(p, IF state.status = "verified" THEN Reported(state, snapshot) ELSE "error")
  /\ ReadOnly

(* Leaves the call in front of _write_json with the new state_data. *)
BeginWrite(p, s) ==
  /\ pending' = s
  /\ Goto(p, "write")
  /\ UNCHANGED reply

MayApprove_AnyStatus == StateValid(state) /\ packet = "built"
MayApprove == ReviewPasses

(* An approved handoff is answered again without a second review. *)
Approve(p) ==
  /\ Read(p, "approve")
  /\ \/ /\ MayApprove
        /\ BeginWrite(p, [state EXCEPT !.status = "approved", !.approval = "approved_at"])
     \/ /\ ~MayApprove
        /\ Return(p, IF StateValid(state) /\ state.status = "approved"
                       THEN "approved" ELSE "error")
        /\ UNCHANGED pending
  /\ UNCHANGED <<diskVars, outside, lock, op, manifest, todo, entryPacket,
                 mishaps, told>>

MayReject == StateValid(state) /\ state.status \in {"prepared", "approved"}

RejectedState_KeepsApproval == [state EXCEPT !.status = "rejected"]
RejectedState == [state EXCEPT !.status = "rejected", !.approval = "rejected_at"]

Reject(p) ==
  /\ Read(p, "reject")
  /\ \/ /\ MayReject
        /\ BeginWrite(p, RejectedState)
     \/ /\ ~MayReject
        /\ Return(p, IF StateValid(state) /\ state.status = "rejected"
                       THEN "rejected" ELSE "error")
        /\ UNCHANGED pending
  /\ UNCHANGED <<diskVars, outside, lock, op, manifest, todo, entryPacket,
                 mishaps, told>>

-----------------------------------------------------------------------------
(* verify_return *)
VerifyBegin(p) ==
  /\ Read(p, "verify")
  /\ \/ /\ StateValid(state) /\ state.status = "approved"
        /\ quarantine # None
        /\ Goto(p, "load")
        /\ UNCHANGED reply
     \/ /\ ~(StateValid(state) /\ state.status = "approved" /\ quarantine # None)
        /\ Return(p, IF state.status = "verified" THEN Reported(state, snapshot)
                     ELSE "error")
  /\ ReadOnly

LoadManifest(p) ==
  /\ Running(p, "load")
  /\ IF quarantine.manifest # None /\ quarantine.receipt # None
       THEN /\ manifest' = quarantine.manifest
            /\ Goto(p, "scan")
            /\ UNCHANGED reply
       ELSE Return(p, "error") /\ UNCHANGED manifest
  /\ UNCHANGED <<diskVars, outside, lock, op, todo, pending, entryPacket,
                 mishaps, told>>

(* verify_output_manifest over return/, the bounds, and the refusal when   *)
(* verified-snapshot/ exists.                                              *)
ScanPasses_FewerFiles ==
  /\ ManifestHolds(manifest, quarantine.tree)
  /\ WithinBounds(manifest) /\ Cardinality(DOMAIN manifest) < MaxReturnFiles
  /\ snapshot = None
ScanPasses ==
  /\ ManifestHolds(manifest, quarantine.tree)
  /\ WithinBounds(manifest)
  /\ snapshot = None

Scan(p) ==
  /\ Running(p, "scan")
  /\ IF ScanPasses
       THEN /\ tmp' = NoCopy
            /\ todo' = DOMAIN manifest
            /\ Goto(p, "copy")
            /\ UNCHANGED reply
       ELSE Return(p, "error") /\ UNCHANGED <<tmp, todo>>
  /\ UNCHANGED <<state, snapshot, outside, lock, op, manifest, pending,
                 entryPacket, mishaps, told>>

(* An exception in the try block: nothing is published. *)
Abandon_Retry(p) == UNCHANGED <<pc, reply>>
Abandon(p) == Goto(p, "cleanup") /\ reply' = "error"

(* _copy_return_file for one manifest entry; the order of the entries does *)
(* not matter and is left open.                                            *)
CopyFile(p) ==
  /\ Running(p, "copy")
  /\ \E f \in todo :
       IF f \in DOMAIN quarantine.tree /\ quarantine.tree[f] = manifest[f]
         THEN /\ tmp' = [tmp EXCEPT !.tree =
                           [g \in DOMAIN tmp.tree \cup {f} |->
                              IF g = f THEN quarantine.tree[f] ELSE tmp.tree[g]]]
              /\ todo' = todo \ {f}
              /\ Goto(p, IF todo = {f} THEN "copy_manifest" ELSE "copy")
              /\ UNCHANGED reply
         ELSE Abandon(p) /\ UNCHANGED <<tmp, todo>>
  /\ UNCHANGED <<state, snapshot, outside, lock, op, manifest, pending,
                 entryPacket, mishaps, told>>

(* The two control files are copied as they are now, unchecked. *)
CopyManifest(p) ==
  /\ Running(p, "copy_manifest")
  /\ IF quarantine.manifest # None
       THEN /\ tmp' = [tmp EXCEPT !.manifest = quarantine.manifest]
            /\ Goto(p, "copy_receipt")
            /\ UNCHANGED reply
       ELSE Abandon(p) /\ UNCHANGED tmp
  /\ UNCHANGED <<state, snapshot, outside, lock, op, manifest, todo, pending,
                 entryPacket, mishaps, told>>

CopyReceipt(p) ==
  /\ Running(p, "copy_receipt")
  /\ IF quarantine.receipt # None
       THEN /\ tmp' = [tmp EXCEPT !.receipt = quarantine.receipt]
            /\ Goto(p, "check")
            /\ UNCHANGED reply
       ELSE Abandon(p) /\ UNCHANGED tmp
  /\ UNCHANGED <<state, snapshot, outside, lock, op, manifest, todo, pending,
                 entryPacket, mishaps, told>>

(* The end of _snapshot_return and the receipt's checks: from here on only *)
(* the private copy is looked at.                                          *)
CopyPasses_SourceReceipt ==
  /\ quarantine.receipt # None
  /\ Acceptable([tmp EXCEPT !.receipt = quarantine.receipt], manifest)
CopyPasses_NoRescan ==
  /\ ReceiptPathsMatch(tmp.receipt, manifest)
  /\ ReceiptHolds(tmp.receipt, manifest, tmp.tree)
CopyPasses == Acceptable(tmp, manifest)

CheckCopy(p) ==
  /\ Running(p, "check")
  /\ IF CopyPasses
       THEN Goto(p, "publish") /\ UNCHANGED reply
       ELSE Abandon(p)
  /\ ReadOnly

(* _freeze_snapshot and os.replace(snapshot_temporary, snapshot_final);    *)
(* either may fail.                                                        *)
Publish(p) ==
  /\ Running(p, "publish")
  /\ \/ /\ snapshot' = tmp
        /\ tmp' = None
        /\ BeginWrite(p, [state EXCEPT !.status = "verified",
             !.verification = [manifest |-> manifest,
                               receipt |-> tmp.receipt,
                               files |-> Cardinality(DOMAIN manifest)]])
     \/ /\ "write" \in Faults
        /\ Abandon(p)
        /\ UNCHANGED <<snapshot, tmp, pending>>
  /\ UNCHANGED <<state, outside, lock, op, manifest, todo, entryPacket,
                 mishaps, told>>

(* The `finally` of _verify_return_locked.  _remove_private_tree may raise *)
(* half way; what is left then has a name nobody uses again.               *)
Cleanup(p) ==
  /\ Running(p, "cleanup")
  /\ tmp' = None
  /\ \/ UNCHANGED mishaps
     \/ tmp # None /\ "remove" \in Faults /\ mishaps' = mishaps \cup {"kept"}
  /\ Goto(p, "unlock")
  /\ UNCHANGED <<state, snapshot, outside, lock, op, localVars, told>>

-----------------------------------------------------------------------------
(* _write_json replaces state.json atomically.  It can fail before the     *)
(* replacement (nothing changes) and after it, at path.chmod.              *)
OnWriteError_Swallowed(p) ==
  /\ Goto(p, IF op[p] = "verify" THEN "rollback" ELSE "unlock")
  /\ reply' = pending.status
OnWriteError(p) ==
  /\ Goto(p, IF op[p] = "verify" THEN "rollback" ELSE "unlock")
  /\ reply' = "error"

WriteState(p) ==
  /\ Running(p, "write")
  /\ \/ state' = pending /\ Return(p, pending.status)
     \/ "write" \in Faults /\ UNCHANGED state /\ OnWriteError(p)
     \/ "chmod" \in Faults /\ state' = pending /\ OnWriteError(p)
  /\ UNCHANGED <<snapshot, tmp, outside, lock, op, manifest, todo, pending,
                 entryPacket, mishaps, told>>

(* A bundle that lacks one file more. *)
OneLess(copy) ==
  {[copy EXCEPT !.tree = Restrict(copy.tree, DOMAIN copy.tree \ {f})] :
     f \in DOMAIN copy.tree}
  \cup {[copy EXCEPT !.manifest = None], [copy EXCEPT !.receipt = None]}

(* except Exception: self._remove_private_tree(snapshot_final); raise.     *)
(* rmtree takes the files away one by one under the final name, in no      *)
(* order to rely on, the emptied directory last; a chmod before it or any  *)
(* step of it may raise.                                                   *)
Rollback_KeepsSnapshot(p) ==
  /\ Running(p, "rollback")
  /\ Goto(p, "cleanup")
  /\ UNCHANGED <<diskVars, outside, lock, op, localVars, mishaps, told>>
Rollback(p) ==
  /\ Running(p, "rollback")
  /\ \/ /\ snapshot' \in OneLess(snapshot) \ {snapshot}
        /\ UNCHANGED <<pc, mishaps>>
     \/ /\ snapshot = NoCopy /\ snapshot' = None
        /\ Goto(p, "cleanup") /\ UNCHANGED mishaps
     \/ /\ "remove" \in Faults
        /\ mishaps' = mishaps \cup {"cut"}
        /\ Goto(p, "cleanup") /\ UNCHANGED snapshot
  /\ UNCHANGED <<state, tmp, outside, lock, op, localVars, told>>

(* The lock is released and the call answers; an error says nothing of     *)
(* the handoff's status.                                                   *)
Answered_Errors == {reply}
Answered == {reply} \ {"error"}

Unlock(p) ==
  /\ Running(p, "unlock")
  /\ lock' = None
  /\ told' = told \cup Answered
  /\ Ended(p)
  /\ manifest' = None /\ todo' = {} /\ pending' = None
  /\ reply' = "error" /\ entryPacket' = "built"
  /\ UNCHANGED <<diskVars, outside, mishaps>>

(* A process dies.  Its temporary copy stays on disk under a name nobody   *)
(* uses again.                                                             *)
Crash(p) ==
  /\ "crash" \in Faults
  /\ pc[p] # "idle"
  /\ Ended(p)
  /\ mishaps' = mishaps \cup {"died"}
       \cup (IF Running(p, "rollback") THEN {"cut"} ELSE {})
  /\ IF lock = p
       THEN /\ lock' = None /\ tmp' = None
            /\ manifest' = None /\ todo' = {} /\ pending' = None
            /\ reply' = "error" /\ entryPacket' = "built"
       ELSE UNCHANGED <<lock, tmp, localVars>>
  /\ UNCHANGED <<state, snapshot, outside, told>>

-----------------------------------------------------------------------------
(* The worker's side. *)
Edit ==
  /\ edits < MaxEdits
  /\ edits' = edits + 1
  /\ UNCHANGED <<diskVars, lock, pc, op, localVars, mishaps, told>>

SetReturn(q) == quarantine' = q /\ UNCHANGED packet

(* The operator puts a finished worker's directory in the fixed place: its *)
(* manifest is that of its files, its receipt is bound to that manifest    *)
(* and was recorded over those files.                                      *)
Deliver ==
  /\ Edit
  /\ quarantine = None
  /\ \E t \in Tree, b \in Binding, c \in BOOLEAN :
       SetReturn([tree |-> t, manifest |-> t,
                  receipt |-> [binding |-> b, manifest |-> t, evidence |-> t,
                               commands |-> c, sealed |-> TRUE]])

(* Something still writes to the quarantine: a payload file changes,       *)
(* appears or goes; a control file is rebuilt from what is there; the      *)
(* receipt is edited after it was sealed; a control file goes.             *)
ChangeFile ==
  /\ Edit
  /\ quarantine # None
  /\ \E t \in Tree :
       /\ \E f \in Path : \A g \in Path \ {f} :
            /\ g \in DOMAIN t <=> g \in DOMAIN quarantine.tree
            /\ g \in DOMAIN t => t[g] = quarantine.tree[g]
       /\ SetReturn([quarantine EXCEPT !.tree = t])

RewriteManifest ==
  /\ Edit
  /\ quarantine # None
  /\ SetReturn([quarantine EXCEPT !.manifest = quarantine.tree])

RewriteReceipt ==
  /\ Edit
  /\ quarantine # None /\ quarantine.manifest # None
  /\ \E b \in Binding :
       SetReturn([quarantine EXCEPT !.receipt =
                    [binding |-> b, manifest |-> quarantine.manifest,
                     evidence |-> quarantine.tree, commands |-> FALSE, sealed |-> TRUE]])

RelabelReceipt ==
  /\ Edit
  /\ quarantine # None /\ quarantine.receipt # None
  /\ SetReturn([quarantine EXCEPT !.receipt.binding = OwnBinding,
                                  !.receipt.sealed = FALSE])

DropControlFile ==
  /\ Edit
  /\ quarantine # None
  /\ \/ SetReturn([quarantine EXCEPT !.manifest = None])
     \/ SetReturn([quarantine EXCEPT !.receipt = None])

(* A file of packet/ is changed on disk. *)
AlterPacket ==
  /\ Edit
  /\ packet' = "altered"
  /\ UNCHANGED quarantine

Outside == Deliver \/ ChangeFile \/ RewriteManifest \/ RewriteReceipt
             \/ RelabelReceipt \/ DropControlFile \/ AlterPacket

-----------------------------------------------------------------------------
Work(p) == Review(p) \/ ReadStatus(p) \/ ReturnPath(p) \/ VerifiedPath(p)
             \/ Approve(p) \/ Reject(p) \/ VerifyBegin(p) \/ LoadManifest(p)
             \/ Scan(p) \/ CopyFile(p) \/ CopyManifest(p) \/ CopyReceipt(p)
             \/ CheckCopy(p) \/ Publish(p) \/ Cleanup(p) \/ WriteState(p)
             \/ Rollback(p) \/ Unlock(p)

Next == \/ \E p \in Proc : \/ \E o \in Operation : Call(p, o)
                           \/ Acquire(p) \/ Work(p) \/ Crash(p)
        \/ Outside

(* A call that holds the lock keeps running. *)
Fairness == \A p \in Proc : WF_vars(Work(p))

Spec == Init /\ [][Next]_vars
FairSpec == Spec /\ Fairness

-----------------------------------------------------------------------------
(* Type invariant. *)
TypeOK ==
  /\ state \in State
  /\ snapshot \in Bundle \cup {None}
  /\ tmp \in Bundle \cup {None}
  /\ quarantine \in Bundle \cup {None}
  /\ packet \in {"built", "altered"} /\ entryPacket \in {"built", "altered"}
  /\ lock \in Proc \cup {None}
  /\ pc \in [Proc -> Inside \cup {"idle", "wait"}]
  /\ op \in [Proc -> Operation]
  /\ manifest \in Tree \cup {None}
  /\ todo \in SUBSET Path
  /\ pending \in State \cup {None}
  /\ reply \in Status \cup {"error"}
  /\ mishaps \subseteq {"died", "cut", "kept"}
  /\ told \in SUBSET Status
  /\ edits \in 0..MaxEdits

(* No two calls are ever inside the handoff's critical section, whatever   *)
(* dies while holding the lock (_handoff_lock).                            *)
MutualExclusion ==
  \A p, q \in Proc : pc[p] \in Inside /\ pc[q] \in Inside => p = q

(* A handoff recorded as verified has its private snapshot, and that       *)
(* snapshot is complete: exactly the files of the recorded manifest, the   *)
(* recorded receipt, bound to this handoff's packet and commit and to that *)
(* manifest, with every evidence item true of the snapshot's own files -   *)
(* whatever was written to the quarantine during or after the verification *)
(* (verify_return, _snapshot_return).                                      *)
VerifiedBinding ==
  state.status = "verified" =>
    /\ snapshot \in VerifiedOutput
    /\ snapshot.manifest = state.verification.manifest
    /\ snapshot.receipt = state.verification.receipt
    /\ Cardinality(DOMAIN snapshot.tree) = state.verification.files

(* What is under the final name is complete and checked, at every moment,  *)
(* after every failure and death - except what is left of a snapshot that  *)
(* is being taken back, or whose removal was cut short by a death or an    *)
(* error (_verify_return_locked, _remove_private_tree).                    *)
PublishedIsComplete ==
  snapshot # None =>
    \/ snapshot \in VerifiedOutput
    \/ \E p \in Proc : Running(p, "rollback")
    \/ "cut" \in mishaps

(* As long as no process has died: when no call is running, the snapshot   *)
(* and the status agree, unless a removal of the snapshot failed itself,   *)
(* and there is no temporary copy, unless a removal of one did.            *)
FailureLeavesNothing ==
  lock = None /\ "died" \notin mishaps =>
    /\ "cut" \notin mishaps => (snapshot # None <=> state.status = "verified")
    /\ "kept" \notin mishaps => tmp = None

(* No sequence of calls, failures and deaths writes a state.json that      *)
(* _state would refuse to read.                                            *)
StateReadable == StateValid(state)

(* Everything a call has reported stays in the handoff's past: nobody was  *)
(* told "verified" or "rejected" of a handoff that is now anything else,   *)
(* and nobody was told "approved" of one that is still prepared.           *)
Past == [prepared |-> {"prepared"},
         approved |-> {"prepared", "approved"},
         rejected |-> {"prepared", "approved", "rejected"},
         verified |-> {"prepared", "approved", "verified"}]
ReportsHold == told \subseteq Past[state.status]

(* The verified record and its snapshot never change and never go away     *)
(* (docs/HERMES_PLUGIN.md: a verified handoff's snapshot is retained).     *)
VerifiedIsFinal ==
  [][state.status = "verified" => UNCHANGED <<state, snapshot>>]_vars

(* A handoff becomes approved only in a call that took the lock while the  *)
(* packet's files were still as built: an earlier review is never enough   *)
(* (_approve_locked runs the review again).                                *)
ApprovalIsFresh ==
  [][state.status = "prepared" /\ state'.status = "approved"
       => entryPacket = "built"]_vars

(* Whenever the next verify_return would be refused with "a private        *)
(* verified snapshot already exists; run doctor before retrying", doctor   *)
(* reports a problem.                                                      *)
RefusalIsDiagnosed ==
  lock = None /\ state.status = "approved" /\ snapshot # None => ~DoctorOk

(* A call that got the lock gives it back: every path through every        *)
(* operation ends, and a dead holder's lock is dropped.                    *)
LockIsReleased == lock # None ~> lock = None

(* A verification that starts on an approved handoff and a consistent,     *)
(* bounded, fully re-checkable return that is left alone ends verified,    *)
(* unless its process dies.                                                *)
HonestReturn ==
  /\ quarantine # None
  /\ quarantine.manifest # None
  /\ WithinBounds(quarantine.manifest)
  /\ Acceptable(quarantine, quarantine.manifest)
HonestReturnIsVerified ==
  (/\ HonestReturn /\ edits = MaxEdits /\ state.status = "approved"
   /\ \E p \in Proc : Running(p, "read") /\ op[p] = "verify")
    ~> state.status = "verified" \/ "died" \in mishaps

(* The handoff as its operator sees it. *)
Lifecycle == INSTANCE HandoffLifecycle
  WITH Output <- VerifiedOutput,
       status <- state.status,
       output <- IF state.status = "verified" THEN snapshot ELSE None

(* Handoff implements HandoffLifecycle. *)
ImplementsLifecycle == Lifecycle!Spec
=============================================================================
