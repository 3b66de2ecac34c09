---------------------------- MODULE AgentReceipt -----------------------------
(***************************************************************************)
(* The agent-receipt commands (agent_receipt/cli.py) on one workspace, in  *)
(* any order: `manifest create` scans it and saves OUTPUT_MANIFEST.json,   *)
(* `build` makes a receipt, bound to the digest that create printed,       *)
(* `manifest verify` scans again, `verify` judges the receipt.  The worker *)
(* keeps writing, and the manifest and receipt files may be altered.       *)
(*                                                                         *)
(* Each step is one look at the workspace or one effect.  Saving is one    *)
(* step with all its outcomes: no other command looks at its temporary     *)
(* file.                                                                   *)
(***************************************************************************)
EXTENDS OutputScan, ReceiptVerify

CONSTANTS
  Output,     \* OUTPUT_MANIFEST.json in the root
  Stray,      \* the temporary file of a save that died
  Modes,      \* the argument lists `verify` is called with
  Faults,     \* the failures that may happen
  Again       \* bound: FALSE if a receipt is altered once only, and no
              \* manifest is created when there is one

ASSUME AgentAssumption ==
  /\ Output \in Control /\ Parent[Output] = Root
  /\ Stray \in Path \ Control /\ Parent[Stray] = Root
  /\ Modes \subseteq Mode /\ Manifest \subseteq Context
  /\ Faults \subseteq {"write", "fsync", "crash"} /\ Again \in BOOLEAN
  /\ \A t \in Start : t[Output] = Absent /\ t[Stray] = Absent

VARIABLES
  cmd,       \* "idle", or the manifest command that is running
  stored,    \* what OUTPUT_MANIFEST.json says
  printed,   \* the digest the last create printed, taken to a safe place
  \* bookkeeping
  confirmed, \* the manifest a verify against `printed` accepted, if the
             \* workspace has not changed since that command began
  calm       \* of the last create, build and running check, those since
             \* whose beginning nothing was written, altered or failed

flow == <<cmd, stored, printed, confirmed, calm>>
vars == <<tree, edits, scanVars, receiptVars, flow>>

(* Manifests stand for their digests.                                      *)
Init ==
  /\ WorkspaceInit
  /\ ScanIdle /\ ReceiptIdle
  /\ cmd = "idle" /\ stored = None /\ printed = None
  /\ confirmed = None /\ calm = {}

Idle == cmd = "idle" /\ rpc = "idle"

-----------------------------------------------------------------------------
(* manifest create                                                         *)
Create ==
  /\ Idle /\ (Again \/ receipt = None)
  /\ cmd' = "create" /\ calm' = calm \cup {"manifest"}
  /\ BeginScan
  /\ UNCHANGED <<tree, edits, receiptVars, stored, printed, confirmed>>

ScanFails ==
  /\ cmd # "idle" /\ spc = "failed"
  /\ cmd' = "idle" /\ calm' = calm \ {"check"}
  /\ EndScan
  /\ UNCHANGED <<tree, edits, receiptVars, stored, printed, confirmed>>

Written == CHOOSE c \in Content : TRUE
PutOutput == tree' = [tree EXCEPT ![Output] = Written] /\ stored' = found

(* save_output_manifest: a temporary file, os.replace, fsync of the        *)
(* directory.                                                              *)
Save ==
  /\ cmd = "create" /\ spc = "done"
  /\ PutOutput
  /\ printed' = found
  /\ cmd' = "idle"
  /\ EndScan
  /\ UNCHANGED <<edits, receiptVars, confirmed, calm>>

(* It fails before the replace, or after it: the file is there, but the    *)
(* command reports an error.                                               *)
SaveFails ==
  /\ cmd = "create" /\ spc = "done"
  /\ edits < MaxEdits /\ edits' = edits + 1
  /\ \/ "write" \in Faults /\ UNCHANGED <<tree, stored>>
     \/ "fsync" \in Faults /\ PutOutput
  /\ cmd' = "idle" /\ calm' = calm \ {"manifest"}
  /\ EndScan
  /\ UNCHANGED <<receiptVars, printed, confirmed>>

SaveDies ==
  /\ "crash" \in Faults /\ tree[Stray] = Absent
  /\ cmd = "create" /\ spc = "done"
  /\ Change(Stray, Written)
  /\ cmd' = "idle" /\ calm' = {} /\ confirmed' = None
  /\ EndScan
  /\ UNCHANGED <<receiptVars, stored, printed>>

(* manifest verify, with the digest that create printed.                   *)
Check ==
  /\ Idle
  /\ stored # None /\ stored = printed
  /\ cmd' = "check" /\ calm' = calm \cup {"check"}
  /\ BeginScan
  /\ UNCHANGED <<tree, edits, receiptVars, stored, printed, confirmed>>

(* verify_output_manifest: neither missing nor unexpected nor changed.     *)
Exact_Subset == \A f \in DOMAIN stored : f \in DOMAIN found /\ found[f] = stored[f]
Exact == found = stored

Checked ==
  /\ cmd = "check" /\ spc = "done"
  /\ confirmed' = IF Exact /\ "check" \in calm THEN stored ELSE None
  /\ cmd' = "idle" /\ calm' = calm \ {"check"}
  /\ EndScan
  /\ UNCHANGED <<tree, edits, receiptVars, stored, printed>>

-----------------------------------------------------------------------------
(* build and verify                                                        *)
Build ==
  /\ Idle
  /\ \E c \in {None, printed} : BeginBuild(c)
  /\ calm' = calm \cup {"receipt"}
  /\ UNCHANGED <<tree, edits, scanVars, cmd, stored, printed, confirmed>>

SignReceipt ==
  /\ Idle /\ Sign
  /\ UNCHANGED <<tree, edits, scanVars, flow>>

Verify ==
  /\ Idle
  /\ \E m \in Modes, c \in {None, printed} : BeginVerify([m EXCEPT !.context = c])
  /\ UNCHANGED <<tree, edits, scanVars, flow>>

Running == \/ ScanStep /\ UNCHANGED <<tree, edits, receiptVars, flow>>
           \/ ReceiptStep /\ UNCHANGED <<tree, edits, scanVars, flow>>

-----------------------------------------------------------------------------
(* The worker writes, creates or removes a file.                           *)
Edit ==
  /\ \E f \in Path \ (Control \cup {Stray}), v \in Content \cup {Absent} :
       Change(f, v) /\ Disturb(f, v)
  /\ confirmed' = None /\ calm' = {}
  /\ UNCHANGED <<receiptVars, cmd, stored, printed>>

(* The receipt is altered, or the manifest is made anew for what is there. *)
AlterFile ==
  /\ Idle /\ edits < MaxEdits
  /\ edits' = edits + 1
  /\ \/ /\ Alter /\ (Again \/ receipt.body = original)
        /\ calm' = calm \ {"receipt"} /\ UNCHANGED stored
     \/ /\ stored # None /\ stored # Outputs(tree)
        /\ stored' = Outputs(tree) /\ calm' = calm \ {"manifest"}
        /\ UNCHANGED receiptVars
  /\ UNCHANGED <<tree, scanVars, cmd, printed, confirmed>>

Next == \/ Create \/ ScanFails \/ Save \/ SaveFails \/ SaveDies \/ Check \/ Checked
        \/ Build \/ SignReceipt \/ Verify \/ Running \/ Edit \/ AlterFile

Spec == Init /\ [][Next]_vars

-----------------------------------------------------------------------------
ScanTypeOK ==
  /\ spc \in {"idle", "walk", "hash", "check", "done", "failed"} /\ pass \in {1, 2}
  /\ open \in Seq(Dir) /\ todo \subseteq Path \cup Dir
  /\ reading \subseteq Path /\ unchecked \subseteq Path /\ fresh \subseteq Path \cup Dir
  /\ found \in Manifest /\ first \in Manifest
  /\ \A d \in DOMAIN listed : d \in Dir /\ listed[d] \in Tree
  /\ had \in [Path -> SUBSET (Content \cup {Absent})] /\ recurred \subseteq Path

ReceiptTypeOK ==
  /\ rpc \in {"idle", "build", "verify", "result"}
  /\ item \in 1..Items + 1 /\ looking \in {"no", "exists", "bad", "good"}
  /\ good \subseteq Item /\ rerun \subseteq Item
  /\ DOMAIN obs \subseteq Item /\ obs \in [DOMAIN obs -> Seen]
  /\ mode \in Mode /\ receipt \in Receipt \cup {None}
  /\ bound \in Context \cup {None} /\ original \in Body \cup {None}

(* Type invariant.                                                         *)
TypeOK ==
  /\ tree \in Tree /\ edits \in 0..MaxEdits
  /\ ScanTypeOK /\ ReceiptTypeOK
  /\ cmd \in {"idle", "create", "check"}
  /\ {stored, printed, confirmed} \subseteq Manifest \cup {None}
  /\ calm \subseteq {"manifest", "receipt", "check"}

(* README of agent-receipt: take the digest create printed to a safe       *)
(* place, run manifest verify, then verify with that context.  When both   *)
(* accept and nothing was written after the first of them began, the       *)
(* workspace is exactly what was inventoried, the receipt was bound to     *)
(* it, and every hash the receipt records is that of the file now there.   *)
AcceptedReturn ==
  Accepted /\ mode.minimum = "fully_rechecked" /\ mode.context # None
    /\ mode.context = confirmed =>
    /\ Outputs(tree) = receipt.body.context
    /\ \A i \in Item : Kind[i] = "file_hash" => receipt.body.obs[i] \in {"error", tree[Of[i]]}

(* What was left alone is accepted: a create that nothing disturbed, and   *)
(* the verify after it, find the tree; a receipt whose items were all ok   *)
(* is accepted when its commands are absolute, allowed and still exit with *)
(* zero, its context is the one asked for, and it is signed if need be.    *)
Fits == Cardinality(DOMAIN Outputs(tree)) <= MaxFiles
HonestIsAccepted ==
  /\ "manifest" \in calm /\ Fits =>
       /\ spc # "failed"
       /\ cmd = "check" /\ spc = "done" => Exact
  /\ rpc = "result" /\ "receipt" \in calm /\ mode.recheck /\ mode.commands
       /\ (\A i \in Item : Kind[i] = "command" =>
             i \in mode.allowed \cap Absolute /\ obs[i] = "zero")
       /\ (\A i \in Item : StoredOk(receipt.body, i))
       /\ mode.context \in {None, receipt.body.context}
       /\ (mode.keys => receipt.body \in receipt.signed)
     => Accepted
=============================================================================
