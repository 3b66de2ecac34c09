--------------------------- MODULE ReturnBundle ---------------------------
(***************************************************************************)
(* The data a worker returns for one handoff, and the predicates the       *)
(* controller evaluates on it (hermes_integration/core.py, agent_receipt). *)
(*                                                                         *)
(* A digest is modelled by the value it is computed from: SHA-256 is taken *)
(* to be injective, and nothing here depends on the digest's text.         *)
(***************************************************************************)
EXTENDS Integers, FiniteSets

CONSTANTS
  Path,            \* names a returned output file may have
  Content,         \* file contents
  Binding,         \* pairs (packet digest, input commit) a receipt may name
  OwnBinding,      \* the pair recorded in this handoff's state.json
  MaxReturnFiles,  \* MAX_RETURN_FILES
  None             \* an absent file, directory or record


(* A directory's payload, and equally an output manifest: both map the     *)
(* relative path of every file to its content.  The two control files      *)
(* (DEFAULT_EXCLUDES) are never part of it.                                *)
Tree == UNION {[S -> Content] : S \in SUBSET Path}

(* receipt.json.  evidence: the re-checkable items, each path with the     *)
(* content observed when the item was recorded; commands: whether command  *)
(* evidence is present; sealed: whether content_digest still matches the   *)
(* body; binding and manifest: the context.                                *)
Receipt == [binding : Binding, manifest : Tree, evidence : Tree,
            commands : BOOLEAN, sealed : BOOLEAN]

(* The fixed return quarantine and a private copy of it. *)
Bundle == [tree : Tree, manifest : Tree \cup {None}, receipt : Receipt \cup {None}]

(* The record `verification` of state.json; the receipt stands for both    *)
(* receipt_digest and receipt_file_sha256.                                 *)
Verification == [manifest : Tree, receipt : Receipt, files : Nat]

ASSUME BundleAssumption ==
  /\ IsFiniteSet(Path)
  /\ OwnBinding \in Binding
  /\ MaxReturnFiles \in Nat
  /\ None \notin Verification /\ None \notin Bundle

(* verify_output_manifest(...)["ok"]: exactly the declared files, each     *)
(* with the declared content.                                              *)
ManifestHolds(manifest, tree) == tree = manifest

(* The bounds every native return has to meet. *)
WithinBounds(manifest) ==
  /\ DOMAIN manifest # {}
  /\ Cardinality(DOMAIN manifest) <= MaxReturnFiles

(* _receipt_paths_match_manifest: some claim, and every evidence item that *)
(* is not a command names a file of the manifest.                          *)
ReceiptPathsMatch(receipt, manifest) ==
  /\ DOMAIN manifest # {}
  /\ receipt.commands \/ DOMAIN receipt.evidence # {}
  /\ DOMAIN receipt.evidence \subseteq DOMAIN manifest

(* verify_receipt as the controller calls it: recheck=True over the files  *)
(* of `tree`, recheck_commands=False, expected_context the handoff's own,  *)
(* minimum_assurance="fully_rechecked".  A command item is never rerun, so *)
(* it leaves the assurance below the minimum.                              *)
ReceiptHolds(receipt, manifest, tree) ==
  /\ receipt.sealed
  /\ receipt.binding = OwnBinding
  /\ receipt.manifest = manifest
  /\ ~receipt.commands
  /\ \A f \in DOMAIN receipt.evidence :
       f \in DOMAIN tree /\ tree[f] = receipt.evidence[f]

(* What a private copy must satisfy to be published as verified. *)
Acceptable(copy, manifest) ==
  /\ copy.manifest = manifest
  /\ ManifestHolds(manifest, copy.tree)
  /\ copy.receipt # None
  /\ ReceiptPathsMatch(copy.receipt, manifest)
  /\ ReceiptHolds(copy.receipt, manifest, copy.tree)

(* The complete, checked outputs a handoff may be verified with. *)
VerifiedOutput ==
  {out \in [tree : Tree, manifest : Tree, receipt : Receipt] :
     WithinBounds(out.manifest) /\ Acceptable(out, out.manifest)}
===========================================================================
