---------------------------- MODULE ReceiptVerify ----------------------------
(***************************************************************************)
(* Receipts (agent_receipt/core.py): the evidence_* functions look at the  *)
(* workspace one item after the other, build_receipt seals what they saw,  *)
(* sign_receipt signs the digest, and verify_receipt judges a receipt that *)
(* may have been altered in between, looking at the workspace again as far *)
(* as its caller asks.  The workspace may change between any two looks.    *)
(*                                                                         *)
(* A digest is modelled by the body it is computed from.  Claims only      *)
(* group items, so a receipt is one sequence of items.                     *)
(***************************************************************************)
EXTENDS Workspace

CONSTANTS
  Items,      \* the number of evidence items of the receipt
  Kind,       \* the kind of each, and of all but the commands
  Of,         \* the file it is about
  Expect,     \* expect_sha256 or expect_exit, None if not given
  Matching,   \* the contents in which the literals occur
  MustBeFile, \* path_exists items with must_be_file
  Absolute,   \* commands whose executable is an absolute path
  Context,    \* the contexts a receipt may be bound to
  None

Item == 1..Items
Exit == {"zero", "nonzero"}
Kinds == {"file_hash", "path_exists", "text_contains", "command"}
Mark == Exit \cup {"error", "missing", "file", "other", "matched", "unmatched"}
Seen == Content \cup Mark
Minimum == {"reported", "partially_rechecked", "fully_rechecked"}

ASSUME ReceiptAssumption ==
  /\ Items \in Nat \ {0}
  /\ Kind \in [Item -> Kinds]
  /\ Of \in [{i \in Item : Kind[i] # "command"} -> Path]
  /\ \A i \in Item :
       /\ Kind[i] = "file_hash" => Expect[i] \in Content \cup {None}
       /\ Kind[i] = "command" => Expect[i] \in Exit
  /\ Matching \subseteq Content /\ MustBeFile \subseteq Item
  /\ Absolute \subseteq Item
  /\ None \notin Content \cup Context \cup Mark
  /\ Content \cap Mark = {}

(* The signed part of a receipt; every stored ok follows from the          *)
(* observation, or _evidence_errors refuses it.                            *)
Body == [obs : [Item -> Seen], overall : BOOLEAN, context : Context \cup {None}]
Receipt == [body : Body, digest : Body, signed : SUBSET Body]
Mode == [recheck : BOOLEAN, commands : BOOLEAN, allowed : SUBSET Item,
         keys : BOOLEAN, context : Context \cup {None}, minimum : Minimum]

VARIABLES
  rpc,      \* "idle", "build", "verify" or "result"
  item,     \* the item that is to be evaluated next
  looking,  \* "no", or how far the looks at the path of a path_exists
            \* item are: "exists", or its ok is known: "bad" or "good"
  obs,      \* what this call has observed
  good,     \* items whose ok is true
  rerun,    \* items counted in rechecked_evidence
  mode,     \* the arguments of verify_receipt
  receipt,  \* the receipt file
  bound,    \* the context of the receipt that is being built
  \* bookkeeping
  original  \* the body build_receipt sealed

evaluation == <<item, looking, obs, good, rerun>>
receiptVars == <<rpc, evaluation, mode, receipt, bound, original>>

NoMode == [recheck |-> FALSE, commands |-> FALSE, allowed |-> {}, keys |-> FALSE,
           context |-> None, minimum |-> "reported"]
Unseen == [i \in {} |-> {}]

ReceiptIdle ==
  /\ rpc = "idle" /\ item = 1 /\ looking = "no" /\ obs = Unseen
  /\ good = {} /\ rerun = {} /\ mode = NoMode
  /\ receipt = None /\ bound = None /\ original = None

FromTheFirst == /\ item' = 1 /\ looking' = "no" /\ obs' = Unseen
                /\ good' = {} /\ rerun' = {}

-----------------------------------------------------------------------------
(* The evidence functions: what they see, and whether it is ok.            *)
Outcome(i) ==
  CASE Kind[i] = "command" -> Exit \cup {"error"}
    [] Kind[i] = "file_hash" ->
         {IF tree[Of[i]] = Absent THEN "error" ELSE tree[Of[i]]}
    [] Kind[i] = "text_contains" ->
         {IF tree[Of[i]] = Absent THEN "error"
          ELSE IF tree[Of[i]] \in Matching THEN "matched" ELSE "unmatched"}
    [] OTHER -> {}

Good(i, o, want) ==
  CASE Kind[i] = "command" -> o = want
    [] Kind[i] = "file_hash" -> o # "error" /\ (want = None \/ o = want)
    [] Kind[i] = "text_contains" -> o = "matched"
    [] OTHER -> o = "file" \/ (o = "other" /\ i \notin MustBeFile)

StoredOk(b, i) == Good(i, b.obs[i], Expect[i])

Record(i, o, ok) ==
  /\ obs' = [j \in DOMAIN obs \cup {i} |-> IF j = i THEN o ELSE obs[j]]
  /\ good' = IF ok THEN good \cup {i} ELSE good
  /\ item' = i + 1

(* The item is evaluated against the workspace; evidence_path_exists looks *)
(* at the path three times, the other functions once.                      *)
Evaluate(i, want) ==
  \/ \E o \in Outcome(i) : Record(i, o, Good(i, o, want)) /\ UNCHANGED looking
  \/ /\ Kind[i] = "path_exists"
     /\ IF tree[Of[i]] = Absent
        THEN Record(i, "missing", FALSE) /\ UNCHANGED looking
        ELSE looking' = "exists" /\ UNCHANGED <<item, obs, good>>

IsFile ==
  /\ looking = "exists"
  /\ looking' = IF item \in MustBeFile /\ tree[Of[item]] = Absent THEN "bad" ELSE "good"
  /\ UNCHANGED <<rpc, item, obs, good, rerun, mode, receipt, bound, original>>

ObserveFile ==
  /\ looking \in {"bad", "good"}
  /\ Record(item, IF tree[Of[item]] = Absent THEN "other" ELSE "file", looking = "good")
  /\ looking' = "no"
  /\ UNCHANGED <<rpc, rerun, mode, receipt, bound, original>>

Pending == looking = "no" /\ item \in Item
AllSeen == looking = "no" /\ item \notin Item

-----------------------------------------------------------------------------
BeginBuild(context) ==
  /\ rpc = "idle"
  /\ rpc' = "build"
  /\ FromTheFirst
  /\ bound' = context
  /\ UNCHANGED <<mode, receipt, original>>

Collect ==
  /\ rpc = "build" /\ Pending
  /\ Evaluate(item, Expect[item])
  /\ UNCHANGED <<rpc, rerun, mode, receipt, bound, original>>

(* build_receipt.  A path whose looks disagree is refused.                 *)
Sealed ==
  LET b == [obs |-> obs, overall |-> good = Item, context |-> bound]
  IN  [body |-> b, digest |-> b, signed |-> {}]
Consistent == \A i \in Item : i \in good <=> Good(i, obs[i], Expect[i])

Seal ==
  /\ rpc = "build" /\ AllSeen
  /\ rpc' = "idle"
  /\ FromTheFirst /\ bound' = None
  /\ IF Consistent
     THEN receipt' = Sealed /\ original' = Sealed.body
     ELSE UNCHANGED <<receipt, original>>
  /\ UNCHANGED mode

(* sign_receipt refuses a receipt whose digest is not its body's.          *)
Sign ==
  /\ rpc = "idle" /\ receipt # None
  /\ receipt.digest = receipt.body
  /\ receipt' = [receipt EXCEPT !.signed = @ \cup {receipt.digest}]
  /\ UNCHANGED <<rpc, evaluation, mode, bound, original>>

(* Somebody edits the receipt file: one observation, the overall verdict   *)
(* kept or computed anew, and perhaps the digest.                          *)
Plausible(i) == CASE Kind[i] = "command" -> Exit \cup {"error"}
                  [] Kind[i] = "file_hash" -> Content \cup {"error"}
                  [] Kind[i] = "text_contains" -> {"matched", "unmatched"}
                  [] OTHER -> {"file", "missing"}
Altered(b, i, o, redo) ==
  LET c == [b EXCEPT !.obs[i] = o]
  IN  IF redo THEN [c EXCEPT !.overall = \A j \in Item : StoredOk(c, j)] ELSE c
Alter ==
  /\ rpc = "idle" /\ receipt # None
  /\ \E i \in Item : \E o \in Plausible(i), redo, rehash \in BOOLEAN :
       LET b == Altered(receipt.body, i, o, redo)
       IN  /\ receipt.body.obs[i] # o
           /\ receipt' = [receipt EXCEPT !.body = b,
                                         !.digest = IF rehash THEN b ELSE @]
  /\ UNCHANGED <<rpc, evaluation, mode, bound, original>>

-----------------------------------------------------------------------------
BeginVerify(m) ==
  /\ rpc = "idle" /\ receipt # None
  /\ rpc' = "verify"
  /\ mode' = m
  /\ FromTheFirst
  /\ UNCHANGED <<receipt, bound, original>>

(* What a recheck of file_hash compares with is the stored observation,    *)
(* and nothing if there is none; a command has to exit with zero.          *)
Want_Claimed(i) == IF Kind[i] \in {"file_hash", "command"} THEN Expect[i] ELSE None
Want(i) == CASE Kind[i] = "command" -> "zero"
             [] Kind[i] = "file_hash" /\ receipt.body.obs[i] # "error" -> receipt.body.obs[i]
             [] OTHER -> None

Rechecked(i) == IF Kind[i] = "command"
                THEN mode.commands /\ i \in Absolute /\ i \in mode.allowed
                ELSE mode.recheck
Blocked(i) == Kind[i] = "command" /\ mode.commands /\ ~Rechecked(i)

Recheck ==
  /\ rpc = "verify" /\ Pending
  /\ Rechecked(item)
  /\ rerun' = rerun \cup {item}
  /\ Evaluate(item, Want(item))
  /\ UNCHANGED <<rpc, mode, receipt, bound, original>>

(* An item is believed as it is stored, or blocked, which is not ok.       *)
Believe ==
  /\ rpc = "verify" /\ Pending
  /\ ~Rechecked(item)
  /\ good' = IF ~Blocked(item) /\ StoredOk(receipt.body, item)
             THEN good \cup {item} ELSE good
  /\ item' = item + 1
  /\ UNCHANGED <<rpc, looking, obs, rerun, mode, receipt, bound, original>>

Judge ==
  /\ rpc = "verify" /\ AllSeen
  /\ rpc' = "result"
  /\ UNCHANGED <<evaluation, mode, receipt, bound, original>>

Assurance ==
  IF rerun = Item THEN "fully_rechecked"
  ELSE IF rerun # {} THEN "partially_rechecked" ELSE "reported"
Rank == [a \in Minimum |-> CASE a = "reported" -> 0
                             [] a = "partially_rechecked" -> 1
                             [] OTHER -> 2]

DigestOk == receipt.digest = receipt.body
Authentic == ~mode.keys \/ receipt.digest \in receipt.signed

(* result["ok"]                                                            *)
Accepted_Recomputed ==
  /\ rpc = "result"
  /\ DigestOk /\ good = Item
  /\ Authentic
  /\ mode.context = None \/ receipt.body.context = mode.context
  /\ Rank[Assurance] >= Rank[mode.minimum]
Accepted ==
  /\ rpc = "result"
  /\ DigestOk
  /\ good = Item /\ receipt.body.overall = (good = Item)
  /\ Authentic
  /\ mode.context = None \/ receipt.body.context = mode.context
  /\ Rank[Assurance] >= Rank[mode.minimum]

EndVerify ==
  /\ rpc = "result"
  /\ rpc' = "idle" /\ mode' = NoMode
  /\ FromTheFirst
  /\ UNCHANGED <<receipt, bound, original>>

ReceiptStep == IsFile \/ ObserveFile \/ Collect \/ Seal \/ Recheck \/ Believe
                 \/ Judge \/ EndVerify

-----------------------------------------------------------------------------
(* A fully rechecked receipt that is accepted: this very call looked at    *)
(* every item again, every file had the hash the receipt records for it,   *)
(* every text was there, every command was allowed and exited with zero    *)
(* (agent-receipt README, "every stored evidence item was rerun").         *)
AcceptedIsRerun ==
  Accepted /\ mode.minimum = "fully_rechecked" =>
    \A i \in Item :
      /\ i \in DOMAIN obs
      /\ Kind[i] = "file_hash" =>
           obs[i] \in Content /\ receipt.body.obs[i] \in {"error", obs[i]}
      /\ Kind[i] = "text_contains" => obs[i] = "matched"
      /\ Kind[i] = "command" => i \in mode.allowed \cap Absolute /\ obs[i] = "zero"

(* A receipt that was built with a failed item is never accepted as it     *)
(* was built, and with a trusted key nothing is that was not signed: a     *)
(* recheck that goes well does not make up for it (verify_receipt compares *)
(* overall_ok with what it computes).                                      *)
AcceptedWasGood ==
  Accepted =>
    /\ receipt.body = original => \A i \in Item : StoredOk(original, i)
    /\ mode.keys => receipt.body \in receipt.signed
=============================================================================
