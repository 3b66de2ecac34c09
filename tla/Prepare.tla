------------------------------ MODULE Prepare -------------------------------
(***************************************************************************)
(* TrustRuntime.prepare (hermes_integration/core.py) with the packet       *)
(* builder it calls (agent_packet/builder.py): it looks at the project's   *)
(* HEAD and status, walks the selected paths, reads every file, compares   *)
(* what it packed with the commit, looks at HEAD and status again and      *)
(* renames its private directory to the new handoff.  Nothing stops the    *)
(* project from being edited meanwhile, and several calls may run at once. *)
(*                                                                         *)
(* Each step is one observation of the project or one effect on handoffs/. *)
(* A call that is refused before it looks at the project changes nothing.  *)
(***************************************************************************)
EXTENDS Integers, FiniteSets, Sequences

CONSTANTS
  Proc,         \* calls of prepare that may run at once
  File,         \* files the project may have, all with names that
                \* _safe_include and _validate_member accept
  Content,      \* their contents
  Include,      \* include strings a caller may pass
  Covers,       \* the files at or below each of them
  Directory,    \* the includes that name a directory
  Plain,        \* the includes spelt as PurePosixPath spells them
  DeniedFile,   \* files path_is_denied refuses
  Unsafe,       \* contents that are binary or look like a secret
  Unreported,   \* files git status is silent about: ignored, filtered,
                \* assumed unchanged
  MaxHandoffs,  \* MAX_HANDOFFS
  MaxEdits,     \* bound: changes to the project
  Faults        \* the failures that may happen

ASSUME PrepareAssumption ==
  /\ IsFiniteSet(Proc)
  /\ Covers \in [Include -> SUBSET File]
  /\ Directory \subseteq Include /\ Plain \subseteq Include
  /\ \A i \in Include \ Directory : \E f \in File : Covers[i] = {f}
  /\ MaxHandoffs \in Nat \ {0} /\ MaxEdits \in Nat
  /\ Faults \subseteq {"crash", "write", "git", "harden", "list", "chmod", "rmtree"}

Tree == UNION {[S -> Content] : S \in SUBSET File}
Empty == [f \in {} |-> {}]

VARIABLES
  trees,     \* every commit's tree; a commit is its index
  head,      \* HEAD
  work,      \* the working tree
  handoffs,  \* the published handoffs, oldest first
  orphans,   \* private directories that ended calls left in handoffs/
  pc,        \* control point of every call
  include,   \* its include argument
  base,      \* its `commit`
  unseen,    \* pairs (include, file) its walk has still to look at
  selected,  \* the files its walk has selected
  packet,    \* the files it has read
  \* bookkeeping
  edits,     \* changes to the project
  calm,      \* calls during which nothing failed or changed the project
  told,      \* answers "prepared"
  mishaps    \* what left something behind: deaths, failed removals,
             \* failed hardenings

project == <<trees, head, work, edits>>
handoffVars == <<handoffs, orphans, told, mishaps>>
locals == <<include, base, unseen, selected, packet>>
vars == <<project, handoffVars, pc, locals, calm>>

(* What a handoff directory records (_state accepts no empty file list);   *)
(* calm is bookkeeping.                                                    *)
Handoff == [commit : Nat, include : SUBSET Include, packet : Tree \ {Empty},
            calm : BOOLEAN]

(* A call owns a directory in handoffs/ from limit check to publication. *)
Building == {"walk", "read", "bind", "head2", "status2", "publish", "cleanup"}
Entries ==
  Len(handoffs) + orphans + Cardinality({p \in Proc : pc[p] \in Building})

(* Two trees have the same of the files F. *)
Agree(t, u, F) ==
  \A f \in F : /\ f \in DOMAIN t <=> f \in DOMAIN u
               /\ f \in DOMAIN t => t[f] = u[f]

(* git status --porcelain prints nothing. *)
Clean == Agree(work, trees[head], File \ Unreported)

With(t, f, c) == [g \in DOMAIN t \cup {f} |-> IF g = f THEN c ELSE t[g]]

Init ==
  /\ \E t \in Tree : trees = <<t>>
  /\ head = 1
  /\ work \in Tree /\ Clean
  /\ handoffs = <<>> /\ orphans = 0 /\ told = 0 /\ mishaps = 0
  /\ pc = [p \in Proc |-> "idle"]
  /\ include = [p \in Proc |-> {}]
  /\ base = [p \in Proc |-> 1]
  /\ unseen = [p \in Proc |-> {}]
  /\ selected = [p \in Proc |-> {}]
  /\ packet = [p \in Proc |-> Empty]
  /\ edits = 0
  /\ calm = {}

-----------------------------------------------------------------------------
At(p, label) == pc[p] = label
Goto(p, label) == pc' = [pc EXCEPT ![p] = label]
Fault(f) == f \in Faults
Local == UNCHANGED <<project, handoffVars>>

(* The call ends and its private directory stays. *)
Leaves == /\ orphans' = orphans + 1 /\ mishaps' = mishaps + 1
          /\ UNCHANGED <<project, handoffs, told>>
Fine == UNCHANGED calm

(* A step does not succeed: because of what it sees, or of a failure. *)
Fails(p, bad, f) == \/ bad /\ Fine
                    \/ Fault(f) /\ calm' = calm \ {p}

(* The call answers or dies and its locals are gone. *)
End(p) ==
  /\ Goto(p, "idle")
  /\ include' = [include EXCEPT ![p] = {}]
  /\ base' = [base EXCEPT ![p] = 1]
  /\ unseen' = [unseen EXCEPT ![p] = {}]
  /\ selected' = [selected EXCEPT ![p] = {}]
  /\ packet' = [packet EXCEPT ![p] = Empty]

Refuse(p) == Goto(p, "cleanup") /\ UNCHANGED locals

Call(p, S) ==
  /\ At(p, "idle")
  /\ include' = [include EXCEPT ![p] = S]
  /\ calm' = calm \cup {p}
  /\ Goto(p, "head")
  /\ UNCHANGED <<project, handoffVars, base, unseen, selected, packet>>

(* The first _git: HEAD, then status. *)
ReadHead(p) ==
  /\ At(p, "head")
  /\ \/ /\ base' = [base EXCEPT ![p] = head]
        /\ Goto(p, "status")
        /\ UNCHANGED <<include, unseen, selected, packet>> /\ Fine
     \/ Fails(p, FALSE, "git") /\ End(p)
  /\ Local

ReadStatus(p) ==
  /\ At(p, "status")
  /\ \/ Clean /\ Goto(p, "limit") /\ UNCHANGED locals /\ Fine
     \/ Fails(p, ~Clean, "git") /\ End(p)
  /\ Local

HasRoom_OneLess == Entries + 1 < MaxHandoffs
HasRoom == Entries < MaxHandoffs

CheckLimit(p) ==
  /\ At(p, "limit")
  /\ IF HasRoom THEN Goto(p, "mkdir") /\ UNCHANGED locals ELSE End(p)
  /\ Local /\ Fine

(* _ensure_private_dir, mkdir and then chmod, in front of the `try`: when  *)
(* the chmod raises, the new directory stays.                              *)
MakeDirectory(p) ==
  /\ At(p, "mkdir")
  /\ \/ /\ unseen' = [unseen EXCEPT ![p] =
                        {x \in include[p] \X File : x[2] \in Covers[x[1]]}]
        /\ Goto(p, "walk")
        /\ UNCHANGED <<include, base, selected, packet>> /\ Fine /\ Local
     \/ Fails(p, FALSE, "write") /\ End(p) /\ Local
     \/ Fails(p, FALSE, "chmod") /\ End(p) /\ Leaves

(* _iter_files.  A missing include is a denied finding; a file below a     *)
(* directory may be missing before the directory is listed, or disappear   *)
(* between the listing and its lstat.  A directory without files may be    *)
(* empty or missing.  A directory that cannot be listed is passed over     *)
(* without a finding, with everything below it (os.walk without onerror);  *)
(* any other failing look is an error.                                     *)
Missed(p, i) == \/ i \notin Directory \/ p \notin calm
                \/ Covers[i] \cap DOMAIN work = {}
MaySkip_Secret(f) == f \in DOMAIN work => work[f] \in Unsafe
MaySkip(f) == f \notin DOMAIN work

Look(p) ==
  /\ At(p, "walk")
  /\ \E x \in unseen[p] : LET f == x[2] IN
       \/ /\ f \in DOMAIN work /\ f \notin DeniedFile
          /\ selected' = [selected EXCEPT ![p] = @ \cup {f}]
          /\ unseen' = [unseen EXCEPT ![p] = @ \ {x}]
          /\ UNCHANGED <<pc, include, base, packet>> /\ Fine
       \/ /\ x[1] \in Directory
          /\ Fails(p, MaySkip(f), "list")
          /\ unseen' = [unseen EXCEPT ![p] = @ \ {x}]
          /\ UNCHANGED <<pc, include, base, selected, packet>>
       \/ /\ Fails(p, IF f \in DOMAIN work THEN f \in DeniedFile
                     ELSE Missed(p, x[1]), "list")
          /\ Refuse(p)
  /\ Local

(* No finding so far; an empty packet is refused. *)
EndWalk_AllowsEmpty(p) ==
  /\ At(p, "walk")
  /\ unseen[p] = {}
  /\ Goto(p, IF selected[p] = {} THEN "bind" ELSE "read")
  /\ UNCHANGED locals
  /\ Local /\ Fine
EndWalk(p) ==
  /\ At(p, "walk")
  /\ unseen[p] = {}
  /\ Goto(p, IF selected[p] = {} THEN "cleanup" ELSE "read")
  /\ UNCHANGED locals
  /\ Local /\ Fine

(* Reading f now gives no denied finding; prepare refuses a packet with    *)
(* any.                                                                    *)
Readable_Anything(f) == f \in DOMAIN work
Readable(f) == f \in DOMAIN work /\ work[f] \notin Unsafe

(* One file is read and staged; the archive is written from what was       *)
(* staged.  A file that is gone, or changed while it was being read, is a  *)
(* denied finding; reading or staging it may fail.                         *)
ReadFile(p) ==
  /\ At(p, "read")
  /\ \E f \in selected[p] \ DOMAIN packet[p] :
       \/ /\ Readable(f)
          /\ packet' = [packet EXCEPT ![p] = With(@, f, work[f])]
          /\ Goto(p, IF DOMAIN packet'[p] = selected[p] THEN "bind" ELSE "read")
          /\ UNCHANGED <<include, base, unseen, selected>> /\ Fine
       \/ /\ Fails(p, ~Readable(f) \/ p \notin calm, "write")
          /\ Refuse(p)
  /\ Local

(* _assert_packet_matches_commit: every packed file is a blob of the       *)
(* commit with the same bytes.                                             *)
MatchesCommit_Tracked(p) == DOMAIN packet[p] \subseteq DOMAIN trees[base[p]]
MatchesCommit(p) ==
  \A f \in DOMAIN packet[p] :
    f \in DOMAIN trees[base[p]] /\ trees[base[p]][f] = packet[p][f]

Bind(p) ==
  /\ At(p, "bind")
  /\ \/ MatchesCommit(p) /\ Goto(p, "head2") /\ UNCHANGED locals /\ Fine
     \/ Fails(p, ~MatchesCommit(p), "git") /\ Refuse(p)
  /\ Local

(* The second _git, again HEAD before status. *)
ReadHeadAgain(p) ==
  /\ At(p, "head2")
  /\ \/ head = base[p] /\ Goto(p, "status2") /\ UNCHANGED locals /\ Fine
     \/ Fails(p, head # base[p], "git") /\ Refuse(p)
  /\ Local

ReadStatusAgain(p) ==
  /\ At(p, "status2")
  /\ \/ Clean /\ Goto(p, "publish") /\ UNCHANGED locals /\ Fine
     \/ Fails(p, ~Clean, "git") /\ Refuse(p)
  /\ Local

(* state.json is written and hardened in the private directory, and the    *)
(* whole directory gets its final name.                                    *)
Publish(p) ==
  /\ At(p, "publish")
  /\ \/ /\ handoffs' = Append(handoffs,
             [commit |-> base[p], include |-> include[p],
              packet |-> packet[p], calm |-> p \in calm])
        /\ Goto(p, "harden")
        /\ UNCHANGED locals /\ Fine
     \/ /\ Fails(p, FALSE, "write")
        /\ Refuse(p)
        /\ UNCHANGED handoffs
  /\ UNCHANGED <<project, orphans, told, mishaps>>

(* _harden_tree(final_dir); when it raises, the private directory is       *)
(* already gone and the handoff stays.                                     *)
Harden(p) ==
  /\ At(p, "harden")
  /\ \/ told' = told + 1 /\ UNCHANGED mishaps
     \/ Fault("harden") /\ mishaps' = mishaps + 1 /\ UNCHANGED told
  /\ End(p)
  /\ UNCHANGED <<project, handoffs, orphans, calm>>

(* shutil.rmtree(temporary); raise.  rmtree may raise itself and leave the *)
(* directory, or a part of it.                                             *)
Cleanup_Keeps(p) ==
  /\ At(p, "cleanup")
  /\ End(p)
  /\ orphans' = orphans + 1
  /\ UNCHANGED <<project, handoffs, told, mishaps>> /\ Fine
Cleanup(p) ==
  /\ At(p, "cleanup")
  /\ End(p)
  /\ \/ Local /\ Fine
     \/ Fails(p, FALSE, "rmtree") /\ Leaves

(* The process dies, or the call ends with an exception that no handler of *)
(* prepare catches (RuntimeError, KeyboardInterrupt).                      *)
Crash(p) ==
  /\ Fault("crash")
  /\ ~At(p, "idle")
  /\ End(p)
  /\ orphans' = orphans + (IF pc[p] \in Building THEN 1 ELSE 0)
  /\ mishaps' = mishaps + (IF pc[p] \in Building \cup {"harden"} THEN 1 ELSE 0)
  /\ calm' = calm \ {p}
  /\ UNCHANGED <<project, handoffs, told>>

-----------------------------------------------------------------------------
(* Work on the project: a file changes, appears or goes; HEAD moves to an  *)
(* older commit or to a new one made from the working tree.  A checkout is *)
(* several of these steps.                                                 *)
Edit ==
  /\ edits < MaxEdits
  /\ edits' = edits + 1
  /\ calm' = {}
  /\ UNCHANGED <<handoffVars, pc, locals>>

EditFile ==
  /\ Edit
  /\ \E t \in Tree, f \in File :
       /\ Agree(t, work, File \ {f}) /\ t # work
       /\ work' = t
  /\ UNCHANGED <<trees, head>>

Commit ==
  /\ Edit
  /\ ~Clean
  /\ \E t \in Tree :
       /\ Agree(t, work, File \ Unreported)
       /\ Agree(t, trees[head], Unreported)
       /\ trees' = Append(trees, t)
  /\ head' = Len(trees) + 1
  /\ UNCHANGED work

MoveHead ==
  /\ Edit
  /\ head' \in (1..Len(trees)) \ {head}
  /\ UNCHANGED <<trees, work>>

Step(p) == ReadHead(p) \/ ReadStatus(p) \/ CheckLimit(p) \/ MakeDirectory(p)
             \/ Look(p) \/ EndWalk(p) \/ ReadFile(p) \/ Bind(p)
             \/ ReadHeadAgain(p) \/ ReadStatusAgain(p) \/ Publish(p)
             \/ Harden(p) \/ Cleanup(p)

Next == \/ \E p \in Proc : \/ \E S \in (SUBSET Include) \ {{}} : Call(p, S)
                           \/ Step(p) \/ Crash(p)
        \/ EditFile \/ Commit \/ MoveHead

(* A call that was started keeps running. *)
Fairness == \A p \in Proc : WF_vars(Step(p))

Spec == Init /\ [][Next]_vars
FairSpec == Spec /\ Fairness

-----------------------------------------------------------------------------
(* Type invariant. *)
TypeOK ==
  /\ trees \in Seq(Tree) /\ head \in 1..Len(trees)
  /\ work \in Tree
  /\ handoffs \in Seq(Handoff)
  /\ orphans \in Nat /\ told \in Nat /\ mishaps \in Nat /\ edits \in 0..MaxEdits
  /\ pc \in [Proc -> Building \cup {"idle", "head", "status", "limit", "mkdir", "harden"}]
  /\ include \in [Proc -> SUBSET Include]
  /\ base \in [Proc -> 1..Len(trees)]
  /\ unseen \in [Proc -> SUBSET (Include \X File)]
  /\ selected \in [Proc -> SUBSET File]
  /\ packet \in [Proc -> Tree]
  /\ calm \subseteq Proc

Published == {handoffs[n] : n \in DOMAIN handoffs}

(* THREAT_MODEL.md: every selected file matches a regular tracked blob at  *)
(* the input commit.  Whatever is edited, committed or checked out while   *)
(* the packet is built, a published packet holds exactly the bytes of the  *)
(* commit its handoff records (_assert_packet_matches_commit).             *)
PacketAtCommit ==
  \A h \in Published : \A f \in DOMAIN h.packet :
    f \in DOMAIN trees[h.commit] /\ trees[h.commit][f] = h.packet[f]

(* No published packet holds a denied file, a file outside the include     *)
(* list, or content the scanner refuses, even if the file became safe or   *)
(* unsafe while the packet was built (_iter_files, build_packet).          *)
PacketIsSafe ==
  \A h \in Published : \A f \in DOMAIN h.packet :
    /\ f \notin DeniedFile
    /\ h.packet[f] \notin Unsafe
    /\ \E i \in h.include : f \in Covers[i]

(* If the project did not change during the call and no directory below    *)
(* the includes failed to be listed, nothing selected was dropped: the     *)
(* packet has every file of the commit below the includes, except those    *)
(* git is told not to look at (prepare refuses any denied finding).        *)
CompleteWhenCalm ==
  \A h \in Published : h.calm =>
    \A i \in h.include : \A f \in Covers[i] \ Unreported :
      f \in DOMAIN trees[h.commit] => f \in DOMAIN h.packet

(* handoffs/ as its readers see it.                                        *)
Store == INSTANCE HandoffStore WITH commits <- trees, store <- handoffs

(* Prepare implements HandoffStore: whatever is edited, fails or dies, the *)
(* only thing a step does to handoffs/ is to add one handoff that is right *)
(* at that moment.                                                         *)
ImplementsStore == Store!Spec

(* MAX_HANDOFFS is checked before the directory is made, so racing calls   *)
(* exceed it, but by at most one directory for every further call; what    *)
(* dead calls left behind counts too.                                      *)
LimitHolds == Entries <= MaxHandoffs + Cardinality(Proc) - 1

(* When no call is running, everything in handoffs/ that nobody was told   *)
(* of is due to a death or uncaught exception, to a failed chmod of the    *)
(* new directory, to a failed removal or to a failed last hardening, one   *)
(* entry for each: other failures and refusals leave nothing behind, and   *)
(* every other published handoff is announced.                             *)
FailureLeavesNothing ==
  (\A p \in Proc : At(p, "idle")) =>
    orphans + (Len(handoffs) - told) = mishaps

(* _review_locked compares the include list of the archive's manifest with *)
(* the one in state.json: the builder keeps the includes something was     *)
(* packed under, in its own spelling, state.json keeps the caller's.       *)
Reviewable(h) ==
  \A i \in h.include : i \in Plain /\ Covers[i] \cap DOMAIN h.packet # {}

(* prepare answers "next_action: Operator review"; that review passes as   *)
(* long as nobody touches the handoff.                                     *)
PreparedIsReviewable == \A h \in Published : Reviewable(h)

(* Includes that are spelt plainly and hold safe committed files.          *)
HonestInclude(S) ==
  /\ S \subseteq Plain
  /\ \A i \in S :
       /\ Covers[i] \cap DOMAIN work # {}
       /\ \A f \in Covers[i] \cap DOMAIN work :
            /\ f \in DOMAIN trees[head] /\ work[f] = trees[head][f]
            /\ f \notin DeniedFile /\ work[f] \notin Unsafe

(* While nothing disturbs a call with such includes, neither the builder   *)
(* nor a check after it refuses it, and what it is about to publish passes *)
(* a review (_iter_files, build_packet, _assert_packet_matches_commit).    *)
HonestPasses ==
  \A p \in calm : include[p] # {} /\ HonestInclude(include[p]) =>
    /\ ~At(p, "cleanup")
    /\ At(p, "publish") => Reviewable([include |-> include[p], packet |-> packet[p]])

(* With nobody editing, such a call ends with a reviewable handoff, unless *)
(* a step fails or another call is made meanwhile.                         *)
HonestCall(p, S) ==
  At(p, "head") /\ include[p] = S /\ HonestInclude(S) /\ Clean
    /\ edits = MaxEdits /\ p \in calm /\ Entries < MaxHandoffs
HonestPrepares ==
  \A p \in Proc, S \in (SUBSET Include) \ {{}} :
    HonestCall(p, S) ~> \/ \E h \in Published : h.include = S /\ Reviewable(h)
                        \/ p \notin calm
                        \/ \E q \in Proc \ {p} : ~At(q, "idle")
=============================================================================
