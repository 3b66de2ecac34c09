---------------------------- MODULE HandoffStore -----------------------------
(***************************************************************************)
(* What prepare promises, without walks, reads and checks: the commits of  *)
(* a project are never changed, handoffs/ only grows, each handoff appears *)
(* at once with a packet of files of its commit that were asked for and    *)
(* may be packed, with all of them if nothing disturbed the call, and no   *)
(* more answers "prepared" are given than there are handoffs.  Prepare.tla *)
(* implements this specification.                                          *)
(***************************************************************************)
EXTENDS Naturals, Sequences

CONSTANTS
  Tree,       \* what a commit may be: contents of some of the files
  Include,    \* include strings a caller may pass
  Covers,     \* the files at or below each of them
  DeniedFile, \* files that are never packed
  Unsafe,     \* contents that are never packed
  Unreported  \* files that may be left out

VARIABLES
  commits,  \* the project's commits
  store,    \* the handoffs, oldest first
  told      \* answers "prepared"

storeVars == <<commits, store, told>>

(* The files of a commit that were asked for, and those that may be packed. *)
Selected(t, S) == {f \in DOMAIN t : \E i \in S : f \in Covers[i]}
Allowed(t) == {f \in DOMAIN t : f \notin DeniedFile /\ t[f] \notin Unsafe}

Init ==
  /\ \E t \in Tree : commits = <<t>>
  /\ store = <<>> /\ told = 0

Commit ==
  /\ \E t \in Tree : commits' = Append(commits, t)
  /\ UNCHANGED <<store, told>>

(* calm: nobody edited during the call and nothing failed in it, not even  *)
(* the listing of a directory.  The first conjunct follows from the        *)
(* second; it spares TLC the search at steps that publish nothing.         *)
Publish ==
  /\ Len(store') = Len(store) + 1
  /\ \E c \in 1..Len(commits), S \in SUBSET Include, calm \in BOOLEAN :
       LET t == commits[c] IN
       \E F \in SUBSET (Selected(t, S) \cap Allowed(t)) :
         /\ F # {} /\ (calm => Selected(t, S) \ Unreported \subseteq F)
         /\ store' = Append(store, [commit |-> c, include |-> S,
                                   packet |-> [f \in F |-> t[f]], calm |-> calm])
  /\ UNCHANGED <<commits, told>>

Announce ==
  /\ told < Len(store) /\ told' = told + 1
  /\ UNCHANGED <<commits, store>>

Next == Commit \/ Publish \/ Announce

Spec == Init /\ [][Next]_storeVars
=============================================================================
