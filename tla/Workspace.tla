------------------------------ MODULE Workspace ------------------------------
(***************************************************************************)
(* The directory a worker writes to and agent-receipt looks at.  It is not *)
(* this repository's code: any file may be written, created or removed at  *)
(* any time.  Directories stay; an empty one is in no manifest.            *)
(***************************************************************************)
EXTENDS Integers, FiniteSets

CONSTANTS
  Path,      \* the files there may be
  Dir,       \* the directories, with
  Root,      \* the root among them
  Parent,    \* the directory each file and each other directory is in
  Control,   \* the control files, which no manifest lists
  Content,   \* what a file may hold
  Absent,    \* the file is not there
  MaxEdits,  \* bound: changes to the files and failed saves
  Start      \* the trees to begin with

Tree == [Path -> Content \cup {Absent}]

ASSUME WorkspaceAssumption ==
  /\ IsFiniteSet(Path)
  /\ Root \in Dir /\ Path \cap Dir = {}
  /\ Parent \in [Path \cup (Dir \ {Root}) -> Dir]
  /\ \A S \in SUBSET Dir :  \* every directory is somewhere below the root
       Root \in S /\ (\A d \in Dir \ {Root} : Parent[d] \in S => d \in S) => S = Dir
  /\ Control \subseteq Path
  /\ Absent \notin Content /\ Content # {}
  /\ MaxEdits \in Nat
  /\ Start \subseteq Tree

VARIABLES tree,  \* every file's content
          edits  \* changes so far

Manifest == UNION {[S -> Content] : S \in SUBSET (Path \ Control)}

(* What a manifest of t lists: every regular file but the control files.   *)
Outputs(t) == [f \in {g \in Path \ Control : t[g] # Absent} |-> t[f]]

WorkspaceInit == tree \in Start /\ edits = 0

Change(f, v) ==
  /\ edits < MaxEdits
  /\ tree[f] # v
  /\ tree' = [tree EXCEPT ![f] = v]
  /\ edits' = edits + 1
=============================================================================
