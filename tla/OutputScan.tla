----------------------------- MODULE OutputScan ------------------------------
(***************************************************************************)
(* _scan_workspace (agent_receipt/output_manifest.py): the tree is walked  *)
(* twice and both walks must have found the same.  A walk opens a          *)
(* directory, looks at every entry, hashes every file between two looks at *)
(* its signature (inode, mode, links, size, times), compares every file's  *)
(* signature again when the directory's entries are done, and then the     *)
(* directory's own.  Nothing stops the worker meanwhile.                   *)
(*                                                                         *)
(* A signature is modelled by whether the file changed since it was taken: *)
(* `fresh` holds what still has the signature the walk recorded.           *)
(***************************************************************************)
EXTENDS Workspace, Sequences

CONSTANT MaxFiles  \* MAX_FILES

ASSUME ScanAssumption == MaxFiles \in Nat

VARIABLES
  spc,        \* "idle", the control point of the walk, "done" or "failed"
  pass,       \* 1 or 2
  open,       \* the open directories, the root first
  todo,       \* entries of open directories still to be looked at
  reading,    \* {}, or the one file that is being hashed
  unchecked,  \* files whose signature is still to be compared again
  fresh,      \* what still has the signature the walk has seen
  found,      \* `files`: what the walk has hashed
  first,      \* what the first walk found
  \* bookkeeping
  listed,     \* the tree when a directory's entries were done, in this walk
  moment,     \* the tree when the first walk had looked at everything
  had,        \* the contents a file has had since the scan began
  recurred    \* files that went back to a content they had before

observed == <<reading, unchecked, found>>
history == <<listed, moment, had, recurred>>
scanVars == <<spc, pass, open, todo, fresh, first, observed, history>>

Nothing == [f \in {} |-> {}]
NoTree == [d \in {} |-> {}]

Top == open[Len(open)]
In(d) == {x \in Path \cup (Dir \ {Root}) : Parent[x] = d}
Entries(d) == {x \in In(d) : x \in Path => tree[x] # Absent}

ScanIdle ==
  /\ spc = "idle" /\ pass = 1 /\ open = <<>> /\ todo = {}
  /\ reading = {} /\ unchecked = {} /\ fresh = {}
  /\ found = Nothing /\ first = Nothing
  /\ listed = NoTree /\ moment = NoTree
  /\ had = [f \in Path |-> {}] /\ recurred = {}

-----------------------------------------------------------------------------
(* The walk opens the root; everything it knew is of the walk before.      *)
StartWalk(n) ==
  /\ spc' = "walk" /\ pass' = n
  /\ open' = <<Root>> /\ todo' = Entries(Root) /\ fresh' = {Root}
  /\ reading' = {} /\ unchecked' = {} /\ found' = Nothing
  /\ listed' = NoTree

BeginScan ==
  /\ spc = "idle"
  /\ StartWalk(1)
  /\ UNCHANGED <<first, moment, had, recurred>>

Fail ==
  /\ spc' = "failed"
  /\ UNCHANGED <<pass, open, todo, fresh, first, observed, history>>

(* os.stat and os.open of the next entry, a file; a file that is gone, or  *)
(* one too many, ends the scan.                                            *)
HasRoom_OffByOne(f) == f \in Control \/ Cardinality(DOMAIN found) + 1 < MaxFiles
HasRoom(f) == f \in Control \/ Cardinality(DOMAIN found) < MaxFiles
Look ==
  /\ spc = "walk"
  /\ \E f \in todo \cap Path \cap In(Top) :
       IF tree[f] = Absent \/ ~HasRoom(f) THEN Fail
       ELSE /\ todo' = todo \ {f}
            /\ reading' = {f}
            /\ fresh' = fresh \cup {f}
            /\ spc' = "hash"
            /\ UNCHANGED <<pass, open, unchecked, found, first, history>>

(* _hash_regular_file, or _ensure_stable_excluded_file: the file was read  *)
(* and has the signature it had when it was opened.                        *)
Hashed_Everything(f) ==
  [g \in DOMAIN found \cup {f} |-> IF g = f THEN tree[f] ELSE found[g]]
Hashed(f) == IF f \in Control THEN found
             ELSE [g \in DOMAIN found \cup {f} |-> IF g = f THEN tree[f] ELSE found[g]]
Hash ==
  /\ spc = "hash"
  /\ \E f \in reading :
       IF f \notin fresh THEN Fail
       ELSE /\ found' = Hashed(f)
            /\ unchecked' = unchecked \cup {f}
            /\ reading' = {}
            /\ spc' = "walk"
            /\ UNCHANGED <<pass, open, todo, fresh, first, history>>

Descend ==
  /\ spc = "walk"
  /\ \E d \in todo \cap Dir \cap In(Top) :
       /\ open' = Append(open, d)
       /\ todo' = (todo \ {d}) \cup Entries(d)
       /\ fresh' = fresh \cup {d}
  /\ UNCHANGED <<spc, pass, first, observed, history>>

(* The entries of the innermost directory are done.                        *)
EndListing ==
  /\ spc = "walk"
  /\ todo \cap In(Top) = {}
  /\ spc' = "check"
  /\ listed' = [d \in DOMAIN listed \cup {Top} |-> IF d = Top THEN tree ELSE listed[d]]
  /\ moment' = IF pass = 1 /\ Top = Root THEN tree ELSE moment
  /\ UNCHANGED <<pass, open, todo, fresh, first, observed, had, recurred>>

Same_DirectoriesOnly(x) == x \in Dir => x \in fresh
Same(x) == x \in fresh

(* for name, expected_signature in stable_files                            *)
CheckFile ==
  /\ spc = "check"
  /\ \E f \in unchecked \cap In(Top) :
       IF ~Same(f) THEN Fail
       ELSE /\ unchecked' = unchecked \ {f}
            /\ UNCHANGED <<spc, pass, open, todo, reading, fresh, found, first, history>>

(* The directory's own signature, by descriptor and by name.               *)
LeaveDirectory ==
  /\ spc = "check"
  /\ unchecked \cap In(Top) = {}
  /\ Len(open) > 1
  /\ IF ~Same(Top) THEN Fail
     ELSE /\ open' = SubSeq(open, 1, Len(open) - 1)
          /\ spc' = "walk"
          /\ UNCHANGED <<pass, todo, fresh, first, observed, history>>

(* _scan_workspace: the second walk follows the first, and must agree.     *)
Agrees_Trusting == pass = 2
Agrees == pass = 2 /\ found = first

EndWalk ==
  /\ spc = "check"
  /\ unchecked \cap In(Top) = {}
  /\ Len(open) = 1
  /\ IF ~Same(Root) THEN Fail
     ELSE IF pass = 1
     THEN StartWalk(2) /\ first' = found /\ UNCHANGED <<moment, had, recurred>>
     ELSE IF Agrees
     THEN spc' = "done" /\ UNCHANGED <<pass, open, todo, fresh, first, observed, history>>
     ELSE Fail

ScanStep == Look \/ Hash \/ Descend \/ EndListing \/ CheckFile \/ LeaveDirectory \/ EndWalk
Scanning == spc \in {"walk", "hash", "check"}

(* The caller has its answer.                                              *)
EndScan ==
  /\ spc' = "idle" /\ pass' = 1 /\ open' = <<>> /\ todo' = {}
  /\ reading' = {} /\ unchecked' = {} /\ fresh' = {}
  /\ found' = Nothing /\ first' = Nothing
  /\ listed' = NoTree /\ moment' = NoTree
  /\ had' = [f \in Path |-> {}] /\ recurred' = {}

(* A change to f gives it another signature, and its directory too when an *)
(* entry comes or goes.                                                    *)
Disturb(f, v) ==
  /\ IF Scanning
     THEN /\ fresh' = fresh \ ({f} \cup IF Absent \in {tree[f], v} THEN {Parent[f]} ELSE {})
          /\ had' = [had EXCEPT ![f] = @ \cup {tree[f]}]
          /\ recurred' = IF v \in had[f] THEN recurred \cup {f} ELSE recurred
     ELSE UNCHANGED <<fresh, had, recurred>>
  /\ UNCHANGED <<spc, pass, open, todo, first, observed, listed, moment>>

-----------------------------------------------------------------------------
AgreesOn(m, t, F) ==
  \A f \in F \ Control : /\ f \in DOMAIN m <=> t[f] # Absent
                         /\ f \in DOMAIN m => m[f] = t[f]

(* The files directly in one directory are listed as they were together at *)
(* one moment, when its entries were done, whatever was written meanwhile: *)
(* that is what the second look at every signature is for.                 *)
DirectoryIsSnapshot ==
  spc = "done" => \A d \in DOMAIN listed : AgreesOn(found, listed[d], In(d) \cap Path)

(* Across directories one walk may mix an old and a new file.  The second  *)
(* walk notices (the comment in _scan_workspace): an answer lists every    *)
(* file as it was at the moment the first walk had looked at everything,   *)
(* unless a file in a subdirectory went back to a content it had before.   *)
ManifestWasTree ==
  spc = "done" =>
    AgreesOn(found, moment, {f \in Path : Parent[f] = Root \/ f \notin recurred})
=============================================================================
