------------------------- MODULE AgentReceiptProofs --------------------------
(***************************************************************************)
(* What a manifest lists and what an accepted receipt says, for any tree   *)
(* of directories, any items and contents, and any number of writes by the *)
(* worker.                                                                 *)
(***************************************************************************)
EXTENDS AgentReceipt, SequenceTheorems, FiniteSetTheorems, TLAPS

-----------------------------------------------------------------------------
(* The scan.  A directory is open, then listed (its entries are done) and  *)
(* at last closed.                                                         *)
OpenDirs == {open[i] : i \in 1..Len(open)}
Visited == OpenDirs \cup DOMAIN listed
Val(m, f) == IF f \in DOMAIN m THEN m[f] ELSE Absent

(* The open directories are a path from the root; every directory below a  *)
(* visited one is visited or to be visited, and none is visited twice.     *)
StackInv ==
  /\ Len(open) >= 1 /\ open[1] = Root
  /\ \A i, j \in 1..Len(open) : open[i] = open[j] => i = j
  /\ OpenDirs \cap DOMAIN listed = IF spc = "check" THEN {Top} ELSE {}
  /\ \A x \in todo : x # Root /\ Parent[x] \in OpenDirs /\ x \notin Visited
  /\ \A d \in Visited \ {Root} : Parent[d] \in Visited
  /\ \A x \in Dir \ {Root} : Parent[x] \in Visited => x \in Visited \cup todo
  /\ spc = "check" => todo \cap In(Top) = {}

(* A file that has been hashed and still has its signature is as it was    *)
(* hashed; a directory that still has its signature has the entries it had *)
(* when it was opened.                                                     *)
FileInv ==
  /\ spc # "hash" => reading = {}
  /\ \A f, g \in reading : f = g
  /\ \A f \in todo \cap Path : f \notin unchecked \cup reading \cup DOMAIN found
  /\ \A f \in reading : /\ Parent[f] = Top /\ f \notin unchecked \cup DOMAIN found
                        /\ f \in fresh => tree[f] # Absent
  /\ \A f \in unchecked : Parent[f] \in OpenDirs
  /\ \A f \in unchecked \ Control : f \in DOMAIN found /\ (f \in fresh => found[f] = tree[f])
  /\ \A f \in DOMAIN found :
       Parent[f] \in Visited /\ (Parent[f] \in DOMAIN listed \/ f \in unchecked)
  /\ \A f \in Path : Parent[f] \in (OpenDirs \ DOMAIN listed) \cap fresh =>
       (tree[f] # Absent <=> f \in todo \cup reading \cup unchecked)

(* While the signatures of a listed directory are compared, what still has *)
(* its own is as it was when the entries were done.                        *)
CheckInv ==
  spc = "check" => \A f \in Path : Parent[f] = Top =>
    /\ f \in unchecked \cap fresh => listed[Top][f] = tree[f]
    /\ f \in DOMAIN found \ unchecked => found[f] = listed[Top][f]
    /\ Top \in fresh /\ f \notin Control => (listed[Top][f] # Absent <=> f \in DOMAIN found)

ClosedInv == \A d \in DOMAIN listed \ OpenDirs : AgreesOn(found, listed[d], In(d) \cap Path)

(* What the first walk has listed is there or has been there; what is      *)
(* there and was not at the moment between the walks will not be what the  *)
(* first walk has listed, unless it recurs.                                *)
HistInv ==
  /\ pass = 1 => \A f \in Path : Parent[f] \in DOMAIN listed =>
       listed[Parent[f]][f] = tree[f] \/ listed[Parent[f]][f] \in had[f]
  /\ pass = 1 /\ Root \in DOMAIN listed =>
       /\ moment = listed[Root] /\ DOMAIN listed = Dir
       /\ \A f \in Path \ recurred :
            \/ listed[Parent[f]][f] = moment[f]
            \/ listed[Parent[f]][f] \in had[f] /\ tree[f] # listed[Parent[f]][f]
  /\ pass = 2 => \A f \in Path \ Control :
       /\ Parent[f] = Root => Val(first, f) = moment[f]
       /\ f \notin recurred => \/ Val(first, f) = moment[f]
                               \/ Val(first, f) \in had[f] /\ tree[f] # Val(first, f)
       /\ f \notin recurred /\ Parent[f] \in DOMAIN listed =>
            Val(first, f) = moment[f] \/ listed[Parent[f]][f] # Val(first, f)

WalkInv == StackInv /\ FileInv /\ CheckInv /\ ClosedInv /\ HistInv

ScanInv ==
  /\ tree \in Tree /\ ScanTypeOK
  /\ Scanning => WalkInv
  /\ spc = "done" => DOMAIN listed = Dir
  /\ DirectoryIsSnapshot /\ ManifestWasTree

-----------------------------------------------------------------------------
LEMMA ManifestType ==
  ASSUME NEW m
  PROVE  m \in Manifest <=> m \in [DOMAIN m -> Content] /\ DOMAIN m \subseteq Path \ Control
  BY DEF Manifest

LEMMA NothingType == Nothing \in Manifest /\ DOMAIN Nothing = {} /\ DOMAIN NoTree = {}
  <1>1. DOMAIN Nothing = {} /\ Nothing \in [{} -> Content]
    BY DEF Nothing
  <1> QED
    BY <1>1, ManifestType DEF NoTree

LEMMA Places ==
  /\ \A f \in Path : Parent[f] \in Dir /\ f \notin Dir
  /\ \A d \in Dir \ {Root} : Parent[d] \in Dir /\ d \notin Path
  /\ Root \in Dir
  BY WorkspaceAssumption

LEMMA InIs == ASSUME NEW d, NEW x PROVE x \in In(d) <=> x \in Path \cup (Dir \ {Root}) /\ Parent[x] = d
  BY DEF In

(* The innermost of the open directories. *)
LEMMA TopOpen ==
  ASSUME ScanTypeOK, StackInv
  PROVE  /\ Len(open) \in Nat /\ Top = open[Len(open)] /\ Top \in OpenDirs
         /\ OpenDirs \subseteq Dir /\ Root \in OpenDirs /\ Visited \subseteq Dir
         /\ (Top = Root => OpenDirs = {Root} /\ Len(open) = 1)
  <1>1. Len(open) \in Nat /\ Len(open) >= 1 /\ Len(open) \in 1..Len(open) /\ 1 \in 1..Len(open)
    BY DEF ScanTypeOK, StackInv
  <1>2. Top \in OpenDirs /\ Root \in OpenDirs /\ OpenDirs \subseteq Dir
    BY <1>1 DEF Top, OpenDirs, StackInv, ScanTypeOK
  <1>3. DOMAIN listed \subseteq Dir
    BY DEF ScanTypeOK
  <1>4. Top = Root => Len(open) = 1
    BY <1>1 DEF Top, StackInv
  <1>5. Len(open) = 1 => OpenDirs = {Root}
    BY DEF OpenDirs, StackInv
  <1> QED
    BY <1>1, <1>2, <1>3, <1>4, <1>5 DEF Visited, Top

(* The walk was given up. *)
LEMMA FailStep ==
  ASSUME ScanInv, Fail, tree' = tree
  PROVE  ScanInv'
  <1>1. ScanTypeOK'
    BY DEF ScanInv, ScanTypeOK, Fail, observed, history
  <1> QED
    BY <1>1 DEF ScanInv, Fail, Scanning, DirectoryIsSnapshot, ManifestWasTree

(* A step of a walk that goes on. *)
LEMMA GoOn ==
  ASSUME tree' \in Tree, ScanTypeOK', Scanning', WalkInv'
  PROVE  ScanInv'
  BY DEF ScanInv, Scanning, DirectoryIsSnapshot, ManifestWasTree

-----------------------------------------------------------------------------
LEMMA StartStep ==
  ASSUME tree \in Tree, tree' = tree, ScanTypeOK, NEW n \in {1, 2}, StartWalk(n),
         first' \in Manifest, had' \in [Path -> SUBSET (Content \cup {Absent})],
         recurred' \subseteq Path,
         n = 2 => \A f \in Path \ Control :
           /\ Parent[f] = Root => Val(first', f) = moment'[f]
           /\ f \notin recurred' => \/ Val(first', f) = moment'[f]
                                    \/ Val(first', f) \in had'[f] /\ tree[f] # Val(first', f)
  PROVE  ScanInv'
  <1>1. /\ open' = <<Root>> /\ Len(open') = 1 /\ open'[1] = Root /\ Root \in Dir
        /\ todo' = Entries(Root) /\ fresh' = {Root} /\ reading' = {} /\ unchecked' = {}
        /\ DOMAIN found' = {} /\ found' \in Manifest /\ DOMAIN listed' = {}
        /\ spc' = "walk" /\ pass' = n
    BY Places, NothingType DEF StartWalk
  <1>2. \A x : x \in Entries(Root) <=> /\ x \in Path \cup (Dir \ {Root}) /\ Parent[x] = Root
                                       /\ x \in Path => tree[x] # Absent
    BY DEF Entries, In
  <1>3. OpenDirs' = {Root} /\ Visited' = {Root}
    BY <1>1 DEF OpenDirs, Visited
  <1>4. ScanTypeOK'
    BY <1>1, <1>2 DEF ScanTypeOK
  <1>5. StackInv'
    BY <1>1, <1>2, <1>3, Places DEF StackInv
  <1>6. FileInv'
    BY <1>1, <1>2, <1>3, Places DEF FileInv
  <1>7. CheckInv' /\ ClosedInv'
    BY <1>1 DEF CheckInv, ClosedInv
  <1>8. HistInv'
    BY <1>1 DEF HistInv, Val
  <1> QED
    BY <1>1, <1>4, <1>5, <1>6, <1>7, <1>8, GoOn DEF WalkInv, Scanning

LEMMA LookStep ==
  ASSUME ScanInv, Look, tree' = tree
  PROVE  ScanInv'
  <1>1. PICK f \in todo \cap Path \cap In(Top) :
          IF tree[f] = Absent \/ ~HasRoom(f) THEN Fail
          ELSE /\ todo' = todo \ {f}
               /\ reading' = {f}
               /\ fresh' = fresh \cup {f}
               /\ spc' = "hash"
               /\ UNCHANGED <<pass, open, unchecked, found, first, history>>
    BY DEF Look
  <1>2. CASE Fail
    BY <1>2, FailStep
  <1>3. CASE /\ tree[f] # Absent
             /\ todo' = todo \ {f} /\ reading' = {f} /\ fresh' = fresh \cup {f}
             /\ spc' = "hash"
             /\ UNCHANGED <<pass, open, unchecked, found, first, history>>
    <2>1. /\ ScanTypeOK /\ WalkInv /\ spc = "walk" /\ f \in Path /\ f \in todo /\ f \notin Dir
          /\ Parent[f] = Top
      BY Places, InIs DEF Look, ScanInv, Scanning
    <2>2. UNCHANGED <<listed, moment, had, recurred, open, found, first, unchecked, pass>>
      BY <1>3 DEF history
    <2>3. ScanTypeOK'
      BY <1>3, <2>1, <2>2 DEF ScanTypeOK
    <2>4. Top' = Top /\ OpenDirs' = OpenDirs /\ Visited' = Visited
      BY <2>2 DEF Top, OpenDirs, Visited
    <2>5. StackInv'
      BY <1>3, <2>1, <2>2, <2>4 DEF StackInv, WalkInv
    <2>6. FileInv'
      BY <1>3, <2>1, <2>2, <2>4, TopOpen DEF FileInv, WalkInv
    <2>7. CheckInv' /\ ClosedInv' /\ HistInv'
      BY <1>3, <2>1, <2>2, <2>4 DEF CheckInv, ClosedInv, AgreesOn, HistInv, WalkInv, Val
    <2> QED
      BY <1>3, <2>3, <2>5, <2>6, <2>7, GoOn DEF WalkInv, Scanning, ScanInv
  <1> QED
    BY <1>1, <1>2, <1>3

LEMMA HashStep ==
  ASSUME ScanInv, Hash, tree' = tree
  PROVE  ScanInv'
  <1>1. PICK f \in reading :
          IF f \notin fresh THEN Fail
          ELSE /\ found' = Hashed(f)
               /\ unchecked' = unchecked \cup {f}
               /\ reading' = {}
               /\ spc' = "walk"
               /\ UNCHANGED <<pass, open, todo, fresh, first, history>>
    BY DEF Hash
  <1>2. CASE Fail
    BY <1>2, FailStep
  <1>3. CASE /\ f \in fresh
             /\ found' = Hashed(f) /\ unchecked' = unchecked \cup {f} /\ reading' = {}
             /\ spc' = "walk"
             /\ UNCHANGED <<pass, open, todo, fresh, first, history>>
    <2>1. ScanTypeOK /\ WalkInv /\ spc = "hash" /\ f \in Path
      BY DEF Hash, ScanInv, Scanning, ScanTypeOK
    <2>2. UNCHANGED <<listed, moment, had, recurred, open, todo, first, fresh, pass>>
      BY <1>3 DEF history
    <2>3. Parent[f] = Top /\ f \notin unchecked \cup DOMAIN found /\ tree[f] \in Content
      BY <1>3, <2>1 DEF WalkInv, FileInv, ScanInv, Tree
    <2>4. /\ DOMAIN found' = DOMAIN found \cup ({f} \ Control)
          /\ \A g \in DOMAIN found' : found'[g] = IF g = f THEN tree[f] ELSE found[g]
          /\ found' \in Manifest
      <3>1. found \in Manifest
        BY <2>1 DEF ScanTypeOK
      <3>2. /\ DOMAIN found' = DOMAIN found \cup ({f} \ Control)
            /\ \A g \in DOMAIN found' : found'[g] = IF g = f THEN tree[f] ELSE found[g]
        BY <1>3, <2>3 DEF Hashed
      <3>3. found' \in Manifest
        <4>1. CASE f \in Control
          BY <1>3, <3>1, <4>1 DEF Hashed
        <4>2. CASE f \notin Control
          <5>1. found' = [g \in DOMAIN found \cup {f} |-> IF g = f THEN tree[f] ELSE found[g]]
            BY <1>3, <4>2 DEF Hashed
          <5>2. found' \in [DOMAIN found \cup {f} -> Content]
            BY <2>3, <3>1, <5>1, ManifestType
          <5> QED
            BY <2>1, <3>1, <4>2, <5>2, ManifestType
        <4> QED
          BY <4>1, <4>2
      <3> QED
        BY <3>2, <3>3
    <2>5. ScanTypeOK'
      BY <1>3, <2>1, <2>2, <2>4 DEF ScanTypeOK
    <2>6. Top' = Top /\ OpenDirs' = OpenDirs /\ Visited' = Visited
      BY <2>2 DEF Top, OpenDirs, Visited
    <2>7. StackInv'
      BY <1>3, <2>1, <2>2, <2>6 DEF StackInv, WalkInv
    <2>8. Top \in OpenDirs
      BY <2>1, TopOpen DEF WalkInv
    <2>9. FileInv'
      <3>1. \A g \in todo' \cap Path : g \notin unchecked' \cup reading' \cup DOMAIN found'
        BY <1>3, <2>1, <2>2, <2>4 DEF FileInv, WalkInv
      <3>2. \A g \in unchecked' : Parent[g] \in OpenDirs'
        BY <1>3, <2>1, <2>3, <2>6, <2>8 DEF FileInv, WalkInv
      <3>3. \A g \in unchecked' \ Control :
              g \in DOMAIN found' /\ (g \in fresh' => found'[g] = tree'[g])
        BY <1>3, <2>1, <2>2, <2>3, <2>4 DEF FileInv, WalkInv
      <3>4. \A g \in DOMAIN found' :
              Parent[g] \in Visited' /\ (Parent[g] \in DOMAIN listed' \/ g \in unchecked')
        BY <1>3, <2>1, <2>2, <2>3, <2>4, <2>6, <2>8 DEF FileInv, WalkInv, Visited
      <3>5. reading = {f}
        BY <2>1 DEF WalkInv, FileInv
      <3>6. \A g \in Path : Parent[g] \in (OpenDirs' \ DOMAIN listed') \cap fresh' =>
              (tree'[g] # Absent <=> g \in todo' \cup reading' \cup unchecked')
        BY <1>3, <2>1, <2>2, <2>6, <3>5 DEF FileInv, WalkInv
      <3> QED
        BY <1>3, <3>1, <3>2, <3>3, <3>4, <3>6 DEF FileInv
    <2>10. CheckInv'
      BY <1>3 DEF CheckInv
    <2>11. ClosedInv'
      <3> SUFFICES ASSUME NEW d \in DOMAIN listed \ OpenDirs
                   PROVE  AgreesOn(found', listed[d], In(d) \cap Path)
        BY <2>2, <2>6 DEF ClosedInv, AgreesOn
      <3>1. AgreesOn(found, listed[d], In(d) \cap Path)
        BY <2>1 DEF WalkInv, ClosedInv
      <3>2. f \notin In(d)
        BY <2>3, <2>8, InIs
      <3> QED
        BY <2>4, <3>1, <3>2 DEF AgreesOn
    <2>12. HistInv'
      BY <2>1, <2>2 DEF HistInv, WalkInv, Val
    <2> QED
      BY <1>3, <2>5, <2>7, <2>9, <2>10, <2>11, <2>12, GoOn DEF WalkInv, Scanning, ScanInv
  <1> QED
    BY <1>1, <1>2, <1>3

(* A directory that is opened was not visited before, and neither was      *)
(* anything in it.                                                         *)
LEMMA DescendStep ==
  ASSUME ScanInv, Descend, tree' = tree
  PROVE  ScanInv'
  <1>1. PICK d \in todo \cap Dir \cap In(Top) :
          /\ open' = Append(open, d)
          /\ todo' = (todo \ {d}) \cup Entries(d)
          /\ fresh' = fresh \cup {d}
    BY DEF Descend
  <1>2. /\ ScanTypeOK /\ WalkInv /\ StackInv /\ FileInv /\ spc = "walk"
        /\ UNCHANGED <<spc, pass, first, reading, unchecked, found, listed, moment, had, recurred>>
    BY DEF Descend, ScanInv, Scanning, WalkInv, observed, history
  <1>3. d \in Dir /\ d # Root /\ d \notin Path /\ d \notin Visited /\ Parent[d] \in OpenDirs
    BY <1>2, Places DEF StackInv
  <1>4. /\ open \in Seq(Dir) /\ open' \in Seq(Dir) /\ Len(open') = Len(open) + 1
        /\ Len(open) \in Nat /\ open'[Len(open) + 1] = d
        /\ \A i \in 1..Len(open) : open'[i] = open[i]
    BY <1>1, <1>2, <1>3, AppendProperties DEF ScanTypeOK
  <1>5. Top' = d
    BY <1>4 DEF Top
  <1>6. OpenDirs' = OpenDirs \cup {d} /\ Visited' = Visited \cup {d}
    <2>1. \A x : x \in OpenDirs' <=> x \in OpenDirs \/ x = d
      BY <1>4 DEF OpenDirs
    <2>2. OpenDirs' = OpenDirs \cup {d}
      BY <2>1
    <2> QED
      BY <1>2, <2>2 DEF Visited
  <1>7. \A x : x \in Entries(d) <=> /\ x \in Path \cup (Dir \ {Root}) /\ Parent[x] = d
                                    /\ x \in Path => tree[x] # Absent
    BY DEF Entries, In
  <1>8. \A x \in Entries(d) : x \notin Visited \cup {d} /\ x # Root
    <2> SUFFICES ASSUME NEW x \in Entries(d) PROVE x \notin Visited \cup {d} /\ x # Root
      OBVIOUS
    <2>1. Parent[x] = d /\ x # Root /\ (x \in Path \/ x \in Dir)
      BY <1>7, Places
    <2>2. x # d
      BY <1>3, <2>1 DEF Visited
    <2>3. x \notin Visited
      BY <1>2, <1>3, <2>1, Places DEF StackInv
    <2> QED
      BY <2>1, <2>2, <2>3
  <1>9. ScanTypeOK'
    BY <1>1, <1>2, <1>3, <1>4, <1>7 DEF ScanTypeOK
  <1>10. StackInv'
    <2>1. Len(open') >= 1 /\ open'[1] = Root
      BY <1>2, <1>4 DEF StackInv
    <2>2. \A i, j \in 1..Len(open') : open'[i] = open'[j] => i = j
      <3>1. \A i \in 1..Len(open) : open[i] # d
        BY <1>3 DEF Visited, OpenDirs
      <3>2. \A i \in 1..Len(open') : i \in 1..Len(open) \/ i = Len(open) + 1
        BY <1>4
      <3> QED
        BY <1>2, <1>4, <3>1, <3>2 DEF StackInv
    <2>3. OpenDirs' \cap DOMAIN listed' = {}
      BY <1>2, <1>3, <1>6 DEF StackInv, Visited
    <2>4. \A x \in todo' : x # Root /\ Parent[x] \in OpenDirs' /\ x \notin Visited'
      BY <1>1, <1>2, <1>6, <1>7, <1>8 DEF StackInv
    <2>5. \A e \in Visited' \ {Root} : Parent[e] \in Visited'
      BY <1>2, <1>3, <1>6 DEF StackInv, Visited
    <2>6. \A x \in Dir \ {Root} : Parent[x] \in Visited' => x \in Visited' \cup todo'
      BY <1>1, <1>2, <1>6, <1>7, Places DEF StackInv
    <2> QED
      BY <1>2, <2>1, <2>2, <2>3, <2>4, <2>5, <2>6 DEF StackInv
  <1>11. FileInv'
    <2>1. reading' = {}
      BY <1>2 DEF FileInv
    <2>2. \A f \in Path : Parent[f] = d => f \notin unchecked \cup DOMAIN found
      BY <1>2, <1>3 DEF FileInv, Visited
    <2>3. \A f \in todo' \cap Path : f \notin unchecked' \cup reading' \cup DOMAIN found'
      BY <1>1, <1>2, <1>7, <2>1, <2>2 DEF FileInv
    <2>4. \A f \in unchecked' : Parent[f] \in OpenDirs'
      BY <1>2, <1>6 DEF FileInv
    <2>5. unchecked \subseteq Path
      BY <1>2 DEF ScanTypeOK
    <2>6. \A f \in unchecked' \ Control :
            f \in DOMAIN found' /\ (f \in fresh' => found'[f] = tree'[f])
      BY <1>1, <1>2, <1>3, <2>5 DEF FileInv
    <2>7. \A f \in DOMAIN found' :
            Parent[f] \in Visited' /\ (Parent[f] \in DOMAIN listed' \/ f \in unchecked')
      BY <1>2, <1>6 DEF FileInv
    <2>8. ASSUME NEW f \in Path, Parent[f] \in (OpenDirs' \ DOMAIN listed') \cap fresh'
          PROVE  tree'[f] # Absent <=> f \in todo' \cup reading' \cup unchecked'
      <3>1. CASE Parent[f] = d
        <4>1. f \notin todo
          BY <1>2, <1>3, <3>1 DEF StackInv, Visited
        <4>2. f \in todo' <=> tree[f] # Absent
          BY <1>1, <1>3, <1>7, <3>1, <4>1
        <4> QED
          BY <1>2, <2>1, <2>2, <3>1, <4>2
      <3>2. CASE Parent[f] # d
        <4>1. tree[f] # Absent <=> f \in todo \cup reading \cup unchecked
          BY <1>1, <1>2, <1>6, <2>8, <3>2 DEF FileInv
        <4>2. f \in todo' <=> f \in todo
          BY <1>1, <1>3, <1>7, <3>2
        <4> QED
          BY <1>2, <2>1, <4>1, <4>2
      <3> QED
        BY <3>1, <3>2
    <2> QED
      BY <2>1, <2>3, <2>4, <2>6, <2>7, <2>8 DEF FileInv
  <1>12. CheckInv' /\ ClosedInv' /\ HistInv'
    <2>1. CheckInv'
      BY <1>2 DEF CheckInv
    <2>2. ClosedInv'
      BY <1>2, <1>6 DEF ClosedInv, WalkInv, AgreesOn
    <2>3. HistInv'
      BY <1>2 DEF HistInv, WalkInv, Val
    <2> QED
      BY <2>1, <2>2, <2>3
  <1> QED
    BY <1>2, <1>9, <1>10, <1>11, <1>12, GoOn DEF WalkInv, Scanning, ScanInv

(* When only the root is open and nothing is left to look at in it, every  *)
(* directory has been visited.                                             *)
LEMMA AllVisited ==
  ASSUME ScanTypeOK, StackInv, Top = Root, todo \cap In(Root) = {}
  PROVE  Visited = Dir
  <1>1. OpenDirs = {Root} /\ Visited \in SUBSET Dir /\ Root \in Visited
    BY TopOpen DEF Visited
  <1>2. todo = {}
    BY <1>1, InIs DEF StackInv, ScanTypeOK
  <1>3. \A d \in Dir \ {Root} : Parent[d] \in Visited => d \in Visited
    BY <1>2 DEF StackInv
  <1> QED
    BY <1>1, <1>3, WorkspaceAssumption

LEMMA EndListingStep ==
  ASSUME ScanInv, EndListing, tree' = tree
  PROVE  ScanInv'
  <1>1. /\ ScanTypeOK /\ StackInv /\ FileInv /\ ClosedInv /\ HistInv
        /\ spc = "walk" /\ tree \in Tree /\ todo \cap In(Top) = {}
    BY DEF EndListing, ScanInv, Scanning, WalkInv
  <1>2. /\ UNCHANGED <<pass, open, todo, fresh, first, reading, unchecked, found, had, recurred>>
        /\ spc' = "check"
        /\ moment' = IF pass = 1 /\ Top = Root THEN tree ELSE moment
    BY DEF EndListing, observed
  <1>3. /\ DOMAIN listed' = DOMAIN listed \cup {Top}
        /\ \A d \in DOMAIN listed' : listed'[d] = IF d = Top THEN tree ELSE listed[d]
    BY DEF EndListing
  <1>4. Top \in OpenDirs /\ Top \in Dir /\ Top \notin DOMAIN listed
    BY <1>1, TopOpen DEF StackInv
  <1>5. Top' = Top /\ OpenDirs' = OpenDirs /\ Visited' = Visited
    <2>1. Top' = Top /\ OpenDirs' = OpenDirs
      BY <1>2 DEF Top, OpenDirs
    <2> QED
      BY <1>3, <1>4, <2>1 DEF Visited
  <1>6. ScanTypeOK'
    BY <1>1, <1>2, <1>3, <1>4 DEF ScanTypeOK
  <1>7. StackInv'
    BY <1>1, <1>2, <1>3, <1>4, <1>5 DEF StackInv
  <1>8. FileInv'
    BY <1>1, <1>2, <1>3, <1>5 DEF FileInv
  <1>9. CheckInv'
    <2> SUFFICES ASSUME NEW f \in Path, Parent[f] = Top
        PROVE  /\ f \in unchecked \cap fresh => listed'[Top][f] = tree[f]
               /\ f \in DOMAIN found \ unchecked => found[f] = listed'[Top][f]
               /\ Top \in fresh /\ f \notin Control =>
                    (listed'[Top][f] # Absent <=> f \in DOMAIN found)
      BY <1>2, <1>5 DEF CheckInv
    <2>1. listed'[Top] = tree
      BY <1>3
    <2>2. f \notin todo /\ reading = {}
      BY <1>1, InIs DEF FileInv
    <2>3. f \in DOMAIN found => f \in unchecked
      BY <1>1, <1>4 DEF FileInv
    <2>4. Top \in fresh => (tree[f] # Absent <=> f \in unchecked)
      BY <1>1, <1>4, <2>2 DEF FileInv
    <2>5. f \in unchecked \ Control => f \in DOMAIN found
      BY <1>1 DEF FileInv
    <2> QED
      BY <2>1, <2>3, <2>4, <2>5
  <1>10. ClosedInv'
    BY <1>1, <1>2, <1>3, <1>4, <1>5 DEF ClosedInv, AgreesOn
  <1>11. HistInv'
    <2>1. pass = 1 => \A f \in Path : Parent[f] \in DOMAIN listed' =>
            listed'[Parent[f]][f] = tree[f] \/ listed'[Parent[f]][f] \in had[f]
      BY <1>1, <1>3 DEF HistInv
    <2>2. ASSUME pass = 1, Root \in DOMAIN listed'
          PROVE  /\ moment' = listed'[Root] /\ DOMAIN listed' = Dir
                 /\ \A f \in Path \ recurred :
                      \/ listed'[Parent[f]][f] = moment'[f]
                      \/ /\ listed'[Parent[f]][f] \in had[f]
                         /\ tree[f] # listed'[Parent[f]][f]
      <3>1. Top = Root
        BY <1>1, <1>3, <2>2, TopOpen DEF StackInv
      <3>2. moment' = tree /\ moment' = listed'[Root]
        BY <1>2, <1>3, <2>2, <3>1
      <3>3. DOMAIN listed' = Dir
        BY <1>1, <1>3, <3>1, AllVisited, TopOpen DEF Visited
      <3> QED
        BY <2>1, <2>2, <3>2, <3>3, Places
    <2>3. ASSUME pass = 2, NEW f \in Path \ Control
          PROVE /\ Parent[f] = Root => Val(first, f) = moment[f]
                /\ f \notin recurred => \/ Val(first, f) = moment[f]
                                        \/ Val(first, f) \in had[f] /\ tree[f] # Val(first, f)
                /\ f \notin recurred /\ Parent[f] \in DOMAIN listed' =>
                     Val(first, f) = moment[f] \/ listed'[Parent[f]][f] # Val(first, f)
      BY <1>1, <1>3, <2>3 DEF HistInv
    <2>4. pass = 2 => moment' = moment
      BY <1>2
    <2> QED
      BY <1>2, <2>1, <2>2, <2>3, <2>4 DEF HistInv, Val
  <1> QED
    BY <1>1, <1>2, <1>6, <1>7, <1>8, <1>9, <1>10, <1>11, GoOn DEF WalkInv, Scanning

LEMMA CheckFileStep ==
  ASSUME ScanInv, CheckFile, tree' = tree
  PROVE  ScanInv'
  <1>1. /\ ScanTypeOK /\ StackInv /\ FileInv /\ CheckInv /\ ClosedInv /\ HistInv
        /\ spc = "check" /\ tree \in Tree
    BY DEF CheckFile, ScanInv, Scanning, WalkInv
  <1>2. PICK f \in unchecked \cap In(Top) :
          IF ~Same(f) THEN Fail
          ELSE /\ unchecked' = unchecked \ {f}
               /\ UNCHANGED <<spc, pass, open, todo, reading, fresh, found, first, history>>
    BY DEF CheckFile
  <1>3. CASE Fail
    BY <1>3, FailStep
  <1>4. CASE /\ f \in fresh /\ unchecked' = unchecked \ {f}
             /\ UNCHANGED <<spc, pass, open, todo, reading, fresh, found, first, history>>
    <2>1. UNCHANGED <<listed, moment, had, recurred>>
      BY <1>4 DEF history
    <2>2. Top' = Top /\ OpenDirs' = OpenDirs /\ Visited' = Visited
      BY <1>4, <2>1 DEF Top, OpenDirs, Visited
    <2>3. f \in Path /\ Parent[f] = Top /\ Top \in DOMAIN listed
      BY <1>1, InIs DEF ScanTypeOK, StackInv
    <2>4. ScanTypeOK'
      BY <1>1, <1>4, <2>1 DEF ScanTypeOK
    <2>5. StackInv'
      BY <1>1, <1>4, <2>1, <2>2 DEF StackInv
    <2>6. FileInv'
      BY <1>1, <1>4, <2>1, <2>2, <2>3 DEF FileInv
    <2>7. f \in DOMAIN found => found[f] = listed[Top][f]
      <3>1. DOMAIN found \subseteq Path \ Control
        BY <1>1, ManifestType DEF ScanTypeOK
      <3> QED
        BY <1>1, <1>4, <2>3, <3>1 DEF FileInv, CheckInv
    <2>8. CheckInv'
      BY <1>1, <1>4, <2>1, <2>2, <2>7 DEF CheckInv
    <2>9. ClosedInv' /\ HistInv'
      BY <1>1, <1>4, <2>1, <2>2 DEF ClosedInv, AgreesOn, HistInv, Val
    <2> QED
      BY <1>1, <1>4, <2>4, <2>5, <2>6, <2>8, <2>9, GoOn DEF WalkInv, Scanning
  <1> QED
    BY <1>2, <1>3, <1>4 DEF Same

(* A directory whose files and own signature have been compared.           *)
LEMMA TopAgrees ==
  ASSUME ScanTypeOK, CheckInv, spc = "check", unchecked \cap In(Top) = {}, Top \in fresh
  PROVE  AgreesOn(found, listed[Top], In(Top) \cap Path)
  BY InIs DEF AgreesOn, CheckInv

LEMMA LeaveStep ==
  ASSUME ScanInv, LeaveDirectory, tree' = tree
  PROVE  ScanInv'
  <1>1. /\ ScanTypeOK /\ StackInv /\ FileInv /\ CheckInv /\ ClosedInv /\ HistInv
        /\ spc = "check" /\ tree \in Tree /\ unchecked \cap In(Top) = {} /\ Len(open) > 1
    BY DEF LeaveDirectory, ScanInv, Scanning, WalkInv
  <1>2. CASE Fail
    BY <1>2, FailStep
  <1>3. CASE /\ Top \in fresh
             /\ open' = SubSeq(open, 1, Len(open) - 1)
             /\ spc' = "walk"
             /\ UNCHANGED <<pass, todo, fresh, first, observed, history>>
    <2>1. UNCHANGED <<pass, todo, fresh, first, reading, unchecked, found, listed, moment,
                      had, recurred>>
      BY <1>3 DEF observed, history
    <2>2. /\ open \in Seq(Dir) /\ Len(open) \in Nat
          /\ open' \in Seq(Dir) /\ Len(open') = Len(open) - 1
          /\ \A i \in 1..Len(open) - 1 : open'[i] = open[i]
      <3>1. open \in Seq(Dir) /\ Len(open) \in Nat /\ \A i \in 1..Len(open) - 1 : open[i] \in Dir
        BY <1>1 DEF ScanTypeOK
      <3> DEFINE n == Len(open) - 1
      <3>2. /\ SubSeq(open, 1, n) \in Seq(Dir) /\ Len(SubSeq(open, 1, n)) = n
            /\ \A i \in 1..n : SubSeq(open, 1, n)[i] = open[i]
        <4>1. n \in Int /\ 1 <= n
          BY <1>1, <3>1
        <4> HIDE DEF n
        <4>2. \A i \in 1..n : open[i] \in Dir
          BY <3>1 DEF n
        <4> QED
          BY <4>1, <4>2, SubSeqProperties
      <3> QED
        BY <1>3, <3>1, <3>2
    <2>3. OpenDirs' = OpenDirs \ {Top}
      <3>1. \A i \in 1..Len(open) : i \in 1..Len(open) - 1 \/ i = Len(open)
        BY <2>2
      <3>2. \A i \in 1..Len(open) - 1 : i \in 1..Len(open) /\ open[i] # Top
        BY <1>1, <2>2 DEF StackInv, Top
      <3>3. \A x : x \in OpenDirs' <=> x \in OpenDirs /\ x # Top
        BY <2>2, <3>1, <3>2 DEF OpenDirs, Top
      <3> QED
        BY <3>3
    <2>4. Top \in DOMAIN listed /\ Top \in OpenDirs /\ Visited' = Visited
      BY <1>1, <2>1, <2>3 DEF StackInv, Visited
    <2>5. ScanTypeOK'
      BY <1>1, <1>3, <2>1, <2>2 DEF ScanTypeOK
    <2>6. StackInv'
      <3>1. Len(open') >= 1 /\ open'[1] = Root
        BY <1>1, <2>2 DEF StackInv
      <3>2. \A i, j \in 1..Len(open') : open'[i] = open'[j] => i = j
        BY <1>1, <2>2 DEF StackInv
      <3>3. OpenDirs' \cap DOMAIN listed' = {}
        BY <1>1, <2>1, <2>3 DEF StackInv
      <3>4. \A x \in todo' : x # Root /\ Parent[x] \in OpenDirs' /\ x \notin Visited'
        BY <1>1, <2>1, <2>3, <2>4, InIs DEF StackInv, ScanTypeOK
      <3> QED
        BY <1>1, <1>3, <2>1, <2>4, <3>1, <3>2, <3>3, <3>4 DEF StackInv
    <2>7. FileInv'
      <3>1. \A f \in unchecked' : Parent[f] \in OpenDirs'
        BY <1>1, <2>1, <2>3, InIs DEF FileInv, ScanTypeOK
      <3>2. reading' = {}
        BY <1>1, <2>1 DEF FileInv
      <3>3. OpenDirs' \ DOMAIN listed' = OpenDirs \ DOMAIN listed
        BY <2>1, <2>3, <2>4
      <3> QED
        BY <1>1, <2>1, <2>4, <3>1, <3>2, <3>3 DEF FileInv
    <2>8. CheckInv'
      BY <1>3 DEF CheckInv
    <2>9. ClosedInv'
      BY <1>1, <1>3, <2>1, <2>3, TopAgrees DEF ClosedInv, AgreesOn
    <2>10. HistInv'
      BY <1>1, <2>1 DEF HistInv, Val
    <2> QED
      BY <1>1, <1>3, <2>5, <2>6, <2>7, <2>8, <2>9, <2>10, GoOn DEF WalkInv, Scanning
  <1> QED
    BY <1>2, <1>3 DEF LeaveDirectory, Same

(* At the end of a walk every directory has been listed and agrees.        *)
LEMMA EndAgrees ==
  ASSUME ScanTypeOK, WalkInv, spc = "check", unchecked \cap In(Top) = {},
         Len(open) = 1, Root \in fresh
  PROVE  /\ DOMAIN listed = Dir
         /\ \A d \in Dir : AgreesOn(found, listed[d], In(d) \cap Path)
         /\ \A f \in Path \ Control : Val(found, f) = listed[Parent[f]][f]
  <1>1. StackInv /\ CheckInv /\ ClosedInv /\ Top = Root /\ todo \cap In(Root) = {}
    BY DEF WalkInv, StackInv, Top
  <1>2. OpenDirs = {Root} /\ Visited = Dir /\ Root \in DOMAIN listed
    BY <1>1, TopOpen, AllVisited DEF StackInv
  <1>3. DOMAIN listed = Dir
    BY <1>2 DEF Visited
  <1>4. \A d \in Dir : AgreesOn(found, listed[d], In(d) \cap Path)
    BY <1>1, <1>2, <1>3, TopAgrees DEF ClosedInv
  <1>5. ASSUME NEW f \in Path \ Control PROVE Val(found, f) = listed[Parent[f]][f]
    <2>1. Parent[f] \in Dir /\ f \in In(Parent[f]) \cap Path
      BY Places, InIs
    <2>2. /\ f \in DOMAIN found <=> listed[Parent[f]][f] # Absent
          /\ f \in DOMAIN found => found[f] = listed[Parent[f]][f]
      BY <1>4, <2>1 DEF AgreesOn
    <2> QED
      BY <2>2 DEF Val
  <1> QED
    BY <1>3, <1>4, <1>5

LEMMA EndWalkStep ==
  ASSUME ScanInv, EndWalk, tree' = tree
  PROVE  ScanInv'
  <1>1. /\ ScanTypeOK /\ WalkInv /\ HistInv
        /\ spc = "check" /\ tree \in Tree /\ unchecked \cap In(Top) = {} /\ Len(open) = 1
    BY DEF EndWalk, ScanInv, Scanning, WalkInv
  <1>2. CASE Fail
    BY <1>2, FailStep
  <1>3. CASE Root \in fresh /\ pass = 1 /\ StartWalk(2) /\ first' = found
             /\ UNCHANGED <<moment, had, recurred>>
    <2>1. /\ DOMAIN listed = Dir /\ Root \in Dir
          /\ \A f \in Path \ Control : Val(found, f) = listed[Parent[f]][f]
      BY <1>1, <1>3, EndAgrees, Places
    <2>2. \A f \in Path \ Control :
           /\ Parent[f] = Root => Val(first', f) = moment'[f]
           /\ f \notin recurred' => \/ Val(first', f) = moment'[f]
                                    \/ Val(first', f) \in had'[f] /\ tree[f] # Val(first', f)
      BY <1>1, <1>3, <2>1 DEF HistInv
    <2>3. first' \in Manifest /\ had' \in [Path -> SUBSET (Content \cup {Absent})]
          /\ recurred' \subseteq Path
      BY <1>1, <1>3 DEF ScanTypeOK
    <2> QED
      BY <1>1, <1>3, <2>2, <2>3, StartStep
  <1>4. CASE /\ Root \in fresh /\ Agrees /\ spc' = "done"
             /\ UNCHANGED <<pass, open, todo, fresh, first, observed, history>>
    <2>1. UNCHANGED <<pass, open, todo, fresh, first, reading, unchecked, found, listed, moment,
                      had, recurred>>
      BY <1>4 DEF observed, history
    <2>2. ScanTypeOK'
      BY <1>1, <1>4, <2>1 DEF ScanTypeOK
    <2>3. /\ DOMAIN listed = Dir
          /\ \A d \in Dir : AgreesOn(found, listed[d], In(d) \cap Path)
          /\ \A f \in Path \ Control : Val(found, f) = listed[Parent[f]][f]
      BY <1>1, <1>4, EndAgrees
    <2>4. DirectoryIsSnapshot'
      BY <2>1, <2>3 DEF DirectoryIsSnapshot, AgreesOn
    <2>5. found \in [DOMAIN found -> Content] /\ Absent \notin Content
      BY <1>1, ManifestType, WorkspaceAssumption DEF ScanTypeOK
    <2>6. ASSUME NEW f \in Path \ Control, Parent[f] = Root \/ f \notin recurred
          PROVE  /\ f \in DOMAIN found <=> moment[f] # Absent
                 /\ f \in DOMAIN found => found[f] = moment[f]
      <3>1. pass = 2 /\ found = first
        BY <1>4 DEF Agrees
      <3>2. Val(found, f) = moment[f]
        BY <1>1, <2>3, <2>6, <3>1, Places DEF HistInv
      <3> QED
        BY <2>5, <3>2 DEF Val
    <2>7. ManifestWasTree'
      BY <2>1, <2>6 DEF ManifestWasTree, AgreesOn
    <2> QED
      BY <1>1, <1>4, <2>1, <2>2, <2>3, <2>4, <2>7 DEF ScanInv, Scanning
  <1> QED
    BY <1>1, <1>2, <1>3, <1>4 DEF EndWalk, Same, ScanTypeOK

(* A write during the walk: the file, and its directory when an entry      *)
(* comes or goes, no longer has its signature.                             *)
LEMMA WriteStep ==
  ASSUME ScanInv, NEW f \in Path \ Control, NEW v \in Content \cup {Absent},
         Change(f, v), Disturb(f, v)
  PROVE  ScanInv'
  <1>1. tree \in Tree /\ ScanTypeOK
    BY DEF ScanInv
  <1>2. /\ tree' \in Tree /\ v # tree[f] /\ tree'[f] = v
        /\ \A g \in Path : g # f => tree'[g] = tree[g]
    BY <1>1 DEF Change, Tree
  <1>3. /\ spc' = spc /\ UNCHANGED <<pass, open, todo, first, reading, unchecked, found, listed,
                                     moment>>
    BY DEF Disturb, observed
  <1>4. CASE ~Scanning
    <2>1. UNCHANGED <<fresh, had, recurred>>
      BY <1>4 DEF Disturb
    <2>2. ScanTypeOK'
      BY <1>1, <1>3, <2>1 DEF ScanTypeOK
    <2>3. DirectoryIsSnapshot' /\ ManifestWasTree'
      BY <1>3, <2>1 DEF ScanInv, DirectoryIsSnapshot, ManifestWasTree, AgreesOn
    <2> QED
      BY <1>2, <1>3, <1>4, <2>2, <2>3 DEF ScanInv, Scanning
  <1>5. CASE Scanning
    <2>1. StackInv /\ FileInv /\ CheckInv /\ ClosedInv /\ HistInv
      BY <1>5 DEF ScanInv, WalkInv
    <2>2. /\ fresh' \subseteq fresh /\ f \notin fresh'
          /\ Absent \in {tree[f], v} => Parent[f] \notin fresh'
          /\ \A g \in Path : had'[g] = IF g = f THEN had[f] \cup {tree[f]} ELSE had[g]
          /\ had' \in [Path -> SUBSET (Content \cup {Absent})]
          /\ recurred' = IF v \in had[f] THEN recurred \cup {f} ELSE recurred
      <3>1. /\ fresh' = fresh \ ({f} \cup IF Absent \in {tree[f], v} THEN {Parent[f]} ELSE {})
            /\ had' = [had EXCEPT ![f] = @ \cup {tree[f]}]
            /\ recurred' = IF v \in had[f] THEN recurred \cup {f} ELSE recurred
        BY <1>5 DEF Disturb
      <3>2. had \in [Path -> SUBSET (Content \cup {Absent})] /\ tree[f] \in Content \cup {Absent}
        BY <1>1 DEF ScanTypeOK, Tree
      <3> QED
        BY <3>1, <3>2
    <2>3. ScanTypeOK'
      BY <1>1, <1>3, <2>2 DEF ScanTypeOK
    <2>4. Top' = Top /\ OpenDirs' = OpenDirs /\ Visited' = Visited
      BY <1>3 DEF Top, OpenDirs, Visited
    <2>5. StackInv'
      BY <1>3, <2>1, <2>4 DEF StackInv
    <2>6. FileInv'
      <3>1. \A g \in reading' : g \in fresh' => tree'[g] # Absent
        BY <1>1, <1>2, <1>3, <2>1, <2>2 DEF FileInv, ScanTypeOK
      <3>2. \A g \in unchecked' \ Control :
              g \in DOMAIN found' /\ (g \in fresh' => found'[g] = tree'[g])
        BY <1>1, <1>2, <1>3, <2>1, <2>2 DEF FileInv, ScanTypeOK
      <3>3. \A g \in Path : Parent[g] \in (OpenDirs' \ DOMAIN listed') \cap fresh' =>
              (tree'[g] # Absent <=> g \in todo' \cup reading' \cup unchecked')
        BY <1>2, <1>3, <2>1, <2>2, <2>4 DEF FileInv
      <3> QED
        BY <1>3, <2>1, <2>4, <3>1, <3>2, <3>3 DEF FileInv
    <2>7. CheckInv'
      BY <1>2, <1>3, <2>1, <2>2, <2>4 DEF CheckInv
    <2>8. ClosedInv'
      BY <1>3, <2>1, <2>4 DEF ClosedInv, AgreesOn
    <2>9. HistInv'
      <3>1. pass = 1 => \A g \in Path : Parent[g] \in DOMAIN listed =>
              listed[Parent[g]][g] = tree'[g] \/ listed[Parent[g]][g] \in had'[g]
        BY <1>2, <2>1, <2>2 DEF HistInv
      <3>2. pass = 1 /\ Root \in DOMAIN listed =>
              /\ moment = listed[Root] /\ DOMAIN listed = Dir
              /\ \A g \in Path \ recurred' :
                   \/ listed[Parent[g]][g] = moment[g]
                   \/ listed[Parent[g]][g] \in had'[g] /\ tree'[g] # listed[Parent[g]][g]
        BY <1>2, <2>1, <2>2 DEF HistInv
      <3>3. pass = 2 => \A g \in Path \ Control :
              /\ Parent[g] = Root => Val(first, g) = moment[g]
              /\ g \notin recurred' => \/ Val(first, g) = moment[g]
                                       \/ Val(first, g) \in had'[g] /\ tree'[g] # Val(first, g)
              /\ g \notin recurred' /\ Parent[g] \in DOMAIN listed =>
                   Val(first, g) = moment[g] \/ listed[Parent[g]][g] # Val(first, g)
        BY <1>2, <2>1, <2>2 DEF HistInv
      <3> QED
        BY <1>3, <3>1, <3>2, <3>3 DEF HistInv, Val
    <2> QED
      BY <1>2, <1>3, <1>5, <2>3, <2>5, <2>6, <2>7, <2>8, <2>9, GoOn DEF WalkInv, Scanning
  <1> QED
    BY <1>4, <1>5

(* The caller has its answer, and may have written a control file.         *)
LEMMA EndScanStep ==
  ASSUME EndScan, tree' \in Tree
  PROVE  ScanInv'
  <1>1. ScanTypeOK'
    <2>1. found' \in Manifest /\ first' \in Manifest /\ DOMAIN listed' = {}
      BY NothingType DEF EndScan
    <2>2. open' \in Seq(Dir)
      BY DEF EndScan
    <2>3. had' \in [Path -> SUBSET (Content \cup {Absent})]
      BY DEF EndScan
    <2> QED
      BY <2>1, <2>2, <2>3 DEF EndScan, ScanTypeOK
  <1> QED
    BY <1>1 DEF EndScan, ScanInv, Scanning, DirectoryIsSnapshot, ManifestWasTree

LEMMA BeginScanStep ==
  ASSUME ScanInv, BeginScan, tree' = tree
  PROVE  ScanInv'
  <1>1. /\ tree \in Tree /\ ScanTypeOK /\ StartWalk(1)
        /\ first' \in Manifest /\ had' \in [Path -> SUBSET (Content \cup {Absent})]
        /\ recurred' \subseteq Path
    BY DEF BeginScan, ScanInv, ScanTypeOK
  <1> QED
    BY <1>1, StartStep

LEMMA ScanStays ==
  ASSUME ScanInv, UNCHANGED scanVars, tree' = tree
  PROVE  ScanInv'
  <1>1. UNCHANGED <<spc, pass, open, todo, fresh, first, reading, unchecked, found, listed,
                    moment, had, recurred>>
    BY DEF scanVars, observed, history
  <1>2. ScanTypeOK'
    BY <1>1 DEF ScanInv, ScanTypeOK
  <1>3. CASE ~Scanning
    BY <1>1, <1>2, <1>3 DEF ScanInv, Scanning, DirectoryIsSnapshot, ManifestWasTree, AgreesOn
  <1>4. CASE Scanning
    <2>1. Top' = Top /\ OpenDirs' = OpenDirs /\ Visited' = Visited
      BY <1>1 DEF Top, OpenDirs, Visited
    <2>2. StackInv' /\ FileInv' /\ CheckInv'
      BY <1>1, <1>4, <2>1 DEF ScanInv, WalkInv, StackInv, FileInv, CheckInv
    <2>3. ClosedInv' /\ HistInv'
      BY <1>1, <1>4, <2>1 DEF ScanInv, WalkInv, ClosedInv, AgreesOn, HistInv, Val
    <2> QED
      BY <1>1, <1>2, <1>4, <2>2, <2>3, GoOn DEF WalkInv, Scanning, ScanInv
  <1> QED
    BY <1>3, <1>4

LEMMA ScanStepStep ==
  ASSUME ScanInv, ScanStep, tree' = tree
  PROVE  ScanInv'
  BY LookStep, HashStep, DescendStep, EndListingStep, CheckFileStep, LeaveStep, EndWalkStep
  DEF ScanStep

-----------------------------------------------------------------------------
(* The receipt.  What a call has observed so far, and what that says of    *)
(* the items it ran again and found good.                                  *)
RerunGood(i) ==
  /\ Kind[i] = "file_hash" =>
       obs[i] \in Content /\ receipt.body.obs[i] \in {"error", obs[i]}
  /\ Kind[i] = "text_contains" => obs[i] = "matched"
  /\ Kind[i] = "command" => i \in mode.allowed \cap Absolute /\ obs[i] = "zero"

Judging == rpc \in {"verify", "result"}

EvalInv ==
  /\ \A i \in good : i < item
  /\ \A i \in rerun : i < item \/ (i = item /\ looking # "no")
  /\ looking # "no" => item \in Item /\ Kind[item] = "path_exists"
  /\ rpc = "build" => \A i \in Item : i < item => i \in DOMAIN obs
  /\ \A i \in rerun : i < item => i \in DOMAIN obs
  /\ Judging => receipt # None /\ \A i \in rerun \cap good : RerunGood(i)
  /\ rpc \in {"idle", "result"} => looking = "no"

OriginalInv == receipt # None /\ original.overall => \A i \in Item : StoredOk(original, i)

ReceiptInv == ReceiptTypeOK /\ EvalInv /\ OriginalInv

LEMMA BodyIs ==
  ASSUME NEW b
  PROVE  b \in Body => /\ b.obs \in [Item -> Seen] /\ b.overall \in BOOLEAN
                       /\ b.context \in Context \cup {None}
  BY DEF Body

LEMMA ItemFacts ==
  /\ Items \in Nat /\ Items >= 1 /\ \A i \in Item : i \in Nat /\ i >= 1 /\ i <= Items
  /\ \A i \in Item : Kind[i] \in Kinds /\ (Kind[i] # "command" => Of[i] \in Path)
  /\ "error" \notin Content /\ None \notin Seen
  BY ReceiptAssumption DEF Item, Seen, Mark

LEMMA OutcomeType ==
  ASSUME tree \in Tree, NEW i \in Item, NEW o \in Outcome(i)
  PROVE  /\ o \in Seen
         /\ Kind[i] = "file_hash" => o \in Content \cup {"error"} /\ (o # "error" => o = tree[Of[i]])
         /\ Kind[i] # "path_exists"
  <1>1. Kind[i] \in {"file_hash", "path_exists", "text_contains", "command"}
    BY ItemFacts DEF Kinds
  <1>2. CASE Kind[i] = "command"
    BY <1>2 DEF Outcome, Seen, Mark, Exit
  <1>3. CASE Kind[i] = "file_hash"
    <2>1. o = IF tree[Of[i]] = Absent THEN "error" ELSE tree[Of[i]]
      BY <1>3 DEF Outcome
    <2>2. tree[Of[i]] \in Content \cup {Absent}
      BY <1>3, ItemFacts DEF Tree
    <2> QED
      BY <1>3, <2>1, <2>2 DEF Seen, Mark
  <1>4. CASE Kind[i] = "text_contains"
    BY <1>4 DEF Outcome, Seen, Mark
  <1>5. CASE Kind[i] = "path_exists"
    BY <1>5 DEF Outcome
  <1> QED
    BY <1>1, <1>2, <1>3, <1>4, <1>5

LEMMA RecordFacts ==
  ASSUME ReceiptTypeOK, NEW i \in Item, NEW o \in Seen, NEW ok, Record(i, o, ok)
  PROVE  /\ DOMAIN obs' = DOMAIN obs \cup {i} /\ obs' \in [DOMAIN obs' -> Seen]
         /\ obs'[i] = o /\ \A j \in DOMAIN obs : j # i => obs'[j] = obs[j]
         /\ good' \subseteq good \cup {i} /\ (i \in good' => ok \/ i \in good)
         /\ good' \subseteq Item /\ item' = i + 1 /\ item' \in 1..Items + 1
  <1>1. obs \in [DOMAIN obs -> Seen] /\ good \subseteq Item
    BY DEF ReceiptTypeOK
  <1>2. obs' = [j \in DOMAIN obs \cup {i} |-> IF j = i THEN o ELSE obs[j]]
    BY DEF Record
  <1>3. /\ DOMAIN obs' = DOMAIN obs \cup {i} /\ obs' \in [DOMAIN obs' -> Seen]
        /\ obs'[i] = o /\ \A j \in DOMAIN obs : j # i => obs'[j] = obs[j]
    BY <1>1, <1>2
  <1>4. good' = IF ok THEN good \cup {i} ELSE good
    BY DEF Record
  <1>5. item' = i + 1
    BY DEF Record
  <1> QED
    BY <1>1, <1>3, <1>4, <1>5, ItemFacts

(* A step of a call that leaves the receipt alone. *)
Inner == UNCHANGED <<rpc, mode, receipt, bound, original>>

LEMMA InnerOriginal ==
  ASSUME OriginalInv, original' = original, receipt # None \/ receipt' = None
  PROVE  OriginalInv'
  BY DEF OriginalInv, StoredOk, Good

(* An item is evaluated.                                                   *)
LEMMA RecordStep ==
  ASSUME ReceiptInv, Inner, rpc \in {"build", "verify"}, NEW k \in Item, item = k,
         NEW o \in Seen, NEW ok, Record(k, o, ok),
         looking' = "no", rerun' \in {rerun, rerun \cup {k}},
         rpc = "verify" /\ ok /\ k \in rerun' => RerunGood(k)'
  PROVE  ReceiptInv'
  <1>1. ReceiptTypeOK /\ EvalInv /\ OriginalInv /\ item \in Nat
    BY ItemFacts DEF ReceiptInv
  <1>2. UNCHANGED <<rpc, mode, receipt, bound, original>>
    BY DEF Inner
  <1>3. /\ DOMAIN obs' = DOMAIN obs \cup {item} /\ obs' \in [DOMAIN obs' -> Seen]
        /\ obs'[item] = o /\ \A j \in DOMAIN obs : j # item => obs'[j] = obs[j]
        /\ good' \subseteq good \cup {item} /\ (item \in good' => ok \/ item \in good)
        /\ good' \subseteq Item /\ item' = item + 1 /\ item' \in 1..Items + 1
    <2>1. /\ DOMAIN obs' = DOMAIN obs \cup {k} /\ obs' \in [DOMAIN obs' -> Seen]
          /\ obs'[k] = o /\ \A j \in DOMAIN obs : j # k => obs'[j] = obs[j]
          /\ good' \subseteq good \cup {k} /\ (k \in good' => ok \/ k \in good)
          /\ good' \subseteq Item /\ item' = k + 1 /\ item' \in 1..Items + 1
      BY <1>1, RecordFacts
    <2> QED
      BY <2>1
  <1>4. ReceiptTypeOK'
    BY <1>1, <1>2, <1>3 DEF ReceiptTypeOK
  <1>5. item \notin good
    BY <1>1 DEF EvalInv
  <1>6. \A i \in Item : i < item' => i < item \/ i = item
    BY <1>3, ItemFacts
  <1>7. \A i \in good' : i < item'
    BY <1>1, <1>3, ItemFacts DEF EvalInv, ReceiptTypeOK
  <1>8. rerun \subseteq Item /\ \A i \in rerun' : i < item'
    BY <1>1, <1>3, ItemFacts DEF EvalInv, ReceiptTypeOK
  <1>9. /\ rpc = "build" => \A i \in Item : i < item' => i \in DOMAIN obs'
        /\ \A i \in rerun' : i < item' => i \in DOMAIN obs'
    BY <1>1, <1>3, <1>6, <1>8 DEF EvalInv
  <1>10. ASSUME rpc = "verify", NEW i \in rerun' \cap good' PROVE RerunGood(i)'
    <2>1. CASE i = item
      <3>1. rpc = "verify" /\ ok /\ k \in rerun'
        BY <1>3, <1>5, <1>10, <2>1
      <3> QED
        BY <2>1, <3>1
    <2>2. CASE i # item
      <3>1. i \in rerun \cap good /\ i \in DOMAIN obs
        BY <1>1, <1>3, <1>10, <2>2 DEF EvalInv
      <3>2. RerunGood(i)
        BY <1>1, <1>10, <3>1 DEF EvalInv, Judging
      <3> QED
        BY <1>2, <1>3, <2>2, <3>1, <3>2 DEF RerunGood
    <2> QED
      BY <2>1, <2>2
  <1>11. EvalInv'
    BY <1>1, <1>2, <1>7, <1>8, <1>9, <1>10 DEF EvalInv, Judging
  <1> QED
    BY <1>1, <1>2, <1>4, <1>11, InnerOriginal DEF ReceiptInv

(* The first of the three looks of a path_exists item found something.     *)
LEMMA LookingStep ==
  ASSUME ReceiptInv, Inner, UNCHANGED <<item, obs, good>>,
         rpc \in {"build", "verify"}, item \in Item, Kind[item] = "path_exists",
         looking' \in {"exists", "bad", "good"}, rerun' \in {rerun, rerun \cup {item}}
  PROVE  ReceiptInv'
  <1>1. ReceiptTypeOK /\ EvalInv /\ OriginalInv
    BY DEF ReceiptInv
  <1>2. UNCHANGED <<rpc, mode, receipt, bound, original>>
    BY DEF Inner
  <1>3. ReceiptTypeOK'
    BY <1>1, <1>2 DEF ReceiptTypeOK
  <1>4. item \notin good /\ item \in Nat
    BY <1>1, ItemFacts DEF EvalInv
  <1>5. EvalInv'
    <2>1. \A i \in rerun' : i < item \/ i = item
      BY <1>1 DEF EvalInv
    <2>2. \A i \in rerun' : i < item => i \in DOMAIN obs
      BY <1>1, <1>4 DEF EvalInv
    <2>3. Judging => receipt # None /\ \A i \in rerun' \cap good : RerunGood(i)'
      BY <1>1, <1>2, <1>4 DEF EvalInv, RerunGood, Judging
    <2> QED
      BY <1>1, <1>2, <2>1, <2>2, <2>3 DEF EvalInv, Judging
  <1> QED
    BY <1>1, <1>2, <1>3, <1>5, InnerOriginal DEF ReceiptInv

(* A recheck that goes well: the file has the hash the receipt records,    *)
(* the text is there, the allowed command exited with zero.                *)
LEMMA RecheckGood ==
  ASSUME receipt \in Receipt, receipt' = receipt, mode' = mode, NEW k \in Item,
         tree \in Tree, NEW o \in Outcome(k), obs'[k] = o, Good(k, o, Want(k)), Rechecked(k)
  PROVE  RerunGood(k)'
  <1>1. receipt.body.obs[k] \in Seen
    BY BodyIs DEF Receipt
  <1>2. CASE Kind[k] = "file_hash"
    <2>1. o \in Content \cup {"error"}
      BY <1>2, OutcomeType
    <2>2. o # "error" /\ (Want(k) = None \/ o = Want(k))
      BY <1>2 DEF Good
    <2>3. receipt.body.obs[k] # "error" => Want(k) = receipt.body.obs[k] /\ Want(k) # None
      BY <1>1, <1>2, ItemFacts DEF Want
    <2> QED
      BY <1>2, <2>1, <2>2, <2>3 DEF RerunGood
  <1>3. CASE Kind[k] = "text_contains"
    BY <1>3 DEF RerunGood, Good
  <1>4. CASE Kind[k] = "command"
    BY <1>4 DEF RerunGood, Good, Want, Rechecked
  <1>5. CASE Kind[k] = "path_exists"
    BY <1>5 DEF RerunGood
  <1> QED
    BY <1>2, <1>3, <1>4, <1>5, ItemFacts DEF Kinds

LEMMA EvaluateStep ==
  ASSUME ReceiptInv, Inner, tree \in Tree, rpc \in {"build", "verify"},
         NEW k \in Item, item = k, looking = "no", NEW want, Evaluate(k, want),
         rerun' \in {rerun, rerun \cup {k}},
         rpc = "verify" => want = Want(k) /\ Rechecked(k)
  PROVE  ReceiptInv'
  <1>1. ASSUME NEW o \in Outcome(k), Record(k, o, Good(k, o, want)), UNCHANGED looking
        PROVE  ReceiptInv'
    <2>1. o \in Seen
      BY OutcomeType
    <2>2. obs'[k] = o
      BY <1>1, <2>1, RecordFacts DEF ReceiptInv
    <2>3. rpc = "verify" => receipt \in Receipt /\ receipt' = receipt /\ mode' = mode
      BY DEF ReceiptInv, EvalInv, Judging, ReceiptTypeOK, Inner
    <2>4. rpc = "verify" /\ Good(k, o, want) => RerunGood(k)'
      BY <2>2, <2>3, RecheckGood
    <2> QED
      BY <1>1, <2>1, <2>4, RecordStep
  <1>2. ASSUME Kind[k] = "path_exists", Record(k, "missing", FALSE), UNCHANGED looking
        PROVE  ReceiptInv'
    <2>1. "missing" \in Seen
      BY DEF Seen, Mark
    <2> QED
      BY <1>2, <2>1, RecordStep
  <1>3. ASSUME Kind[k] = "path_exists", looking' = "exists", UNCHANGED <<item, obs, good>>
        PROVE  ReceiptInv'
    BY <1>3, LookingStep
  <1> QED
    BY <1>1, <1>2, <1>3 DEF Evaluate

LEMMA CollectStep ==
  ASSUME ReceiptInv, tree \in Tree, Collect
  PROVE  ReceiptInv'
  <1>1. PICK k \in Item : item = k
    BY DEF Collect, Pending
  <1> QED
    BY <1>1, EvaluateStep DEF Collect, Pending, Inner

LEMMA RecheckStep ==
  ASSUME ReceiptInv, tree \in Tree, Recheck
  PROVE  ReceiptInv'
  <1>1. PICK k \in Item : item = k
    BY DEF Recheck, Pending
  <1> QED
    BY <1>1, EvaluateStep DEF Recheck, Pending, Inner

LEMMA IsFileStep ==
  ASSUME ReceiptInv, IsFile
  PROVE  ReceiptInv'
  <1>1. rpc \in {"build", "verify"} /\ item \in Item /\ Kind[item] = "path_exists"
    BY DEF IsFile, ReceiptInv, EvalInv, ReceiptTypeOK
  <1>2. Inner /\ UNCHANGED <<item, obs, good>> /\ rerun' = rerun
        /\ looking' \in {"exists", "bad", "good"}
    BY DEF IsFile, Inner
  <1> QED
    BY <1>1, <1>2, LookingStep

LEMMA ObserveFileStep ==
  ASSUME ReceiptInv, ObserveFile
  PROVE  ReceiptInv'
  <1>1. rpc \in {"build", "verify"} /\ item \in Item /\ Kind[item] = "path_exists"
    BY DEF ObserveFile, ReceiptInv, EvalInv, ReceiptTypeOK
  <1>2. PICK k \in Item : item = k
    BY <1>1
  <1>3. RerunGood(k)'
    BY <1>1, <1>2 DEF RerunGood
  <1>4. {"other", "file"} \subseteq Seen
    BY DEF Seen, Mark
  <1>5. PICK o \in {"other", "file"} : Record(k, o, looking = "good")
    BY <1>2 DEF ObserveFile
  <1>6. Inner /\ looking' = "no" /\ rerun' = rerun
    BY DEF ObserveFile, Inner
  <1>7. o \in Seen
    BY <1>4, <1>5
  <1>8. ASSUME NEW ok, Record(k, o, ok) PROVE ReceiptInv'
    BY <1>1, <1>2, <1>3, <1>6, <1>7, <1>8, RecordStep
  <1> QED
    BY <1>5, <1>8

LEMMA BelieveStep ==
  ASSUME ReceiptInv, Believe
  PROVE  ReceiptInv'
  <1>1. ReceiptTypeOK /\ EvalInv /\ OriginalInv /\ item \in Item /\ looking = "no"
        /\ rpc = "verify" /\ item \in Nat /\ item' = item + 1
    BY ItemFacts DEF ReceiptInv, Believe, Pending
  <1>2. UNCHANGED <<rpc, looking, obs, rerun, mode, receipt, bound, original>>
        /\ good' \in {good, good \cup {item}}
    BY DEF Believe
  <1>3. item' \in 1..Items + 1
    BY <1>1, ItemFacts DEF Item
  <1>4. ReceiptTypeOK'
    BY <1>1, <1>2, <1>3 DEF ReceiptTypeOK
  <1>5. good \subseteq Item /\ rerun \subseteq Item /\ \A i \in good' \cup rerun' : i < item'
    BY <1>1, <1>2, ItemFacts DEF ReceiptTypeOK, EvalInv
  <1>6. \A i \in rerun : i < item /\ i # item
    BY <1>1, <1>5, ItemFacts DEF EvalInv
  <1>7. \A i \in rerun' : i \in DOMAIN obs'
    BY <1>1, <1>2, <1>6 DEF EvalInv
  <1>8. Judging' => receipt' # None /\ \A i \in rerun' \cap good' : RerunGood(i)'
    BY <1>1, <1>2, <1>6 DEF EvalInv, RerunGood, Judging
  <1>9. EvalInv'
    BY <1>1, <1>2, <1>5, <1>7, <1>8 DEF EvalInv
  <1> QED
    BY <1>1, <1>2, <1>4, <1>9, InnerOriginal DEF ReceiptInv

LEMMA JudgeStep ==
  ASSUME ReceiptInv, Judge
  PROVE  ReceiptInv'
  <1>1. ReceiptTypeOK /\ EvalInv /\ OriginalInv /\ rpc = "verify" /\ rpc' = "result"
        /\ looking = "no"
        /\ UNCHANGED <<item, looking, obs, good, rerun, mode, receipt, bound, original>>
    BY DEF ReceiptInv, Judge, AllSeen, evaluation
  <1>2. ReceiptTypeOK' /\ EvalInv'
    BY <1>1 DEF ReceiptTypeOK, EvalInv, RerunGood, Judging
  <1> QED
    BY <1>1, <1>2, InnerOriginal DEF ReceiptInv

(* A call begins, or has ended, and has observed nothing. *)
LEMMA FromTheFirstStep ==
  ASSUME FromTheFirst, OriginalInv', Judging' => receipt' # None,
         rpc' \in {"idle", "build", "verify", "result"}, mode' \in Mode,
         receipt' \in Receipt \cup {None}, bound' \in Context \cup {None},
         original' \in Body \cup {None}
  PROVE  ReceiptInv'
  <1>1. item' = 1 /\ looking' = "no" /\ DOMAIN obs' = {} /\ obs' \in [{} -> Seen]
        /\ good' = {} /\ rerun' = {}
    BY DEF FromTheFirst, Unseen
  <1>2. ReceiptTypeOK'
    BY <1>1, ItemFacts DEF ReceiptTypeOK
  <1>3. EvalInv'
    <2>1. \A i \in Item : ~(i < 1)
      BY ItemFacts
    <2> QED
      BY <1>1, <2>1 DEF EvalInv
  <1> QED
    BY <1>2, <1>3 DEF ReceiptInv

LEMMA NoModeType == NoMode \in Mode
  BY DEF NoMode, Mode, Minimum

LEMMA SealStep ==
  ASSUME ReceiptInv, Seal
  PROVE  ReceiptInv'
  <1>1. ReceiptTypeOK /\ EvalInv /\ OriginalInv /\ FromTheFirst /\ rpc' = "idle" /\ bound' = None
        /\ mode' = mode /\ rpc = "build" /\ item \notin Item
    BY DEF ReceiptInv, Seal, AllSeen
  <1>2. CASE UNCHANGED <<receipt, original>>
    <2>1. OriginalInv'
      BY <1>1, <1>2, InnerOriginal
    <2> QED
      BY <1>1, <1>2, <2>1, FromTheFirstStep DEF ReceiptTypeOK, Judging
  <1>3. CASE Consistent /\ receipt' = Sealed /\ original' = Sealed.body
    <2> DEFINE b == [obs |-> obs, overall |-> good = Item, context |-> bound]
    <2>1. \A i \in Item : i < item
      BY <1>1, ItemFacts DEF ReceiptTypeOK, Item
    <2>2. DOMAIN obs = Item /\ obs \in [Item -> Seen]
      BY <1>1, <2>1 DEF EvalInv, ReceiptTypeOK
    <2>3. b \in Body /\ b.obs = obs /\ b.overall = (good = Item)
      BY <1>1, <2>2 DEF Body, ReceiptTypeOK
    <2>4. original' = b /\ receipt' = [body |-> b, digest |-> b, signed |-> {}]
      BY <1>3 DEF Sealed
    <2> HIDE DEF b
    <2>5. receipt' \in Receipt
      BY <2>3, <2>4 DEF Receipt
    <2>6. OriginalInv'
      <3>1. ASSUME b.overall, NEW i \in Item PROVE Good(i, b.obs[i], Expect[i])
        BY <1>3, <2>3, <3>1 DEF Consistent
      <3> QED
        BY <2>4, <3>1 DEF OriginalInv, StoredOk, Good
    <2> QED
      BY <1>1, <2>3, <2>4, <2>5, <2>6, FromTheFirstStep DEF ReceiptTypeOK, Judging
  <1> QED
    BY <1>2, <1>3 DEF Seal

LEMMA EndVerifyStep ==
  ASSUME ReceiptInv, EndVerify
  PROVE  ReceiptInv'
  <1>1. OriginalInv'
    BY InnerOriginal DEF ReceiptInv, EndVerify
  <1> QED
    BY <1>1, FromTheFirstStep, NoModeType DEF ReceiptInv, ReceiptTypeOK, EndVerify, Judging

LEMMA BeginBuildStep ==
  ASSUME ReceiptInv, NEW c \in Context \cup {None}, BeginBuild(c)
  PROVE  ReceiptInv'
  <1>1. OriginalInv'
    BY InnerOriginal DEF ReceiptInv, BeginBuild
  <1> QED
    BY <1>1, FromTheFirstStep DEF ReceiptInv, ReceiptTypeOK, BeginBuild, Judging

LEMMA BeginVerifyStep ==
  ASSUME ReceiptInv, NEW m \in Mode, BeginVerify(m)
  PROVE  ReceiptInv'
  <1>1. OriginalInv'
    BY InnerOriginal DEF ReceiptInv, BeginVerify
  <1> QED
    BY <1>1, FromTheFirstStep DEF ReceiptInv, ReceiptTypeOK, BeginVerify, Judging

(* The receipt file is replaced between two calls. *)
LEMMA NewFileStep ==
  ASSUME ReceiptInv, rpc = "idle", receipt # None, receipt' \in Receipt,
         UNCHANGED <<rpc, evaluation, mode, bound, original>>
  PROVE  ReceiptInv'
  <1>1. UNCHANGED <<rpc, item, looking, obs, good, rerun, mode, bound, original>>
    BY DEF evaluation
  <1>2. ReceiptTypeOK' /\ EvalInv'
    BY <1>1 DEF ReceiptInv, ReceiptTypeOK, EvalInv, Judging
  <1>3. OriginalInv'
    BY InnerOriginal DEF ReceiptInv
  <1> QED
    BY <1>2, <1>3 DEF ReceiptInv

LEMMA SignStep ==
  ASSUME ReceiptInv, Sign
  PROVE  ReceiptInv'
  <1>1. receipt \in Receipt /\ receipt.digest \in Body
    BY DEF ReceiptInv, ReceiptTypeOK, Sign, Receipt
  <1>2. receipt' \in Receipt
    BY <1>1 DEF Sign, Receipt
  <1> QED
    BY <1>2, NewFileStep DEF Sign

LEMMA AlteredType ==
  ASSUME NEW b \in Body, NEW i \in Item, NEW o \in Seen, NEW redo \in BOOLEAN
  PROVE  Altered(b, i, o, redo) \in Body
  <1> DEFINE c == [b EXCEPT !.obs[i] = o]
  <1>1. c \in Body
    BY DEF Body
  <1>2. Altered(b, i, o, redo) =
          IF redo THEN [c EXCEPT !.overall = \A j \in Item : StoredOk(c, j)] ELSE c
    BY DEF Altered
  <1> HIDE DEF c
  <1> DEFINE all == \A j \in Item : StoredOk(c, j)
  <1>3. all \in BOOLEAN
    OBVIOUS
  <1> HIDE DEF all
  <1>4. [c EXCEPT !.overall = all] \in Body
    BY <1>1, <1>3 DEF Body
  <1> QED
    BY <1>1, <1>2, <1>4 DEF all

LEMMA AlterStep ==
  ASSUME ReceiptInv, Alter
  PROVE  ReceiptInv'
  <1>1. PICK i \in Item : \E p \in Plausible(i), r \in BOOLEAN, h \in BOOLEAN :
          receipt' = [receipt EXCEPT !.body = Altered(receipt.body, i, p, r),
                                     !.digest = IF h THEN Altered(receipt.body, i, p, r) ELSE @]
    BY DEF Alter
  <1>2. PICK o \in Plausible(i), redo \in BOOLEAN, rehash \in BOOLEAN :
          receipt' = [receipt EXCEPT !.body = Altered(receipt.body, i, o, redo),
                                     !.digest = IF rehash THEN Altered(receipt.body, i, o, redo)
                                                ELSE @]
    BY <1>1
  <1>3. receipt \in Receipt /\ receipt.body \in Body /\ receipt.digest \in Body
    BY DEF ReceiptInv, ReceiptTypeOK, Alter, Receipt
  <1>4. o \in Seen
    BY ItemFacts DEF Plausible, Kinds, Seen, Mark, Exit
  <1>5. Altered(receipt.body, i, o, redo) \in Body
    BY <1>3, <1>4, AlteredType
  <1>6. receipt' \in Receipt
    BY <1>2, <1>3, <1>5 DEF Receipt
  <1> QED
    BY <1>6, NewFileStep DEF Alter

LEMMA ReceiptStays ==
  ASSUME ReceiptInv, UNCHANGED receiptVars
  PROVE  ReceiptInv'
  <1>1. UNCHANGED <<rpc, item, looking, obs, good, rerun, mode, receipt, bound, original>>
    BY DEF receiptVars, evaluation
  <1>2. ReceiptTypeOK' /\ EvalInv'
    BY <1>1 DEF ReceiptInv, ReceiptTypeOK, EvalInv, RerunGood, Judging
  <1>3. OriginalInv'
    BY <1>1, InnerOriginal DEF ReceiptInv
  <1> QED
    BY <1>2, <1>3 DEF ReceiptInv

LEMMA ReceiptStepStep ==
  ASSUME ReceiptInv, tree \in Tree, ReceiptStep
  PROVE  ReceiptInv'
  BY IsFileStep, ObserveFileStep, CollectStep, SealStep, RecheckStep, BelieveStep, JudgeStep,
     EndVerifyStep
  DEF ReceiptStep

-----------------------------------------------------------------------------
(* The commands.  While a manifest is verified nothing is judged; an       *)
(* undisturbed verify has seen the tree as it is; and as long as its       *)
(* answer stands, so does every hash that was computed again.              *)
Recent == \A i \in rerun \cap good : Kind[i] = "file_hash" => obs[i] = tree[Of[i]]

FlowTypeOK ==
  /\ edits \in 0..MaxEdits
  /\ cmd \in {"idle", "create", "check"}
  /\ {stored, printed, confirmed} \subseteq Manifest \cup {None}
  /\ calm \subseteq {"manifest", "receipt", "check"}

FlowInv ==
  /\ FlowTypeOK
  /\ cmd # "idle" => rpc = "idle"
  /\ cmd = "check" /\ "check" \in calm => \A d \in DOMAIN listed : listed[d] = tree
  /\ confirmed # None => confirmed = Outputs(tree)
  /\ confirmed # None /\ Judging => Recent

IInv == ScanInv /\ ReceiptInv /\ FlowInv

LEMMA OutputsType ==
  ASSUME NEW t \in Tree
  PROVE  Outputs(t) \in Manifest
  <1> DEFINE F == {g \in Path \ Control : t[g] # Absent}
  <1>1. \A f \in F : t[f] \in Content
    BY DEF Tree
  <1>2. Outputs(t) = [f \in F |-> t[f]]
    BY DEF Outputs
  <1> HIDE DEF F
  <1>3. DOMAIN Outputs(t) = F /\ Outputs(t) \in [F -> Content]
    BY <1>1, <1>2
  <1>4. F \subseteq Path \ Control
    BY DEF F
  <1> QED
    BY <1>3, <1>4, ManifestType

(* A manifest that agrees with a tree on every file is what it lists. *)
LEMMA AgreesIsOutputs ==
  ASSUME NEW m \in Manifest, NEW t \in Tree, AgreesOn(m, t, Path)
  PROVE  m = Outputs(t)
  <1> DEFINE F == {g \in Path \ Control : t[g] # Absent}
  <1>1. m \in [DOMAIN m -> Content] /\ DOMAIN m \subseteq Path \ Control
    BY ManifestType
  <1>2. DOMAIN m = F /\ \A f \in F : m[f] = t[f]
    BY <1>1 DEF AgreesOn
  <1>3. Outputs(t) = [f \in F |-> t[f]]
    BY DEF Outputs
  <1> HIDE DEF F
  <1> QED
    BY <1>1, <1>2, <1>3

(* No manifest lists a control file. *)
LEMMA ControlUnseen ==
  ASSUME NEW t \in Tree, NEW u \in Tree, \A f \in Path \ Control : t[f] = u[f]
  PROVE  Outputs(t) = Outputs(u)
  <1>1. DOMAIN Outputs(t) = {g \in Path \ Control : t[g] # Absent}
        /\ \A f \in DOMAIN Outputs(t) : Outputs(t)[f] = t[f]
    BY DEF Outputs
  <1>2. AgreesOn(Outputs(t), u, Path)
    BY <1>1 DEF AgreesOn
  <1> QED
    BY <1>2, OutputsType, AgreesIsOutputs

LEMMA PutOutputStep ==
  ASSUME tree \in Tree, PutOutput
  PROVE  tree' \in Tree /\ Outputs(tree') = Outputs(tree)
  <1>1. Written \in Content /\ Output \in Control /\ Output \in Path
    BY WorkspaceAssumption, AgentAssumption DEF Written
  <1>2. tree' \in Tree /\ \A f \in Path \ Control : tree'[f] = tree[f]
    BY <1>1 DEF PutOutput, Tree
  <1> QED
    BY <1>2, ControlUnseen

-----------------------------------------------------------------------------
(* A hash that is computed again is that of the file as it is. *)
LEMMA RecentStep ==
  ASSUME ReceiptInv, tree \in Tree, ReceiptStep, tree' = tree, Judging => Recent
  PROVE  Judging' => Recent'
  <1>1. ReceiptTypeOK /\ EvalInv
    BY DEF ReceiptInv
  <1>2. CASE Collect \/ Seal \/ EndVerify
    BY <1>2 DEF Collect, Seal, EndVerify, Judging
  <1>3. CASE IsFile \/ Judge
    <2>1. Judging' => Judging
      BY <1>3 DEF IsFile, Judge, Judging
    <2>2. UNCHANGED <<rerun, good, obs>>
      BY <1>3 DEF IsFile, Judge, evaluation
    <2> QED
      BY <2>1, <2>2 DEF Recent
  <1>4. CASE Believe
    <2>1. Judging /\ looking = "no" /\ item \in Item
      BY <1>4 DEF Believe, Judging, Pending
    <2>2. rerun' = rerun /\ obs' = obs /\ good' \subseteq good \cup {item}
      BY <1>4 DEF Believe
    <2>3. item \notin rerun
      BY <1>1, <2>1, ItemFacts DEF EvalInv
    <2> QED
      BY <2>1, <2>2, <2>3 DEF Recent
  <1>5. ASSUME NEW k \in Item, item = k, NEW o \in Seen, NEW ok, Record(k, o, ok), Judging,
               rerun' \in {rerun, rerun \cup {k}},
               Kind[k] = "file_hash" /\ ok => o = tree[Of[k]]
        PROVE  Recent'
    <2>1. /\ DOMAIN obs' = DOMAIN obs \cup {k} /\ obs' \in [DOMAIN obs' -> Seen]
          /\ obs'[k] = o /\ \A j \in DOMAIN obs : j # k => obs'[j] = obs[j]
          /\ good' \subseteq good \cup {k} /\ (k \in good' => ok \/ k \in good)
          /\ good' \subseteq Item /\ item' = k + 1 /\ item' \in 1..Items + 1
      BY <1>1, <1>5, RecordFacts
    <2>2. k \notin good
      BY <1>1, <1>5, ItemFacts DEF EvalInv
    <2>3. ASSUME NEW i \in rerun' \cap good', Kind[i] = "file_hash" PROVE obs'[i] = tree[Of[i]]
      <3>1. CASE i = k
        BY <1>5, <2>1, <2>2, <2>3, <3>1
      <3>2. CASE i # k
        <4>1. i \in rerun \cap good /\ i \in DOMAIN obs
          BY <1>1, <1>5, <2>1, <2>3, <3>2 DEF EvalInv
        <4> QED
          BY <1>5, <2>1, <2>3, <3>2, <4>1 DEF Recent
      <3> QED
        BY <3>1, <3>2
    <2> QED
      BY <2>3 DEF Recent
  <1>6. CASE ObserveFile
    <2>1. item \in Item /\ Kind[item] = "path_exists" /\ rpc' = rpc /\ rerun' = rerun
      BY <1>1, <1>6 DEF ObserveFile, EvalInv
    <2>2. PICK k \in Item : item = k
      BY <2>1
    <2>3. PICK o \in {"other", "file"} : Record(k, o, looking = "good")
      BY <1>6, <2>2 DEF ObserveFile
    <2>4. o \in Seen
      BY <2>3 DEF Seen, Mark
    <2>5. ASSUME NEW ok, Record(k, o, ok), Judging PROVE Recent'
      BY <1>5, <2>1, <2>2, <2>4, <2>5
    <2> QED
      BY <2>1, <2>3, <2>5 DEF Judging
  <1>7. CASE Recheck
    <2>1. Judging /\ item \in Item /\ looking = "no"
      BY <1>7 DEF Recheck, Judging, Pending
    <2>2. PICK k \in Item : item = k
      BY <2>1
    <2>3. Evaluate(k, Want(k)) /\ rerun' = rerun \cup {k}
      BY <1>7, <2>2 DEF Recheck
    <2>4. ASSUME NEW o \in Outcome(k), Record(k, o, Good(k, o, Want(k))) PROVE Recent'
      <3>1. o \in Seen
        BY OutcomeType
      <3>2. Kind[k] = "file_hash" /\ Good(k, o, Want(k)) => o = tree[Of[k]]
        BY OutcomeType DEF Good
      <3> QED
        BY <1>5, <2>1, <2>2, <2>3, <2>4, <3>1, <3>2
    <2>5. ASSUME Kind[k] = "path_exists", Record(k, "missing", FALSE) PROVE Recent'
      <3>1. "missing" \in Seen
        BY DEF Seen, Mark
      <3> QED
        BY <1>5, <2>1, <2>2, <2>3, <2>5, <3>1
    <2>6. ASSUME Kind[k] = "path_exists", UNCHANGED <<obs, good>> PROVE Recent'
      BY <2>1, <2>3, <2>6 DEF Recent
    <2> QED
      BY <2>3, <2>4, <2>5, <2>6 DEF Evaluate
  <1> QED
    BY <1>2, <1>3, <1>4, <1>6, <1>7 DEF ReceiptStep

(* What a scan has seen so far is the tree, if nothing disturbs it. *)
LEMMA ListedStep ==
  ASSUME ScanInv, ScanStep, tree' = tree, \A d \in DOMAIN listed : listed[d] = tree
  PROVE  \A d \in DOMAIN listed' : listed'[d] = tree'
  <1>1. CASE listed' = listed
    BY <1>1
  <1>2. CASE listed' = NoTree
    BY <1>2, NothingType
  <1>3. CASE listed' = [d \in DOMAIN listed \cup {Top} |-> IF d = Top THEN tree ELSE listed[d]]
    BY <1>3
  <1> QED
    BY <1>1, <1>2, <1>3
    DEF ScanStep, Look, Hash, Descend, EndListing, CheckFile, LeaveDirectory, EndWalk, Fail,
        StartWalk, history

LEMMA FoundIsTree ==
  ASSUME ScanInv, spc = "done", \A d \in DOMAIN listed : listed[d] = tree
  PROVE  found = Outputs(tree)
  <1>1. DOMAIN listed = Dir /\ found \in Manifest /\ tree \in Tree
    BY DEF ScanInv, ScanTypeOK
  <1>2. \A d \in Dir : AgreesOn(found, tree, In(d) \cap Path)
    BY <1>1 DEF ScanInv, DirectoryIsSnapshot
  <1>3. AgreesOn(found, tree, Path)
    <2>1. ASSUME NEW f \in Path \ Control
          PROVE  /\ f \in DOMAIN found <=> tree[f] # Absent
                 /\ f \in DOMAIN found => found[f] = tree[f]
      <3>1. Parent[f] \in Dir /\ f \in In(Parent[f]) \cap Path
        BY Places, InIs
      <3> QED
        BY <1>2, <3>1 DEF AgreesOn
    <2> QED
      BY <2>1 DEF AgreesOn
  <1> QED
    BY <1>1, <1>3, AgreesIsOutputs

-----------------------------------------------------------------------------
LEMMA BeginStep ==
  ASSUME IInv, Create \/ Check
  PROVE  IInv'
  <1>1. /\ BeginScan /\ tree' = tree /\ UNCHANGED receiptVars /\ rpc = "idle"
        /\ UNCHANGED <<edits, stored, printed, confirmed>> /\ cmd' \in {"create", "check"}
        /\ calm' \subseteq calm \cup {"manifest", "check"}
    BY DEF Create, Check, Idle
  <1>2. ScanInv' /\ ReceiptInv'
    BY <1>1, BeginScanStep, ReceiptStays DEF IInv
  <1>3. DOMAIN listed' = {} /\ rpc' = "idle"
    BY <1>1, NothingType DEF BeginScan, StartWalk, receiptVars
  <1>4. FlowInv'
    BY <1>1, <1>3 DEF IInv, FlowInv, FlowTypeOK, Judging
  <1> QED
    BY <1>2, <1>4 DEF IInv

(* A manifest command ends, having changed no output. *)
LEMMA EndStep ==
  ASSUME IInv, cmd # "idle", EndScan, UNCHANGED receiptVars, cmd' = "idle",
         calm' \subseteq calm, edits' \in 0..MaxEdits,
         tree' \in Tree, Outputs(tree') = Outputs(tree),
         {stored', printed'} \subseteq Manifest \cup {None},
         confirmed' \in {confirmed, None} \/ confirmed' = Outputs(tree)
  PROVE  IInv'
  <1>1. ScanInv' /\ ReceiptInv'
    BY EndScanStep, ReceiptStays DEF IInv
  <1>2. rpc' = "idle"
    BY DEF IInv, FlowInv, receiptVars
  <1>3. tree \in Tree /\ Outputs(tree) \in Manifest
    BY OutputsType DEF IInv, ScanInv
  <1>4. FlowInv'
    BY <1>2, <1>3 DEF IInv, FlowInv, FlowTypeOK, Judging
  <1> QED
    BY <1>1, <1>4 DEF IInv

LEMMA FlowTypes ==
  ASSUME IInv
  PROVE  /\ tree \in Tree /\ found \in Manifest /\ edits \in 0..MaxEdits /\ MaxEdits \in Nat
         /\ stored \in Manifest \cup {None} /\ printed \in Manifest \cup {None}
         /\ calm \subseteq {"manifest", "receipt", "check"}
         /\ printed \in Context \cup {None}
  BY WorkspaceAssumption, AgentAssumption DEF IInv, ScanInv, ScanTypeOK, FlowInv, FlowTypeOK

LEMMA ScanFailsStep ==
  ASSUME IInv, ScanFails
  PROVE  IInv'
  BY FlowTypes, EndStep DEF ScanFails

LEMMA SaveStep ==
  ASSUME IInv, Save
  PROVE  IInv'
  <1>1. PutOutput /\ tree' \in Tree /\ Outputs(tree') = Outputs(tree) /\ stored' = found
    BY FlowTypes, PutOutputStep DEF Save, PutOutput
  <1>2. cmd # "idle" /\ EndScan /\ UNCHANGED receiptVars /\ cmd' = "idle" /\ calm' = calm
        /\ edits' = edits /\ printed' = found /\ confirmed' = confirmed
    BY DEF Save
  <1> QED
    BY <1>1, <1>2, FlowTypes, EndStep

LEMMA SaveFailsStep ==
  ASSUME IInv, SaveFails
  PROVE  IInv'
  <1>1. tree' \in Tree /\ Outputs(tree') = Outputs(tree) /\ stored' \in {stored, found}
    <2>1. CASE UNCHANGED <<tree, stored>>
      BY <2>1, FlowTypes
    <2>2. CASE PutOutput
      BY <2>2, FlowTypes, PutOutputStep DEF PutOutput
    <2> QED
      BY <2>1, <2>2 DEF SaveFails
  <1>2. cmd # "idle" /\ EndScan /\ UNCHANGED receiptVars /\ cmd' = "idle" /\ calm' \subseteq calm
        /\ printed' = printed /\ confirmed' = confirmed
    BY DEF SaveFails
  <1>3. edits' \in 0..MaxEdits
    BY FlowTypes DEF SaveFails
  <1> QED
    BY <1>1, <1>2, <1>3, FlowTypes, EndStep

LEMMA ChangeType ==
  ASSUME IInv, NEW f \in Path, NEW v \in Content \cup {Absent}, Change(f, v)
  PROVE  tree' \in Tree /\ edits' \in 0..MaxEdits
  BY FlowTypes DEF Change, Tree

LEMMA SaveDiesStep ==
  ASSUME IInv, SaveDies
  PROVE  IInv'
  <1>1. Written \in Content /\ Stray \in Path
    BY WorkspaceAssumption, AgentAssumption DEF Written
  <1>2. tree' \in Tree /\ edits' \in 0..MaxEdits
    BY <1>1, ChangeType DEF SaveDies
  <1>3. EndScan /\ UNCHANGED <<receiptVars, stored, printed>> /\ cmd' = "idle"
        /\ calm' = {} /\ confirmed' = None
    BY DEF SaveDies
  <1>4. ScanInv' /\ ReceiptInv'
    BY <1>2, <1>3, EndScanStep, ReceiptStays DEF IInv
  <1>5. FlowInv'
    BY <1>2, <1>3 DEF IInv, FlowInv, FlowTypeOK
  <1> QED
    BY <1>4, <1>5 DEF IInv

LEMMA CheckedStep ==
  ASSUME IInv, Checked
  PROVE  IInv'
  <1>1. confirmed' \in {None} \/ confirmed' = Outputs(tree)
    <2>1. CASE Exact /\ "check" \in calm
      <3>1. \A d \in DOMAIN listed : listed[d] = tree
        BY <2>1 DEF Checked, IInv, FlowInv
      <3>2. found = Outputs(tree)
        BY <3>1, FoundIsTree DEF Checked, IInv
      <3> QED
        BY <2>1, <3>2 DEF Checked, Exact
    <2> QED
      BY <2>1 DEF Checked
  <1> QED
    BY <1>1, FlowTypes, EndStep DEF Checked

(* A step of a receipt command that neither writes nor judges. *)
LEMMA IdleStep ==
  ASSUME IInv, cmd = "idle", tree' = tree, edits' \in 0..MaxEdits, ReceiptInv',
         UNCHANGED <<scanVars, cmd, printed, confirmed>>,
         stored' \in Manifest \cup {None}, calm' \subseteq {"manifest", "receipt", "check"},
         Judging' => rerun' = {}
  PROVE  IInv'
  <1>1. ScanInv'
    BY ScanStays DEF IInv
  <1>2. FlowInv'
    BY DEF IInv, FlowInv, FlowTypeOK, Recent
  <1> QED
    BY <1>1, <1>2 DEF IInv

LEMMA BuildStep ==
  ASSUME IInv, Build
  PROVE  IInv'
  <1>1. ReceiptInv' /\ rpc' = "build"
    BY FlowTypes, BeginBuildStep DEF Build, BeginBuild, IInv
  <1> QED
    BY <1>1, FlowTypes, IdleStep DEF Build, Idle, Judging

LEMMA SignReceiptStep ==
  ASSUME IInv, SignReceipt
  PROVE  IInv'
  <1>1. ReceiptInv' /\ rpc' = "idle"
    BY SignStep DEF SignReceipt, Sign, IInv
  <1> QED
    BY <1>1, FlowTypes, IdleStep DEF SignReceipt, Idle, Judging, flow

LEMMA VerifyStep ==
  ASSUME IInv, Verify
  PROVE  IInv'
  <1>1. PICK m \in Modes : \E c \in {None, printed} : BeginVerify([m EXCEPT !.context = c])
    BY DEF Verify
  <1>2. PICK c \in {None, printed} : BeginVerify([m EXCEPT !.context = c])
    BY <1>1
  <1>3. m \in Mode /\ c \in Context \cup {None}
    BY FlowTypes, AgentAssumption
  <1>4. [m EXCEPT !.context = c] \in Mode
    BY <1>3 DEF Mode
  <1>5. ReceiptInv' /\ rerun' = {}
    BY <1>2, <1>4, BeginVerifyStep DEF IInv, BeginVerify, FromTheFirst
  <1> QED
    BY <1>5, FlowTypes, IdleStep DEF Verify, Idle, flow

LEMMA RunningStep ==
  ASSUME IInv, Running
  PROVE  IInv'
  <1>1. CASE ScanStep /\ UNCHANGED <<tree, edits, receiptVars, flow>>
    <2>1. ScanInv' /\ ReceiptInv'
      BY <1>1, ScanStepStep, ReceiptStays DEF IInv
    <2>2. UNCHANGED <<tree, edits, rpc, obs, good, rerun, cmd, stored, printed, confirmed, calm>>
      BY <1>1 DEF receiptVars, evaluation, flow
    <2>3. cmd = "check" /\ "check" \in calm => \A d \in DOMAIN listed' : listed'[d] = tree'
      BY <1>1, ListedStep DEF IInv, FlowInv
    <2>4. FlowInv'
      BY <2>2, <2>3 DEF IInv, FlowInv, FlowTypeOK, Judging, Recent
    <2> QED
      BY <2>1, <2>4 DEF IInv
  <1>2. CASE ReceiptStep /\ UNCHANGED <<tree, edits, scanVars, flow>>
    <2>1. ScanInv' /\ ReceiptInv'
      BY <1>2, ScanStays, ReceiptStepStep DEF IInv, ScanInv
    <2>2. UNCHANGED <<tree, edits, listed, cmd, stored, printed, confirmed, calm>>
      BY <1>2 DEF scanVars, history, flow
    <2>3. confirmed # None /\ Judging' => Recent'
      BY <1>2, <2>2, RecentStep DEF IInv, FlowInv, ScanInv
    <2>4. rpc # "idle"
      <3>1. ReceiptInv /\ EvalInv
        BY DEF IInv, ReceiptInv
      <3> QED
        BY <1>2, <3>1 DEF ReceiptStep, IsFile, ObserveFile, Collect, Seal, Recheck, Believe,
                          Judge, EndVerify, EvalInv
    <2>5. FlowInv'
      BY <2>2, <2>3, <2>4 DEF IInv, FlowInv, FlowTypeOK
    <2> QED
      BY <2>1, <2>5 DEF IInv
  <1> QED
    BY <1>1, <1>2 DEF Running

LEMMA EditStep ==
  ASSUME IInv, Edit
  PROVE  IInv'
  <1>1. PICK f \in Path \ (Control \cup {Stray}), v \in Content \cup {Absent} :
          Change(f, v) /\ Disturb(f, v)
    BY DEF Edit
  <1>2. ScanInv' /\ tree' \in Tree /\ edits' \in 0..MaxEdits
    BY <1>1, WriteStep, ChangeType DEF IInv
  <1>3. UNCHANGED <<receiptVars, rpc, cmd, stored, printed>> /\ confirmed' = None /\ calm' = {}
    BY DEF Edit, receiptVars
  <1>4. ReceiptInv'
    BY <1>3, ReceiptStays DEF IInv
  <1>5. FlowInv'
    BY <1>2, <1>3 DEF IInv, FlowInv, FlowTypeOK
  <1> QED
    BY <1>2, <1>4, <1>5 DEF IInv

LEMMA AlterFileStep ==
  ASSUME IInv, AlterFile
  PROVE  IInv'
  <1>1. /\ tree' = tree /\ UNCHANGED <<scanVars, cmd, printed, confirmed>> /\ cmd = "idle"
        /\ rpc = "idle" /\ calm' \subseteq {"manifest", "receipt", "check"}
    BY FlowTypes DEF AlterFile, Idle
  <1>2. edits' \in 0..MaxEdits
    BY FlowTypes DEF AlterFile
  <1>3. ReceiptInv' /\ rpc' = "idle"
    BY <1>1, AlterStep, ReceiptStays DEF AlterFile, Alter, receiptVars, IInv
  <1>4. stored' \in Manifest \cup {None}
    BY FlowTypes, OutputsType DEF AlterFile
  <1> QED
    BY <1>1, <1>2, <1>3, <1>4, IdleStep DEF Judging

LEMMA InitInv == Init => IInv
  <1> SUFFICES ASSUME Init PROVE IInv
    OBVIOUS
  <1>1. tree \in Tree /\ edits \in 0..MaxEdits
    BY WorkspaceAssumption DEF Init, WorkspaceInit
  <1>2. ScanInv
    <2>1. found \in Manifest /\ first \in Manifest /\ DOMAIN listed = {}
      BY NothingType DEF Init, ScanIdle
    <2>2. open \in Seq(Dir) /\ had \in [Path -> SUBSET (Content \cup {Absent})]
      BY DEF Init, ScanIdle
    <2>3. ScanTypeOK
      BY <2>1, <2>2 DEF Init, ScanIdle, ScanTypeOK
    <2> QED
      BY <1>1, <2>3 DEF Init, ScanIdle, ScanInv, Scanning, DirectoryIsSnapshot, ManifestWasTree
  <1>3. ReceiptInv
    <2>1. DOMAIN obs = {} /\ obs \in [{} -> Seen]
      BY DEF Init, ReceiptIdle, Unseen
    <2>2. ReceiptTypeOK
      BY <2>1, NoModeType, ItemFacts DEF Init, ReceiptIdle, ReceiptTypeOK
    <2>3. EvalInv
      <3>1. \A i \in Item : ~(i < 1)
        BY ItemFacts
      <3> QED
        BY <2>1, <3>1 DEF Init, ReceiptIdle, EvalInv, Judging
    <2>4. OriginalInv
      BY DEF Init, ReceiptIdle, OriginalInv
    <2> QED
      BY <2>2, <2>3, <2>4 DEF ReceiptInv
  <1>4. FlowInv
    BY <1>1 DEF Init, FlowInv, FlowTypeOK
  <1> QED
    BY <1>2, <1>3, <1>4 DEF IInv

LEMMA NextInv == IInv /\ [Next]_vars => IInv'
  <1> SUFFICES ASSUME IInv, [Next]_vars PROVE IInv'
    OBVIOUS
  <1>1. CASE Next
    BY <1>1, BeginStep, ScanFailsStep, SaveStep, SaveFailsStep, SaveDiesStep, CheckedStep,
       BuildStep, SignReceiptStep, VerifyStep, RunningStep, EditStep, AlterFileStep
    DEF Next
  <1>2. CASE UNCHANGED vars
    <2>1. tree' = tree /\ edits' = edits /\ UNCHANGED <<scanVars, receiptVars, flow>>
      BY <1>2 DEF vars
    <2>2. ScanInv' /\ ReceiptInv'
      BY <2>1, ScanStays, ReceiptStays DEF IInv
    <2>3. UNCHANGED <<listed, rpc, obs, good, rerun, cmd, stored, printed, confirmed, calm>>
      BY <2>1 DEF scanVars, history, receiptVars, evaluation, flow
    <2>4. FlowInv'
      BY <2>1, <2>3 DEF IInv, FlowInv, FlowTypeOK, Judging, Recent
    <2> QED
      BY <2>2, <2>4 DEF IInv
  <1> QED
    BY <1>1, <1>2

(* The inductive invariant of the scan, the receipt and the commands.      *)
THEOREM InvHolds == Spec => []IInv
  BY InitInv, NextInv, PTL DEF Spec

(* The type invariant of the commands, for every workspace and receipt. *)
THEOREM TypeCorrect == Spec => []TypeOK
  <1>1. IInv => TypeOK
    BY DEF IInv, ScanInv, ReceiptInv, FlowInv, FlowTypeOK, TypeOK
  <1> QED
    BY <1>1, InvHolds, PTL

(* What is listed of one directory was there at one moment.                *)
THEOREM DirectoryIsSnapshotHolds == Spec => []DirectoryIsSnapshot
  <1>1. IInv => DirectoryIsSnapshot
    BY DEF IInv, ScanInv
  <1> QED
    BY <1>1, InvHolds, PTL

(* What is listed was there when the first walk had looked at everything,  *)
(* except for files of subdirectories whose content recurred.              *)
THEOREM ManifestWasTreeHolds == Spec => []ManifestWasTree
  <1>1. IInv => ManifestWasTree
    BY DEF IInv, ScanInv
  <1> QED
    BY <1>1, InvHolds, PTL

LEMMA FullIsEverything ==
  ASSUME IInv, Accepted, mode.minimum = "fully_rechecked"
  PROVE  /\ good = Item /\ rerun = Item /\ receipt \in Receipt /\ looking = "no"
         /\ \A i \in Item : RerunGood(i) /\ i \in DOMAIN obs
  <1>1. ReceiptTypeOK /\ EvalInv /\ rpc = "result" /\ good = Item
        /\ Rank[Assurance] >= Rank["fully_rechecked"]
    BY DEF IInv, ReceiptInv, Accepted
  <1>2. /\ Rank["fully_rechecked"] = 2 /\ Rank["partially_rechecked"] = 1 /\ Rank["reported"] = 0
    BY DEF Rank, Minimum
  <1>3. rerun = Item
    <2>1. CASE rerun # Item
      <3>1. Assurance \in {"partially_rechecked", "reported"}
        BY <2>1 DEF Assurance
      <3>2. Rank[Assurance] \in {0, 1}
        BY <1>2, <3>1
      <3> QED
        BY <1>1, <1>2, <3>2
    <2> QED
      BY <2>1
  <1>4. receipt \in Receipt /\ looking = "no"
    BY <1>1 DEF EvalInv, Judging, ReceiptTypeOK
  <1>5. \A i \in Item : i \in DOMAIN obs
    BY <1>1, <1>3, <1>4 DEF EvalInv
  <1>6. \A i \in Item : RerunGood(i)
    BY <1>1, <1>3 DEF EvalInv, Judging
  <1> QED
    BY <1>1, <1>3, <1>4, <1>5, <1>6

(* Full assurance means that every item was looked at again in this call,  *)
(* and was found as the receipt says.                                      *)
THEOREM AcceptedIsRerunHolds == Spec => []AcceptedIsRerun
  <1>1. IInv => AcceptedIsRerun
    BY FullIsEverything DEF AcceptedIsRerun, RerunGood
  <1> QED
    BY <1>1, InvHolds, PTL

(* A receipt of a failed item is not accepted as it was built, whatever    *)
(* the recheck says, and with a trusted key nothing unsigned is.           *)
THEOREM AcceptedWasGoodHolds == Spec => []AcceptedWasGood
  <1>1. ASSUME IInv, Accepted
        PROVE  /\ receipt.body = original => \A i \in Item : StoredOk(original, i)
               /\ mode.keys => receipt.body \in receipt.signed
    <2>1. receipt # None /\ OriginalInv
      BY <1>1 DEF IInv, ReceiptInv, EvalInv, Judging, Accepted
    <2>2. receipt.body.overall = TRUE
      BY <1>1 DEF Accepted
    <2>3. mode.keys => receipt.body \in receipt.signed
      BY <1>1 DEF Accepted, DigestOk, Authentic
    <2> QED
      BY <2>1, <2>2, <2>3 DEF OriginalInv
  <1>2. IInv => AcceptedWasGood
    BY <1>1 DEF AcceptedWasGood
  <1> QED
    BY <1>2, InvHolds, PTL

(* A worker's return that both verify commands accept is what is there.    *)
THEOREM AcceptedReturnHolds == Spec => []AcceptedReturn
  <1>1. ASSUME IInv, Accepted, mode.minimum = "fully_rechecked", mode.context # None,
               mode.context = confirmed
        PROVE  /\ Outputs(tree) = receipt.body.context
               /\ \A i \in Item : Kind[i] = "file_hash" =>
                    receipt.body.obs[i] \in {"error", tree[Of[i]]}
    <2>1. receipt.body.context = mode.context /\ Judging
      BY <1>1 DEF Accepted, Judging
    <2>2. confirmed = Outputs(tree) /\ Recent
      BY <1>1, <2>1 DEF IInv, FlowInv
    <2>3. good = Item /\ rerun = Item /\ \A i \in Item : RerunGood(i)
      BY <1>1, FullIsEverything
    <2> QED
      BY <1>1, <2>1, <2>2, <2>3 DEF Recent, RerunGood
  <1>2. IInv => AcceptedReturn
    BY <1>1 DEF AcceptedReturn
  <1> QED
    BY <1>2, InvHolds, PTL

-----------------------------------------------------------------------------
(* What a scan knows of a workspace that nobody has written to since the   *)
(* last create began.                                                      *)
WalkCalm ==
  /\ OpenDirs \cup unchecked \cup reading \subseteq fresh
  /\ \A f \in todo \cap Path : tree[f] # Absent
  /\ \A f \in DOMAIN found : found[f] = tree[f]
  /\ \A d \in DOMAIN listed : listed[d] = tree
  /\ pass = 2 => first = Outputs(tree)

ManifestCalm ==
  "manifest" \in calm =>
    /\ Scanning => WalkCalm
    /\ spc = "done" => found = Outputs(tree)
    /\ spc = "failed" => ~Fits
    /\ Fits /\ cmd # "create" => stored = Outputs(tree)

LEMMA StartCalm ==
  ASSUME NEW n \in {1, 2}, StartWalk(n), tree' = tree, n = 2 => first' = Outputs(tree)
  PROVE  Scanning' /\ WalkCalm'
  <1>1. open' = <<Root>> /\ OpenDirs' = {Root}
    BY DEF StartWalk, OpenDirs
  <1>2. DOMAIN found' = {} /\ DOMAIN listed' = {}
    BY NothingType DEF StartWalk
  <1>3. \A f \in todo' \cap Path : tree[f] # Absent
    BY DEF StartWalk, Entries
  <1> QED
    BY <1>1, <1>2, <1>3 DEF StartWalk, WalkCalm, Scanning

(* A file that is still to be hashed is in the manifest to be, which has   *)
(* more entries than what was found.                                       *)
LEMMA RoomLeft ==
  ASSUME tree \in Tree, found \in Manifest, \A g \in DOMAIN found : found[g] = tree[g],
         NEW f \in Path, tree[f] # Absent, f \notin DOMAIN found, Fits
  PROVE  HasRoom(f)
  <1> SUFFICES ASSUME f \notin Control PROVE Cardinality(DOMAIN found) < MaxFiles
    BY DEF HasRoom
  <1> DEFINE F == DOMAIN Outputs(tree)
  <1>1. F = {g \in Path \ Control : tree[g] # Absent}
    BY DEF Outputs
  <1>2. found \in [DOMAIN found -> Content] /\ DOMAIN found \subseteq Path \ Control
    BY ManifestType
  <1>3. DOMAIN found \subseteq F /\ f \in F
    BY <1>1, <1>2, WorkspaceAssumption
  <1> HIDE DEF F
  <1>4. IsFiniteSet(F) /\ Cardinality(F) \in Nat
    BY <1>1, FS_Subset, FS_CardinalityType, WorkspaceAssumption
  <1>5. /\ Cardinality(DOMAIN found) \in Nat /\ Cardinality(DOMAIN found) <= Cardinality(F)
        /\ Cardinality(DOMAIN found) # Cardinality(F)
    BY <1>3, <1>4, FS_Subset, FS_CardinalityType
  <1>6. Cardinality(F) <= MaxFiles
    BY DEF Fits, F
  <1> QED
    BY <1>4, <1>5, <1>6, ScanAssumption

LEMMA CalmLook ==
  ASSUME ScanInv, WalkCalm, Look, tree' = tree
  PROVE  (Scanning' => WalkCalm') /\ spc' # "done" /\ (spc' = "failed" => ~Fits)
  <1>1. FileInv /\ tree \in Tree /\ found \in Manifest
    BY DEF ScanInv, ScanTypeOK, Scanning, Look, WalkInv
  <1>2. PICK f \in todo \cap Path \cap In(Top) :
          IF tree[f] = Absent \/ ~HasRoom(f) THEN Fail
          ELSE /\ todo' = todo \ {f} /\ reading' = {f} /\ fresh' = fresh \cup {f}
               /\ spc' = "hash"
               /\ UNCHANGED <<pass, open, unchecked, found, first, history>>
    BY DEF Look
  <1>3. tree[f] # Absent /\ f \notin DOMAIN found
    BY <1>1 DEF WalkCalm, FileInv
  <1>4. CASE ~HasRoom(f)
    <2>1. ~Fits
      BY <1>1, <1>3, <1>4, RoomLeft DEF WalkCalm
    <2> QED
      BY <1>2, <1>4, <2>1 DEF Fail, Scanning
  <1>5. CASE HasRoom(f)
    <2>1. /\ todo' = todo \ {f} /\ reading' = {f} /\ fresh' = fresh \cup {f} /\ spc' = "hash"
          /\ UNCHANGED <<pass, open, unchecked, found, first, listed>>
      BY <1>2, <1>3, <1>5 DEF history
    <2> QED
      BY <2>1 DEF WalkCalm, OpenDirs
  <1> QED
    BY <1>4, <1>5

LEMMA CalmHash ==
  ASSUME ScanInv, WalkCalm, Hash, tree' = tree
  PROVE  WalkCalm' /\ spc' \notin {"done", "failed"}
  <1>1. PICK f \in reading :
          IF f \notin fresh THEN Fail
          ELSE /\ found' = Hashed(f) /\ unchecked' = unchecked \cup {f} /\ reading' = {}
               /\ spc' = "walk" /\ UNCHANGED <<pass, open, todo, fresh, first, history>>
    BY DEF Hash
  <1>2. /\ found' = Hashed(f) /\ unchecked' = unchecked \cup {f} /\ reading' = {}
        /\ spc' = "walk" /\ UNCHANGED <<pass, open, todo, fresh, first, listed>>
    BY <1>1 DEF WalkCalm, history
  <1>3. \A g \in DOMAIN found' : found'[g] = tree[g]
    BY <1>2 DEF Hashed, WalkCalm
  <1> QED
    BY <1>2, <1>3 DEF WalkCalm, OpenDirs

LEMMA CalmDescend ==
  ASSUME ScanInv, WalkCalm, Descend, tree' = tree
  PROVE  WalkCalm' /\ spc' \notin {"done", "failed"}
  <1>1. PICK d \in todo \cap Dir \cap In(Top) :
          /\ open' = Append(open, d)
          /\ todo' = (todo \ {d}) \cup Entries(d)
          /\ fresh' = fresh \cup {d}
    BY DEF Descend
  <1>2. spc' = "walk" /\ UNCHANGED <<pass, first, reading, unchecked, found, listed>>
    BY DEF Descend, observed, history
  <1>3. OpenDirs' \subseteq OpenDirs \cup {d}
    <2>1. open \in Seq(Dir) /\ d \in Dir
      BY DEF ScanInv, ScanTypeOK
    <2>2. /\ Len(open') = Len(open) + 1 /\ open'[Len(open) + 1] = d
          /\ \A i \in 1..Len(open) : open'[i] = open[i]
      BY <1>1, <2>1
    <2>3. \A i \in 1..Len(open') : i \in 1..Len(open) \/ i = Len(open) + 1
      BY <2>1, <2>2
    <2> QED
      BY <2>2, <2>3 DEF OpenDirs
  <1>4. \A f \in todo' \cap Path : tree[f] # Absent
    BY <1>1 DEF WalkCalm, Entries
  <1> QED
    BY <1>1, <1>2, <1>3, <1>4 DEF WalkCalm

LEMMA CalmEndListing ==
  ASSUME ScanInv, WalkCalm, EndListing, tree' = tree
  PROVE  WalkCalm' /\ spc' \notin {"done", "failed"}
  <1>1. /\ listed' = [d \in DOMAIN listed \cup {Top} |-> IF d = Top THEN tree ELSE listed[d]]
        /\ spc' = "check" /\ UNCHANGED <<pass, open, todo, fresh, first, reading, unchecked, found>>
    BY DEF EndListing, observed
  <1>2. \A d \in DOMAIN listed' : listed'[d] = tree
    BY <1>1 DEF WalkCalm
  <1> QED
    BY <1>1, <1>2 DEF WalkCalm, OpenDirs

LEMMA CalmCheckFile ==
  ASSUME ScanInv, WalkCalm, CheckFile, tree' = tree
  PROVE  WalkCalm' /\ spc' \notin {"done", "failed"}
  <1>1. PICK f \in unchecked : IF ~Same(f) THEN Fail
          ELSE /\ unchecked' = unchecked \ {f}
               /\ UNCHANGED <<spc, pass, open, todo, reading, fresh, found, first, history>>
    BY DEF CheckFile
  <1>2. /\ unchecked' = unchecked \ {f} /\ spc = "check"
        /\ UNCHANGED <<spc, pass, open, todo, reading, fresh, found, first, listed>>
    BY <1>1 DEF WalkCalm, Same, CheckFile, history
  <1> QED
    BY <1>2 DEF WalkCalm, OpenDirs

LEMMA CalmLeave ==
  ASSUME ScanInv, WalkCalm, LeaveDirectory, tree' = tree
  PROVE  WalkCalm' /\ spc' \notin {"done", "failed"}
  <1>1. ScanTypeOK /\ StackInv
    BY DEF ScanInv, Scanning, LeaveDirectory, WalkInv
  <1>2. Same(Top)
    BY <1>1, TopOpen DEF WalkCalm, Same
  <1>3. /\ open' = SubSeq(open, 1, Len(open) - 1) /\ spc' = "walk"
        /\ UNCHANGED <<pass, todo, fresh, first, reading, unchecked, found, listed>>
    BY <1>2 DEF LeaveDirectory, observed, history
  <1>4. OpenDirs' \subseteq OpenDirs
    <2>1. open \in Seq(Dir) /\ Len(open) > 1
      BY <1>1 DEF ScanTypeOK, LeaveDirectory
    <2>2. Len(open') = Len(open) - 1 /\ \A i \in 1..Len(open) - 1 : open'[i] = open[i]
      BY <1>3, <2>1
    <2>3. \A i \in 1..Len(open') : i \in 1..Len(open)
      BY <2>1, <2>2
    <2> QED
      BY <2>2, <2>3 DEF OpenDirs
  <1> QED
    BY <1>3, <1>4 DEF WalkCalm

(* A walk that ends has found the tree, and so has the walk before it.     *)
LEMMA CalmEndWalk ==
  ASSUME ScanInv, WalkCalm, EndWalk, tree' = tree
  PROVE  /\ Scanning' => WalkCalm'
         /\ spc' = "done" => found' = Outputs(tree)
         /\ spc' # "failed"
  <1>1. /\ ScanTypeOK /\ WalkInv /\ StackInv /\ tree \in Tree /\ found \in Manifest
        /\ spc = "check" /\ unchecked \cap In(Top) = {} /\ Len(open) = 1
    BY DEF ScanInv, ScanTypeOK, Scanning, EndWalk, WalkInv
  <1>2. Root \in fresh /\ Same(Root)
    BY <1>1, TopOpen DEF WalkCalm, Same
  <1>3. found = Outputs(tree)
    <2>1. DOMAIN listed = Dir /\ \A d \in Dir : AgreesOn(found, listed[d], In(d) \cap Path)
      BY <1>1, <1>2, EndAgrees
    <2>2. \A d \in Dir : AgreesOn(found, tree, In(d) \cap Path)
      BY <2>1 DEF WalkCalm
    <2>3. AgreesOn(found, tree, Path)
      <3> SUFFICES ASSUME NEW f \in Path \ Control
                   PROVE  /\ f \in DOMAIN found <=> tree[f] # Absent
                          /\ f \in DOMAIN found => found[f] = tree[f]
        BY DEF AgreesOn
      <3>1. Parent[f] \in Dir /\ f \in In(Parent[f]) \cap Path
        BY Places, InIs
      <3> QED
        BY <2>2, <3>1 DEF AgreesOn
    <2> QED
      BY <1>1, <2>3, AgreesIsOutputs
  <1>4. CASE pass = 1
    <2>1. StartWalk(2) /\ first' = found
      BY <1>2, <1>4 DEF EndWalk
    <2>2. spc' = "walk"
      BY <2>1 DEF StartWalk
    <2> QED
      BY <1>3, <2>1, <2>2, StartCalm
  <1>5. CASE pass = 2
    <2>1. Agrees
      BY <1>3, <1>5 DEF WalkCalm, Agrees
    <2>2. spc' = "done" /\ found' = found
      BY <1>2, <1>5, <2>1 DEF EndWalk, observed
    <2> QED
      BY <1>3, <2>2 DEF Scanning
  <1> QED
    BY <1>1, <1>4, <1>5 DEF ScanTypeOK

LEMMA CalmScan ==
  ASSUME ScanInv, WalkCalm, ScanStep, tree' = tree
  PROVE  /\ Scanning' => WalkCalm'
         /\ spc' = "done" => found' = Outputs(tree)
         /\ spc' = "failed" => ~Fits
  BY CalmLook, CalmHash, CalmDescend, CalmEndListing, CalmCheckFile, CalmLeave, CalmEndWalk
  DEF ScanStep

(* A step that touches neither the workspace nor the manifest.             *)
LEMMA ManifestStays ==
  ASSUME ManifestCalm, UNCHANGED <<tree, scanVars, cmd, stored>>,
         "manifest" \in calm' => "manifest" \in calm
  PROVE  ManifestCalm'
  <1>1. UNCHANGED <<spc, pass, open, todo, fresh, first, reading, unchecked, found, listed>>
    BY DEF scanVars, observed, history
  <1>2. WalkCalm => WalkCalm'
    BY <1>1 DEF WalkCalm, OpenDirs
  <1> QED
    BY <1>1, <1>2 DEF ManifestCalm, Scanning, Fits

LEMMA ManifestNext == IInv /\ ManifestCalm /\ [Next]_vars => ManifestCalm'
  <1> SUFFICES ASSUME IInv, ManifestCalm, [Next]_vars, "manifest" \in calm'
               PROVE  ManifestCalm'
    BY DEF ManifestCalm
  <1>1. CASE Create \/ Check
    <2>1. BeginScan /\ tree' = tree /\ StartWalk(1)
      BY <1>1 DEF Create, Check, BeginScan
    <2>2. Scanning' /\ WalkCalm' /\ spc' = "walk"
      BY <2>1, StartCalm DEF StartWalk
    <2>3. Fits' /\ cmd' # "create" => stored' = Outputs(tree)'
      BY <1>1, <2>1 DEF Create, Check, Idle, ManifestCalm, Fits
    <2> QED
      BY <2>2, <2>3 DEF ManifestCalm
  <1>2. CASE ScanFails \/ Checked
    <2>1. spc' = "idle" /\ cmd # "idle" /\ tree' = tree /\ stored' = stored /\ "manifest" \in calm
      BY <1>2 DEF ScanFails, Checked, EndScan
    <2>2. Fits => stored = Outputs(tree)
      BY <1>2, <2>1 DEF ManifestCalm, ScanFails, Checked
    <2> QED
      BY <2>1, <2>2 DEF ManifestCalm, Scanning, Fits
  <1>3. CASE Save
    <2>1. spc' = "idle" /\ calm' = calm /\ stored' = found /\ found = Outputs(tree)
      BY <1>3 DEF Save, EndScan, PutOutput, ManifestCalm
    <2>2. Outputs(tree') = Outputs(tree)
      BY <1>3, FlowTypes, PutOutputStep DEF Save
    <2> QED
      BY <2>1, <2>2 DEF ManifestCalm, Scanning
  <1>4. CASE SaveFails \/ SaveDies \/ Edit
    BY <1>4 DEF SaveFails, SaveDies, Edit
  <1>5. CASE Build \/ SignReceipt \/ Verify
    BY <1>5, ManifestStays DEF Build, SignReceipt, Verify, flow
  <1>6. CASE Running
    <2>1. UNCHANGED <<tree, cmd, stored, calm>>
      BY <1>6 DEF Running, flow
    <2>2. CASE ScanStep
      <3>1. Scanning /\ WalkCalm
        BY <2>1, <2>2 DEF ScanStep, Look, Hash, Descend, EndListing, CheckFile, LeaveDirectory,
                          EndWalk, Scanning, ManifestCalm
      <3> QED
        BY <2>1, <2>2, <3>1, CalmScan DEF ManifestCalm, IInv, Fits
    <2>3. CASE UNCHANGED scanVars
      BY <2>1, <2>3, ManifestStays
    <2> QED
      BY <1>6, <2>2, <2>3 DEF Running
  <1>7. CASE AlterFile
    <2>1. UNCHANGED <<tree, scanVars, cmd, stored>> /\ "manifest" \in calm
      BY <1>7 DEF AlterFile
    <2> QED
      BY <2>1, ManifestStays
  <1>8. CASE UNCHANGED vars
    BY <1>8, ManifestStays DEF vars, flow
  <1> QED
    BY <1>1, <1>2, <1>3, <1>4, <1>5, <1>6, <1>7, <1>8 DEF Next

-----------------------------------------------------------------------------
(* What a receipt says of a workspace that nobody has written to since its *)
(* build began: what was observed is there to be observed again.           *)
Sees(i, o) ==
  /\ Kind[i] = "file_hash" => o = IF tree[Of[i]] = Absent THEN "error" ELSE tree[Of[i]]
  /\ Kind[i] = "text_contains" => (o = "matched" => tree[Of[i]] \in Matching)
  /\ Kind[i] = "path_exists" => o = IF tree[Of[i]] = Absent THEN "missing" ELSE "file"

Holds(i) ==
  /\ Kind[i] = "file_hash" => tree[Of[i]] \in Content /\ tree[Of[i]] = receipt.body.obs[i]
  /\ Kind[i] = "text_contains" => tree[Of[i]] \in Matching
  /\ Kind[i] = "path_exists" => tree[Of[i]] # Absent

(* What HonestIsAccepted asks of the arguments and of the receipt.         *)
Asked ==
  /\ mode.recheck /\ mode.commands
  /\ \A i \in Item : Kind[i] = "command" => i \in mode.allowed \cap Absolute
  /\ \A i \in Item : StoredOk(receipt.body, i)

BuildCalm ==
  \A i \in Item : i < item =>
    Sees(i, obs[i]) /\ (i \in good <=> Good(i, obs[i], Expect[i]))

SealedCalm ==
  /\ receipt.digest = receipt.body
  /\ receipt.body.overall = \A i \in Item : StoredOk(receipt.body, i)
  /\ \A i \in Item : StoredOk(receipt.body, i) => Holds(i)

JudgeCalm ==
  \A i \in Item : i < item =>
    i \in rerun /\ (i \in good \/ (Kind[i] = "command" /\ obs[i] # "zero"))

ReceiptCalm ==
  "receipt" \in calm =>
    /\ looking # "no" => looking # "bad" /\ tree[Of[item]] # Absent
    /\ rpc = "build" => BuildCalm
    /\ rpc # "build" => SealedCalm
    /\ Judging /\ Asked => JudgeCalm

(* Whatever was written: the manifest file is written by create only, and  *)
(* an item that is looked at is one that is run again.                     *)
PlaceInv ==
  /\ tree[Output] \in {Absent, Written}
  /\ rpc = "result" => item \notin Item
  /\ rpc = "verify" /\ looking # "no" => item \in rerun

LEMMA PlaceInit == Init => PlaceInv
  BY AgentAssumption DEF Init, WorkspaceInit, ReceiptIdle, PlaceInv

LEMMA PlaceNext == IInv /\ PlaceInv /\ [Next]_vars => PlaceInv'
  <1> SUFFICES ASSUME IInv, PlaceInv, [Next]_vars PROVE PlaceInv'
    OBVIOUS
  <1>1. tree'[Output] \in {Absent, Written}
    <2>1. tree \in Tree /\ Output \in Path \ {Stray} /\ Output \in Control
      BY FlowTypes, WorkspaceAssumption, AgentAssumption
    <2>2. CASE tree' = tree
      BY <2>2 DEF PlaceInv
    <2>3. CASE PutOutput
      BY <2>1, <2>3 DEF PutOutput, Tree
    <2>4. CASE Edit \/ SaveDies
      BY <2>1, <2>4 DEF Edit, SaveDies, Change, Tree, PlaceInv
    <2> QED
      BY <2>2, <2>3, <2>4 DEF Next, vars, Create, ScanFails, Save, SaveFails, Check, Checked, Build,
                       SignReceipt, Verify, Running, AlterFile
  <1>2. /\ rpc' = "result" => item' \notin Item
        /\ rpc' = "verify" /\ looking' # "no" => item' \in rerun'
    <2>1. CASE UNCHANGED receiptVars
      BY <2>1 DEF receiptVars, evaluation, PlaceInv
    <2>2. CASE BeginBuild(None) \/ BeginBuild(printed) \/ Sign \/ Alter
      BY <2>2 DEF BeginBuild, Sign, Alter
    <2>3. CASE \E m \in Modes, c \in {None, printed} : BeginVerify([m EXCEPT !.context = c])
      BY <2>3 DEF BeginVerify, FromTheFirst
    <2>4. CASE Collect \/ Seal \/ EndVerify
      BY <2>4 DEF Collect, Seal, EndVerify
    <2>5. CASE IsFile \/ ObserveFile
      BY <2>5 DEF IsFile, ObserveFile, PlaceInv, IInv, ReceiptInv, EvalInv
    <2>6. CASE Recheck
      BY <2>6 DEF Recheck, Pending, Evaluate, Record
    <2>7. CASE Believe
      BY <2>7 DEF Believe, Pending
    <2>8. CASE Judge
      BY <2>8 DEF Judge, AllSeen, evaluation
    <2>9. Running => UNCHANGED receiptVars \/ ReceiptStep
      BY DEF Running
    <2>10. ReceiptStep => /\ rpc' = "result" => item' \notin Item
                          /\ rpc' = "verify" /\ looking' # "no" => item' \in rerun'
      BY <2>4, <2>5, <2>6, <2>7, <2>8 DEF ReceiptStep
    <2>11. CASE Create \/ ScanFails \/ Save \/ SaveFails \/ SaveDies \/ Check \/ Checked \/ Edit
                \/ UNCHANGED vars
      BY <2>1, <2>11 DEF Create, ScanFails, Save, SaveFails, SaveDies, Check, Checked, Edit, vars
    <2>12. CASE Build \/ SignReceipt \/ Verify \/ AlterFile
      BY <2>1, <2>2, <2>3, <2>12 DEF Build, SignReceipt, Verify, AlterFile
    <2> QED
      BY <2>1, <2>9, <2>10, <2>11, <2>12 DEF Next
  <1> QED
    BY <1>1, <1>2 DEF PlaceInv

(* What a sealed receipt says does not depend on the call.                 *)
LEMMA SealedStays ==
  ASSUME SealedCalm, UNCHANGED <<tree, receipt>>
  PROVE  SealedCalm'
  BY DEF SealedCalm, Holds, StoredOk, Good

LEMMA AskedStays ==
  ASSUME UNCHANGED <<mode, receipt>>
  PROVE  Asked' = Asked
  BY DEF Asked, StoredOk, Good

(* Item k is evaluated. *)
LEMMA CalmRecord ==
  ASSUME ReceiptInv, ReceiptCalm, calm' = calm, Inner, tree' = tree, rpc \in {"build", "verify"},
         NEW k \in Item, item = k, NEW o \in Seen, NEW ok \in BOOLEAN, Record(k, o, ok),
         looking' = "no", rerun' \in {rerun, rerun \cup {k}},
         "receipt" \in calm =>
           /\ rpc = "build" => Sees(k, o) /\ (ok <=> Good(k, o, Expect[k]))
           /\ rpc = "verify" /\ Asked =>
                k \in rerun' /\ (ok \/ (Kind[k] = "command" /\ o # "zero"))
  PROVE  ReceiptCalm'
  <1> SUFFICES ASSUME "receipt" \in calm PROVE ReceiptCalm'
    BY DEF ReceiptCalm
  <1>1. ReceiptTypeOK /\ EvalInv /\ UNCHANGED <<rpc, mode, receipt, tree, calm>>
    BY DEF ReceiptInv, Inner
  <1>2. /\ obs'[k] = o /\ \A j \in DOMAIN obs : j # k => obs'[j] = obs[j]
        /\ item' = k + 1
    BY <1>1, RecordFacts
  <1>3. good' = (IF ok THEN good \cup {k} ELSE good) /\ k \notin good /\ k \in Nat
    BY <1>1, ItemFacts DEF Record, EvalInv
  <1>4. \A i \in Item : i < item' => i = k \/ (i < item /\ i # k)
    BY <1>2, ItemFacts
  <1>5. ASSUME rpc = "build" PROVE BuildCalm'
    <2> SUFFICES ASSUME NEW i \in Item, i < item'
                 PROVE  Sees(i, obs[i])' /\ (i \in good' <=> Good(i, obs'[i], Expect[i]))
      BY DEF BuildCalm, Good
    <2>1. CASE i = k
      BY <1>1, <1>2, <1>3, <1>5, <2>1 DEF Sees
    <2>2. CASE i < item /\ i # k
      <3>1. obs'[i] = obs[i] /\ (i \in good' <=> i \in good)
        BY <1>1, <1>2, <1>3, <1>5, <2>2 DEF EvalInv
      <3>2. Sees(i, obs[i]) /\ (i \in good <=> Good(i, obs[i], Expect[i]))
        BY <1>5, <2>2 DEF ReceiptCalm, BuildCalm
      <3> QED
        BY <1>1, <3>1, <3>2 DEF Sees
    <2> QED
      BY <1>4, <2>1, <2>2
  <1>6. ASSUME rpc = "verify", Asked PROVE JudgeCalm'
    <2> SUFFICES ASSUME NEW i \in Item, i < item'
                 PROVE  i \in rerun' /\ (i \in good' \/ (Kind[i] = "command" /\ obs'[i] # "zero"))
      BY DEF JudgeCalm
    <2>1. CASE i = k
      BY <1>2, <1>3, <1>6, <2>1
    <2>2. CASE i < item /\ i # k
      <3>1. i \in rerun /\ (i \in good \/ (Kind[i] = "command" /\ obs[i] # "zero"))
        BY <1>6, <2>2 DEF ReceiptCalm, JudgeCalm, Judging
      <3>2. obs'[i] = obs[i]
        BY <1>1, <1>2, <2>2, <3>1 DEF EvalInv
      <3> QED
        BY <1>3, <3>1, <3>2
    <2> QED
      BY <1>4, <2>1, <2>2
  <1>7. rpc = "verify" => SealedCalm'
    BY <1>1, SealedStays DEF ReceiptCalm
  <1> QED
    BY <1>1, <1>5, <1>6, <1>7, AskedStays DEF ReceiptCalm, Judging

(* The looks at the path of an item go on: it is there.                    *)
LEMMA CalmLooking ==
  ASSUME ReceiptInv, ReceiptCalm, calm' = calm, Inner, tree' = tree, UNCHANGED <<item, obs, good>>,
         rpc \in {"build", "verify"}, rerun \subseteq rerun',
         "receipt" \in calm => looking' # "bad" /\ tree[Of[item]] # Absent
  PROVE  ReceiptCalm'
  <1> SUFFICES ASSUME "receipt" \in calm PROVE ReceiptCalm'
    BY DEF ReceiptCalm
  <1>1. UNCHANGED <<rpc, mode, receipt, tree, calm>>
    BY DEF Inner
  <1>2. rpc = "build" => BuildCalm'
    BY <1>1 DEF ReceiptCalm, BuildCalm, Sees, Good
  <1>3. rpc = "verify" => SealedCalm'
    BY <1>1, SealedStays DEF ReceiptCalm
  <1>4. rpc = "verify" /\ Asked => JudgeCalm'
    BY DEF ReceiptCalm, JudgeCalm, Judging
  <1> QED
    BY <1>1, <1>2, <1>3, <1>4, AskedStays DEF ReceiptCalm, Judging

(* What a look at an item finds.                                           *)
LEMMA OutcomeSees ==
  ASSUME NEW k \in Item, NEW o \in Outcome(k)
  PROVE  Sees(k, o) /\ Kind[k] # "path_exists"
  <1>1. CASE Kind[k] = "command"
    BY <1>1 DEF Sees
  <1>2. CASE Kind[k] = "file_hash"
    BY <1>2 DEF Sees, Outcome
  <1>3. CASE Kind[k] = "text_contains"
    BY <1>3, ReceiptAssumption DEF Sees, Outcome
  <1>4. CASE Kind[k] = "path_exists"
    BY <1>4 DEF Outcome
  <1> QED
    BY <1>1, <1>2, <1>3, <1>4, ItemFacts DEF Kinds

(* A recheck finds what was there when the receipt was built.              *)
LEMMA OutcomeHolds ==
  ASSUME receipt \in Receipt, NEW k \in Item, StoredOk(receipt.body, k), Holds(k),
         NEW o \in Outcome(k)
  PROVE  Good(k, o, Want(k)) \/ (Kind[k] = "command" /\ o # "zero")
  <1>1. CASE Kind[k] = "command"
    BY <1>1 DEF Good, Want
  <1>2. CASE Kind[k] = "file_hash"
    <2>1. tree[Of[k]] # Absent /\ o = tree[Of[k]] /\ o # "error"
      BY <1>2, WorkspaceAssumption, ItemFacts DEF Holds, Outcome
    <2>2. Want(k) = o
      BY <1>2, <2>1 DEF Holds, Want
    <2> QED
      BY <1>2, <2>1, <2>2 DEF Good
  <1>3. CASE Kind[k] = "text_contains"
    <2>1. tree[Of[k]] \in Matching /\ tree[Of[k]] # Absent
      BY <1>3, WorkspaceAssumption, ReceiptAssumption DEF Holds
    <2> QED
      BY <1>3, <2>1 DEF Good, Outcome
  <1>4. CASE Kind[k] = "path_exists"
    BY <1>4, OutcomeSees
  <1> QED
    BY <1>1, <1>2, <1>3, <1>4, ItemFacts DEF Kinds

LEMMA GoodIsBoolean == \A i, o, want : Good(i, o, want) \in BOOLEAN
  BY DEF Good

LEMMA CalmCollect ==
  ASSUME IInv, ReceiptCalm, Collect, UNCHANGED <<tree, calm>>
  PROVE  ReceiptCalm'
  <1>1. PICK k \in Item : item = k
    BY DEF Collect, Pending
  <1>2. /\ ReceiptInv /\ Inner /\ rpc = "build" /\ looking = "no" /\ rerun' = rerun
        /\ Evaluate(k, Expect[k])
    BY <1>1 DEF IInv, Collect, Pending, Inner
  <1>3. ASSUME NEW o \in Outcome(k), Record(k, o, Good(k, o, Expect[k])), UNCHANGED looking
        PROVE  ReceiptCalm'
    <2>1. o \in Seen /\ Sees(k, o)
      BY FlowTypes, OutcomeType, OutcomeSees
    <2> QED
      BY <1>1, <1>2, <1>3, <2>1, CalmRecord, GoodIsBoolean
  <1>4. ASSUME Kind[k] = "path_exists", tree[Of[k]] = Absent, Record(k, "missing", FALSE),
               UNCHANGED looking
        PROVE  ReceiptCalm'
    <2>1. "missing" \in Seen /\ Sees(k, "missing") /\ ~Good(k, "missing", Expect[k])
      BY <1>4 DEF Seen, Mark, Sees, Good
    <2> QED
      BY <1>1, <1>2, <1>4, <2>1, CalmRecord
  <1>5. ASSUME tree[Of[k]] # Absent, looking' = "exists", UNCHANGED <<item, obs, good>>
        PROVE  ReceiptCalm'
    BY <1>1, <1>2, <1>5, CalmLooking
  <1> QED
    BY <1>2, <1>3, <1>4, <1>5 DEF Evaluate

LEMMA CalmRecheck ==
  ASSUME IInv, ReceiptCalm, Recheck, UNCHANGED <<tree, calm>>
  PROVE  ReceiptCalm'
  <1>1. PICK k \in Item : item = k
    BY DEF Recheck, Pending
  <1>2. /\ ReceiptInv /\ Inner /\ rpc = "verify" /\ looking = "no" /\ rerun' = rerun \cup {k}
        /\ Evaluate(k, Want(k)) /\ receipt \in Receipt
    BY <1>1 DEF IInv, Recheck, Pending, Inner, ReceiptInv, EvalInv, ReceiptTypeOK, Judging
  <1>3. "receipt" \in calm /\ Asked => StoredOk(receipt.body, k) /\ Holds(k)
    BY <1>2 DEF ReceiptCalm, SealedCalm, Asked
  <1>4. ASSUME NEW o \in Outcome(k), Record(k, o, Good(k, o, Want(k))), UNCHANGED looking
        PROVE  ReceiptCalm'
    <2>1. o \in Seen
      BY FlowTypes, OutcomeType
    <2>2. "receipt" \in calm /\ Asked =>
            Good(k, o, Want(k)) \/ (Kind[k] = "command" /\ o # "zero")
      BY <1>2, <1>3, OutcomeHolds
    <2> QED
      BY <1>1, <1>2, <1>4, <2>1, <2>2, CalmRecord, GoodIsBoolean
  <1>5. ASSUME Kind[k] = "path_exists", tree[Of[k]] = Absent, Record(k, "missing", FALSE),
               UNCHANGED looking
        PROVE  ReceiptCalm'
    <2>1. "missing" \in Seen /\ ~("receipt" \in calm /\ Asked)
      BY <1>3, <1>5 DEF Seen, Mark, Holds
    <2> QED
      BY <1>1, <1>2, <1>5, <2>1, CalmRecord
  <1>6. ASSUME tree[Of[k]] # Absent, looking' = "exists", UNCHANGED <<item, obs, good>>
        PROVE  ReceiptCalm'
    BY <1>1, <1>2, <1>6, CalmLooking
  <1> QED
    BY <1>2, <1>4, <1>5, <1>6 DEF Evaluate

LEMMA CalmIsFile ==
  ASSUME IInv, ReceiptCalm, IsFile, UNCHANGED <<tree, calm>>
  PROVE  ReceiptCalm'
  <1>1. /\ ReceiptInv /\ Inner /\ rpc \in {"build", "verify"} /\ UNCHANGED <<item, obs, good, rerun>>
    BY DEF IInv, IsFile, Inner, ReceiptInv, EvalInv, ReceiptTypeOK
  <1>2. "receipt" \in calm => tree[Of[item]] # Absent /\ looking' = "good"
    BY DEF IsFile, ReceiptCalm
  <1> QED
    BY <1>1, <1>2, CalmLooking

LEMMA CalmObserveFile ==
  ASSUME IInv, PlaceInv, ReceiptCalm, ObserveFile, UNCHANGED <<tree, calm>>
  PROVE  ReceiptCalm'
  <1> SUFFICES ASSUME "receipt" \in calm PROVE ReceiptCalm'
    BY DEF ReceiptCalm
  <1>1. /\ ReceiptInv /\ Inner /\ rpc \in {"build", "verify"} /\ rerun' = rerun /\ looking' = "no"
        /\ item \in Item /\ Kind[item] = "path_exists"
    BY DEF IInv, ObserveFile, Inner, ReceiptInv, EvalInv, ReceiptTypeOK
  <1>2. PICK k \in Item : item = k
    BY <1>1
  <1>3. tree[Of[k]] # Absent /\ looking = "good"
    BY <1>2 DEF ObserveFile, ReceiptCalm
  <1>4. Record(k, "file", TRUE)
    BY <1>2, <1>3 DEF ObserveFile
  <1>5. "file" \in Seen /\ Sees(k, "file") /\ Good(k, "file", Expect[k])
    BY <1>1, <1>2, <1>3 DEF Seen, Mark, Sees, Good
  <1>6. rpc = "verify" => k \in rerun'
    BY <1>1, <1>2, <1>3 DEF PlaceInv
  <1> QED
    BY <1>1, <1>2, <1>4, <1>5, <1>6, CalmRecord

LEMMA CalmBelieve ==
  ASSUME IInv, ReceiptCalm, Believe, UNCHANGED <<tree, calm>>
  PROVE  ReceiptCalm'
  <1>1. /\ item \in Item /\ rpc = "verify" /\ looking = "no" /\ ~Rechecked(item)
        /\ UNCHANGED <<rpc, looking, mode, receipt>>
    BY DEF Believe, Pending
  <1>2. ~Asked
    BY <1>1 DEF Asked, Rechecked
  <1>3. ~Asked' /\ ("receipt" \in calm => SealedCalm')
    BY <1>1, <1>2, AskedStays, SealedStays DEF ReceiptCalm
  <1> QED
    BY <1>1, <1>3 DEF ReceiptCalm

(* Undisturbed looks agree, so the receipt is sealed, with the verdict     *)
(* that follows from its observations.                                     *)
LEMMA CalmSeal ==
  ASSUME IInv, ReceiptCalm, Seal, UNCHANGED <<tree, calm>>
  PROVE  ReceiptCalm'
  <1> SUFFICES ASSUME "receipt" \in calm PROVE ReceiptCalm'
    BY DEF ReceiptCalm
  <1> DEFINE b == [obs |-> obs, overall |-> good = Item, context |-> bound]
  <1>1. /\ ReceiptTypeOK /\ rpc = "build" /\ rpc' = "idle" /\ looking' = "no"
        /\ item \notin Item /\ BuildCalm
    BY DEF IInv, ReceiptInv, Seal, AllSeen, FromTheFirst, ReceiptCalm
  <1>2. \A i \in Item : i < item
    BY <1>1, ItemFacts DEF ReceiptTypeOK, Item
  <1>3. \A i \in Item : Sees(i, obs[i]) /\ (i \in good <=> Good(i, obs[i], Expect[i]))
    BY <1>1, <1>2 DEF BuildCalm
  <1>4. receipt' = [body |-> b, digest |-> b, signed |-> {}]
    BY <1>3 DEF Seal, Consistent, Sealed
  <1>5. b.obs = obs /\ b.overall = (good = Item)
    OBVIOUS
  <1> HIDE DEF b
  <1>6. receipt'.body = b /\ receipt'.digest = b
    BY <1>4
  <1>7. \A i \in Item : StoredOk(b, i) <=> i \in good
    BY <1>3, <1>5 DEF StoredOk
  <1>8. b.overall = (\A i \in Item : StoredOk(b, i))
    <2>1. good \subseteq Item
      BY <1>1 DEF ReceiptTypeOK
    <2>2. (\A i \in Item : StoredOk(b, i)) <=> good = Item
      BY <1>7, <2>1
    <2> QED
      BY <1>5, <2>2
  <1>9. ASSUME NEW i \in Item, StoredOk(b, i) PROVE Holds(i)'
    <2>1. Sees(i, obs[i]) /\ Good(i, obs[i], Expect[i]) /\ (Kind[i] # "command" => Of[i] \in Path)
      BY <1>3, <1>5, <1>9, ItemFacts DEF StoredOk
    <2>2. CASE Kind[i] = "file_hash"
      <3>1. obs[i] = tree[Of[i]] /\ tree[Of[i]] # Absent
        BY <2>1, <2>2 DEF Sees, Good
      <3>2. tree[Of[i]] \in Content
        BY <2>1, <2>2, <3>1, FlowTypes DEF Tree
      <3> QED
        BY <1>5, <1>6, <2>2, <3>1, <3>2 DEF Holds
    <2>3. CASE Kind[i] = "text_contains"
      BY <2>1, <2>3 DEF Sees, Good, Holds
    <2>4. CASE Kind[i] = "path_exists"
      BY <2>1, <2>4 DEF Sees, Good, Holds
    <2>5. CASE Kind[i] = "command"
      BY <2>5 DEF Holds
    <2> QED
      BY <2>2, <2>3, <2>4, <2>5, ItemFacts DEF Kinds
  <1>10. SealedCalm'
    <2>1. \A i \in Item : StoredOk(receipt.body, i)' <=> StoredOk(b, i)
      BY <1>6 DEF StoredOk, Good
    <2> QED
      BY <1>6, <1>8, <1>9, <2>1 DEF SealedCalm
  <1> QED
    BY <1>1, <1>10 DEF ReceiptCalm, Judging

(* A call begins or ends: no item has been looked at.                      *)
LEMMA CalmFromTheFirst ==
  ASSUME FromTheFirst, "receipt" \in calm' /\ rpc' # "build" => SealedCalm'
  PROVE  ReceiptCalm'
  <1>1. item' = 1 /\ looking' = "no" /\ \A i \in Item : ~(i < item')
    BY ItemFacts DEF FromTheFirst
  <1> QED
    BY <1>1 DEF ReceiptCalm, BuildCalm, JudgeCalm

LEMMA CalmBegin ==
  ASSUME ReceiptCalm, Build \/ Verify
  PROVE  ReceiptCalm'
  <1>1. CASE Build
    BY <1>1, CalmFromTheFirst DEF Build, BeginBuild
  <1>2. CASE Verify
    <2>1. FromTheFirst /\ rpc = "idle" /\ UNCHANGED <<tree, receipt, calm>>
      BY <1>2 DEF Verify, BeginVerify, flow
    <2>2. "receipt" \in calm' => SealedCalm'
      BY <2>1, SealedStays DEF ReceiptCalm
    <2> QED
      BY <2>1, <2>2, CalmFromTheFirst
  <1> QED
    BY <1>1, <1>2

LEMMA CalmJudge ==
  ASSUME IInv, ReceiptCalm, Judge \/ EndVerify, UNCHANGED <<tree, calm>>
  PROVE  ReceiptCalm'
  <1>1. "receipt" \in calm => SealedCalm'
    BY SealedStays DEF ReceiptCalm, Judge, EndVerify
  <1>2. CASE Judge
    <2>1. /\ rpc = "verify" /\ rpc' = "result" /\ looking' = "no" /\ Asked' = Asked
          /\ UNCHANGED <<item, obs, good, rerun>>
      BY <1>2, AskedStays DEF Judge, AllSeen, evaluation
    <2>2. "receipt" \in calm /\ Asked => JudgeCalm'
      BY <2>1 DEF ReceiptCalm, Judging, JudgeCalm
    <2> QED
      BY <1>1, <2>1, <2>2 DEF ReceiptCalm
  <1>3. CASE EndVerify
    BY <1>1, <1>3, CalmFromTheFirst DEF EndVerify
  <1> QED
    BY <1>2, <1>3

(* A signature says nothing new.                                           *)
LEMMA CalmSign ==
  ASSUME IInv, ReceiptCalm, SignReceipt
  PROVE  ReceiptCalm'
  <1>1. /\ receipt \in Receipt /\ rpc = "idle" /\ rpc' = "idle" /\ UNCHANGED <<tree, calm>>
        /\ receipt' = [receipt EXCEPT !.signed = @ \cup {receipt.digest}]
        /\ looking = "no" /\ looking' = "no"
    BY DEF IInv, ReceiptInv, ReceiptTypeOK, EvalInv, SignReceipt, Sign, evaluation, flow
  <1>2. receipt'.body = receipt.body /\ receipt'.digest = receipt.digest
    BY <1>1 DEF Receipt
  <1>3. SealedCalm => SealedCalm'
    BY <1>1, <1>2 DEF SealedCalm, Holds, StoredOk, Good
  <1> QED
    BY <1>1, <1>3 DEF ReceiptCalm, Judging

(* The manifest file is no file that has to be absent.                     *)
LEMMA CalmPut ==
  ASSUME IInv, PlaceInv, ReceiptCalm, cmd # "idle", PutOutput, UNCHANGED receiptVars,
         "receipt" \in calm' => "receipt" \in calm
  PROVE  ReceiptCalm'
  <1>1. rpc = "idle" /\ looking = "no" /\ UNCHANGED <<rpc, looking, receipt>>
    BY DEF IInv, ReceiptInv, EvalInv, FlowInv, receiptVars, evaluation
  <1>2. \A f \in Path : tree[f] # Absent => tree'[f] = tree[f]
    BY FlowTypes DEF PutOutput, Tree, PlaceInv
  <1>3. ASSUME NEW i \in Item, Holds(i) PROVE Holds(i)'
    <2>1. Kind[i] # "command" => Of[i] \in Path
      BY ItemFacts
    <2>2. Absent \notin Content /\ Absent \notin Matching
      BY WorkspaceAssumption, ReceiptAssumption
    <2>3. Kind[i] \in {"file_hash", "text_contains", "path_exists"} => tree'[Of[i]] = tree[Of[i]]
      BY <1>2, <1>3, <2>1, <2>2 DEF Holds
    <2> QED
      BY <1>1, <1>3, <2>3 DEF Holds
  <1>4. SealedCalm => SealedCalm'
    BY <1>1, <1>3 DEF SealedCalm, StoredOk, Good
  <1> QED
    BY <1>1, <1>4 DEF ReceiptCalm, Judging

(* A step that touches neither the workspace nor the receipt.              *)
LEMMA CalmStays ==
  ASSUME ReceiptCalm, UNCHANGED <<tree, receiptVars>>,
         "receipt" \in calm' => "receipt" \in calm
  PROVE  ReceiptCalm'
  <1>1. UNCHANGED <<rpc, item, looking, obs, good, rerun, mode, receipt, tree>>
    BY DEF receiptVars, evaluation
  <1>2. (BuildCalm => BuildCalm') /\ (SealedCalm => SealedCalm') /\ (JudgeCalm => JudgeCalm')
    BY <1>1, SealedStays DEF BuildCalm, JudgeCalm, Sees, Good
  <1>3. Asked' = Asked
    BY <1>1, AskedStays
  <1> QED
    BY <1>1, <1>2, <1>3 DEF ReceiptCalm, Judging

LEMMA ReceiptCalmNext == IInv /\ PlaceInv /\ ReceiptCalm /\ [Next]_vars => ReceiptCalm'
  <1> SUFFICES ASSUME IInv, PlaceInv, ReceiptCalm, [Next]_vars PROVE ReceiptCalm'
    OBVIOUS
  <1>1. CASE Create \/ ScanFails \/ Check \/ Checked \/ UNCHANGED vars
    BY <1>1, CalmStays DEF Create, ScanFails, Check, Checked, vars, flow
  <1>2. CASE Save
    BY <1>2, CalmPut DEF Save
  <1>3. CASE SaveFails
    BY <1>3, CalmPut, CalmStays DEF SaveFails
  <1>4. CASE SaveDies \/ Edit
    BY <1>4 DEF SaveDies, Edit, ReceiptCalm
  <1>5. CASE Build \/ Verify
    BY <1>5, CalmBegin
  <1>6. CASE SignReceipt
    BY <1>6, CalmSign
  <1>7. CASE Running
    <2>1. UNCHANGED <<tree, calm>>
      BY <1>7 DEF Running, flow
    <2>2. CASE UNCHANGED receiptVars
      BY <2>1, <2>2, CalmStays
    <2>3. CASE ReceiptStep
      BY <2>1, <2>3, CalmIsFile, CalmObserveFile, CalmCollect, CalmSeal, CalmRecheck, CalmBelieve,
         CalmJudge
      DEF ReceiptStep
    <2> QED
      BY <1>7, <2>2, <2>3 DEF Running
  <1>8. CASE AlterFile
    <2>1. CASE calm' = calm \ {"receipt"}
      BY <2>1 DEF ReceiptCalm
    <2>2. CASE calm' = calm \ {"manifest"} /\ UNCHANGED receiptVars
      BY <1>8, <2>2, CalmStays DEF AlterFile
    <2> QED
      BY <1>8, <2>1, <2>2 DEF AlterFile
  <1> QED
    BY <1>1, <1>2, <1>3, <1>4, <1>5, <1>6, <1>7, <1>8 DEF Next

(* The second half of HonestIsAccepted, at the end of a verify.            *)
LEMMA CalmIsAccepted ==
  ASSUME IInv, PlaceInv, ReceiptCalm, rpc = "result", "receipt" \in calm,
         mode.recheck, mode.commands,
         \A i \in Item : Kind[i] = "command" => i \in mode.allowed \cap Absolute /\ obs[i] = "zero",
         \A i \in Item : StoredOk(receipt.body, i),
         mode.context \in {None, receipt.body.context},
         mode.keys => receipt.body \in receipt.signed
  PROVE  Accepted
  <1>1. ReceiptTypeOK /\ SealedCalm /\ JudgeCalm /\ item \notin Item
    BY DEF IInv, ReceiptInv, ReceiptCalm, Judging, Asked, PlaceInv
  <1>2. \A i \in Item : i < item
    BY <1>1, ItemFacts DEF ReceiptTypeOK, Item
  <1>3. \A i \in Item : i \in rerun /\ i \in good
    BY <1>1, <1>2 DEF JudgeCalm
  <1>4. rerun = Item /\ good = Item
    BY <1>1, <1>3 DEF ReceiptTypeOK
  <1>5. receipt.digest = receipt.body /\ receipt.body.overall = TRUE
    BY <1>1 DEF SealedCalm
  <1>6. Rank[Assurance] >= Rank[mode.minimum]
    <2>1. mode.minimum \in Minimum
      BY <1>1 DEF ReceiptTypeOK, Mode
    <2>2. Assurance = "fully_rechecked"
      BY <1>4 DEF Assurance
    <2> QED
      BY <2>1, <2>2 DEF Rank, Minimum
  <1> QED
    BY <1>4, <1>5, <1>6 DEF Accepted, DigestOk, Authentic

(* What was left alone is accepted: an undisturbed create followed by a    *)
(* verify of a tree that fits finds that tree, and a receipt whose items   *)
(* were all ok passes a full recheck, whatever the items and the tree are. *)
THEOREM HonestIsAcceptedHolds == Spec => []HonestIsAccepted
  <1> DEFINE Calm == IInv /\ PlaceInv /\ ManifestCalm /\ ReceiptCalm
  <1>1. Init => Calm
    BY InitInv, PlaceInit DEF Init, ManifestCalm, ReceiptCalm
  <1>2. Calm /\ [Next]_vars => Calm'
    BY NextInv, PlaceNext, ManifestNext, ReceiptCalmNext
  <1>3. ASSUME Calm PROVE HonestIsAccepted
    <2>1. ASSUME "manifest" \in calm, Fits
          PROVE  spc # "failed" /\ (cmd = "check" /\ spc = "done" => Exact)
      BY <1>3, <2>1 DEF ManifestCalm, Exact
    <2> QED
      BY <1>3, <2>1, CalmIsAccepted DEF HonestIsAccepted
  <1>4. Calm => HonestIsAccepted
    BY <1>3
  <1> HIDE DEF Calm
  <1> QED
    BY <1>1, <1>2, <1>4, PTL DEF Spec
=============================================================================
