---------------------------- MODULE PolicyProofs ----------------------------
(***************************************************************************)
(* The policy stays readable and registrations that overlap no other are   *)
(* kept, for any number of processes, projects and failures.               *)
(***************************************************************************)
EXTENDS Policy, FiniteSetTheorems, TLAPS

Bounded(m) == Cardinality(DOMAIN m) <= MaxProjects
Holds(m, D) == \A i \in D : i \in DOMAIN m /\ m[i] = kept[i]

(* Who is inside a call, and which of its locals are set. *)
CallInv ==
  \A p \in Proc :
    /\ pc[p] = "idle" => id[p] = None
    /\ pc[p] \in {"replace", "chmod"} => id[p] # None
    /\ id[p] # None => setting[p] # None
    /\ p \in alone => Adding = {p}

(* What is or will be written fits the limit. *)
SizeInv ==
  /\ PolicyReadable
  /\ \A p \in Proc : pc[p] \in {"decide", "replace"} => Bounded(seen[p])

(* Every add in progress holds a copy with all that is kept, except for    *)
(* the entry it is about to change; an add that is still alone has its own *)
(* entry in the file.                                                      *)
KeptInv ==
  /\ KeptWhenAlone
  /\ \A p \in Adding :
       /\ pc[p] \in {"close", "decide"} => Holds(seen[p], DOMAIN kept)
       /\ pc[p] = "replace" =>
            /\ Holds(seen[p], DOMAIN kept \ {id[p]})
            /\ id[p] \in DOMAIN seen[p] /\ seen[p][id[p]] = setting[p]
       /\ pc[p] = "chmod" /\ p \in alone =>
            policy # None /\ id[p] \in DOMAIN policy /\ policy[id[p]] = setting[p]

IInv == TypeOK /\ CallInv /\ SizeInv /\ KeptInv

-----------------------------------------------------------------------------
LEMMA ProjectsType ==
  ASSUME NEW m
  PROVE  m \in Projects <=> m \in [DOMAIN m -> Setting] /\ DOMAIN m \subseteq Project
  BY DEF Projects

(* Changing one entry of a set of registrations. *)
LEMMA PutType ==
  ASSUME NEW m \in Projects, NEW i \in Project, NEW s \in Setting
  PROVE  /\ Put(m, i, s) \in Projects
         /\ DOMAIN Put(m, i, s) = DOMAIN m \cup {i}
         /\ Put(m, i, s)[i] = s
         /\ \A j \in DOMAIN m \ {i} : Put(m, i, s)[j] = m[j]
  <1>1. m \in [DOMAIN m -> Setting] /\ DOMAIN m \subseteq Project
    BY ProjectsType
  <1>2. Put(m, i, s) \in [DOMAIN m \cup {i} -> Setting]
    BY <1>1 DEF Put
  <1>3. Put(m, i, s) \in Projects
    BY <1>1, <1>2, ProjectsType
  <1> QED
    BY <1>3 DEF Put

LEMMA WithoutType ==
  ASSUME NEW m \in Projects, NEW i
  PROVE  /\ Without(m, i) \in Projects
         /\ DOMAIN Without(m, i) = DOMAIN m \ {i}
         /\ \A j \in DOMAIN m \ {i} : Without(m, i)[j] = m[j]
  <1>1. m \in [DOMAIN m -> Setting] /\ DOMAIN m \subseteq Project
    BY ProjectsType
  <1>2. Without(m, i) \in [DOMAIN m \ {i} -> Setting]
    BY <1>1 DEF Without
  <1>3. Without(m, i) \in Projects
    BY <1>1, <1>2, ProjectsType
  <1> QED
    BY <1>3 DEF Without

LEMMA EmptyType == NoProject \in Projects /\ DOMAIN NoProject = {} /\ Bounded(NoProject)
  <1>1. NoProject \in Projects /\ DOMAIN NoProject = {}
    BY DEF NoProject, Projects
  <1> QED
    BY <1>1, FS_EmptySet, PolicyAssumption DEF Bounded

(* A copy with room stays within the limit when one entry is put into it.  *)
LEMMA PutBounded ==
  ASSUME NEW m \in Projects, NEW i \in Project, NEW s \in Setting, Bounded(m),
         i \in DOMAIN m \/ Cardinality(DOMAIN m) < MaxProjects
  PROVE  Bounded(Put(m, i, s))
  <1>1. DOMAIN m \subseteq Project /\ IsFiniteSet(DOMAIN m)
    BY FS_Subset, PolicyAssumption DEF Projects
  <1>2. Cardinality(DOMAIN m) \in Nat
    BY <1>1, FS_CardinalityType
  <1>3. Cardinality(DOMAIN m \cup {i}) =
          IF i \in DOMAIN m THEN Cardinality(DOMAIN m) ELSE Cardinality(DOMAIN m) + 1
    BY <1>1, FS_AddElement
  <1> QED
    <2>1. DOMAIN Put(m, i, s) = DOMAIN m \cup {i}
      BY PutType
    <2>2. Cardinality(DOMAIN m) <= MaxProjects
      BY DEF Bounded
    <2> QED
      BY <1>2, <1>3, <2>1, <2>2, PolicyAssumption DEF Bounded

LEMMA InitInv == Init => IInv
  BY EmptyType, NoneAssumption
  DEF Init, IInv, TypeOK, CallInv, SizeInv, KeptInv, PolicyReadable, KeptWhenAlone, Adding

-----------------------------------------------------------------------------
(* The end of a call disturbs nothing. *)
LEMMA EndStep ==
  ASSUME IInv, NEW p \in Proc, End(p), UNCHANGED <<policy, registered, kept>>,
         torn' \subseteq Proc
  PROVE  IInv'
  <1> USE DEF IInv
  <1>1. TypeOK'
    BY EmptyType DEF TypeOK, End
  <1>2. /\ Adding' = Adding \ {p}
        /\ \A q \in Proc \ {p} : /\ pc'[q] = pc[q] /\ id'[q] = id[q]
                                 /\ setting'[q] = setting[q] /\ seen'[q] = seen[q]
        /\ pc'[p] = "idle" /\ id'[p] = None /\ setting'[p] = None
    BY DEF TypeOK, End, Adding
  <1>3. CallInv'
    BY <1>2 DEF CallInv, End, Adding
  <1>4. SizeInv'
    BY <1>2 DEF SizeInv, PolicyReadable, Bounded
  <1>5. KeptInv'
    BY <1>2 DEF KeptInv, KeptWhenAlone, Holds, End, Adding
  <1> QED
    BY <1>1, <1>3, <1>4, <1>5

LEMMA CallAddStep ==
  ASSUME IInv, NEW p \in Proc, NEW i \in Project, NEW s \in Setting, CallAdd(p, i, s)
  PROVE  IInv'
  <1> USE DEF IInv
  <1>1. TypeOK'
    BY DEF TypeOK, CallAdd, history
  <1>2. /\ Adding' = Adding \cup {p}
        /\ \A q \in Proc \ {p} : /\ pc'[q] = pc[q] /\ id'[q] = id[q]
                                 /\ setting'[q] = setting[q]
        /\ pc'[p] = "open" /\ id'[p] = i /\ setting'[p] = s
    BY NoneAssumption DEF TypeOK, CallAdd, Adding
  <1>3. CallInv'
    BY <1>2, NoneAssumption DEF CallInv, CallAdd
  <1>4. SizeInv'
    BY <1>2 DEF SizeInv, CallAdd, PolicyReadable, Bounded
  <1>5. KeptInv'
    <2>1. KeptWhenAlone'
      BY DEF KeptInv, KeptWhenAlone, CallAdd, history
    <2>2. alone' \subseteq {p} /\ policy' = policy /\ kept' = kept /\ seen' = seen
      BY DEF CallAdd, history
    <2>3. ASSUME NEW q \in Adding', q # p
          PROVE  q \in Adding /\ q \in Proc
      BY <1>2, <2>3 DEF Adding
    <2> QED
      BY <1>2, <2>1, <2>2, <2>3 DEF KeptInv, Holds
  <1> QED
    BY <1>1, <1>3, <1>4, <1>5

(* A step of a call that only moves it on and sets its copy. *)
Moves(p, label, copy) ==
  /\ Goto(p, label)
  /\ seen' = [seen EXCEPT ![p] = copy]
  /\ UNCHANGED <<policy, registered, kept>>
  /\ torn' \subseteq Proc
  /\ copy \in Projects
  /\ label \in {"open", "close", "decide", "replace"}
  /\ label = "replace" => id[p] # None
  /\ label \in {"decide", "replace"} => Bounded(copy)
  /\ p \in Adding =>
       /\ label \in {"close", "decide"} => Holds(copy, DOMAIN kept)
       /\ label = "replace" =>
            /\ Holds(copy, DOMAIN kept \ {id[p]})
            /\ id[p] \in DOMAIN copy /\ copy[id[p]] = setting[p]

LEMMA MoveStep ==
  ASSUME IInv, NEW p \in Proc, NEW label, NEW copy, Moves(p, label, copy)
  PROVE  IInv'
  <1> USE DEF IInv, Moves
  <1>1. TypeOK'
    BY DEF TypeOK, Goto
  <1>2. /\ Adding' = Adding
        /\ \A q \in Proc \ {p} : pc'[q] = pc[q] /\ seen'[q] = seen[q]
        /\ pc'[p] = label /\ seen'[p] = copy
    BY DEF TypeOK, Goto, Adding
  <1>3. CallInv'
    BY <1>2 DEF CallInv, Goto
  <1>4. SizeInv'
    BY <1>2 DEF SizeInv, PolicyReadable, Bounded
  <1>5. KeptInv'
    BY <1>2 DEF KeptInv, KeptWhenAlone, Holds, Goto, Adding
  <1> QED
    BY <1>1, <1>3, <1>4, <1>5

LEMMA CallReadStep ==
  ASSUME IInv, NEW p \in Proc, CallRead(p)
  PROVE  IInv'
  <1>1. id[p] = None /\ p \notin Adding
    BY DEF IInv, CallInv, CallRead, Adding
  <1>2. Moves(p, "open", seen[p])
    BY <1>1 DEF IInv, TypeOK, CallRead, Moves, history
  <1> QED
    BY <1>2, MoveStep

LEMMA OpenStep ==
  ASSUME IInv, NEW p \in Proc, Open(p)
  PROVE  IInv'
  <1>1. Loaded \in Projects /\ torn' \subseteq Proc
    BY EmptyType DEF IInv, TypeOK, Loaded, Open
  <1>2. Holds(Loaded, DOMAIN kept)
    BY DEF IInv, KeptInv, KeptWhenAlone, Holds, Loaded
  <1>3. CASE policy = None
    <2>1. Bounded(Loaded)
      BY <1>3, EmptyType DEF Loaded
    <2>2. Moves(p, "decide", Loaded)
      BY <1>1, <1>2, <1>3, <2>1 DEF Open, Moves, history
    <2> QED
      BY <2>2, MoveStep
  <1>4. CASE policy # None
    <2>1. Moves(p, "close", Loaded)
      BY <1>1, <1>2, <1>4 DEF Open, Moves, history
    <2> QED
      BY <2>1, MoveStep
  <1> QED
    BY <1>3, <1>4

LEMMA CloseStep ==
  ASSUME IInv, NEW p \in Proc, Close(p)
  PROVE  IInv'
  <1>1. torn' \subseteq Proc /\ UNCHANGED <<policy, registered, kept>> /\ pc[p] = "close"
    BY DEF Close, IInv, TypeOK, history
  <1>2. CASE End(p)
    BY <1>1, <1>2, EndStep
  <1>3. CASE /\ Goto(p, "decide") /\ UNCHANGED seen
             /\ ~(Cardinality(DOMAIN seen[p]) > MaxProjects)
    <2>1. seen[p] \in Projects /\ seen' = [seen EXCEPT ![p] = seen[p]]
      BY <1>3 DEF IInv, TypeOK
    <2>2. DOMAIN seen[p] \subseteq Project /\ Cardinality(DOMAIN seen[p]) \in Nat
      BY <2>1, ProjectsType, FS_Subset, FS_CardinalityType, PolicyAssumption
    <2>3. Bounded(seen[p])
      BY <1>3, <2>2, PolicyAssumption DEF Bounded
    <2>4. p \in Adding => Holds(seen[p], DOMAIN kept)
      BY <1>1 DEF IInv, KeptInv
    <2>5. Moves(p, "decide", seen[p])
      BY <1>1, <1>3, <2>1, <2>3, <2>4 DEF Moves
    <2> QED
      BY <2>5, MoveStep
  <1> QED
    BY <1>2, <1>3 DEF Close

LEMMA DecideStep ==
  ASSUME IInv, NEW p \in Proc, Decide(p)
  PROVE  IInv'
  <1>1. /\ torn' \subseteq Proc /\ UNCHANGED <<policy, registered, kept>>
        /\ pc[p] = "decide" /\ seen[p] \in Projects
    BY DEF Decide, IInv, TypeOK, history
  <1>2. CASE End(p)
    BY <1>1, <1>2, EndStep
  <1>3. CASE /\ p \in Adding /\ HasRoom(p)
             /\ seen' = [seen EXCEPT ![p] = Updated(p)] /\ Goto(p, "replace")
    <2>1. id[p] \in Project /\ setting[p] \in Setting /\ id[p] # None
      BY <1>3 DEF IInv, TypeOK, CallInv, Adding
    <2>2. Bounded(seen[p]) /\ Holds(seen[p], DOMAIN kept)
      BY <1>1, <1>3 DEF IInv, SizeInv, KeptInv
    <2>3. Updated(p) \in Projects /\ Bounded(Updated(p))
      BY <1>1, <1>3, <2>1, <2>2, PutType, PutBounded DEF Updated, HasRoom
    <2>4. /\ id[p] \in DOMAIN Updated(p) /\ Updated(p)[id[p]] = setting[p]
          /\ Holds(Updated(p), DOMAIN kept \ {id[p]})
      <3>1. /\ DOMAIN Updated(p) = DOMAIN seen[p] \cup {id[p]}
            /\ Updated(p)[id[p]] = setting[p]
            /\ \A j \in DOMAIN seen[p] \ {id[p]} : Updated(p)[j] = seen[p][j]
        BY DEF Updated, Put
      <3> QED
        BY <2>2, <3>1 DEF Holds
    <2>5. Moves(p, "replace", Updated(p))
      BY <1>1, <1>3, <2>1, <2>3, <2>4 DEF Moves
    <2> QED
      BY <2>5, MoveStep
  <1> QED
    BY <1>2, <1>3 DEF Decide

LEMMA ReplaceStep ==
  ASSUME IInv, NEW p \in Proc, Replace(p)
  PROVE  IInv'
  <1>1. CASE End(p) /\ UNCHANGED <<policy, torn, history>>
    BY <1>1, EndStep DEF IInv, TypeOK, history
  <1>2. CASE /\ policy' = seen[p] /\ torn' = Reading
             /\ registered' = Without(registered, id[p])
             /\ kept' = Without(kept, id[p])
             /\ Goto(p, "chmod") /\ UNCHANGED seen
    <2> USE DEF IInv
    <2>1. pc[p] = "replace" /\ id[p] # None /\ seen[p] \in Projects /\ p \in Adding
      BY DEF Replace, CallInv, TypeOK, Adding
    <2>2. /\ kept' \in Projects /\ DOMAIN kept' = DOMAIN kept \ {id[p]}
          /\ \A i \in DOMAIN kept' : kept'[i] = kept[i]
          /\ registered' \in Projects
      BY <1>2, WithoutType DEF TypeOK
    <2>3. /\ Adding' = Adding /\ alone' = alone /\ id' = id /\ setting' = setting
          /\ \A q \in Proc \ {p} : pc'[q] = pc[q]
          /\ pc'[p] = "chmod"
      BY <1>2 DEF TypeOK, Goto, Adding
    <2>4. TypeOK'
      BY <1>2, <2>1, <2>2 DEF TypeOK, Goto, Reading
    <2>5. CallInv'
      BY <2>1, <2>3 DEF CallInv
    <2>6. SizeInv'
      BY <1>2, <2>1, <2>3 DEF SizeInv, PolicyReadable, Bounded
    <2>7. policy' # None
      BY <1>2, <2>1, NoneAssumption
    <2>8. KeptWhenAlone'
      BY <1>2, <2>1, <2>2, <2>7 DEF KeptInv, KeptWhenAlone, Holds
    <2>9. ASSUME NEW q \in Adding', q # p
          PROVE  /\ pc'[q] \in {"close", "decide"} => Holds(seen[q], DOMAIN kept)
                 /\ pc'[q] = "replace" =>
                      /\ Holds(seen[q], DOMAIN kept \ {id[q]})
                      /\ id[q] \in DOMAIN seen[q] /\ seen[q][id[q]] = setting[q]
                 /\ q \notin alone
      <3>1. q \in Adding /\ q \in Proc /\ pc'[q] = pc[q]
        BY <2>3, <2>9 DEF Adding
      <3> QED
        BY <2>1, <2>9, <3>1 DEF KeptInv, CallInv
    <2>10. KeptInv'
      <3>1. ASSUME NEW q \in Adding'
            PROVE  /\ pc'[q] \in {"close", "decide"} => Holds(seen[q], DOMAIN kept)'
                   /\ pc'[q] = "replace" =>
                        /\ Holds(seen[q], DOMAIN kept \ {id[q]})'
                        /\ id'[q] \in DOMAIN seen'[q] /\ seen'[q][id'[q]] = setting'[q]
                   /\ pc'[q] = "chmod" /\ q \in alone' =>
                        /\ policy' # None /\ id'[q] \in DOMAIN policy'
                        /\ policy'[id'[q]] = setting'[q]
        <4>1. CASE q = p
          BY <1>2, <2>1, <2>3, <2>7, <4>1 DEF KeptInv
        <4>2. CASE q # p
          BY <1>2, <2>2, <2>3, <2>9, <4>2 DEF Holds
        <4> QED
          BY <4>1, <4>2
      <3> QED
        BY <2>8, <3>1 DEF KeptInv
    <2> QED
      BY <2>4, <2>5, <2>6, <2>10
  <1> QED
    BY <1>1, <1>2 DEF Replace

LEMMA ChmodStep ==
  ASSUME IInv, NEW p \in Proc, Chmod(p)
  PROVE  IInv'
  <1>1. CASE UNCHANGED <<torn, history>>
    BY <1>1, EndStep DEF IInv, TypeOK, Chmod, history
  <1>2. CASE /\ torn' = Reading
             /\ registered' = Put(registered, id[p], setting[p])
             /\ kept' = IF p \in alone THEN Put(kept, id[p], setting[p]) ELSE kept
    <2> USE DEF IInv
    <2>1. pc[p] = "chmod" /\ id[p] \in Project /\ setting[p] \in Setting /\ p \in Adding
      BY DEF Chmod, CallInv, TypeOK, Adding
    <2>2. /\ Adding' = Adding \ {p} /\ policy' = policy
          /\ \A q \in Proc \ {p} : /\ pc'[q] = pc[q] /\ id'[q] = id[q]
                                   /\ setting'[q] = setting[q] /\ seen'[q] = seen[q]
          /\ pc'[p] = "idle" /\ id'[p] = None /\ setting'[p] = None
          /\ alone' = alone \ {p}
      BY DEF TypeOK, Chmod, End, Adding
    <2>3. registered' \in Projects /\ kept' \in Projects
      BY <1>2, <2>1, PutType DEF TypeOK
    <2>4. TypeOK'
      BY <1>2, <2>3, EmptyType DEF TypeOK, Chmod, End, Reading
    <2>5. CallInv'
      BY <2>2 DEF CallInv
    <2>6. SizeInv'
      BY <2>2 DEF SizeInv, PolicyReadable, Bounded
    <2>7. CASE p \in alone
      <3>1. Adding = {p}
        BY <2>7 DEF CallInv
      <3>2. kept' = Put(kept, id[p], setting[p])
        BY <1>2, <2>7
      <3>3. KeptWhenAlone'
        <4>1. kept \in Projects
          BY DEF TypeOK
        <4>2. /\ DOMAIN kept' = DOMAIN kept \cup {id[p]}
              /\ kept'[id[p]] = setting[p]
              /\ \A j \in DOMAIN kept \ {id[p]} : kept'[j] = kept[j]
          BY <2>1, <3>2, <4>1, PutType
        <4>3. policy # None /\ id[p] \in DOMAIN policy /\ policy[id[p]] = setting[p]
          BY <2>1, <2>7 DEF KeptInv
        <4> QED
          BY <2>2, <4>2, <4>3 DEF KeptInv, KeptWhenAlone
      <3> QED
        BY <2>2, <2>4, <2>5, <2>6, <3>1, <3>3 DEF KeptInv
    <2>8. CASE p \notin alone
      <3>1. KeptInv'
        BY <1>2, <2>2, <2>8 DEF KeptInv, KeptWhenAlone, Holds, Adding
      <3> QED
        BY <2>4, <2>5, <2>6, <3>1
    <2> QED
      BY <2>7, <2>8
  <1> QED
    BY <1>1, <1>2 DEF Chmod

LEMMA NextInv == IInv /\ [Next]_vars => IInv'
  <1> SUFFICES ASSUME IInv, [Next]_vars PROVE IInv'
    OBVIOUS
  <1>1. CASE UNCHANGED vars
    BY <1>1
    DEF vars, history, IInv, TypeOK, CallInv, SizeInv, KeptInv, PolicyReadable,
        KeptWhenAlone, Holds, Bounded, Adding
  <1>2. ASSUME NEW p \in Proc, NEW i \in Project, NEW s \in Setting, CallAdd(p, i, s)
        PROVE  IInv'
    BY <1>2, CallAddStep
  <1>3. ASSUME NEW p \in Proc, Crash(p)
        PROVE  IInv'
    BY <1>3, EndStep DEF Crash, IInv, TypeOK, history
  <1> QED
    BY <1>1, <1>2, <1>3, CallReadStep, OpenStep, CloseStep, DecideStep, ReplaceStep,
       ChmodStep DEF Next

(* The inductive invariant behind the two properties.                      *)
THEOREM InvHolds == Spec => []IInv
  BY InitInv, NextInv, PTL DEF Spec

(* The type invariant, for any number of calls and projects.               *)
THEOREM TypeCorrect == Spec => []TypeOK
  <1>1. IInv => TypeOK
    BY DEF IInv
  <1> QED
    BY <1>1, InvHolds, PTL

(* However many adds race, policy.json never holds more projects than      *)
(* _policy accepts.                                                        *)
THEOREM PolicyReadableHolds == Spec => []PolicyReadable
  <1>1. IInv => PolicyReadable
    BY DEF IInv, SizeInv
  <1> QED
    BY <1>1, InvHolds, PTL

(* A registration that overlapped no other is never lost to later          *)
(* registrations of other projects.                                        *)
THEOREM KeptWhenAloneHolds == Spec => []KeptWhenAlone
  <1>1. IInv => KeptWhenAlone
    BY DEF IInv, KeptInv
  <1> QED
    BY <1>1, InvHolds, PTL
=============================================================================
