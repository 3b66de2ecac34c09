------------------------------- MODULE Policy -------------------------------
(***************************************************************************)
(* The project policy (agent-trust/policy.json of hermes_integration/      *)
(* core.py) and the processes that use it: `project add` reads the whole   *)
(* file, changes one entry and replaces the file; list_projects, prepare   *)
(* and doctor only read it.  No lock protects it.                          *)
(*                                                                         *)
(* A reader holds one file open: a replacement unlinks that file and a     *)
(* chmod touches it, and both change its ctime, which the reader notices.  *)
(* Registrations refused before the policy is read (arguments, git) change *)
(* nothing and are left out.                                               *)
(***************************************************************************)
EXTENDS Integers, FiniteSets

CONSTANTS
  Proc,         \* processes
  Project,      \* project ids
  Setting,      \* what is registered for one: root and deny globs
  MaxProjects,  \* MAX_PROJECTS
  Faults,       \* the failures that may happen: "crash", "write", "chmod"
  None          \* no policy.json

ASSUME PolicyAssumption ==
  /\ IsFiniteSet(Project)
  /\ MaxProjects \in Nat
  /\ Faults \subseteq {"crash", "write", "chmod"}

Projects == UNION {[S -> Setting] : S \in SUBSET Project}
NoProject == [i \in {} |-> None]

ASSUME NoneAssumption == None \notin Projects \cup Project \cup Setting

VARIABLES
  policy,      \* the projects of policy.json, None when there is no file
  pc,          \* control point of every process
  id, setting, \* the arguments of its `project add`, None in a reader
  seen,        \* its local copy of the policy
  torn,        \* readers whose open file has been touched
  \* bookkeeping
  alone,       \* adds that have overlapped no other add so far
  registered,  \* the last successful add of every project
  kept         \* the same, for adds that overlapped no other

history == <<registered, kept>>
vars == <<policy, pc, id, setting, seen, torn, alone, history>>

Put(m, i, s) == [j \in DOMAIN m \cup {i} |-> IF j = i THEN s ELSE m[j]]
Without(m, i) == [j \in DOMAIN m \ {i} |-> m[j]]
Adding == {p \in Proc : id[p] # None}
Reading == {p \in Proc : pc[p] = "close"}

Init ==
  /\ policy = None
  /\ pc = [p \in Proc |-> "idle"]
  /\ id = [p \in Proc |-> None] /\ setting = [p \in Proc |-> None]
  /\ seen = [p \in Proc |-> NoProject]
  /\ torn = {} /\ alone = {}
  /\ registered = NoProject /\ kept = NoProject

Goto(p, label) ==
  /\ pc' = [pc EXCEPT ![p] = label]
  /\ UNCHANGED <<id, setting, alone>>

(* The call of p answers, fails or dies: its locals are gone. *)
End(p) ==
  /\ pc' = [pc EXCEPT ![p] = "idle"]
  /\ id' = [id EXCEPT ![p] = None] /\ setting' = [setting EXCEPT ![p] = None]
  /\ seen' = [seen EXCEPT ![p] = NoProject]
  /\ alone' = alone \ {p}

-----------------------------------------------------------------------------
CallAdd(p, i, s) ==
  /\ pc[p] = "idle"
  /\ id' = [id EXCEPT ![p] = i] /\ setting' = [setting EXCEPT ![p] = s]
  /\ alone' = IF Adding = {} THEN {p} ELSE {}
  /\ pc' = [pc EXCEPT ![p] = "open"]
  /\ UNCHANGED <<policy, seen, torn, history>>

CallRead(p) ==
  /\ pc[p] = "idle"
  /\ Goto(p, "open")
  /\ UNCHANGED <<policy, seen, torn, history>>

(* Without a file the policy is empty. *)
Loaded_Raw == policy
Loaded == IF policy = None THEN NoProject ELSE policy

(* exists(), then open and fstat. *)
Open(p) ==
  /\ pc[p] = "open"
  /\ torn' = torn \ {p}
  /\ seen' = [seen EXCEPT ![p] = Loaded]
  /\ Goto(p, IF policy = None THEN "decide" ELSE "close")
  /\ UNCHANGED <<policy, history>>

(* The second fstat of _read_json and the limit _policy checks. *)
Close(p) ==
  /\ pc[p] = "close"
  /\ IF p \in torn \/ Cardinality(DOMAIN seen[p]) > MaxProjects
       THEN End(p)
       ELSE Goto(p, "decide") /\ UNCHANGED seen
  /\ torn' = torn \ {p}
  /\ UNCHANGED <<policy, history>>

HasRoom_OffByOne(p) ==
  id[p] \in DOMAIN seen[p] \/ Cardinality(DOMAIN seen[p]) <= MaxProjects
HasRoom(p) ==
  id[p] \in DOMAIN seen[p] \/ Cardinality(DOMAIN seen[p]) < MaxProjects

Updated_Fresh(p) == Put(NoProject, id[p], setting[p])
Updated(p) == Put(seen[p], id[p], setting[p])

(* A reader answers from its copy; an add changes its own entry. *)
Decide(p) ==
  /\ pc[p] = "decide"
  /\ \/ /\ p \in Adding /\ HasRoom(p)
        /\ seen' = [seen EXCEPT ![p] = Updated(p)]
        /\ Goto(p, "replace")
     \/ ~(p \in Adding /\ HasRoom(p)) /\ End(p)
  /\ UNCHANGED <<policy, torn, history>>

(* _write_json up to os.replace. *)
Replace(p) ==
  /\ pc[p] = "replace"
  /\ \/ /\ policy' = seen[p]
        /\ torn' = Reading
        /\ registered' = Without(registered, id[p])
        /\ kept' = Without(kept, id[p])
        /\ Goto(p, "chmod") /\ UNCHANGED seen
     \/ /\ "write" \in Faults
        /\ End(p)
        /\ UNCHANGED <<policy, torn, history>>

(* path.chmod touches whichever file has the name by now; then the add has *)
(* succeeded.                                                              *)
Chmod(p) ==
  /\ pc[p] = "chmod"
  /\ \/ /\ torn' = Reading
        /\ registered' = Put(registered, id[p], setting[p])
        /\ kept' = IF p \in alone THEN Put(kept, id[p], setting[p]) ELSE kept
     \/ /\ "chmod" \in Faults
        /\ UNCHANGED <<torn, history>>
  /\ End(p)
  /\ UNCHANGED policy

Crash(p) ==
  /\ "crash" \in Faults
  /\ pc[p] # "idle"
  /\ End(p)
  /\ torn' = torn \ {p}
  /\ UNCHANGED <<policy, history>>

Next == \E p \in Proc :
  \/ \E i \in Project, s \in Setting : CallAdd(p, i, s)
  \/ CallRead(p)
  \/ Open(p) \/ Close(p) \/ Decide(p) \/ Replace(p) \/ Chmod(p) \/ Crash(p)

Spec == Init /\ [][Next]_vars

-----------------------------------------------------------------------------
(* Type invariant. *)
TypeOK ==
  /\ policy \in Projects \cup {None}
  /\ pc \in [Proc -> {"idle", "open", "close", "decide", "replace", "chmod"}]
  /\ id \in [Proc -> Project \cup {None}]
  /\ setting \in [Proc -> Setting \cup {None}]
  /\ seen \in [Proc -> Projects]
  /\ torn \subseteq Proc /\ alone \subseteq Proc
  /\ registered \in Projects /\ kept \in Projects

(* However many adds race, policy.json never holds more projects than      *)
(* _policy accepts: no add makes the controller refuse its own policy      *)
(* (the check-then-write of add_project).                                  *)
PolicyReadable == policy # None => Cardinality(DOMAIN policy) <= MaxProjects

(* A registration that succeeded without overlapping another one is never  *)
(* lost or changed by later registrations of other projects, whatever they *)
(* race with, fail at or die in (add_project merges into what it read).    *)
KeptWhenAlone ==
  \A i \in DOMAIN kept : policy # None /\ i \in DOMAIN policy /\ policy[i] = kept[i]

(* docs/HERMES_PLUGIN.md: a registered project "is kept in Hermes' local   *)
(* policy".  Every successful registration stays until its project is      *)
(* registered again.                                                       *)
RegisteredStays ==
  \A i \in DOMAIN registered :
    policy # None /\ i \in DOMAIN policy /\ policy[i] = registered[i]
=============================================================================
