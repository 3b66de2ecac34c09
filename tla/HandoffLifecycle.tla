------------------------- MODULE HandoffLifecycle -------------------------
(***************************************************************************)
(* What one handoff promises its operator, without the lock, the files,    *)
(* the crashes or the worker: a status that only moves forward, an output  *)
(* that appears together with "verified" and is never changed or lost      *)
(* afterwards, and answers that were true when they were given.            *)
(* Handoff.tla implements this specification.                              *)
(***************************************************************************)
CONSTANTS
  Output,  \* the outputs a verification may retain
  None     \* no output

VARIABLES
  status,  \* "prepared", "approved", "rejected" or "verified"
  output,  \* the retained verified output, None until there is one
  told     \* every status a call has reported

lifeVars == <<status, output, told>>

Status == {"prepared", "approved", "rejected", "verified"}

Init ==
  /\ status = "prepared"
  /\ output = None
  /\ told = {}

Approve ==
  /\ status = "prepared"
  /\ status' = "approved"
  /\ UNCHANGED <<output, told>>

Reject ==
  /\ status \in {"prepared", "approved"}
  /\ status' = "rejected"
  /\ UNCHANGED <<output, told>>

Verify ==
  /\ status = "approved"
  /\ status' = "verified"
  /\ output' \in Output
  /\ UNCHANGED told

Report ==
  /\ told' = told \cup {status}
  /\ UNCHANGED <<status, output>>

Next == Approve \/ Reject \/ Verify \/ Report

Spec == Init /\ [][Next]_lifeVars
===========================================================================
