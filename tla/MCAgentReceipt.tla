--------------------------- MODULE MCAgentReceipt ----------------------------
(* An instance of AgentReceipt for TLC: a file in the root, one in a       *)
(* subdirectory, the manifest and a stray temporary file; a receipt with a *)
(* path_exists, a file_hash, a text_contains and a command item.           *)
EXTENDS AgentReceipt, TLC

CONSTANTS root, d, f1, f2, out, stray

MCParent == [x \in {f1, f2, out, stray, d} |-> IF x = f2 THEN d ELSE root]
MCStart == {[x \in {f1, f2, out, stray} |-> IF x \in {f1, f2} THEN "c1" ELSE Absent]}
MCKind == <<"path_exists", "file_hash", "text_contains", "command">>
MCOf == <<f2, f1, f2>>
MCExpect == <<None, None, None, "zero">>
Full == [recheck |-> TRUE, commands |-> TRUE, allowed |-> {4}, keys |-> FALSE,
         context |-> None, minimum |-> "fully_rechecked"]
MCModes == {Full, [Full EXCEPT !.keys = TRUE],
            [Full EXCEPT !.allowed = {}, !.minimum = "reported"],
            [Full EXCEPT !.recheck = FALSE, !.keys = TRUE,
                         !.minimum = "partially_rechecked"]}
=============================================================================
