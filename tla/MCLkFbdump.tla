----------------------------- MODULE MCLkFbdump -----------------------------
(* A range that starts in front of the DRAM window, crosses the page LK     *)
(* leaves unmapped and ends inside the next one.                            *)
EXTENDS LkFbdump

MCAllowed == {<<24, 56>>}
MCReach == [p \in Page |-> IF p = 4 THEN "l3hole" ELSE "l3page"]
MCNone == {}
=============================================================================
