----------------------------- MODULE RegionWalk -----------------------------
(***************************************************************************)
(* What collecting a region promises, without commands, windows or lines:  *)
(* a cursor moves forward over the region; each move hands over some of    *)
(* the bytes it passes, and no byte is handed over outside the move that   *)
(* passes it.                                                              *)
(***************************************************************************)
EXTENDS Integers

CONSTANT Total

VARIABLES pos, got

Init == pos = 0 /\ got = {}

Move ==
  /\ pos < Total
  /\ pos' \in pos + 1 .. Total
  /\ \E S \in SUBSET (pos .. pos' - 1) : got' = got \cup S

Spec == Init /\ [][Move]_<<pos, got>>
=============================================================================
