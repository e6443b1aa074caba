---------------------------- MODULE MCLkCollect ----------------------------
(* A region that starts inside a page; the page after that is the one       *)
(* that LK leaves unmapped.                                                 *)
EXTENDS LkCollect

MCAllowed == {<<24, WORD - 8>>}
MCReach == [p \in Page |-> IF p = PageOf(Base) + 1 THEN "l3hole" ELSE "l3page"]
(* Nowhere, forward, back, back by 2^32 and a little less, and as far as a  *)
(* shell's number goes.                                                     *)
MCFakeUsed == {0, 3, -4, 4 - WORD, LONG_MAX}
MCNone == {}
=============================================================================
