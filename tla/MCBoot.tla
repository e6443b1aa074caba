------------------------------- MODULE MCBoot ------------------------------
(* Machines that boot over and over with device trees good and bad, and     *)
(* machines whose eMMC host works: supply, requests, tuning.                *)
EXTENDS Boot

Tree(index, hw, reg) ==
  [index |-> index, mmc |-> TRUE, base |-> TRUE, hw |-> hw, vmmc |-> reg]
Good == Tree(0, TRUE, "ok")
Trees ==
  {Good, Tree(0, TRUE, None), Tree(0, TRUE, "error"), Tree(0, FALSE, "ok"),
   Tree(1, TRUE, "ok"), [Good EXCEPT !.mmc = FALSE], [Good EXCEPT !.base = FALSE]}

V == {"v0", "v1", "v2"}
(* The middle points of the second table share a voltage, as the comment    *)
(* "0.675V or 0.7V" has it, and the outer ones of the third.                *)
Opps ==
  {[l \in 0..3 |-> CASE l = 0 -> "v0" [] l = 1 -> "v1" [] OTHER -> "v2"],
   [l \in 0..3 |-> CASE l = 0 -> "v0" [] l = 3 -> "v2" [] OTHER -> "v1"],
   [l \in 0..3 |-> IF l \in {0, 3} THEN "v0" ELSE "v1"]}

Plainest ==
  [ops |-> {}, trees |-> {Good}, clocks |-> TRUE, flaky |-> FALSE, secure |-> TRUE,
   mode |-> "XTS", blockaddr |-> TRUE, vcorefs |-> FALSE, hwcq |-> FALSE,
   caps |-> {"HS200", "HS400"}, opp |-> [l \in 0..3 |-> "v0"], volts |-> {"v0"}, env |-> TRUE, values |-> {}]

Caps == {{}, {"HS200"}, {"HS200", "HS400"}}

(* LK stores a count below 5; an operator's may be larger, up to the largest *)
(* int (9 here) and beyond, or no number.                                   *)
MCValues == {3, 7, 9, 12, NoDigits}
MCOverflown == {-8, 0, 2, 6}
Booters ==
  {[Plainest EXCEPT !.ops = {"power", "trip", "key", "restart"}, !.trees = Trees, !.clocks = FALSE,
      !.env = e, !.values = MCValues] : e \in BOOLEAN}
Suppliers ==
  {[Plainest EXCEPT !.ops = {"power", "off", "tune"}, !.flaky = f, !.caps = c] :
     f \in BOOLEAN, c \in Caps}
Encrypters ==
  {[Plainest EXCEPT !.ops = {"power", "request"}, !.secure = s, !.mode = m, !.blockaddr = a] :
     s, a \in BOOLEAN, m \in {"XTS", "ESSIV", "BITLOCKER", "CTR", "ECB", "CBC", "CBC_MAC", "bad"}}
Tuners ==
  {[Plainest EXCEPT !.ops = {"power", "tune", "request", "autok"}, !.vcorefs = v,
      !.hwcq = q, !.caps = c, !.opp = o, !.volts = V] : v, q \in BOOLEAN, c \in Caps, o \in Opps}

MCStarts == Booters \cup Suppliers \cup Encrypters \cup Tuners
MCRequests ==
  [fde : BOOLEAN, rw : BOOLEAN, key : {"k1", "k2"}, sector : {1, 513}]
=============================================================================
