----------------------------- MODULE MCWdKicker -----------------------------
(* Small instances of the kicker: a period of a few quanta, and requests    *)
(* that keep, shorten or lengthen it.                                       *)
EXTENDS WdKicker

Req(m, i, t, e) == [mode |-> m, kinterval |-> i, timeout |-> t, en |-> e]

MCPwkBits == 0 .. NCPU
MCNone == {}
MCRequests == {Req(0, 2, 5, 1), Req(1, 3, 5, 0), Req(2, 1, 4, 1), Req(0, 1, 5, 2),
               Req(0, 2, 2, 1), Req(0, 3, 2, 1), Req(3, 2, 5, 1)}
MCDisabling == {Req(2, 2, 5, 0)}
=============================================================================
