--------------------------- MODULE MCOverControl ---------------------------
(* OverControl with overs of two deliveries.                                *)
EXTENDS OverControl

TwoBatters == <<"a", "b">>
ThreeBatters == <<"a", "b", "c">>
TwoBowlers == <<"x", "y">>

\* Every kind of event; the umpire's calls only.
Everything == [f \in Counted |-> IF f = "balls" THEN 4 ELSE 1]
Calls == [f \in Counted |-> IF f = "balls" THEN 3 ELSE IF f = "calls" THEN 1 ELSE 0]
=============================================================================
