---------------------------- MODULE MCEngineLoop ----------------------------
(* A small instance of EngineLoop for TLC: the handlers of one message wait *)
(* for the next one.                                                       *)
EXTENDS EngineLoop

CONSTANTS m1, m2, m3

FirstWaits == [m \in Msgs |-> IF m = m1 THEN {m2} ELSE {}]
=============================================================================
