------------------------ MODULE MCMessageDispatcher ------------------------
(***************************************************************************)
(* Instances of the message hub for TLC.                                   *)
(***************************************************************************)
EXTENDS MessageDispatcher, TLC

AllThree == <<1, 2, 3>>
AllButTwo == <<1, 3, 4>>

AnySet == SUBSET {1, 2, 3}
SomeOfFour == {{1, 3, 4}, {2, 3, 4}}

\* every handler at an address of its own
OwnAddress == [h \in Handlers |-> h]

\* 2 and 4 can follow each other at one address
SharedAddress == [h \in Handlers |-> IF h = 2 THEN 4 ELSE h]
=============================================================================
