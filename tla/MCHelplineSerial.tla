-------------------------- MODULE MCHelplineSerial --------------------------
(* A small instance of HelplineSerial for TLC: two workers and one call.   *)
EXTENDS HelplineSerial, MCHelpline

Row2 == [number |-> <<49>>, creditcard |-> <<51>>]
NoneOrTwo == {<<>>, <<Row0, Row2>>}

Unraced == raced = {}

=============================================================================
