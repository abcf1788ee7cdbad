------------------------------ MODULE Lossless ------------------------------
(***************************************************************************)
(* What compress followed by decompress promises, and what                 *)
(* tests/run_tests.py checks of every block: the value given comes back,   *)
(* once, and it does come back.  Only where the output may be too short    *)
(* for it may it be refused instead.                                       *)
(***************************************************************************)
CONSTANTS
  Values,    \* the values that may be given
  Nothing,   \* not in Values: no value has come back yet
  Refused    \* not in Values: none ever will

VARIABLES
  given, returned,
  short      \* whether the output may be too short

lVars == <<given, returned, short>>

Init == given \in Values /\ returned = Nothing /\ short \in BOOLEAN

Return ==
  /\ returned = Nothing
  /\ returned' = given
  /\ UNCHANGED <<given, short>>

Refuse ==
  /\ returned = Nothing /\ short
  /\ returned' = Refused
  /\ UNCHANGED <<given, short>>

Next == Return \/ Refuse

Spec == Init /\ [][Next]_lVars /\ WF_lVars(Next)
=============================================================================
