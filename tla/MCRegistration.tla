--------------------------- MODULE MCRegistration ---------------------------
(* The owner and two people, one code, three updates. *)
EXTENDS Registration, TLC
CONSTANTS owner, ana, bob, c1
MCPeople  == {owner, ana, bob}
MCCodes   == {c1}
=============================================================================
