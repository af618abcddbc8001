------------------------------ MODULE MCOutage ------------------------------
(* A newcomer, and two senders for the error handler and the requests of everybody
   else; two failures within a unit of time alert, alerts are two units apart; packs of
   two words, asked one at a time. *)
EXTENDS Outage
CONSTANTS ann, other, another
MCPeople  == {ann}
MCSenders == {ann, other, another}
MCWords   == 1 .. 2
MCKinds   == {"llm", "starter-db", "handler"}
=============================================================================
