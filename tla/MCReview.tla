------------------------------ MODULE MCReview ------------------------------
(* Review on three card ids, sessions of up to three cards, one or two new cards a day. *)
EXTENDS Review
=============================================================================
