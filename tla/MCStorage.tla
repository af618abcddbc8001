----------------------------- MODULE MCStorage -----------------------------
(* Storage over three dates, one copy kept, and three things that go wrong. *)
EXTENDS Storage
=============================================================================
