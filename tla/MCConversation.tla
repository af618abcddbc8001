--------------------------- MODULE MCConversation ---------------------------
(* Two packs and two sessions, so that a superseded keyboard can meet its successor; a
   session is a drill or a placement test of two questions. *)
EXTENDS Conversation, TLC
=============================================================================
