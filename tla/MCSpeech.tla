------------------------------- MODULE MCSpeech -------------------------------
(* Three presses of two participants; recordings of one and of two chunks. *)
EXTENDS Speech, TLC
CONSTANTS ana, bob, mot
MCUsers   == {ana, bob}
MCPhrases == {mot}
MCChunks  == <<2, 1, 1>>
=============================================================================
