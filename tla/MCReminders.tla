----------------------------- MODULE MCReminders -----------------------------
(* Two participants, and two zones a day apart: days of four minutes. *)
EXTENDS Reminders, TLC
CONSTANTS ana, bob, west, east
MCUsers  == {ana, bob}
MCZones  == {west, east}
MCOffset == (west :> 0) @@ (east :> Day)
MCTimes  == {1, 3}
Sym == Permutations(MCUsers)
=============================================================================
