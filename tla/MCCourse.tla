------------------------------ MODULE MCCourse ------------------------------
(* Two learners over the last weeks of a year; the topics and priorities are those of
   db/repo.py and tracks.py, a topic standing for its position. *)
EXTENDS Course
CONSTANTS ana, bob
MCUsers      == {ana, bob}
MCTracks     == {"general", "delf_b1", "delf_b2", "tcf"}
MCSeedTopics == <<1, 2, 3, 4, 5, 6, 7, 8, 9, 10>>
MCDrillPriority == [general |-> <<>>, delf_b1 |-> <<1, 3, 7, 9, 5>>,
                    delf_b2 |-> <<6, 5, 10, 9, 8>>, tcf |-> <<6, 9, 7, 10, 4>>]
=============================================================================
