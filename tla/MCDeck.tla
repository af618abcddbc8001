-------------------------------- MODULE MCDeck --------------------------------
(* "ete" and "Ete" stand for a word whose capital letter SQLite cannot lower. *)
EXTENDS Deck, TLC
MCForms    == {"ete", "Ete", "eau"}
MCLower    == ("ete" :> "ete") @@ ("Ete" :> "ete") @@ ("eau" :> "eau")
MCSqlLower == [f \in MCForms |-> f]
=============================================================================
