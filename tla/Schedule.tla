------------------------------ MODULE Schedule ------------------------------
(***************************************************************************)
(* What spaced repetition promises a learner, without queues, keyboards or *)
(* failing calls: a session promises cards that are ripe, no more new ones *)
(* than the day has left; each promise is kept at most once, in any order. *)
(***************************************************************************)
EXTENDS Naturals, FiniteSets

CONSTANTS Cards, None, Limits

VARIABLES deck,      \* the learner's cards
          now, dayStart,
          limit,     \* how many new cards the learner wants on a day
          promised,  \* the cards the running session is still to ask
          open       \* a card that was answered without the session moving on

vars == <<deck, now, dayStart, limit, promised, open>>

Row == [state : {"Absent", "New", "Seen"}, due : Nat, first : Nat, suspended : BOOLEAN]
Absent == [state |-> "Absent", due |-> 0, first |-> 0, suspended |-> FALSE]
Fresh  == [state |-> "New", due |-> now, first |-> 0, suspended |-> FALSE]

Ripe(c) == ~deck[c].suspended /\ \/ deck[c].state = "New"
                                 \/ deck[c].state = "Seen" /\ deck[c].due <= now
News(S)         == {c \in S : deck[c].state = "New"}
IntroducedToday == {c \in Cards : deck[c].state = "Seen" /\ deck[c].first >= dayStart}

Init == /\ deck = [c \in Cards |-> Absent] /\ now = 0 /\ dayStart = 0 /\ limit \in Limits
        /\ promised = {} /\ open = None

Begin ==
    \E S \in SUBSET Cards :
        /\ UNCHANGED <<deck, now, dayStart, limit>>
        /\ promised' = S /\ open' = None
        /\ \A c \in S : Ripe(c)
        /\ News(S) # {} => Cardinality(IntroducedToday \cup News(S)) <= limit

\* Promises are dropped: a card is gone, or the session ends.
Drop == UNCHANGED <<deck, now, dayStart, limit>> /\ promised' \subseteq promised /\ open' = None

\* A promised card is answered: it comes back later, and counts as introduced on the
\* day of its first answer.  The session moves on, or it stays and may be answered again.
\* A card paused after it was promised is answered all the same: pausing takes a card out
\* of the sessions begun afterwards (Ripe), and not out of the one that runs.
Answer(c) ==
    /\ UNCHANGED <<now, dayStart, limit>>
    /\ deck'[c].due > now
    /\ c \in promised
    /\ \/ deck[c].state = "New"
       \/ deck[c].state = "Seen" /\ (deck[c].due <= now \/ c = open)
    /\ deck' = [deck EXCEPT ![c] =
                  [state |-> "Seen", due |-> deck'[c].due, suspended |-> deck[c].suspended,
                   first |-> IF deck[c].state = "New" THEN now ELSE deck[c].first]]
    /\ \/ promised' \subseteq promised \ {c} /\ open' = None
       \/ promised' = promised /\ open' = c

\* The deck and the clock change under the session.
Add(c)    == deck[c].state = "Absent" /\ deck' = [deck EXCEPT ![c] = Fresh]
Remove(c) == deck[c].state # "Absent" /\ deck' = [deck EXCEPT ![c] = Absent]
Pause(c)  == deck[c].state # "Absent" /\ deck' = [deck EXCEPT ![c].suspended = ~@]
Edit(c)   == UNCHANGED <<now, dayStart, limit, promised, open>> /\ (Add(c) \/ Remove(c) \/ Pause(c))

Tick == /\ now' = now + 1 /\ dayStart' \in {dayStart, now'}
        /\ UNCHANGED <<deck, limit, promised, open>>

\* The learner moves to another time zone, or changes the limit between two sessions.
Travel == UNCHANGED <<deck, now, limit, promised, open>> /\ dayStart' \in 0 .. now
Retune == /\ promised = {} /\ limit' \in Limits
          /\ UNCHANGED <<deck, now, dayStart, promised, open>>

Next == \/ Drop \/ Tick \/ Travel \/ Retune
        \/ \E c \in Cards : Answer(c) \/ Edit(c)
        \/ Begin

Spec == Init /\ [][Next]_vars
=============================================================================
