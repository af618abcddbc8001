------------------------------- MODULE Review -------------------------------
(***************************************************************************)
(* One participant's deck and /review session: srs/queue.py builds the     *)
(* queue, handlers/review.py walks it, handlers/deck.py and the capture    *)
(* keyboards change the deck under it, /settings moves the time zone and   *)
(* the limits, the clock runs, Telegram calls fail and other commands or a *)
(* restart drop the session.  The updates of one user are serialised by    *)
(* aiogram's per-user lock, so a handler is one step whose outcome says    *)
(* where a failed Telegram call cut it short.  The counters of the closing *)
(* message ("total", "reviewed", "again") are left out.                   *)
(***************************************************************************)
EXTENDS Naturals, Sequences, FiniteSets

CONSTANTS MaxCard,        \* card ids are 1..MaxCard (bound on captures)
          Sizes,          \* the values of session_max a participant may set
          Limits,         \* and of daily_new_limit
          MaxTime,        \* bound on the clock
          MaxDelay,       \* bound on the interval the scheduler gives a card
          MaxLogs         \* bound on the repeated reviews at one position

ASSUME ReviewAssumption ==
    /\ MaxCard \in Nat /\ Sizes \subseteq Nat /\ Limits \subseteq Nat
    /\ MaxTime \in Nat /\ MaxDelay \in Nat /\ MaxLogs \in Nat

VARIABLES deck,       \* the rows of "cards" with the first row of "reviews" of each
          now,        \* the clock, datetime.now(UTC)
          dayStart,   \* day_start_utc(now, tz)
          sessionMax, \* users.session_max, or the default of the bot
          limit,      \* users.daily_new_limit, or the default
          reviewing,  \* the FSM state is ReviewStates.reviewing
          queue,      \* FSM data: card ids
          index,      \* FSM data, counted from 1
          fronts,     \* cards whose "show" button was sent: an old message, or a
          backs,      \* press on its way, may still bring it; the same for "grade"
          \* history
          logged,     \* reviews committed since the session reached index
          asked,      \* card of the session's last keyboard, 0 after a failed call
          granted,    \* the cards the session took as new ones of the day
          opened,     \* dayStart when the session was started
          reborn      \* ids SQLite gave to a new card while the session had them
                      \* queued, but not as new cards

clock    == <<now, dayStart>>
settings == <<sessionMax, limit>>
session  == <<reviewing, queue, index, logged, asked, granted, opened>>
chat     == <<fronts, backs>>
vars     == <<deck, now, dayStart, sessionMax, limit, reviewing, queue, index, fronts, backs,
              logged, asked, granted, opened, reborn>>

Cards   == 1 .. MaxCard
CardRow == [state : {"Absent", "New", "Seen"}, due : Nat, first : Nat,
            suspended : BOOLEAN]
NoCard  == [state |-> "Absent", due |-> 0, first |-> 0, suspended |-> FALSE]
NewCard(t) == [state |-> "New", due |-> t, first |-> 0, suspended |-> FALSE]

Exists(c)   == deck[c].state # "Absent"
Least(a, b) == IF a <= b THEN a ELSE b
Picked(p)   == {p[i] : i \in DOMAIN p}

-----------------------------------------------------------------------------
(* srs/queue.py: the due cards, oldest first, then new cards by id.         *)

DueCards == {c \in Cards : /\ deck[c].state = "Seen"
                           /\ ~deck[c].suspended
                           /\ deck[c].due <= now}

NewCards == {c \in Cards : deck[c].state = "New" /\ ~deck[c].suspended}

\* Cards whose first review happened at or after a time.
IntroducedSince(t) == {c \in Cards : deck[c].state = "Seen" /\ deck[c].first >= t}
Introduced         == IntroducedSince(dayStart)

Pages(rows) == UNION {[1 .. n -> rows] : n \in 0 .. Cardinality(rows)}

\* p lists min(size, |rows|) different rows: the shape of ORDER BY .. LIMIT.
PageOf(p, rows, size) ==
    /\ Len(p) = Least(size, Cardinality(rows))
    /\ Picked(p) \subseteq rows
    /\ \A i, j \in DOMAIN p : i # j => p[i] # p[j]

DuePage(p) ==
    /\ PageOf(p, DueCards, sessionMax)
    /\ \A i, j \in DOMAIN p : i < j => deck[p[i]].due <= deck[p[j]].due
    /\ \A i \in DOMAIN p, c \in DueCards \ Picked(p) : deck[p[i]].due <= deck[c].due

\* Variant of Allowance: what was introduced today is not counted.
AllowanceUncounted == limit

Allowance == IF Cardinality(Introduced) >= limit
             THEN 0 ELSE limit - Cardinality(Introduced)

NewPage(p, room) ==
    /\ PageOf(p, NewCards, Least(room, Allowance))
    /\ \A i, j \in DOMAIN p : i < j => p[i] < p[j]
    /\ \A i \in DOMAIN p, c \in NewCards \ Picked(p) : p[i] < c

-----------------------------------------------------------------------------
Init ==
    /\ deck = [c \in Cards |-> NoCard]
    /\ now = 0 /\ dayStart = 0
    /\ sessionMax \in Sizes /\ limit \in Limits
    /\ reviewing = FALSE /\ queue = <<>> /\ index = 1
    /\ fronts = {} /\ backs = {}
    /\ logged = 0 /\ asked = 0 /\ granted = {} /\ opened = 0 /\ reborn = {}

\* FSMContext.clear()
ClearSession ==
    /\ reviewing' = FALSE /\ queue' = <<>> /\ index' = 1
    /\ logged' = 0 /\ asked' = 0 /\ granted' = {} /\ opened' = 0 /\ reborn' = {}

\* The front of card c is sent; the call may fail after the FSM was written.
SendFront(c) ==
    \E sent \in BOOLEAN :
        /\ fronts' = IF sent THEN fronts \cup {c} ELSE fronts
        /\ asked' = IF sent THEN c ELSE 0

\* /review or its button: a fresh queue replaces whatever session there was.
StartSession ==
    \E d \in Pages(DueCards) : DuePage(d) /\ \E n \in Pages(NewCards) :
        /\ NewPage(n, sessionMax - Len(d))
        /\ IF d \o n = <<>>
           THEN ClearSession /\ UNCHANGED fronts
           ELSE /\ reviewing' = TRUE /\ queue' = d \o n
                /\ index' = 1 /\ logged' = 0
                /\ SendFront((d \o n)[1])
                /\ granted' = Picked(n) /\ opened' = dayStart /\ reborn' = {}
        /\ UNCHANGED <<deck, clock, settings, backs>>

\* Positions after the current one whose card still exists.
Remaining == {i \in index + 1 .. Len(queue) : Exists(queue[i])}

\* Variant of Advance: a deleted card is not skipped.
AdvanceByOne ==
    IF index >= Len(queue)
    THEN ClearSession /\ UNCHANGED fronts
    ELSE /\ index' = index + 1
         /\ IF Exists(queue[index + 1]) THEN SendFront(queue[index + 1])
                                        ELSE UNCHANGED <<fronts, asked>>
         /\ logged' = 0
         /\ UNCHANGED <<reviewing, queue, granted, opened, reborn>>

\* _advance: skip deleted cards, send the next front, or finish.
Advance ==
    IF Remaining = {}
    THEN ClearSession /\ UNCHANGED fronts
    ELSE /\ \E i \in Remaining : /\ \A j \in Remaining : i <= j
                                 /\ index' = i
                                 /\ SendFront(queue[i])
         /\ logged' = 0
         /\ UNCHANGED <<reviewing, queue, granted, opened, reborn>>

\* Variant of IsCurrent: any card of the session will do.
IsQueued(c) == reviewing /\ c \in Picked(queue)

\* The card every handler compares the pressed button with.
IsCurrent(c) == reviewing /\ c = queue[index]

\* on_show: the front is edited into the back with the grades
Show(c) ==
    /\ c \in fronts /\ IsCurrent(c) /\ Exists(c)
    /\ backs' = backs \cup {c}
    /\ UNCHANGED <<deck, reborn, clock, settings, session, fronts>>

\* on_show for a card that was deleted under the session
ShowDeleted(c) ==
    /\ c \in fronts /\ IsCurrent(c) /\ ~Exists(c)
    /\ Advance
    /\ UNCHANGED <<deck, clock, settings, backs>>

\* Variant of Graded: every review counts as the first.
GradedAnew(c, delay) ==
    [deck EXCEPT ![c] = [state |-> "Seen", due |-> now + delay,
                         suspended |-> @.suspended, first |-> now]]

\* Variant of Graded: the interval is taken off instead of added.
GradedBackwards(c, delay) ==
    [deck EXCEPT ![c] = [state |-> "Seen", due |-> now - delay,
                         suspended |-> @.suspended, first |-> now]]

\* SrsScheduler.review and apply_review: some later due time, and the review row.
Graded(c, delay) ==
    [deck EXCEPT ![c] =
        [state |-> "Seen", due |-> now + delay, suspended |-> @.suspended,
         first |-> IF @.state = "New" THEN now ELSE @.first]]

\* on_grade up to the commit
LogReview(c) ==
    \E delay \in 1 .. MaxDelay : deck' = Graded(c, delay)

\* on_grade, all of it
Grade(c) ==
    /\ c \in backs /\ IsCurrent(c)
    /\ IF Exists(c) THEN LogReview(c) ELSE UNCHANGED deck
    /\ Advance
    /\ UNCHANGED <<clock, settings, backs>>

\* on_grade when removing the keyboard fails: the review is in, index is not moved
GradeThenFail(c) ==
    /\ c \in backs /\ IsCurrent(c) /\ Exists(c) /\ logged < MaxLogs
    /\ LogReview(c)
    /\ logged' = logged + 1
    /\ asked' = 0
    /\ UNCHANGED <<clock, settings, reviewing, queue, index, chat, granted, opened, reborn>>

\* A command of another flow, or a restart: MemoryStorage forgets the session.
LoseSession ==
    /\ reviewing
    /\ ClearSession
    /\ UNCHANGED <<deck, clock, settings, chat>>

-----------------------------------------------------------------------------
(* The deck changes while a session runs.                                   *)

Pending == {queue[i] : i \in index .. Len(queue)}

\* A new row gets an id above every existing one (rows of other participants
\* may leave gaps), so the id of a deleted card can come back.
Capture(id) ==
    /\ ~Exists(id)
    /\ \A c \in Cards : Exists(c) => c < id
    /\ deck' = [deck EXCEPT ![id] = NewCard(now)]
    /\ reborn' = IF id \in Pending \ granted THEN reborn \cup {id} ELSE reborn
    /\ UNCHANGED <<clock, settings, session, chat>>

DeleteCard(c) ==
    /\ Exists(c)
    /\ deck' = [deck EXCEPT ![c] = NoCard]
    /\ UNCHANGED <<reborn, clock, settings, session, chat>>

ToggleSuspended(c) ==
    /\ Exists(c)
    /\ deck' = [deck EXCEPT ![c].suspended = ~@]
    /\ UNCHANGED <<reborn, clock, settings, session, chat>>

\* Time passes; local midnight may fall in between (days have 23 to 25 hours).
Tick ==
    /\ now < MaxTime
    /\ now' = now + 1
    /\ dayStart' \in {dayStart, now + 1}
    /\ UNCHANGED <<deck, reborn, settings, session, chat>>

\* on_timezone_chosen, from an old keyboard perhaps: the session runs on, while the day
\* now starts at the midnight of another zone.
MoveZone ==
    /\ dayStart' \in 0 .. now
    /\ UNCHANGED <<deck, reborn, now, settings, session, chat>>

\* handle_value: the state "awaiting_value" has replaced whatever session there was.
SetLimits ==
    /\ ~reviewing
    /\ \/ sessionMax' \in Sizes /\ limit' = limit
       \/ limit' \in Limits /\ sessionMax' = sessionMax
    /\ UNCHANGED <<deck, reborn, clock, session, chat>>

Next ==
    \/ StartSession \/ LoseSession \/ Tick \/ MoveZone \/ SetLimits
    \/ \E c \in Cards : \/ Show(c) \/ ShowDeleted(c)
                        \/ Grade(c) \/ GradeThenFail(c)
                        \/ Capture(c) \/ DeleteCard(c) \/ ToggleSuspended(c)

Spec == Init /\ [][Next]_vars

-----------------------------------------------------------------------------
TypeOK ==
    /\ deck \in [Cards -> CardRow]
    /\ now \in Nat /\ dayStart \in Nat
    /\ sessionMax \in Sizes /\ limit \in Limits
    /\ reviewing \in BOOLEAN /\ queue \in Seq(Cards)
    /\ index \in Nat \ {0}
    /\ fronts \subseteq Cards /\ backs \subseteq Cards
    /\ logged \in Nat /\ asked \in Cards \cup {0}
    /\ granted \subseteq Cards /\ opened \in Nat /\ reborn \subseteq Cards

PendingNew == {c \in Pending : deck[c].state = "New"}

\* queue.py:6-7, new cards are "limited by how many new cards may still be introduced
\* today".  While a session that took new cards runs, the cards introduced since the start
\* of the day it was opened on and the new ones it has still to come stay within the daily
\* limit, whatever sessions came before it and however midnights, moved time zones,
\* changed limits, deletions and new words interleave.  A new card under the id of a
\* deleted one counts if the session had that id queued as new; if it was queued as due,
\* the card is asked beyond the limit, and is excepted.
NewBudgetKept ==
    granted # {} =>
        Cardinality((IntroducedSince(opened) \cup PendingNew) \ reborn) <= limit

\* A review is logged for c in this step.
LogsReviewOf(c) == /\ Exists(c) /\ deck'[c].state = "Seen"
                   /\ \/ deck[c].state = "New"
                      \/ deck'[c].due # deck[c].due

\* The card is new or due, or its position is logged already.
GradesRipe ==
    \A c \in Cards : LogsReviewOf(c) =>
        deck[c].state = "New" \/ deck[c].due <= now \/ logged > 0

\* Whatever was pressed in whichever order on keyboards old and new, a card is
\* graded only when it is new or due at that moment, unless its position was
\* graded already and a failed Telegram call left the session standing on it.
NoEarlyReview == [][GradesRipe]_vars

\* A running session waits on the card it asked about last, unless the message
\* that should have carried the keyboard failed: no skip over deleted cards, no
\* old button and no new session leaves it on a card nobody was asked.
CurrentCardAsked == reviewing /\ asked # 0 => index <= Len(queue) /\ asked = queue[index]

-----------------------------------------------------------------------------
(* Seen from outside, a session is the set of cards still to be asked.      *)

Open    == IF logged > 0 THEN queue[index] ELSE 0
Promise == INSTANCE Schedule WITH None <- 0, promised <- Pending, open <- Open

\* Queues, skipped positions, old keyboards, failed calls and restarts implement the
\* learner's schedule: only ripe cards are promised, within the day's allowance, each
\* is answered once per promise, and nothing but an answer moves a due date.
KeepsSchedule == Promise!Spec
=============================================================================
