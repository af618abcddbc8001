---------------------------- MODULE ReviewProofs ----------------------------
(***************************************************************************)
(* Theorems about Review for every deck size, every value of the session   *)
(* size and of the daily limit, and every clock.                           *)
(***************************************************************************)
EXTENDS Review, FiniteSetTheorems, TLAPS

\* A running session stands on a position of a queue without repetitions; without
\* one the FSM data is empty.
SessionShape ==
    /\ reviewing => index <= Len(queue)
    /\ ~reviewing => queue = <<>> /\ index = 1 /\ logged = 0 /\ granted = {}
    /\ \A i, j \in DOMAIN queue : i # j => queue[i] # queue[j]

\* What is still to come was new or due when the queue was built and is so still:
\* only a grade moves a due date, and a grade moves the session on, unless it failed.
PendingRipe ==
    \A i \in index .. Len(queue) :
        \/ deck[queue[i]].state # "Seen"
        \/ deck[queue[i]].due <= now
        \/ i = index /\ logged > 0

IInv == TypeOK /\ SessionShape /\ PendingRipe

-----------------------------------------------------------------------------
\* What StartSession knows of the pages it joins into the queue.
LEMMA PagesType ==
    ASSUME NEW rows \in SUBSET Cards, NEW p \in Pages(rows)
    PROVE  /\ p \in Seq(Cards) /\ DOMAIN p = 1 .. Len(p) /\ Len(p) \in Nat
           /\ Picked(p) \subseteq Cards
  <1>1. PICK n \in 0 .. Cardinality(rows) : p \in [1 .. n -> rows]
    BY DEF Pages
  <1>2. n \in Nat
    OBVIOUS
  <1> QED BY <1>1, <1>2 DEF Picked

LEMMA RowsType == DueCards \in SUBSET Cards /\ NewCards \in SUBSET Cards
  BY DEF DueCards, NewCards

\* The joined queue has no repetitions and holds only unseen or due cards.
LEMMA QueueBuilt ==
    ASSUME TypeOK, NEW d \in Pages(DueCards), NEW n \in Pages(NewCards), NEW room,
           DuePage(d), NewPage(n, room)
    PROVE  /\ d \o n \in Seq(Cards)
           /\ \A i, j \in DOMAIN (d \o n) : i # j => (d \o n)[i] # (d \o n)[j]
           /\ \A i \in DOMAIN (d \o n) : \/ deck[(d \o n)[i]].state # "Seen"
                                         \/ deck[(d \o n)[i]].due <= now
  <1> DEFINE q == d \o n
  <1>1. /\ d \in Seq(Cards) /\ n \in Seq(Cards)
        /\ DOMAIN d = 1 .. Len(d) /\ DOMAIN n = 1 .. Len(n)
    BY PagesType, RowsType
  <1>2. /\ Picked(d) \subseteq DueCards /\ Picked(n) \subseteq NewCards
        /\ \A i, j \in DOMAIN d : i # j => d[i] # d[j]
        /\ \A i, j \in DOMAIN n : i # j => n[i] # n[j]
    BY DEF DuePage, NewPage, PageOf
  <1>3. /\ \A i \in 1 .. Len(d) : d[i] \in DueCards
        /\ \A i \in 1 .. Len(n) : n[i] \in NewCards
    BY <1>1, <1>2 DEF Picked
  <1>4. /\ q \in Seq(Cards) /\ Len(q) = Len(d) + Len(n)
        /\ DOMAIN q = 1 .. Len(d) + Len(n)
        /\ \A i \in 1 .. Len(d) : q[i] = d[i]
        /\ \A i \in Len(d) + 1 .. Len(d) + Len(n) : q[i] = n[i - Len(d)]
    BY <1>1
  <1>5. \A i \in DOMAIN q : \/ i \in 1 .. Len(d) /\ q[i] \in DueCards
                            \/ i \in Len(d) + 1 .. Len(d) + Len(n) /\ q[i] \in NewCards
    BY <1>1, <1>3, <1>4
  <1>6. DueCards \cap NewCards = {}
    BY DEF DueCards, NewCards
  <1>7. \A i, j \in DOMAIN q : i # j => q[i] # q[j]
    <2> SUFFICES ASSUME NEW i \in DOMAIN q, NEW j \in DOMAIN q, i # j
                 PROVE  q[i] # q[j]
      OBVIOUS
    <2>1. CASE i \in 1 .. Len(d) /\ j \in 1 .. Len(d)
      BY <2>1, <1>1, <1>2, <1>4
    <2>2. CASE i \notin 1 .. Len(d) /\ j \notin 1 .. Len(d)
      <3>1. /\ i - Len(d) \in DOMAIN n /\ j - Len(d) \in DOMAIN n
            /\ i - Len(d) # j - Len(d)
            /\ q[i] = n[i - Len(d)] /\ q[j] = n[j - Len(d)]
        BY <2>2, <1>1, <1>4
      <3> QED BY <3>1, <1>2
    <2>3. CASE ~(i \in 1 .. Len(d) <=> j \in 1 .. Len(d))
      BY <2>3, <1>5, <1>6
    <2> QED BY <2>1, <2>2, <2>3
  <1>8. \A i \in DOMAIN q : deck[q[i]].state # "Seen" \/ deck[q[i]].due <= now
    BY <1>5 DEF DueCards, NewCards
  <1> HIDE DEF q
  <1> QED BY <1>4, <1>7, <1>8 DEF q

-----------------------------------------------------------------------------
\* FSMContext.clear() leaves well-typed, empty session data.
LEMMA ClearType ==
    ASSUME ClearSession
    PROVE  /\ reviewing' \in BOOLEAN /\ queue' \in Seq(Cards)
           /\ index' \in Nat \ {0}
           /\ logged' \in Nat /\ asked' \in Cards \cup {0}
           /\ granted' \subseteq Cards /\ opened' \in Nat /\ reborn' \subseteq Cards
  <1>1. <<>> \in Seq(Cards) /\ 0 \in Nat /\ 1 \in Nat \ {0}
    OBVIOUS
  <1>2. reviewing' \in BOOLEAN /\ asked' \in Cards \cup {0}
    BY Zenon DEF ClearSession
  <1>3. /\ queue' = <<>> /\ index' = 1 /\ logged' = 0
        /\ granted' = {} /\ opened' = 0 /\ reborn' = {}
    BY DEF ClearSession
  <1> QED BY <1>1, <1>2, <1>3

\* Ending a session leaves nothing pending.
LEMMA ClearKeeps ==
    ASSUME ClearSession
    PROVE  SessionShape' /\ PendingRipe'
  BY DEF ClearSession, SessionShape, PendingRipe

\* Moving on keeps a queue without repetitions; what lies ahead was already
\* pending, and the positions behind do not matter any more.
LEMMA AdvanceKeeps ==
    ASSUME TypeOK, SessionShape, reviewing, Advance,
           NEW i \in index' .. Len(queue')
    PROVE  reviewing' => /\ queue' = queue
                         /\ i \in index + 1 .. Len(queue)
  <1>1. CASE Remaining = {}
    BY <1>1 DEF Advance, ClearSession
  <1>2. CASE Remaining # {}
    BY <1>2 DEF Advance, Remaining, TypeOK
  <1> QED BY <1>1, <1>2

LEMMA AdvanceType ==
    ASSUME TypeOK, SessionShape, reviewing, Advance
    PROVE  /\ reviewing' \in BOOLEAN /\ queue' \in Seq(Cards)
           /\ index' \in Nat \ {0}
           /\ fronts' \subseteq Cards /\ logged' = 0 /\ asked' \in Cards \cup {0}
           /\ granted' \subseteq Cards /\ opened' \in Nat /\ reborn' \subseteq Cards
           /\ SessionShape'
           /\ ~reviewing' => index' = 1 /\ queue' = <<>>
  <1>1. CASE Remaining = {}
    <2>1. ClearSession /\ fronts' = fronts
      BY <1>1 DEF Advance
    <2>2. /\ logged' = 0 /\ queue' = <<>> /\ index' = 1
      BY <2>1 DEF ClearSession
    <2> QED BY <2>1, <2>2, ClearType, ClearKeeps DEF TypeOK
  <1>2. CASE Remaining # {}
    <2>1. PICK i \in Remaining : index' = i /\ SendFront(queue[i])
      BY <1>2 DEF Advance
    <2>2. i \in Nat \ {0} /\ i <= Len(queue) /\ queue[i] \in Cards
      BY <2>1 DEF Remaining, TypeOK
    <2>3. /\ reviewing' = reviewing /\ queue' = queue /\ logged' = 0
          /\ granted' = granted /\ opened' = opened /\ reborn' = reborn
      BY <1>2 DEF Advance
    <2>4. fronts' \subseteq Cards /\ asked' \in Cards \cup {0}
      BY <2>1, <2>2 DEF SendFront, TypeOK
    <2> QED BY <2>1, <2>2, <2>3, <2>4 DEF SessionShape, TypeOK
  <1> QED BY <1>1, <1>2

-----------------------------------------------------------------------------
LEMMA InitIInv == Init => IInv
  <1> SUFFICES ASSUME Init PROVE IInv
    OBVIOUS
  <1>1. <<>> \in Seq(Cards) /\ NoCard \in CardRow
    BY DEF NoCard, CardRow
  <1>2. reviewing \in BOOLEAN /\ asked \in Cards \cup {0}
    BY Zenon DEF Init
  <1>3. TypeOK
    BY <1>1, <1>2 DEF Init, TypeOK
  <1>4. SessionShape /\ PendingRipe
    BY DEF Init, SessionShape, PendingRipe
  <1> QED BY <1>3, <1>4 DEF IInv

LEMMA StartKeepsIInv == IInv /\ StartSession => IInv'
  <1> SUFFICES ASSUME IInv, StartSession PROVE IInv'
    OBVIOUS
  <1> USE DEF IInv
  <1>1. PICK d \in Pages(DueCards), n \in Pages(NewCards) :
            /\ DuePage(d) /\ NewPage(n, sessionMax - Len(d))
            /\ IF d \o n = <<>>
               THEN ClearSession /\ UNCHANGED fronts
               ELSE /\ reviewing' = TRUE /\ queue' = d \o n
                    /\ index' = 1 /\ logged' = 0
                    /\ SendFront((d \o n)[1])
                    /\ granted' = Picked(n) /\ opened' = dayStart /\ reborn' = {}
            /\ UNCHANGED <<deck, now, dayStart, sessionMax, limit, backs>>
    BY DEF StartSession, clock, settings
  <1>2. Picked(n) \subseteq Cards
    BY <1>1, PagesType, RowsType
  <1>3. CASE d \o n = <<>>
    <2>1. TypeOK'
      BY <1>1, <1>3, ClearType DEF TypeOK
    <2> QED BY <2>1, <1>1, <1>3, ClearKeeps
  <1>4. CASE d \o n # <<>>
    <2>1. /\ d \o n \in Seq(Cards)
          /\ \A i, j \in DOMAIN (d \o n) : i # j => (d \o n)[i] # (d \o n)[j]
          /\ \A i \in DOMAIN (d \o n) : \/ deck[(d \o n)[i]].state # "Seen"
                                         \/ deck[(d \o n)[i]].due <= now
      BY <1>1, QueueBuilt
    <2> DEFINE q == d \o n
    <2> HIDE DEF q
    <2>2. /\ q \in Seq(Cards) /\ Len(q) >= 1 /\ q[1] \in Cards
          /\ queue' = q /\ reviewing' /\ index' = 1
      BY <2>1, <1>1, <1>4 DEF q
    <2>3. fronts' \subseteq Cards /\ asked' \in Cards \cup {0}
      BY <2>2, <1>1, <1>4 DEF SendFront, TypeOK, q
    <2>4. TypeOK'
      BY <2>2, <2>3, <1>1, <1>2, <1>4 DEF TypeOK
    <2>5. SessionShape'
      BY <2>1, <2>2 DEF SessionShape, q
    <2>6. PendingRipe'
      <3>1. deck' = deck /\ now' = now
        BY <1>1
      <3>2. \A i \in DOMAIN q : deck[q[i]].state # "Seen" \/ deck[q[i]].due <= now
        BY <2>1 DEF q
      <3>3. DOMAIN q = 1 .. Len(q)
        BY <2>2
      <3> QED BY <2>2, <3>1, <3>2, <3>3 DEF PendingRipe
    <2> QED BY <2>4, <2>5, <2>6
  <1> QED BY <1>3, <1>4

\* The rows a grade writes.
LEMMA LogReviewType ==
    ASSUME TypeOK, NEW c \in Cards, LogReview(c)
    PROVE  /\ deck' \in [Cards -> CardRow]
           /\ \A x \in Cards \ {c} : deck'[x] = deck[x]
           /\ deck'[c].state = "Seen"
           /\ deck'[c].first = IF deck[c].state = "New" THEN now ELSE deck[c].first
  BY ReviewAssumption DEF LogReview, Graded, TypeOK, CardRow

\* The positions after the current one are untouched by a grade, as the queue has
\* no repetitions.
LEMMA GradeKeepsIInv ==
    ASSUME IInv, NEW c \in Cards, Grade(c)
    PROVE  IInv'
  <1> USE DEF IInv
  <1>1. /\ reviewing /\ c = queue[index] /\ Advance
        /\ UNCHANGED <<now, dayStart, sessionMax, limit, backs>>
    BY DEF Grade, IsCurrent, clock, settings
  <1>2. /\ deck' \in [Cards -> CardRow]
        /\ \A x \in Cards \ {c} : deck'[x] = deck[x]
    <2>1. CASE Exists(c)
      BY <2>1, LogReviewType DEF Grade
    <2>2. CASE ~Exists(c)
      BY <2>2 DEF Grade, TypeOK
    <2> QED BY <2>1, <2>2
  <1>4. TypeOK' /\ SessionShape' /\ (~reviewing' => index' = 1 /\ queue' = <<>>)
    BY <1>1, <1>2, AdvanceType DEF TypeOK
  <1>5. PendingRipe'
    <2> SUFFICES ASSUME NEW i \in index' .. Len(queue')
                 PROVE  deck'[queue'[i]].state # "Seen" \/ deck'[queue'[i]].due <= now'
      BY DEF PendingRipe
    <2>1. reviewing' /\ queue' = queue /\ i \in index + 1 .. Len(queue)
      BY <1>1, <1>4, AdvanceKeeps
    <2>2. queue[i] \in Cards /\ queue[i] # c
      BY <1>1, <2>1 DEF SessionShape, TypeOK
    <2>3. deck[queue[i]].state # "Seen" \/ deck[queue[i]].due <= now
      BY <2>1 DEF PendingRipe, TypeOK
    <2> QED BY <1>1, <1>2, <2>1, <2>2, <2>3
  <1> QED BY <1>4, <1>5

\* A failed keyboard removal leaves the session on a position that is logged.
LEMMA GradeThenFailKeepsIInv ==
    ASSUME IInv, NEW c \in Cards, GradeThenFail(c)
    PROVE  IInv'
  <1> USE DEF IInv
  <1>1. /\ c = queue[index] /\ LogReview(c) /\ logged' = logged + 1
        /\ UNCHANGED <<now, dayStart, sessionMax, limit, reviewing, queue, index, fronts,
                       backs, granted, opened, reborn>>
        /\ asked' = 0 /\ reviewing
    BY DEF GradeThenFail, IsCurrent, clock, settings, chat
  <1>2. /\ deck' \in [Cards -> CardRow]
        /\ \A x \in Cards \ {c} : deck'[x] = deck[x]
    BY <1>1, LogReviewType
  <1>3. asked' \in Cards \cup {0}
    BY <1>1, Zenon
  <1>4. TypeOK'
    BY <1>1, <1>2, <1>3 DEF TypeOK
  <1>5. SessionShape'
    BY <1>1 DEF SessionShape
  <1>6. PendingRipe'
    <2> SUFFICES ASSUME NEW i \in index .. Len(queue), i # index
                 PROVE  deck'[queue[i]].state # "Seen" \/ deck'[queue[i]].due <= now
      BY <1>1 DEF PendingRipe, TypeOK
    <2>1. queue[i] \in Cards /\ queue[i] # c
      BY <1>1 DEF SessionShape, TypeOK
    <2>2. deck[queue[i]].state # "Seen" \/ deck[queue[i]].due <= now
      BY DEF PendingRipe, TypeOK
    <2> QED BY <1>2, <2>1, <2>2
  <1> QED BY <1>4, <1>5, <1>6

LEMMA ShowDeletedKeepsIInv ==
    ASSUME IInv, NEW c \in Cards, ShowDeleted(c)
    PROVE  IInv'
  <1> USE DEF IInv
  <1>1. /\ reviewing /\ Advance
        /\ UNCHANGED <<deck, now, dayStart, sessionMax, limit, backs>>
    BY DEF ShowDeleted, IsCurrent, clock, settings
  <1>2. TypeOK' /\ SessionShape' /\ (~reviewing' => index' = 1 /\ queue' = <<>>)
    BY <1>1, AdvanceType DEF TypeOK
  <1>3. PendingRipe'
    <2> SUFFICES ASSUME NEW i \in index' .. Len(queue')
                 PROVE  deck[queue'[i]].state # "Seen" \/ deck[queue'[i]].due <= now
      BY <1>1 DEF PendingRipe
    <2>1. reviewing' /\ queue' = queue /\ i \in index + 1 .. Len(queue)
      BY <1>1, <1>2, AdvanceKeeps
    <2> QED BY <2>1 DEF PendingRipe, TypeOK
  <1> QED BY <1>2, <1>3

\* Steps on the deck only: a row that is added or removed is not "Seen", and
\* suspending moves no date.
LEMMA DeckStepKeepsIInv ==
    ASSUME IInv, UNCHANGED <<clock, settings, session, chat>>,
           deck' \in [Cards -> CardRow], reborn' \subseteq Cards,
           \A c \in Cards : \/ deck'[c].state # "Seen"
                           \/ /\ deck'[c].state = deck[c].state
                              /\ deck'[c].due = deck[c].due
    PROVE  IInv'
  <1> USE DEF IInv, clock, settings, session, chat
  <1>1. TypeOK' /\ SessionShape'
    BY DEF TypeOK, SessionShape
  <1>2. PendingRipe'
    <2> SUFFICES ASSUME NEW i \in index .. Len(queue), deck'[queue[i]].state = "Seen",
                        ~(i = index /\ logged > 0)
                 PROVE  deck'[queue[i]].due <= now
      BY DEF PendingRipe
    <2>1. queue[i] \in Cards
      BY DEF TypeOK
    <2> QED BY <2>1 DEF PendingRipe
  <1> QED BY <1>1, <1>2

LEMMA CaptureRow ==
    ASSUME TypeOK, NEW c \in Cards, Capture(c)
    PROVE  /\ deck' \in [Cards -> CardRow] /\ reborn' \subseteq Cards
           /\ deck'[c].state = "New"
           /\ \A x \in Cards \ {c} : deck'[x] = deck[x]
           /\ deck[c].state = "Absent"
           /\ UNCHANGED <<clock, settings, session, chat>>
  <1>1. /\ NewCard(now) \in CardRow
        /\ NewCard(now).state = "New"
    BY DEF NewCard, CardRow, TypeOK
  <1> QED BY <1>1 DEF Capture, Exists, TypeOK

LEMMA DeleteRow ==
    ASSUME TypeOK, NEW c \in Cards, DeleteCard(c)
    PROVE  /\ deck' \in [Cards -> CardRow] /\ reborn' = reborn
           /\ deck'[c].state = "Absent"
           /\ \A x \in Cards \ {c} : deck'[x] = deck[x]
           /\ UNCHANGED <<clock, settings, session, chat>>
  <1>1. NoCard \in CardRow /\ NoCard.state = "Absent"
    BY DEF NoCard, CardRow
  <1> QED BY <1>1 DEF DeleteCard, TypeOK

LEMMA ToggleRow ==
    ASSUME TypeOK, NEW c \in Cards, ToggleSuspended(c)
    PROVE  /\ deck' \in [Cards -> CardRow] /\ reborn' = reborn
           /\ \A x \in Cards : /\ deck'[x].state = deck[x].state
                              /\ deck'[x].due = deck[x].due
                              /\ deck'[x].first = deck[x].first
           /\ UNCHANGED <<clock, settings, session, chat>>
  BY DEF ToggleSuspended, TypeOK, CardRow

LEMMA TickKeepsIInv == IInv /\ Tick => IInv'
  <1> SUFFICES ASSUME IInv, Tick PROVE IInv'
    OBVIOUS
  <1> USE DEF IInv, Tick, settings, session, chat
  <1>1. TypeOK' /\ SessionShape'
    BY DEF TypeOK, SessionShape
  <1>2. \A i \in index .. Len(queue) : queue[i] \in Cards /\ deck[queue[i]].due \in Nat
    BY DEF TypeOK, CardRow
  <1>3. PendingRipe'
    BY <1>2 DEF PendingRipe, TypeOK
  <1> QED BY <1>1, <1>3

\* /settings moves no date of a card and leaves the session alone.
LEMMA SettingsKeepIInv == IInv /\ (MoveZone \/ SetLimits) => IInv'
  <1> SUFFICES ASSUME IInv, MoveZone \/ SetLimits PROVE IInv'
    OBVIOUS
  <1>1. /\ UNCHANGED <<deck, reborn, now, session, chat>>
        /\ dayStart' \in Nat /\ sessionMax' \in Sizes /\ limit' \in Limits
    BY DEF IInv, TypeOK, MoveZone, SetLimits, clock, settings
  <1> QED BY <1>1 DEF IInv, TypeOK, SessionShape, PendingRipe, session, chat

LEMMA NextKeepsIInv == IInv /\ [Next]_vars => IInv'
  <1> SUFFICES ASSUME IInv, [Next]_vars PROVE IInv'
    OBVIOUS
  <1>1. TypeOK
    BY DEF IInv
  <1>2. CASE StartSession
    BY <1>2, StartKeepsIInv
  <1>3. CASE LoseSession
    <2>1. /\ ClearSession
          /\ UNCHANGED <<deck, now, dayStart, sessionMax, limit, fronts, backs>>
      BY <1>3 DEF LoseSession, clock, settings, chat
    <2> QED BY <2>1, ClearType, ClearKeeps DEF IInv, TypeOK
  <1>4. CASE Tick \/ MoveZone \/ SetLimits
    BY <1>4, TickKeepsIInv, SettingsKeepIInv
  <1>5. ASSUME NEW c \in Cards, Show(c) PROVE IInv'
    BY <1>5 DEF Show, IInv, TypeOK, SessionShape, PendingRipe, clock, settings, session
  <1>6. ASSUME NEW c \in Cards, ShowDeleted(c) PROVE IInv'
    BY <1>6, ShowDeletedKeepsIInv
  <1>7. ASSUME NEW c \in Cards, Grade(c) PROVE IInv'
    BY <1>7, GradeKeepsIInv
  <1>8. ASSUME NEW c \in Cards, GradeThenFail(c) PROVE IInv'
    BY <1>8, GradeThenFailKeepsIInv
  <1>9. ASSUME NEW c \in Cards, Capture(c) PROVE IInv'
    BY <1>1, <1>9, CaptureRow, DeckStepKeepsIInv
  <1>10. ASSUME NEW c \in Cards, DeleteCard(c) PROVE IInv'
    BY <1>1, <1>10, DeleteRow, DeckStepKeepsIInv DEF TypeOK
  <1>11. ASSUME NEW c \in Cards, ToggleSuspended(c) PROVE IInv'
    BY <1>1, <1>11, ToggleRow, DeckStepKeepsIInv DEF TypeOK
  <1>12. CASE UNCHANGED vars
    BY <1>12 DEF vars, IInv, TypeOK, SessionShape, PendingRipe
  <1> QED BY <1>2, <1>3, <1>4, <1>5, <1>6, <1>7, <1>8, <1>9, <1>10, <1>11, <1>12 DEF Next

\* The inductive invariant holds in every reachable state.
THEOREM Invariance == Spec => []IInv
  <1>1. Init => IInv
    BY InitIInv
  <1>2. IInv /\ [Next]_vars => IInv'
    BY NextKeepsIInv
  <1> QED BY <1>1, <1>2, PTL DEF Spec

\* Every variable of the session, the deck and the chat keeps its type.
THEOREM TypeCorrect == Spec => []TypeOK
  <1>1. IInv => TypeOK
    BY DEF IInv
  <1> QED BY <1>1, Invariance, PTL

-----------------------------------------------------------------------------
\* A step that logs a review of c is a grade of the current card.
LEMMA OnlyGradesLog ==
    ASSUME IInv, [Next]_vars, NEW c \in Cards, LogsReviewOf(c)
    PROVE  IsCurrent(c)
  <1>1. TypeOK
    BY DEF IInv
  <1>2. ASSUME deck' = deck PROVE FALSE
    BY <1>2 DEF LogsReviewOf
  <1>3. ASSUME NEW x \in Cards, Grade(x) \/ GradeThenFail(x) PROVE IsCurrent(c)
    <2>1. IsCurrent(x) /\ (LogReview(x) \/ deck' = deck)
      BY <1>3 DEF Grade, GradeThenFail
    <2>2. \A y \in Cards \ {x} : LogReview(x) => deck'[y] = deck[y]
      BY <1>1, LogReviewType DEF IInv
    <2>3. x = c
      BY <1>2, <2>1, <2>2 DEF LogsReviewOf
    <2> QED BY <2>1, <2>3
  <1>4. ASSUME NEW x \in Cards, Capture(x) \/ DeleteCard(x) PROVE FALSE
    <2>1. deck'[x].state # "Seen" /\ \A y \in Cards \ {x} : deck'[y] = deck[y]
      BY <1>1, <1>4, CaptureRow, DeleteRow
    <2> QED BY <2>1 DEF LogsReviewOf
  <1>5. ASSUME NEW x \in Cards, ToggleSuspended(x) PROVE FALSE
    BY <1>1, <1>5, ToggleRow DEF LogsReviewOf
  <1> QED
    BY <1>2, <1>3, <1>4, <1>5
    DEF Next, StartSession, LoseSession, Tick, MoveZone, SetLimits, Show, ShowDeleted, vars

\* on_grade: whatever is pressed in whichever order, a card is graded only when it is
\* new or due, or when a failed call left the session on a position already logged.
THEOREM GradesOnlyRipeCards == Spec => NoEarlyReview
  <1>1. IInv /\ [Next]_vars => [GradesRipe]_vars
    <2> SUFFICES ASSUME IInv, [Next]_vars, NEW c \in Cards, LogsReviewOf(c)
                 PROVE  \/ deck[c].state = "New" \/ deck[c].due <= now \/ logged > 0
      BY DEF GradesRipe
    <2>1. reviewing /\ c = queue[index]
      BY OnlyGradesLog DEF IsCurrent
    <2>2. index \in index .. Len(queue)
      BY <2>1 DEF IInv, TypeOK, SessionShape
    <2>3. deck[c].state # "Seen" \/ deck[c].due <= now \/ logged > 0
      BY <2>1, <2>2 DEF IInv, PendingRipe
    <2>4. deck[c].state \in {"New", "Seen"}
      BY DEF LogsReviewOf, Exists, IInv, TypeOK, CardRow
    <2> QED BY <2>3, <2>4
  <1> QED BY <1>1, Invariance, PTL DEF Spec, NoEarlyReview

-----------------------------------------------------------------------------
\* The cards of the budget: introduced since the session was opened on its day, or taken
\* as new and still to come -- even if deleted, as the id may be given again.
Granted == Pending \cap granted
Held    == (IntroducedSince(opened) \cup Granted) \ reborn

\* A new card that is still to come was taken as one, or was born under a queued id.
BudgetInv ==
    /\ PendingNew \subseteq granted \cup reborn
    /\ granted # {} => Cardinality(Held) <= limit

LEMMA CardsFinite ==
    /\ IsFiniteSet(Cards)
    /\ \A S \in SUBSET Cards : IsFiniteSet(S) /\ Cardinality(S) \in Nat
  <1>1. IsFiniteSet(Cards)
    BY FS_Interval, ReviewAssumption DEF Cards
  <1> QED BY <1>1, FS_Subset, FS_CardinalityType

LEMMA HeldType ==
    ASSUME TypeOK
    PROVE  /\ \A t : IntroducedSince(t) \subseteq Cards
           /\ Pending \subseteq Cards
           /\ Held \subseteq Cards
  <1>1. \A t : IntroducedSince(t) \subseteq Cards
    BY DEF IntroducedSince
  <1>2. Pending \subseteq Cards
    <2> SUFFICES ASSUME NEW i \in index .. Len(queue) PROVE queue[i] \in Cards
      BY DEF Pending
    <2> QED BY DEF TypeOK
  <1> QED BY <1>1, <1>2 DEF Granted, Held

\* What the run checks follows from the inductive form.
LEMMA BudgetImplies ==
    ASSUME IInv, BudgetInv
    PROVE  NewBudgetKept
  <1> SUFFICES ASSUME granted # {}
               PROVE  Cardinality((IntroducedSince(opened) \cup PendingNew) \ reborn) <= limit
    BY DEF NewBudgetKept
  <1> DEFINE S == (IntroducedSince(opened) \cup PendingNew) \ reborn
  <1>1. S \subseteq Held /\ Held \in SUBSET Cards
    BY HeldType DEF BudgetInv, IInv, Held, Granted, PendingNew
  <1>2. S \in SUBSET Cards
    BY <1>1
  <1> HIDE DEF S
  <1>3. /\ Cardinality(S) <= Cardinality(Held) /\ Cardinality(Held) <= limit
        /\ Cardinality(S) \in Nat /\ Cardinality(Held) \in Nat /\ limit \in Nat
    BY <1>1, <1>2, CardsFinite, FS_Subset, ReviewAssumption DEF BudgetInv, IInv, TypeOK
  <1>4. Cardinality(S) <= limit
    BY <1>3
  <1> QED BY <1>4 DEF S

\* A step of the session after which no card is counted that was not counted before.
LEMMA HeldShrinks ==
    ASSUME IInv, IInv', BudgetInv, granted' = granted, limit' = limit, Held' \subseteq Held
    PROVE  granted' # {} => Cardinality(Held') <= limit'
  <1> SUFFICES ASSUME granted # {} PROVE Cardinality(Held') <= limit
    OBVIOUS
  <1>1. Held \in SUBSET Cards /\ Held' \in SUBSET Cards
    BY HeldType DEF IInv
  <1>2. /\ IsFiniteSet(Held) /\ Cardinality(Held) \in Nat /\ Cardinality(Held') \in Nat
    BY <1>1, CardsFinite
  <1>3. Cardinality(Held') <= Cardinality(Held)
    BY <1>1, <1>2, FS_Subset
  <1>4. Cardinality(Held) <= limit /\ limit \in Nat
    BY ReviewAssumption DEF BudgetInv, IInv, TypeOK
  <1> QED BY <1>2, <1>3, <1>4

\* A page without repetitions lists as many cards as it has positions, at most.
LEMMA PickedSize ==
    ASSUME NEW rows \in SUBSET Cards, NEW p \in Pages(rows)
    PROVE  /\ IsFiniteSet(Picked(p)) /\ Cardinality(Picked(p)) \in Nat
           /\ Cardinality(Picked(p)) <= Len(p)
  <1>1. p \in Seq(Cards) /\ DOMAIN p = 1 .. Len(p) /\ Len(p) \in Nat
    BY PagesType
  <1>2. p \in Surjection(1 .. Len(p), Picked(p))
    BY <1>1 DEF Surjection, Picked
  <1>3. IsFiniteSet(1 .. Len(p)) /\ Cardinality(1 .. Len(p)) = Len(p)
    BY <1>1, FS_Interval
  <1> QED BY <1>2, <1>3, FS_Surjection, FS_CardinalityType

\* build_queue: the due cards are capped at session_max.
LEMMA RoomLeft ==
    ASSUME TypeOK, NEW d \in Pages(DueCards), DuePage(d)
    PROVE  sessionMax - Len(d) \in Nat
  <1>1. /\ Len(d) = Least(sessionMax, Cardinality(DueCards)) /\ Len(d) \in Nat
        /\ Cardinality(DueCards) \in Nat /\ sessionMax \in Nat
    BY CardsFinite, RowsType, PagesType, ReviewAssumption DEF DuePage, PageOf, TypeOK
  <1> QED BY <1>1 DEF Least

\* build_queue: the new cards it takes fit into what the day has left.
LEMMA AllowanceFits ==
    ASSUME TypeOK, NEW n \in Pages(NewCards), NEW room \in Nat, NewPage(n, room), Picked(n) # {}
    PROVE  Cardinality(Introduced \cup Picked(n)) <= limit
  <1>1. /\ Introduced \subseteq Cards /\ IsFiniteSet(Introduced)
        /\ Cardinality(Introduced) \in Nat
    BY HeldType, CardsFinite DEF Introduced
  <1>2. /\ IsFiniteSet(Picked(n)) /\ Cardinality(Picked(n)) <= Len(n) /\ Len(n) \in Nat
        /\ Cardinality(Picked(n)) \in Nat /\ Len(n) # 0
    BY PickedSize, PagesType, RowsType DEF Picked
  <1>3. /\ Len(n) = Least(Least(room, Allowance), Cardinality(NewCards))
        /\ Cardinality(NewCards) \in Nat
    BY CardsFinite DEF NewPage, PageOf, NewCards
  <1>4. Allowance \in Nat /\ limit \in Nat
    BY <1>1, ReviewAssumption DEF Allowance, TypeOK
  <1>5. Len(n) <= Allowance
    BY <1>3, <1>4 DEF Least
  <1>6. Cardinality(Introduced) + Len(n) <= limit
    BY <1>1, <1>2, <1>4, <1>5 DEF Allowance
  <1>7. Cardinality(Introduced \cup Picked(n))
            <= Cardinality(Introduced) + Cardinality(Picked(n))
    <2>1. /\ IsFiniteSet(Introduced \cap Picked(n))
          /\ Cardinality(Introduced \cap Picked(n)) \in Nat
      BY <1>1, FS_Intersection, FS_CardinalityType
    <2>2. Cardinality(Introduced \cup Picked(n)) =
              Cardinality(Introduced) + Cardinality(Picked(n))
                  - Cardinality(Introduced \cap Picked(n))
      BY <1>1, <1>2, FS_Union
    <2> DEFINE a == Cardinality(Introduced)
               b == Cardinality(Picked(n))
               k == Cardinality(Introduced \cap Picked(n))
               u == Cardinality(Introduced \cup Picked(n))
    <2>3. a \in Nat /\ b \in Nat /\ k \in Nat /\ u = a + b - k
      BY <1>1, <1>2, <2>1, <2>2
    <2> HIDE DEF a, b, k, u
    <2>4. u <= a + b
      BY <2>3
    <2> QED BY <2>4 DEF a, b, u
  <1>8. Cardinality(Introduced \cup Picked(n)) \in Nat
    BY <1>1, <1>2, FS_Union, FS_CardinalityType
  <1> QED BY <1>1, <1>2, <1>4, <1>6, <1>7, <1>8

\* build_queue: the due part of the queue is not new, and the rest is what it grants.
LEMMA StartKeepsBudget ==
    ASSUME IInv, StartSession
    PROVE  BudgetInv'
  <1>1. PICK d \in Pages(DueCards), n \in Pages(NewCards) :
            /\ DuePage(d) /\ NewPage(n, sessionMax - Len(d))
            /\ IF d \o n = <<>>
               THEN ClearSession
               ELSE /\ queue' = d \o n /\ index' = 1
                    /\ granted' = Picked(n) /\ opened' = dayStart /\ reborn' = {}
            /\ UNCHANGED <<deck, now, dayStart, sessionMax, limit>>
    BY DEF StartSession, clock, settings
  <1>2. /\ d \in Seq(Cards) /\ DOMAIN d = 1 .. Len(d) /\ Picked(d) \subseteq DueCards
        /\ n \in Seq(Cards) /\ DOMAIN n = 1 .. Len(n) /\ Picked(n) \subseteq NewCards
    BY <1>1, PagesType, RowsType DEF DuePage, NewPage, PageOf
  <1>3. CASE d \o n = <<>>
    <2>1. queue' = <<>> /\ index' = 1 /\ granted' = {}
      BY <1>1, <1>3 DEF ClearSession
    <2>2. 1 .. Len(<<>>) = {}
      OBVIOUS
    <2>3. PendingNew' = {}
      BY <2>1, <2>2 DEF Pending, PendingNew
    <2> QED BY <2>1, <2>3 DEF BudgetInv
  <1>4. CASE d \o n # <<>>
    <2>1. /\ queue' = d \o n /\ index' = 1 /\ granted' = Picked(n)
          /\ opened' = dayStart /\ reborn' = {} /\ deck' = deck /\ limit' = limit
      BY <1>1, <1>4
    <2>2. Pending' \subseteq Picked(d) \cup Picked(n)
      <3> SUFFICES ASSUME NEW i \in 1 .. Len(d \o n)
                   PROVE  (d \o n)[i] \in Picked(d) \cup Picked(n)
        BY <2>1 DEF Pending
      <3>1. CASE i <= Len(d)
        BY <3>1, <1>2 DEF Picked
      <3>2. CASE i > Len(d)
        <4>1. i - Len(d) \in 1 .. Len(n) /\ (d \o n)[i] = n[i - Len(d)]
          BY <3>2, <1>2
        <4> QED BY <4>1, <1>2 DEF Picked
      <3> QED BY <3>1, <3>2, <1>2
    <2>3. PendingNew' \subseteq granted'
      BY <2>1, <2>2, <1>2 DEF PendingNew, DueCards
    <2>4. ASSUME Picked(n) # {} PROVE Cardinality(Held') <= limit'
      <3>1. sessionMax - Len(d) \in Nat
        BY <1>1, RoomLeft DEF IInv
      <3>2. Cardinality(Introduced \cup Picked(n)) <= limit
        BY <1>1, <2>4, <3>1, AllowanceFits DEF IInv
      <3>3. IntroducedSince(opened)' = Introduced
        BY <2>1 DEF IntroducedSince, Introduced
      <3>4. Held' \subseteq Introduced \cup Picked(n)
        BY <2>1, <3>3 DEF Held, Granted
      <3>5. Introduced \cup Picked(n) \in SUBSET Cards
        BY <1>2, RowsType DEF Introduced, IntroducedSince
      <3>6. /\ Cardinality(Held') <= Cardinality(Introduced \cup Picked(n))
            /\ Cardinality(Held') \in Nat
            /\ Cardinality(Introduced \cup Picked(n)) \in Nat
        BY <3>4, <3>5, CardsFinite, FS_Subset
      <3> QED BY <2>1, <3>2, <3>6, ReviewAssumption DEF IInv, TypeOK
    <2> QED BY <2>1, <2>3, <2>4 DEF BudgetInv
  <1> QED BY <1>3, <1>4

\* Moving on only drops positions.
LEMMA AdvanceDropsPending ==
    ASSUME TypeOK, SessionShape, reviewing, Advance
    PROVE  /\ Pending' \subseteq Pending
           /\ queue[index] \in Pending
  <1>1. queue[index] \in Pending
    BY DEF Pending, SessionShape, TypeOK
  <1>2. CASE ~reviewing'
    <2>1. queue' = <<>> /\ index' = 1
      BY <1>2, AdvanceType
    <2>2. 1 .. Len(<<>>) = {}
      OBVIOUS
    <2> QED BY <1>1, <2>1, <2>2 DEF Pending
  <1>3. CASE reviewing'
    <2> SUFFICES ASSUME NEW i \in index' .. Len(queue') PROVE queue'[i] \in Pending
      BY <1>1 DEF Pending
    <2>1. queue' = queue /\ i \in index + 1 .. Len(queue)
      BY <1>3, AdvanceKeeps
    <2>2. i \in index .. Len(queue)
      BY <2>1 DEF TypeOK
    <2> QED BY <2>1, <2>2 DEF Pending
  <1> QED BY <1>2, <1>3

\* Moving on grants nothing: it keeps the session's grants, or ends it without any.
LEMMA AdvanceKeepsGrants ==
    ASSUME Advance
    PROVE  \/ granted' = {} /\ reborn' = {} /\ queue' = <<>> /\ index' = 1
           \/ UNCHANGED <<granted, opened, reborn>>
  BY DEF Advance, ClearSession

\* A grade turns a granted card into an introduced one, or introduces a reborn one:
\* nothing is counted that was not counted before.
LEMMA GradeKeepsHeld ==
    ASSUME IInv, BudgetInv, NEW c \in Cards, c \in Pending, Pending' \subseteq Pending,
           (Exists(c) /\ LogReview(c)) \/ deck' = deck,
           UNCHANGED <<granted, opened, reborn>>
    PROVE  Held' \subseteq Held /\ PendingNew' \subseteq granted' \cup reborn'
  <1>1. \A x \in Cards \ {c} : deck'[x] = deck[x]
    BY LogReviewType DEF IInv
  <1>2. deck'[c] # deck[c] => /\ deck'[c].state = "Seen"
                             /\ \/ deck[c].state = "New"
                                \/ deck'[c].first = deck[c].first
    BY LogReviewType DEF IInv
  <1>3. deck'[c] # deck[c] => deck[c].state \in {"New", "Seen"}
    BY DEF IInv, TypeOK, CardRow, Exists
  <1>4. IntroducedSince(opened)' \subseteq IntroducedSince(opened) \cup PendingNew
    <2> SUFFICES ASSUME NEW x \in Cards, deck'[x].state = "Seen", deck'[x].first >= opened
                 PROVE  x \in IntroducedSince(opened) \cup PendingNew
      BY DEF IntroducedSince
    <2>1. CASE deck'[x] = deck[x]
      BY <2>1 DEF IntroducedSince
    <2>2. CASE deck'[x] # deck[x]
      BY <2>2, <1>1, <1>2, <1>3 DEF IntroducedSince, PendingNew
    <2> QED BY <2>1, <2>2
  <1>5. PendingNew' \subseteq PendingNew
    <2>1. Pending \subseteq Cards
      BY HeldType DEF IInv
    <2> QED BY <2>1, <1>1, <1>2 DEF PendingNew
  <1>6. PendingNew \subseteq Granted \cup reborn
    BY DEF BudgetInv, PendingNew, Granted
  <1>7. Held' = ((IntroducedSince(opened))' \cup Granted') \ reborn /\ Granted' \subseteq Granted
    BY DEF Held, Granted
  <1> QED BY <1>4, <1>5, <1>6, <1>7 DEF Held, BudgetInv

\* A step on the deck under the session: cards are added, removed or paused.
LEMMA DeckStepKeepsBudget ==
    ASSUME IInv, IInv', BudgetInv, UNCHANGED <<settings, session>>, reborn \subseteq reborn',
           \A x \in Cards : deck'[x].state = "Seen" =>
               deck[x].state = "Seen" /\ deck'[x].first = deck[x].first,
           \A x \in Pending : deck'[x].state = "New" =>
               deck[x].state = "New" \/ x \in granted \cup reborn'
    PROVE  BudgetInv'
  <1> USE DEF settings, session
  <1>1. Pending' = Pending /\ Pending \subseteq Cards
    BY HeldType DEF Pending, IInv
  <1>2. (IntroducedSince(opened))' \subseteq IntroducedSince(opened)
    BY DEF IntroducedSince
  <1>3. PendingNew' \subseteq granted' \cup reborn'
    BY <1>1 DEF PendingNew, BudgetInv
  <1>4. Held' \subseteq Held
    BY <1>1, <1>2 DEF Held, Granted
  <1> QED BY <1>3, <1>4, HeldShrinks DEF BudgetInv

LEMMA NextKeepsBudget ==
    ASSUME IInv, BudgetInv, [Next]_vars
    PROVE  BudgetInv'
  <1>1. TypeOK /\ SessionShape /\ IInv'
    BY NextKeepsIInv DEF IInv
  <1>2. 1 .. Len(<<>>) = {}
    OBVIOUS
  <1>3. ASSUME granted' = {}, queue' = <<>>, index' = 1 PROVE BudgetInv'
    BY <1>2, <1>3 DEF BudgetInv, PendingNew, Pending
  <1>4. CASE StartSession
    BY <1>4, StartKeepsBudget
  <1>5. CASE LoseSession
    BY <1>5, <1>3 DEF LoseSession, ClearSession
  <1>6. CASE Tick \/ MoveZone
    <2>1. UNCHANGED <<deck, reborn, settings, session>>
      BY <1>6 DEF Tick, MoveZone
    <2> QED BY <2>1, <1>1, DeckStepKeepsBudget
  <1>7. CASE SetLimits
    <2>1. granted = {} /\ queue = <<>> /\ index = 1 /\ UNCHANGED session
      BY <1>1, <1>7 DEF SetLimits, SessionShape
    <2> QED BY <2>1, <1>3 DEF session
  <1>8. ASSUME NEW c \in Cards, Show(c) PROVE BudgetInv'
    BY <1>1, <1>8, DeckStepKeepsBudget DEF Show
  <1>9. ASSUME NEW c \in Cards, ShowDeleted(c) PROVE BudgetInv'
    <2>1. reviewing /\ Advance /\ deck' = deck /\ limit' = limit /\ c = queue[index]
      BY <1>9 DEF ShowDeleted, IsCurrent, settings
    <2>2. CASE UNCHANGED <<granted, opened, reborn>>
      <3>1. Pending' \subseteq Pending /\ c \in Pending
        BY <1>1, <2>1, AdvanceDropsPending
      <3>2. Held' \subseteq Held /\ PendingNew' \subseteq granted' \cup reborn'
        BY <2>1, <2>2, <3>1, GradeKeepsHeld
      <3> QED BY <1>1, <2>1, <2>2, <3>2, HeldShrinks DEF BudgetInv
    <2> QED BY <2>1, <2>2, <1>3, AdvanceKeepsGrants
  <1>10. ASSUME NEW c \in Cards, Grade(c) PROVE BudgetInv'
    <2>1. /\ reviewing /\ Advance /\ limit' = limit /\ c = queue[index]
          /\ (Exists(c) /\ LogReview(c)) \/ deck' = deck
      BY <1>10 DEF Grade, IsCurrent, settings
    <2>2. CASE UNCHANGED <<granted, opened, reborn>>
      <3>1. Pending' \subseteq Pending /\ c \in Pending
        BY <1>1, <2>1, AdvanceDropsPending
      <3>2. Held' \subseteq Held /\ PendingNew' \subseteq granted' \cup reborn'
        BY <2>1, <2>2, <3>1, GradeKeepsHeld
      <3> QED BY <1>1, <2>1, <2>2, <3>2, HeldShrinks DEF BudgetInv
    <2> QED BY <2>1, <2>2, <1>3, AdvanceKeepsGrants
  <1>11. ASSUME NEW c \in Cards, GradeThenFail(c) PROVE BudgetInv'
    <2>1. /\ reviewing /\ c = queue[index] /\ UNCHANGED <<granted, opened, reborn>>
          /\ Exists(c) /\ LogReview(c) /\ queue' = queue /\ index' = index
          /\ limit' = limit
      BY <1>11 DEF GradeThenFail, IsCurrent, settings
    <2>2. Pending' = Pending /\ c \in Pending
      BY <1>1, <2>1 DEF Pending, SessionShape, TypeOK
    <2>3. Held' \subseteq Held /\ PendingNew' \subseteq granted' \cup reborn'
      BY <2>1, <2>2, GradeKeepsHeld
    <2> QED BY <1>1, <2>1, <2>3, HeldShrinks DEF BudgetInv
  <1>12. ASSUME NEW c \in Cards, Capture(c) PROVE BudgetInv'
    <2>1. /\ deck'[c].state = "New" /\ \A x \in Cards \ {c} : deck'[x] = deck[x]
          /\ UNCHANGED <<settings, session>>
      BY <1>1, <1>12, CaptureRow
    <2>2. reborn \subseteq reborn' /\ (c \in Pending => c \in granted \cup reborn')
      BY <1>12 DEF Capture
    <2>3. Pending \subseteq Cards
      BY <1>1, HeldType
    <2> QED BY <1>1, <2>1, <2>2, <2>3, DeckStepKeepsBudget
  <1>13. ASSUME NEW c \in Cards, DeleteCard(c) PROVE BudgetInv'
    <2>1. /\ deck'[c].state = "Absent" /\ \A x \in Cards \ {c} : deck'[x] = deck[x]
          /\ reborn' = reborn /\ UNCHANGED <<settings, session>>
      BY <1>1, <1>13, DeleteRow
    <2>2. Pending \subseteq Cards
      BY <1>1, HeldType
    <2> QED BY <1>1, <2>1, <2>2, DeckStepKeepsBudget
  <1>14. ASSUME NEW c \in Cards, ToggleSuspended(c) PROVE BudgetInv'
    <2>1. /\ \A x \in Cards : /\ deck'[x].state = deck[x].state
                             /\ deck'[x].first = deck[x].first
          /\ reborn' = reborn /\ UNCHANGED <<settings, session>>
      BY <1>1, <1>14, ToggleRow
    <2>2. Pending \subseteq Cards
      BY <1>1, HeldType
    <2> QED BY <1>1, <2>1, <2>2, DeckStepKeepsBudget
  <1>15. CASE UNCHANGED vars
    BY <1>1, <1>15, DeckStepKeepsBudget DEF vars, settings, session
  <1> QED BY <1>4, <1>5, <1>6, <1>7, <1>8, <1>9, <1>10, <1>11, <1>12, <1>13, <1>14, <1>15
          DEF Next

\* build_queue's promise: however sessions, midnights, moved time zones, changed limits,
\* deletions, new words, failed calls and restarts interleave, the cards introduced since
\* the start of the day a session was opened on and the new ones it has still to come stay
\* within the limit -- but for cards born under an id the session had queued as due.
THEOREM BudgetIsKept == Spec => []NewBudgetKept
  <1>1. Init => BudgetInv
    <2> SUFFICES ASSUME Init PROVE BudgetInv
      OBVIOUS
    <2>1. 1 .. Len(<<>>) = {}
      OBVIOUS
    <2>2. granted = {} /\ PendingNew = {}
      BY <2>1 DEF Init, PendingNew, Pending
    <2> QED BY <2>2 DEF BudgetInv
  <1>2. IInv /\ BudgetInv /\ [Next]_vars => BudgetInv'
    BY NextKeepsBudget
  <1>3. IInv /\ BudgetInv => NewBudgetKept
    BY BudgetImplies
  <1> QED BY <1>1, <1>2, <1>3, Invariance, PTL DEF Spec

-----------------------------------------------------------------------------
\* Moving on asks about the card the session then stands on.
LEMMA AdvanceAsks ==
    ASSUME TypeOK, Advance
    PROVE  CurrentCardAsked'
  <1>1. CASE Remaining = {}
    BY <1>1 DEF Advance, ClearSession, CurrentCardAsked
  <1>2. CASE Remaining # {}
    <2>1. PICK i \in Remaining : index' = i /\ SendFront(queue[i])
      BY <1>2 DEF Advance
    <2>2. queue' = queue /\ i <= Len(queue)
      BY <1>2 DEF Advance, Remaining, TypeOK
    <2>3. asked' \in {0, queue[i]}
      BY <2>1 DEF SendFront
    <2> QED BY <2>1, <2>2, <2>3 DEF CurrentCardAsked
  <1> QED BY <1>1, <1>2

\* A new session asks about its first card.
LEMMA StartAsks ==
    ASSUME StartSession
    PROVE  CurrentCardAsked'
  <1>1. PICK d \in Pages(DueCards) : DuePage(d) /\ \E n \in Pages(NewCards) :
           IF d \o n = <<>> THEN ClearSession
           ELSE /\ queue' = d \o n /\ index' = 1
                /\ SendFront((d \o n)[1])
    BY DEF StartSession
  <1>2. PICK n \in Pages(NewCards) :
           IF d \o n = <<>> THEN ClearSession
           ELSE /\ queue' = d \o n /\ index' = 1
                /\ SendFront((d \o n)[1])
    BY <1>1
  <1>3. CASE d \o n = <<>>
    BY <1>2, <1>3 DEF ClearSession, CurrentCardAsked
  <1>4. CASE d \o n # <<>>
    <2>1. d \in Seq(Cards) /\ n \in Seq(Cards)
      BY PagesType, RowsType
    <2>2. d \o n \in Seq(Cards) /\ Len(d \o n) >= 1
      BY <1>4, <2>1
    <2>3. asked' \in {0, (d \o n)[1]}
      BY <1>2, <1>4 DEF SendFront
    <2> QED BY <1>2, <1>4, <2>2, <2>3 DEF CurrentCardAsked
  <1> QED BY <1>3, <1>4

LEMMA NextKeepsAsked == TypeOK /\ CurrentCardAsked /\ [Next]_vars => CurrentCardAsked'
  <1> SUFFICES ASSUME TypeOK, CurrentCardAsked, [Next]_vars PROVE CurrentCardAsked'
    OBVIOUS
  <1>1. CASE UNCHANGED <<reviewing, queue, index, asked>>
    BY <1>1 DEF CurrentCardAsked
  <1>2. CASE StartSession
    BY <1>2, StartAsks
  <1>3. CASE LoseSession
    BY <1>3 DEF LoseSession, ClearSession, CurrentCardAsked
  <1>4. ASSUME NEW c \in Cards, ShowDeleted(c) PROVE CurrentCardAsked'
    BY <1>4, AdvanceAsks DEF ShowDeleted
  <1>5. ASSUME NEW c \in Cards, Grade(c) PROVE CurrentCardAsked'
    BY <1>5, AdvanceAsks DEF Grade
  <1>6. ASSUME NEW c \in Cards, GradeThenFail(c) PROVE CurrentCardAsked'
    BY <1>6 DEF GradeThenFail, CurrentCardAsked
  <1>7. CASE Tick \/ MoveZone \/ SetLimits \/ \E c \in Cards :
                                      \/ Show(c) \/ Capture(c)
                                      \/ DeleteCard(c) \/ ToggleSuspended(c)
    BY <1>1, <1>7 DEF Tick, MoveZone, SetLimits, Show, Capture, DeleteCard, ToggleSuspended, session
  <1>8. CASE UNCHANGED vars
    BY <1>1, <1>8 DEF vars
  <1> QED BY <1>2, <1>3, <1>4, <1>5, <1>6, <1>7, <1>8 DEF Next

\* However cards vanish, sessions restart and calls fail, a waiting session stands on
\* the card whose keyboard it sent last.
THEOREM WaitsOnAskedCard == Spec => []CurrentCardAsked
  <1>1. Init => CurrentCardAsked
    BY DEF Init, CurrentCardAsked
  <1>2. TypeOK /\ CurrentCardAsked /\ [Next]_vars => CurrentCardAsked'
    BY NextKeepsAsked
  <1> QED BY <1>1, <1>2, TypeCorrect, PTL DEF Spec

-----------------------------------------------------------------------------
(* Review implements Schedule: every step of a session, of the deck and of  *)
(* the clock is a step of the schedule or leaves it alone.                  *)

LEMMA InitImplements == Init => Promise!Init
  <1> SUFFICES ASSUME Init PROVE Promise!Init
    OBVIOUS
  <1>1. 1 .. Len(<<>>) = {}
    OBVIOUS
  <1>2. Pending = {} /\ Open = 0
    BY <1>1 DEF Init, Pending, Open
  <1> QED BY <1>2 DEF Init, Promise!Init, Promise!Absent, NoCard

\* Both modules count with the same operator.
LEMMA SameCount == \A S : Promise!Cardinality(S) = Cardinality(S)
  BY DEF Promise!Cardinality, Cardinality

\* Without a session nothing is promised, and nothing is open.
LEMMA ClearDrops ==
    ASSUME ClearSession
    PROVE  Pending' = {} /\ Open' = 0
  <1>1. 1 .. Len(<<>>) = {}
    OBVIOUS
  <1> QED BY <1>1 DEF ClearSession, Pending, Open

\* Moving on drops the current card, and perhaps more.
LEMMA AdvanceDrops ==
    ASSUME IInv, reviewing, Advance
    PROVE  Pending' \subseteq Pending \ {queue[index]} /\ Open' = 0
  <1>1. TypeOK /\ SessionShape
    BY DEF IInv
  <1>2. Open' = 0
    BY <1>1, AdvanceType DEF Open
  <1>3. CASE ~reviewing'
    <2>1. queue' = <<>> /\ index' = 1
      BY <1>1, <1>3, AdvanceType
    <2>2. 1 .. Len(<<>>) = {}
      OBVIOUS
    <2> QED BY <1>2, <2>1, <2>2 DEF Pending
  <1>4. CASE reviewing'
    <2> SUFFICES ASSUME NEW i \in index' .. Len(queue')
                 PROVE  queue'[i] \in Pending \ {queue[index]}
      BY <1>2 DEF Pending
    <2>1. queue' = queue /\ i \in index + 1 .. Len(queue)
      BY <1>1, <1>4, AdvanceKeeps
    <2>2. i \in DOMAIN queue /\ index \in DOMAIN queue /\ i # index /\ i \in index .. Len(queue)
      BY <1>1, <2>1 DEF TypeOK, SessionShape
    <2> QED BY <1>1, <2>1, <2>2 DEF Pending, SessionShape
  <1> QED BY <1>3, <1>4

\* A fresh queue promises ripe cards within what the day has left.
LEMMA StartImplements ==
    ASSUME IInv, StartSession
    PROVE  Promise!Begin \/ Promise!Drop
  <1>1. PICK d \in Pages(DueCards), n \in Pages(NewCards) :
            /\ DuePage(d) /\ NewPage(n, sessionMax - Len(d))
            /\ IF d \o n = <<>>
               THEN ClearSession
               ELSE queue' = d \o n /\ index' = 1 /\ logged' = 0
            /\ UNCHANGED <<deck, clock, settings>>
    BY DEF StartSession
  <1>2. UNCHANGED <<deck, now, dayStart, limit>>
    BY <1>1 DEF clock, settings
  <1>3. CASE d \o n = <<>>
    <2>1. Pending' = {} /\ Open' = 0
      BY <1>1, <1>3, ClearDrops
    <2> QED BY <1>2, <2>1 DEF Promise!Drop
  <1>4. CASE d \o n # <<>>
    <2>1. /\ d \in Seq(Cards) /\ DOMAIN d = 1 .. Len(d) /\ Picked(d) \subseteq DueCards
          /\ n \in Seq(Cards) /\ DOMAIN n = 1 .. Len(n) /\ Picked(n) \subseteq NewCards
      BY <1>1, PagesType, RowsType DEF DuePage, NewPage, PageOf
    <2>2. queue' = d \o n /\ index' = 1 /\ Open' = 0
      BY <1>1, <1>4 DEF Open
    <2>3. Pending' = Picked(d) \cup Picked(n)
      <3>1. /\ \A i \in 1 .. Len(d) : (d \o n)[i] = d[i]
            /\ \A i \in 1 .. Len(n) : (d \o n)[i + Len(d)] = n[i]
            /\ Len(d \o n) = Len(d) + Len(n) /\ Len(d) \in Nat /\ Len(n) \in Nat
        BY <2>1
      <3>2. \A i \in 1 .. Len(d) + Len(n) :
                (d \o n)[i] \in Picked(d) \cup Picked(n)
        <4> SUFFICES ASSUME NEW i \in 1 .. Len(d) + Len(n)
                     PROVE  (d \o n)[i] \in Picked(d) \cup Picked(n)
          OBVIOUS
        <4>1. CASE i <= Len(d)
          BY <4>1, <2>1, <3>1 DEF Picked
        <4>2. CASE i > Len(d)
          <5>1. i - Len(d) \in 1 .. Len(n) /\ (d \o n)[i] = n[i - Len(d)]
            BY <4>2, <3>1
          <5> QED BY <5>1, <2>1 DEF Picked
        <4> QED BY <4>1, <4>2, <3>1
      <3>3. Picked(d) \subseteq Pending'
        <4> SUFFICES ASSUME NEW i \in 1 .. Len(d) PROVE d[i] \in Pending'
          BY <2>1 DEF Picked
        <4>1. i \in 1 .. Len(d \o n) /\ (d \o n)[i] = d[i]
          BY <3>1
        <4> QED BY <2>2, <4>1 DEF Pending
      <3>4. Picked(n) \subseteq Pending'
        <4> SUFFICES ASSUME NEW i \in 1 .. Len(n) PROVE n[i] \in Pending'
          BY <2>1 DEF Picked
        <4>1. i + Len(d) \in 1 .. Len(d \o n) /\ (d \o n)[i + Len(d)] = n[i]
          BY <3>1
        <4> QED BY <2>2, <4>1 DEF Pending
      <3>5. Pending' \subseteq Picked(d) \cup Picked(n)
        BY <2>2, <3>1, <3>2 DEF Pending
      <3> QED BY <3>3, <3>4, <3>5
    <2> DEFINE S == Picked(d) \cup Picked(n)
    <2>4. S \in SUBSET Cards
      BY <2>1 DEF DueCards, NewCards
    <2>5. \A c \in S : Promise!Ripe(c)
      BY <2>1 DEF DueCards, NewCards, Promise!Ripe
    <2>6. Promise!News(S) = Picked(n)
      BY <2>1 DEF DueCards, NewCards, Promise!News
    <2>7. Promise!IntroducedToday = Introduced
      BY DEF Promise!IntroducedToday, Introduced, IntroducedSince
    <2>8. sessionMax - Len(d) \in Nat
      BY <1>1, RoomLeft DEF IInv
    <2>9. Picked(n) # {} => Cardinality(Introduced \cup Picked(n)) <= limit
      BY <1>1, <2>8, AllowanceFits DEF IInv
    <2>10. Promise!News(S) # {} =>
              Promise!Cardinality(Promise!IntroducedToday \cup Promise!News(S)) <= limit
      BY <2>6, <2>7, <2>9, SameCount
    <2> HIDE DEF S
    <2>11. Pending' = S
      BY <2>3 DEF S
    <2> QED BY <1>2, <2>2, <2>4, <2>5, <2>10, <2>11 DEF Promise!Begin
  <1> QED BY <1>3, <1>4

\* The row a grade writes is the row of an answer.
LEMMA GradeAnswers ==
    ASSUME IInv, NEW c \in Cards, IsCurrent(c), Exists(c), LogReview(c),
           now' = now, dayStart' = dayStart, limit' = limit,
           \/ Pending' \subseteq Pending \ {c} /\ Open' = 0
           \/ Pending' = Pending /\ Open' = c
    PROVE  Promise!Answer(c)
  <1>1. TypeOK /\ SessionShape /\ PendingRipe
    BY DEF IInv
  <1>2. reviewing /\ c = queue[index] /\ index \in index .. Len(queue) /\ deck[c] \in CardRow
    BY <1>1 DEF IsCurrent, SessionShape, TypeOK
  <1>3. c \in Pending
    BY <1>2 DEF Pending
  <1>4. deck[c].state = "New" \/ (deck[c].state = "Seen" /\ (deck[c].due <= now \/ c = Open))
    <2>1. deck[c].state # "Seen" \/ deck[c].due <= now \/ logged > 0
      BY <1>1, <1>2 DEF PendingRipe
    <2> QED BY <1>2, <2>1 DEF Exists, CardRow, Open
  <1>5. PICK delay \in 1 .. MaxDelay : deck' = Graded(c, delay)
    BY DEF LogReview
  <1>6. /\ now \in Nat /\ delay \in Nat /\ delay > 0
        /\ deck'[c].due = now + delay
    BY <1>1, <1>5, ReviewAssumption DEF Graded, TypeOK
  <1>7. deck'[c].due > now
    BY <1>6
  <1>8. deck' = [deck EXCEPT ![c] =
                   [state |-> "Seen", due |-> deck'[c].due, suspended |-> deck[c].suspended,
                    first |-> IF deck[c].state = "New" THEN now ELSE deck[c].first]]
    BY <1>1, <1>2, <1>5, <1>6 DEF Graded, TypeOK, CardRow
  <1> QED BY <1>3, <1>4, <1>7, <1>8 DEF Promise!Answer

LEMMA NextImplements ==
    ASSUME IInv, [Next]_vars
    PROVE  [Promise!Next]_(Promise!vars)
  <1>1. TypeOK /\ SessionShape
    BY DEF IInv
  <1>2. CASE StartSession
    BY <1>2, StartImplements DEF Promise!Next
  <1>3. CASE LoseSession
    <2>1. Pending' = {} /\ Open' = 0 /\ UNCHANGED <<deck, now, dayStart, limit>>
      BY <1>3, ClearDrops DEF LoseSession, clock, settings
    <2> QED BY <2>1 DEF Promise!Next, Promise!Drop
  <1>4. CASE Tick
    <2>1. /\ now' = now + 1 /\ dayStart' \in {dayStart, now'} /\ deck' = deck
          /\ limit' = limit /\ Pending' = Pending /\ Open' = Open
      BY <1>4 DEF Tick, settings, session, Pending, Open
    <2> QED BY <2>1 DEF Promise!Next, Promise!Tick
  <1>13. CASE MoveZone
    <2>1. /\ dayStart' \in 0 .. now /\ UNCHANGED <<deck, now, limit>>
          /\ Pending' = Pending /\ Open' = Open
      BY <1>13 DEF MoveZone, settings, session, Pending, Open
    <2> QED BY <2>1 DEF Promise!Next, Promise!Travel
  <1>14. CASE SetLimits
    <2>1. 1 .. Len(<<>>) = {}
      OBVIOUS
    <2>2. Pending = {} /\ Open = 0
      BY <1>1, <1>14, <2>1 DEF SetLimits, SessionShape, Pending, Open
    <2>3. /\ limit' \in Limits /\ UNCHANGED <<deck, now, dayStart>>
          /\ Pending' = Pending /\ Open' = Open
      BY <1>1, <1>14 DEF SetLimits, TypeOK, clock, session, Pending, Open
    <2> QED BY <2>2, <2>3 DEF Promise!Next, Promise!Retune
  <1>5. ASSUME NEW c \in Cards, Show(c) PROVE UNCHANGED Promise!vars
    BY <1>5 DEF Show, clock, settings, session, Promise!vars, Pending, Open
  <1>6. ASSUME NEW c \in Cards, ShowDeleted(c) PROVE Promise!Drop
    <2>1. reviewing /\ Advance /\ UNCHANGED <<deck, now, dayStart, limit>>
      BY <1>1, <1>6 DEF ShowDeleted, IsCurrent, clock, settings
    <2>2. Pending' \subseteq Pending /\ Open' = 0
      BY <2>1, AdvanceDrops
    <2> QED BY <2>1, <2>2 DEF Promise!Drop
  <1>7. ASSUME NEW c \in Cards, Grade(c) PROVE Promise!Next
    <2>1. /\ IsCurrent(c) /\ reviewing /\ c = queue[index]
          /\ Advance /\ UNCHANGED <<now, dayStart, limit>>
      BY <1>7 DEF Grade, IsCurrent, clock, settings
    <2>3. Pending' \subseteq Pending \ {c} /\ Open' = 0
      BY <2>1, AdvanceDrops
    <2>4. CASE Exists(c)
      <3>1. LogReview(c)
        BY <1>7, <2>4 DEF Grade
      <3>2. Promise!Answer(c)
        BY <2>1, <2>3, <2>4, <3>1, GradeAnswers
      <3> QED BY <3>2 DEF Promise!Next
    <2>5. CASE ~Exists(c)
      <3>1. deck' = deck
        BY <1>7, <2>5 DEF Grade
      <3> QED BY <2>1, <2>3, <3>1 DEF Promise!Next, Promise!Drop
    <2> QED BY <2>4, <2>5
  <1>8. ASSUME NEW c \in Cards, GradeThenFail(c) PROVE Promise!Next
    <2>1. /\ IsCurrent(c) /\ Exists(c) /\ LogReview(c) /\ c = queue[index]
          /\ now' = now /\ dayStart' = dayStart /\ limit' = limit
          /\ queue' = queue /\ index' = index /\ logged' = logged + 1
      BY <1>8 DEF GradeThenFail, IsCurrent, clock, settings
    <2>2. Pending' = Pending /\ Open' = c
      BY <1>1, <2>1 DEF Pending, Open, TypeOK
    <2>3. Promise!Answer(c)
      BY <2>1, <2>2, GradeAnswers
    <2> QED BY <2>3 DEF Promise!Next
  <1>9. ASSUME NEW c \in Cards, Capture(c) PROVE Promise!Edit(c)
    <2>1. /\ deck[c].state = "Absent" /\ deck' = [deck EXCEPT ![c] = NewCard(now)]
          /\ UNCHANGED <<now, dayStart, limit, queue, index, logged>>
      BY <1>1, <1>9, CaptureRow DEF Capture, clock, settings, session
    <2> QED BY <2>1 DEF Promise!Edit, Promise!Add, Promise!Fresh, NewCard, Pending, Open
  <1>10. ASSUME NEW c \in Cards, DeleteCard(c) PROVE Promise!Edit(c)
    BY <1>10 DEF DeleteCard, Exists, NoCard, clock, settings, session,
                 Promise!Edit, Promise!Remove, Promise!Absent, Pending, Open
  <1>11. ASSUME NEW c \in Cards, ToggleSuspended(c) PROVE Promise!Edit(c)
    BY <1>11 DEF ToggleSuspended, Exists, clock, settings, session,
                 Promise!Edit, Promise!Pause, Pending, Open
  <1>12. CASE UNCHANGED vars
    BY <1>12 DEF vars, Promise!vars, Pending, Open
  <1> QED BY <1>2, <1>3, <1>4, <1>5, <1>6, <1>7, <1>8, <1>9, <1>10, <1>11, <1>12,
          <1>13, <1>14 DEF Next, Promise!Next

\* /review keeps the learner's schedule for every size of deck, session and day, through
\* moved time zones and changed limits: a session is begun with ripe cards only, new ones
\* within what the day has left, and each promise is kept once -- whatever fails, and
\* whatever happens to the deck in between.  A card paused under a session is still asked.
THEOREM ScheduleImplemented == Spec => KeepsSchedule
  <1>1. Init => Promise!Init
    BY InitImplements
  <1>2. IInv /\ [Next]_vars => [Promise!Next]_(Promise!vars)
    BY NextImplements
  <1> QED BY <1>1, <1>2, Invariance, PTL DEF Spec, KeepsSchedule, Promise!Spec
=============================================================================
