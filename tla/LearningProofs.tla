---------------------------- MODULE LearningProofs ----------------------------
(***************************************************************************)
(* Theorems about what a participant learns: Deck, for any spellings,      *)
(* batches, cap and number of rows; and Course, for any participants,      *)
(* tracks, topics, week the days begin in and length of the year.          *)
(***************************************************************************)
EXTENDS Deck, Course, FiniteSetTheorems, WellFoundedInduction, TLAPS

LEMMA Minimum ==
    ASSUME NEW S, S \subseteq Nat, S # {}
    PROVE  \E m \in S : \A k \in S : m <= k
  <1>1. PICK m \in S : \A k \in S : <<k, m>> \notin OpToRel(<, Nat)
    BY NatLessThanWellFounded, WFMin
  <1>2. \A k \in S : ~(k < m)
    BY <1>1 DEF OpToRel
  <1> QED BY <1>2

LEMMA UpTo ==
    ASSUME NEW n \in Nat, NEW S, 0 \in S, \A i \in 0 .. n - 1 : i \in S => i + 1 \in S
    PROVE  \A i \in 0 .. n : i \in S
  <1> DEFINE Left == {i \in 0 .. n : i \notin S}
  <1> SUFFICES ASSUME Left # {} PROVE FALSE
    OBVIOUS
  <1>1. PICK m \in Left : \A k \in Left : m <= k
    <2>1. Left \subseteq Nat
      OBVIOUS
    <2> HIDE DEF Left
    <2> QED BY <2>1, Minimum
  <1>2. m \in 1 .. n /\ m - 1 \in 0 .. n - 1 /\ m = (m - 1) + 1
    OBVIOUS
  <1>3. m - 1 \in S
    BY <1>1, <1>2
  <1> QED BY <1>2, <1>3

-----------------------------------------------------------------------------
(* One row.                                                                 *)

Lowered(key) == Lower[key] = key /\ SqlLower[key] = key

\* The key of the row is its own: a word's, or that of a mistake not made anew.
Keyed(row) == row.kind = "vocab" \/ ~row.redone

Distinct(row, other) ==
    row.kind = other.kind /\ Keyed(row) /\ Keyed(other) => row.key # other.key

\* A row made after "row" was: the text of one is not the key of the other.
Later(row, other) ==
    /\ row.text # NoText /\ other.text # NoText /\ ~row.redone /\ ~other.redone
    /\ Lower[row.text] = Lower[other.text]
    => row.key # Lower[other.text]

\* Only a card of a word has the text it was made of; keys are stored in lower case.
RowOK(row) ==
    /\ row \in Card /\ Lowered(row.key)
    /\ row.text # NoText => row.kind = "vocab"

DeckOK(deck) ==
    /\ DOMAIN deck \subseteq Ids
    /\ \A c \in DOMAIN deck : RowOK(deck[c])
    /\ \A c, d \in DOMAIN deck : c # d => Distinct(deck[c], deck[d])
    /\ \A c, d \in DOMAIN deck : c < d => Later(deck[c], deck[d])

LEMMA NextIdIs ==
    ASSUME NEW deck, DOMAIN deck \subseteq Ids
    PROVE  /\ NextId(deck) \in 1 .. MaxCard + 1
           /\ \A c \in DOMAIN deck : c < NextId(deck)
           /\ NextId(deck) = 1 \/ NextId(deck) - 1 \in DOMAIN deck
  <1> DEFINE Above == {id \in 1 .. MaxCard + 1 : \A c \in DOMAIN deck : c < id}
  <1>1. MaxCard \in Nat /\ \A c \in DOMAIN deck : c \in 1 .. MaxCard
    BY DeckAssumption DEF Ids
  <1>2. MaxCard + 1 \in Above
    BY <1>1
  <1>3. Above \subseteq Nat
    BY <1>1
  <1>4. PICK m \in Above : \A k \in Above : m <= k
    <2> HIDE DEF Above
    <2> QED BY <1>2, <1>3, Minimum
  <1>5. m = 1 \/ m - 1 \in DOMAIN deck
    <2> SUFFICES ASSUME m # 1, m - 1 \notin DOMAIN deck PROVE FALSE
      OBVIOUS
    <2>1. m - 1 \in 1 .. MaxCard + 1
      BY <1>1
    <2>2. \A c \in DOMAIN deck : c < m - 1
      BY <1>1
    <2>3. m - 1 \in Above
      BY <2>1, <2>2
    <2> QED BY <1>1, <1>4, <2>3
  <1>6. \E id \in 1 .. MaxCard + 1 :
            /\ \A c \in DOMAIN deck : c < id
            /\ id = 1 \/ id - 1 \in DOMAIN deck
    BY <1>5
  <1> QED BY <1>6 DEF NextId

LEMMA NextIdUnique ==
    ASSUME NEW deck, DOMAIN deck \subseteq Ids,
           NEW id \in 1 .. MaxCard + 1, \A c \in DOMAIN deck : c < id,
           id = 1 \/ id - 1 \in DOMAIN deck
    PROVE  NextId(deck) = id
  <1>1. MaxCard \in Nat /\ \A c \in DOMAIN deck : c \in 1 .. MaxCard
    BY DeckAssumption DEF Ids
  <1> DEFINE n == NextId(deck)
  <1>2. /\ n \in 1 .. MaxCard + 1 /\ \A c \in DOMAIN deck : c < n
        /\ n = 1 \/ n - 1 \in DOMAIN deck
    BY NextIdIs
  <1> HIDE DEF n
  <1>3. ~(n < id) /\ ~(id < n)
    BY <1>1, <1>2
  <1> QED BY <1>1, <1>2, <1>3 DEF n

\* What a handler knows when it makes a row: the look-ups found nothing.
Unknown(deck, kind, f, text) ==
    /\ DeckOK(deck) /\ NextId(deck) <= MaxCard
    /\ kind \in Kinds /\ f \in Forms /\ Found(deck, kind, f) = {}
    /\ \/ text = NoText
       \/ text \in Forms /\ kind = "vocab" /\ Found(deck, "vocab", text) = {}

\* The deck with that row.
Grown(deck, kind, new) ==
    /\ DeckOK(new) /\ NextId(new) = NextId(deck) + 1
    /\ DOMAIN new = DOMAIN deck \cup {NextId(deck)} /\ NextId(deck) \notin DOMAIN deck
    /\ \A c \in DOMAIN deck : new[c] = deck[c]
    /\ new[NextId(deck)].kind = kind

\* create_vocab_card and create_error_card.
LEMMA CreatedFits ==
    ASSUME now \in Nat, NEW deck, NEW kind, NEW f, NEW text, Unknown(deck, kind, f, text)
    PROVE  Grown(deck, kind, Created(deck, kind, f, text))
  <1> DEFINE n == NextId(deck)
             row == [kind |-> kind, key |-> Lower[f], text |-> text, created |-> now,
                     redone |-> FALSE]
             new == Created(deck, kind, f, text)
  <1>0. /\ DeckOK(deck) /\ NextId(deck) <= MaxCard
        /\ kind \in Kinds /\ f \in Forms /\ Found(deck, kind, f) = {}
        /\ \/ text = NoText
           \/ text \in Forms /\ kind = "vocab" /\ Found(deck, "vocab", text) = {}
    BY DEF Unknown
  <1>1. MaxCard \in Nat /\ DOMAIN deck \subseteq 1 .. MaxCard
    BY <1>0, DeckAssumption DEF DeckOK, Ids
  <1>2. n \in 1 .. MaxCard /\ (\A c \in DOMAIN deck : c < n) /\ n \notin DOMAIN deck
    <2>1. n \in 1 .. MaxCard + 1 /\ \A c \in DOMAIN deck : c < n
      BY <1>0, NextIdIs DEF DeckOK
    <2> HIDE DEF n
    <2>2. n \notin DOMAIN deck
      BY <1>1, <2>1
    <2>3. n \in 1 .. MaxCard
      BY <1>0, <1>1, <2>1 DEF n
    <2> QED BY <2>1, <2>2, <2>3
  <1>3. RowOK(row) /\ row.kind = kind /\ row.key = Lower[f] /\ row.text = text
    <2>1. text \in Forms \cup {NoText} /\ (text # NoText => kind = "vocab")
      BY <1>0
    <2>2. Lower[f] \in Forms /\ Lowered(Lower[f])
      BY <1>0, DeckAssumption DEF Lowered
    <2> QED BY <1>0, <2>1, <2>2 DEF Card, RowOK
  <1>4. new = [c \in DOMAIN deck \cup {n} |-> IF c \in DOMAIN deck THEN deck[c] ELSE row]
    BY DEF Created, Added
  <1> HIDE DEF n, row, new
  <1>5. /\ DOMAIN new = DOMAIN deck \cup {n} /\ \A c \in DOMAIN deck : new[c] = deck[c]
        /\ new[n] = row
    BY <1>2, <1>4
  <1>6. ASSUME NEW c \in DOMAIN deck
        PROVE  Distinct(deck[c], row) /\ Distinct(row, deck[c]) /\ Later(deck[c], row)
    <2>1. SqlLower[deck[c].key] = deck[c].key
      BY <1>0 DEF DeckOK, RowOK, Lowered
    <2>2. deck[c].kind # kind \/ deck[c].key # Lower[f]
      BY <1>0, <2>1 DEF Found
    <2>3. Distinct(deck[c], row) /\ Distinct(row, deck[c])
      BY <1>3, <2>2 DEF Distinct
    <2>4. ASSUME deck[c].text # NoText, text # NoText PROVE deck[c].key # Lower[text]
      <3>1. deck[c].kind = "vocab" /\ Found(deck, "vocab", text) = {}
        BY <1>0, <2>4 DEF DeckOK, RowOK
      <3> QED BY <2>1, <3>1 DEF Found
    <2>5. Later(deck[c], row)
      BY <1>3, <2>4 DEF Later
    <2> QED BY <2>3, <2>5
  <1>7. DeckOK(new)
    <2>1. DOMAIN new \subseteq Ids
      BY <1>1, <1>2, <1>5 DEF Ids
    <2>2. \A c \in DOMAIN new : RowOK(new[c])
      BY <1>0, <1>3, <1>5 DEF DeckOK
    <2>3. ASSUME NEW c \in DOMAIN new, NEW d \in DOMAIN new, c # d
          PROVE  Distinct(new[c], new[d])
      BY <1>0, <1>5, <1>6, <2>3 DEF DeckOK
    <2>4. ASSUME NEW c \in DOMAIN new, NEW d \in DOMAIN new, c < d
          PROVE  Later(new[c], new[d])
      <3>1. c \in DOMAIN deck
        BY <1>1, <1>2, <1>5, <2>4
      <3> QED BY <1>0, <1>5, <1>6, <2>4, <3>1 DEF DeckOK
    <2> QED BY <2>1, <2>2, <2>3, <2>4 DEF DeckOK
  <1>8. NextId(new) = n + 1
    <2>1. /\ n + 1 \in 1 .. MaxCard + 1 /\ \A c \in DOMAIN new : c < n + 1
          /\ (n + 1) - 1 \in DOMAIN new
      BY <1>1, <1>2, <1>5
    <2> QED BY <1>7, <2>1, NextIdUnique DEF DeckOK
  <1>9. new[n].kind = kind
    BY <1>3, <1>5
  <1> QED BY <1>2, <1>5, <1>7, <1>8, <1>9 DEF Grown, n, new

-----------------------------------------------------------------------------
(* A batch, row by row.  The provers know a recursive function as the       *)
(* CHOOSE of a solution: that there is one is by induction on its length.   *)

LEMMA StoredRuns ==
    ASSUME NEW n \in Nat, NEW batch \in [1 .. n -> Forms]
    PROVE  \E g : /\ g[0] = cards /\ Stored(batch) = g[n]
                  /\ \A i \in 1 .. n : g[i] = StoreOne(g[i - 1], batch[i])
  <1> DEFINE Runs(m, g) == g = [i \in 0 .. m |-> IF i = 0 THEN cards
                                                ELSE StoreOne(g[i - 1], batch[i])]
             S == {m \in 0 .. n : \E g : Runs(m, g)}
  <1>1. 0 \in S
    <2>1. Runs(0, [i \in 0 .. 0 |-> cards])
      OBVIOUS
    <2> HIDE DEF Runs
    <2> QED BY <2>1
  <1>2. ASSUME NEW m \in 0 .. n - 1, m \in S PROVE m + 1 \in S
    <2>1. PICK g : Runs(m, g)
      BY <1>2
    <2> DEFINE h == [i \in 0 .. m + 1 |-> IF i = m + 1 THEN StoreOne(g[m], batch[m + 1])
                                          ELSE g[i]]
    <2>2. \A i \in 0 .. m : h[i] = g[i]
      OBVIOUS
    <2>3. ASSUME NEW i \in 0 .. m + 1
          PROVE  h[i] = IF i = 0 THEN cards ELSE StoreOne(h[i - 1], batch[i])
      <3>1. CASE i = m + 1
        <4>1. h[i] = StoreOne(g[m], batch[i]) /\ i # 0 /\ i - 1 = m /\ h[m] = g[m]
          BY <3>1
        <4> HIDE DEF h
        <4> QED BY <4>1
      <3>2. CASE i = 0
        BY <2>1, <2>2, <3>2
      <3>3. CASE i # 0 /\ i # m + 1
        <4>1. i \in 0 .. m /\ i - 1 \in 0 .. m
          BY <3>3
        <4>2. g[i] = StoreOne(g[i - 1], batch[i])
          BY <2>1, <3>3, <4>1
        <4>3. h[i] = g[i] /\ h[i - 1] = g[i - 1]
          BY <2>2, <4>1
        <4> HIDE DEF h, Runs
        <4> QED BY <3>3, <4>2, <4>3
      <3> QED BY <3>1, <3>2, <3>3
    <2>4. h = [i \in 0 .. m + 1 |-> h[i]]
      OBVIOUS
    <2> HIDE DEF h
    <2>5. Runs(m + 1, h)
      BY <2>3, <2>4
    <2>6. m + 1 \in 0 .. n
      OBVIOUS
    <2> HIDE DEF Runs
    <2> QED BY <2>5, <2>6
  <1>3. n \in S
    <2> HIDE DEF S
    <2>1. \A i \in 0 .. n : i \in S
      BY <1>1, <1>2, UpTo
    <2> QED BY <2>1
  <1> DEFINE g == CHOOSE g : Runs(n, g)
  <1>4. Runs(n, g)
    <2>1. \E h : Runs(n, h)
      BY <1>3
    <2> HIDE DEF Runs
    <2> QED BY <2>1
  <1>5. Len(batch) = n
    OBVIOUS
  <1>6. Stored(batch) = g[n]
    BY <1>5 DEF Stored
  <1> HIDE DEF g
  <1>7. g[0] = cards /\ \A i \in 1 .. n : g[i] = StoreOne(g[i - 1], batch[i])
    BY <1>4
  <1> QED BY <1>6, <1>7

LEMMA CorrectedRuns ==
    ASSUME NEW n \in Nat, NEW batch \in [1 .. n -> Forms]
    PROVE  \E g : /\ g[0] = [deck |-> cards, left |-> CapLeft]
                  /\ Corrected(batch) = g[n].deck
                  /\ \A i \in 1 .. n : g[i] = CorrectOne(g[i - 1], batch[i])
  <1> DEFINE start == [deck |-> cards, left |-> CapLeft]
             Runs(m, g) == g = [i \in 0 .. m |-> IF i = 0 THEN start
                                                ELSE CorrectOne(g[i - 1], batch[i])]
             S == {m \in 0 .. n : \E g : Runs(m, g)}
  <1>1. 0 \in S
    <2>1. Runs(0, [i \in 0 .. 0 |-> start])
      OBVIOUS
    <2> HIDE DEF Runs
    <2> QED BY <2>1
  <1>2. ASSUME NEW m \in 0 .. n - 1, m \in S PROVE m + 1 \in S
    <2>1. PICK g : Runs(m, g)
      BY <1>2
    <2> DEFINE h == [i \in 0 .. m + 1 |-> IF i = m + 1 THEN CorrectOne(g[m], batch[m + 1])
                                          ELSE g[i]]
    <2>2. \A i \in 0 .. m : h[i] = g[i]
      OBVIOUS
    <2>3. ASSUME NEW i \in 0 .. m + 1
          PROVE  h[i] = IF i = 0 THEN start ELSE CorrectOne(h[i - 1], batch[i])
      <3>1. CASE i = m + 1
        <4>1. h[i] = CorrectOne(g[m], batch[i]) /\ i # 0 /\ i - 1 = m /\ h[m] = g[m]
          BY <3>1
        <4> HIDE DEF h
        <4> QED BY <4>1
      <3>2. CASE i = 0
        BY <2>1, <2>2, <3>2
      <3>3. CASE i # 0 /\ i # m + 1
        <4>1. i \in 0 .. m /\ i - 1 \in 0 .. m
          BY <3>3
        <4>2. g[i] = CorrectOne(g[i - 1], batch[i])
          BY <2>1, <3>3, <4>1
        <4>3. h[i] = g[i] /\ h[i - 1] = g[i - 1]
          BY <2>2, <4>1
        <4> HIDE DEF h, Runs
        <4> QED BY <3>3, <4>2, <4>3
      <3> QED BY <3>1, <3>2, <3>3
    <2>4. h = [i \in 0 .. m + 1 |-> h[i]]
      OBVIOUS
    <2> HIDE DEF h
    <2>5. Runs(m + 1, h)
      BY <2>3, <2>4
    <2>6. m + 1 \in 0 .. n
      OBVIOUS
    <2> HIDE DEF Runs
    <2> QED BY <2>5, <2>6
  <1>3. n \in S
    <2> HIDE DEF S
    <2>1. \A i \in 0 .. n : i \in S
      BY <1>1, <1>2, UpTo
    <2> QED BY <2>1
  <1> DEFINE g == CHOOSE g : Runs(n, g)
  <1>4. Runs(n, g)
    <2>1. \E h : Runs(n, h)
      BY <1>3
    <2> HIDE DEF Runs
    <2> QED BY <2>1
  <1>5. Len(batch) = n
    OBVIOUS
  <1>6. Corrected(batch) = g[n].deck
    BY <1>5 DEF Corrected
  <1> HIDE DEF g
  <1>7. g[0] = start /\ \A i \in 1 .. n : g[i] = CorrectOne(g[i - 1], batch[i])
    BY <1>4
  <1> QED BY <1>6, <1>7
\* on_save and build_starter_deck
LEMMA StoredFits ==
    ASSUME DeckOK(cards), now \in Nat, NEW n \in Nat, Room(cards, n),
           NEW batch \in [1 .. n -> Forms]
    PROVE  /\ DeckOK(Stored(batch))
           /\ \A c \in DOMAIN Stored(batch) : c \notin DOMAIN cards =>
                                                Stored(batch)[c].kind = "vocab"
  <1>1. MaxCard \in Nat /\ NextId(cards) \in Nat /\ NextId(cards) + n <= MaxCard + 1
    BY DeckAssumption, NextIdIs DEF Room, DeckOK
  <1>2. PICK g : /\ g[0] = cards /\ Stored(batch) = g[n]
                 /\ \A i \in 1 .. n : g[i] = StoreOne(g[i - 1], batch[i])
    BY StoredRuns
  <1> DEFINE Good(i) == /\ DeckOK(g[i]) /\ NextId(g[i]) \in Nat
                        /\ NextId(g[i]) <= NextId(cards) + i
                        /\ \A c \in DOMAIN g[i] : c \notin DOMAIN cards => g[i][c].kind = "vocab"
             S == {i \in 0 .. n : Good(i)}
  <1>3. 0 \in S
    BY <1>1, <1>2
  <1>4. ASSUME NEW i \in 0 .. n - 1, i \in S PROVE i + 1 \in S
    <2> DEFINE f == batch[i + 1]
    <2>1. Good(i) /\ i + 1 \in 1 .. n /\ (i + 1) - 1 = i /\ f \in Forms
      BY <1>4
    <2>2. g[i + 1] = StoreOne(g[i], f)
      BY <1>2, <2>1
    <2>3. CASE Found(g[i], "vocab", f) = {}
      <3>1. g[i + 1] = Created(g[i], "vocab", f, NoText)
        BY <2>2, <2>3 DEF StoreOne
      <3>2. NextId(g[i]) <= MaxCard /\ "vocab" \in Kinds
        BY <1>1, <2>1 DEF Kinds
      <3> HIDE DEF f
      <3>3. /\ DeckOK(g[i + 1]) /\ NextId(g[i + 1]) = NextId(g[i]) + 1
            /\ DOMAIN g[i + 1] = DOMAIN g[i] \cup {NextId(g[i])}
            /\ \A c \in DOMAIN g[i] : g[i + 1][c] = g[i][c]
            /\ g[i + 1][NextId(g[i])].kind = "vocab"
        <4> DEFINE deck == g[i]
                   new  == Created(deck, "vocab", f, NoText)
        <4>1. /\ DeckOK(deck) /\ f \in Forms /\ NextId(deck) <= MaxCard /\ "vocab" \in Kinds
              /\ Found(deck, "vocab", f) = {} /\ g[i + 1] = new
          BY <2>1, <2>3, <3>1, <3>2 DEF f
        <4> HIDE DEF deck
        <4>2. /\ DeckOK(new) /\ NextId(new) = NextId(deck) + 1
              /\ DOMAIN new = DOMAIN deck \cup {NextId(deck)}
              /\ \A c \in DOMAIN deck : new[c] = deck[c]
              /\ new[NextId(deck)].kind = "vocab"
          <5>1. Unknown(deck, "vocab", f, NoText)
            BY <4>1 DEF Unknown
          <5>2. Grown(deck, "vocab", Created(deck, "vocab", f, NoText))
            BY ONLY <5>1, now \in Nat, CreatedFits
          <5> QED BY <5>2 DEF Grown
        <4> HIDE DEF new
        <4> QED BY <4>1, <4>2 DEF deck
      <3>4. Good(i + 1)
        BY <1>1, <2>1, <3>3
      <3> QED BY <2>1, <3>4
    <2>4. CASE Found(g[i], "vocab", f) # {}
      <3>1. g[i + 1] = g[i]
        BY <2>2, <2>4 DEF StoreOne
      <3>2. Good(i + 1)
        BY <1>1, <2>1, <3>1
      <3> QED BY <2>1, <3>2
    <2> QED BY <2>3, <2>4
  <1>5. n \in S
    <2> HIDE DEF S
    <2>1. \A i \in 0 .. n : i \in S
      BY <1>3, <1>4, UpTo
    <2> QED BY <2>1
  <1> QED BY <1>2, <1>5

ErrorsOf(deck) == {c \in DOMAIN deck : deck[c].kind = "error" /\ deck[c].created >= dayStart}

LEMMA ErrorsFinite ==
    ASSUME NEW deck, DeckOK(deck)
    PROVE  IsFiniteSet(ErrorsOf(deck)) /\ CountErrorCards(deck) \in Nat
           /\ CountErrorCards(deck) = Cardinality(ErrorsOf(deck))
  <1>1. ErrorsOf(deck) \subseteq 1 .. MaxCard /\ MaxCard \in Nat
    BY DeckAssumption DEF DeckOK, ErrorsOf, Ids
  <1>2. IsFiniteSet(ErrorsOf(deck))
    <2>1. IsFiniteSet(1 .. MaxCard)
      BY <1>1, FS_Interval
    <2> QED BY <1>1, <2>1, FS_Subset
  <1>3. CountErrorCards(deck) = Cardinality(ErrorsOf(deck))
    BY DEF CountErrorCards, ErrorsOf
  <1> QED BY <1>2, <1>3, FS_CardinalityType

LEMMA CapLeftIs ==
    ASSUME DeckOK(cards)
    PROVE  /\ CapLeft \in Nat
           /\ CapLeft = 0 \/ CountErrorCards(cards) + CapLeft <= DailyCap
  BY ErrorsFinite, DeckAssumption DEF CapLeft

\* process_answer
LEMMA CorrectedFits ==
    ASSUME DeckOK(cards), now \in Nat, NEW n \in Nat, Room(cards, n),
           NEW batch \in [1 .. n -> Forms]
    PROVE  /\ DeckOK(Corrected(batch))
           /\ Corrected(batch) = cards \/ CountErrorCards(Corrected(batch)) <= DailyCap
  <1>1. /\ MaxCard \in Nat /\ NextId(cards) \in Nat /\ NextId(cards) + n <= MaxCard + 1
        /\ DailyCap \in Nat
    BY DeckAssumption, NextIdIs DEF Room, DeckOK
  <1>2. PICK g : /\ g[0] = [deck |-> cards, left |-> CapLeft] /\ Corrected(batch) = g[n].deck
                 /\ \A i \in 1 .. n : g[i] = CorrectOne(g[i - 1], batch[i])
    BY CorrectedRuns
  <1> DEFINE Good(i) == /\ DeckOK(g[i].deck) /\ NextId(g[i].deck) \in Nat
                        /\ NextId(g[i].deck) <= NextId(cards) + i /\ g[i].left \in Nat
                        /\ \/ g[i].deck = cards /\ g[i].left = 0
                           \/ CountErrorCards(g[i].deck) + g[i].left <= DailyCap
             S == {i \in 0 .. n : Good(i)}
  <1>3. 0 \in S
    <2>1. g[0].deck = cards /\ g[0].left = CapLeft
      BY <1>2
    <2>2. Good(0)
      BY <1>1, <2>1, CapLeftIs
    <2> HIDE DEF Good
    <2> QED BY <2>2
  <1>4. ASSUME NEW i \in 0 .. n - 1, i \in S PROVE i + 1 \in S
    <2> DEFINE f    == batch[i + 1]
               deck == g[i].deck
               more == g[i + 1].deck
    <2>1. Good(i) /\ i + 1 \in 1 .. n /\ (i + 1) - 1 = i /\ f \in Forms
      BY <1>4
    <2>2. g[i + 1] = CorrectOne(g[i], f)
      BY <1>2, <2>1
    <2>3. CASE g[i].left # 0 /\ Found(deck, "error", f) = {}
      <3>1. more = Created(deck, "error", f, NoText) /\ g[i + 1].left = g[i].left - 1
        BY <2>2, <2>3 DEF CorrectOne
      <3>2. NextId(deck) <= MaxCard /\ "error" \in Kinds
        BY <1>1, <2>1 DEF Kinds
      <3>3. /\ DeckOK(deck) /\ NextId(deck) \in Nat /\ NextId(deck) <= NextId(cards) + i
            /\ g[i].left \in Nat /\ CountErrorCards(deck) + g[i].left <= DailyCap
        BY <2>1, <2>3
      <3> HIDE DEF f, deck, more, Good
      <3>4. /\ DeckOK(more) /\ NextId(more) = NextId(deck) + 1
            /\ DOMAIN more = DOMAIN deck \cup {NextId(deck)}
            /\ \A c \in DOMAIN deck : more[c] = deck[c]
        <4> DEFINE new == Created(deck, "error", f, NoText)
        <4>1. /\ DeckOK(new) /\ NextId(new) = NextId(deck) + 1
              /\ DOMAIN new = DOMAIN deck \cup {NextId(deck)}
              /\ \A c \in DOMAIN deck : new[c] = deck[c]
          <5>1. DeckOK(deck) /\ f \in Forms
            BY <2>1, <3>3
          <5>2. NextId(deck) <= MaxCard /\ "error" \in Kinds /\ Found(deck, "error", f) = {}
            BY <2>3, <3>2
          <5>3. Unknown(deck, "error", f, NoText)
            BY <5>1, <5>2 DEF Unknown
          <5>4. Grown(deck, "error", Created(deck, "error", f, NoText))
            BY ONLY <5>3, now \in Nat, CreatedFits
          <5> QED BY <5>4 DEF Grown
        <4> HIDE DEF new
        <4> QED BY <3>1, <4>1 DEF new
      <3>5. CountErrorCards(more) <= CountErrorCards(deck) + 1
        <4>1. ErrorsOf(more) \subseteq ErrorsOf(deck) \cup {NextId(deck)}
          BY <3>4 DEF ErrorsOf
        <4>2. IsFiniteSet(ErrorsOf(deck)) /\ IsFiniteSet(ErrorsOf(more))
          BY <3>3, <3>4, ErrorsFinite
        <4>3. /\ IsFiniteSet(ErrorsOf(deck) \cup {NextId(deck)})
              /\ Cardinality(ErrorsOf(deck) \cup {NextId(deck)}) \in Nat
              /\ Cardinality(ErrorsOf(deck) \cup {NextId(deck)}) <= Cardinality(ErrorsOf(deck)) + 1
          <5>1. /\ IsFiniteSet(ErrorsOf(deck) \cup {NextId(deck)})
                /\ Cardinality(ErrorsOf(deck) \cup {NextId(deck)})
                     = IF NextId(deck) \in ErrorsOf(deck) THEN Cardinality(ErrorsOf(deck))
                       ELSE Cardinality(ErrorsOf(deck)) + 1
            BY <4>2, FS_AddElement
          <5>2. Cardinality(ErrorsOf(deck)) \in Nat
            BY <4>2, FS_CardinalityType
          <5> QED BY <5>1, <5>2
        <4>4. Cardinality(ErrorsOf(more)) <= Cardinality(ErrorsOf(deck) \cup {NextId(deck)})
          BY <4>1, <4>3, FS_Subset
        <4>5. /\ CountErrorCards(more) = Cardinality(ErrorsOf(more)) /\ CountErrorCards(more) \in Nat
              /\ CountErrorCards(deck) = Cardinality(ErrorsOf(deck)) /\ CountErrorCards(deck) \in Nat
          BY <3>3, <3>4, ErrorsFinite
        <4> QED BY <4>3, <4>4, <4>5
      <3>6. CountErrorCards(more) \in Nat /\ CountErrorCards(deck) \in Nat
        BY <3>3, <3>4, ErrorsFinite
      <3>7. g[i + 1].left \in Nat /\ CountErrorCards(more) + g[i + 1].left <= DailyCap
        <4> DEFINE left == g[i].left
                   less == g[i + 1].left
                   a    == CountErrorCards(more)
                   b    == CountErrorCards(deck)
        <4>1. /\ left \in Nat /\ left # 0 /\ less = left - 1 /\ b + left <= DailyCap
              /\ a \in Nat /\ b \in Nat /\ a <= b + 1
          BY <2>3, <3>1, <3>3, <3>5, <3>6
        <4> HIDE DEF left, less, a, b
        <4>2. less \in Nat /\ a + less <= DailyCap
          BY <1>1, <4>1
        <4> QED BY <4>2 DEF less, a
      <3>8. NextId(more) \in Nat /\ NextId(more) <= NextId(cards) + (i + 1)
        BY <1>1, <3>3, <3>4
      <3>9. Good(i + 1)
        BY <3>4, <3>7, <3>8 DEF Good, more
      <3> QED BY <2>1, <3>9
    <2>4. CASE g[i].left = 0 \/ Found(deck, "error", f) # {}
      <3>1. g[i + 1] = g[i]
        BY <2>2, <2>4 DEF CorrectOne
      <3>2. Good(i + 1)
        BY <1>1, <2>1, <3>1
      <3> HIDE DEF Good
      <3> QED BY <2>1, <3>2
    <2> QED BY <2>3, <2>4
  <1>5. n \in S
    <2> HIDE DEF S
    <2>1. \A i \in 0 .. n : i \in S
      BY <1>3, <1>4, UpTo
    <2> QED BY <2>1
  <1>6. Good(n)
    BY <1>5
  <1>7. CountErrorCards(g[n].deck) \in Nat
    BY <1>6, ErrorsFinite
  <1>8. g[n].deck = cards \/ CountErrorCards(g[n].deck) <= DailyCap
    BY <1>1, <1>6, <1>7
  <1> QED BY <1>2, <1>6, <1>8

\* on_regenerate: the word whose key changes is the only one that may hold the new key.
LEMMA RegeneratedFits ==
    ASSUME DeckOK(cards), NEW c \in DOMAIN cards, NEW lemma \in Forms, OnRegenerate(c, lemma)
    PROVE  /\ DeckOK(cards') /\ DOMAIN cards' = DOMAIN cards
           /\ \A d \in DOMAIN cards : cards'[d].kind = cards[d].kind
  <1>1. cards' = [cards EXCEPT ![c].key = Lower[lemma], ![c].redone = TRUE]
    BY DEF OnRegenerate
  <1>2. Lower[lemma] \in Forms /\ Lowered(Lower[lemma])
    BY DeckAssumption DEF Lowered
  <1>3. ASSUME cards[c].kind = "vocab",
               NEW d \in DOMAIN cards, d # c, cards[d].kind = "vocab"
        PROVE  cards[d].key # Lower[lemma]
    <2> SUFFICES ASSUME cards[d].key = Lower[lemma] PROVE FALSE
      OBVIOUS
    <2>1. SqlLower[cards[d].key] = Lower[lemma]
      BY <1>2 DEF Lowered
    <2>2. d \in Found(cards, "vocab", lemma)
      BY <1>3, <2>1 DEF Found
    <2>3. c \in Found(cards, "vocab", lemma)
      BY <2>2 DEF OnRegenerate
    <2>4. cards[c].key = Lower[lemma]
      BY <2>3 DEF Found, DeckOK, RowOK, Lowered
    <2> QED BY <1>3, <2>4 DEF DeckOK, Distinct, Keyed
  <1>4. DOMAIN cards' = DOMAIN cards
    BY <1>1
  <1>5. ASSUME NEW d \in DOMAIN cards, d # c PROVE cards'[d] = cards[d]
    BY <1>1, <1>5
  <1>6. cards'[c] = [cards[c] EXCEPT !.key = Lower[lemma], !.redone = TRUE]
    BY <1>1
  <1>7. /\ RowOK(cards'[c]) /\ cards'[c].kind = cards[c].kind
        /\ cards'[c].key = Lower[lemma] /\ cards'[c].redone
    <2>1. RowOK(cards[c])
      BY DEF DeckOK
    <2> QED BY <1>2, <1>6, <2>1 DEF Card, RowOK
  <1>8. ASSUME NEW d \in DOMAIN cards PROVE RowOK(cards'[d]) /\ cards'[d].kind = cards[d].kind
    <2>1. CASE d = c
      BY <1>7, <2>1
    <2>2. CASE d # c
      BY <1>5, <2>2 DEF DeckOK
    <2> QED BY <2>1, <2>2
  <1>9. ASSUME NEW d \in DOMAIN cards, d # c
        PROVE  Distinct(cards'[c], cards'[d]) /\ Distinct(cards'[d], cards'[c])
    <2>1. cards'[d] = cards[d]
      BY <1>5, <1>9
    <2>2. CASE cards[c].kind = "vocab" /\ cards[d].kind = "vocab"
      BY <1>3, <1>7, <1>9, <2>1, <2>2 DEF Distinct
    <2>3. CASE cards[c].kind # cards[d].kind
      BY <1>7, <2>1, <2>3 DEF Distinct
    <2>4. CASE cards[c].kind # "vocab"
      BY <1>7, <2>4 DEF Distinct, Keyed
    <2> QED BY <2>2, <2>3, <2>4
  <1>10. ASSUME NEW d \in DOMAIN cards, NEW e \in DOMAIN cards, d # e
         PROVE  Distinct(cards'[d], cards'[e])
    <2>1. CASE d # c /\ e # c
      BY <1>5, <1>10, <2>1 DEF DeckOK
    <2> QED BY <1>9, <1>10, <2>1
  <1>11. ASSUME NEW d \in DOMAIN cards, NEW e \in DOMAIN cards, d < e
         PROVE  Later(cards'[d], cards'[e])
    <2>1. CASE d # c /\ e # c
      BY <1>5, <1>11, <2>1 DEF DeckOK
    <2>2. CASE d = c \/ e = c
      BY <1>7, <2>2 DEF Later
    <2> QED BY <2>1, <2>2
  <1>12. DOMAIN cards' \subseteq Ids
    BY <1>4 DEF DeckOK
  <1> QED BY <1>4, <1>8, <1>10, <1>11, <1>12 DEF DeckOK

-----------------------------------------------------------------------------
(* The inductive invariant.                                                 *)

DeckInv == DeckOK(cards) /\ now \in Nat /\ dayStart \in 0 .. now

LEMMA AboutBatches ==
    ASSUME NEW batch \in Batches
    PROVE  Len(batch) \in Nat /\ batch \in [1 .. Len(batch) -> Forms]
  <1>1. PICK n \in 1 .. BatchMax : batch \in [1 .. n -> Forms]
    BY DEF Batches
  <1>2. n \in Nat /\ Len(batch) = n
    BY <1>1, DeckAssumption
  <1> QED BY <1>1, <1>2

LEMMA InitHolds == Init => DeckInv
  <1> SUFFICES ASSUME Init PROVE DeckInv
    OBVIOUS
  <1>1. DOMAIN cards = {}
    BY DEF Init
  <1>2. DeckOK(cards)
    BY <1>1 DEF DeckOK
  <1> QED BY <1>2 DEF Init, DeckInv

\* One row made, as capture and /drill do.
LEMMA OneMore ==
    ASSUME DeckInv, NEW kind, kind # "error", NEW f, NEW text, Unknown(cards, kind, f, text),
           cards' = Created(cards, kind, f, text), TimeUnchanged
    PROVE  DeckInv' /\ WithinCap
  <1>1. Grown(cards, kind, cards')
    BY CreatedFits DEF DeckInv
  <1>2. DeckOK(cards') /\ \A c \in DOMAIN cards' : c \notin DOMAIN cards => cards'[c].kind # "error"
    BY <1>1 DEF Grown
  <1> QED BY <1>2 DEF DeckInv, TimeUnchanged, WithinCap

LEMMA RoomIs ==
    ASSUME DeckInv, Room(cards, 1)
    PROVE  DeckOK(cards) /\ NextId(cards) <= MaxCard
  BY NextIdIs, DeckAssumption DEF DeckInv, DeckOK, Room

LEMMA StepHolds ==
    ASSUME DeckInv, [Next]_vars
    PROVE  DeckInv' /\ WithinCap
  <1>1. ASSUME NEW raw \in Forms, NEW lemma \in Forms, CaptureOne(raw, lemma)
        PROVE  DeckInv' /\ WithinCap
    <2>1. Unknown(cards, "vocab", lemma, raw)
      BY <1>1, RoomIs DEF CaptureOne, Kinds, Unknown
    <2> QED BY <1>1, <2>1, OneMore DEF CaptureOne
  <1>2. ASSUME NEW batch \in Batches, OnSave(batch) PROVE DeckInv' /\ WithinCap
    <2>1. /\ DeckOK(Stored(batch))
          /\ \A c \in DOMAIN Stored(batch) : c \notin DOMAIN cards => Stored(batch)[c].kind = "vocab"
      BY <1>2, AboutBatches, StoredFits DEF OnSave, DeckInv
    <2>2. cards' = Stored(batch) /\ UNCHANGED <<now, dayStart>>
      BY <1>2 DEF OnSave, TimeUnchanged
    <2>3. DeckOK(cards')
      BY <2>1, <2>2
    <2>4. \A c \in DOMAIN cards' : c \notin DOMAIN cards => cards'[c].kind # "error"
      BY <2>1, <2>2
    <2> QED BY <2>2, <2>3, <2>4 DEF DeckInv, WithinCap
  <1>3. ASSUME NEW batch \in Batches, ProcessAnswer(batch) PROVE DeckInv' /\ WithinCap
    <2>1. /\ DeckOK(Corrected(batch))
          /\ Corrected(batch) = cards \/ CountErrorCards(Corrected(batch)) <= DailyCap
      BY <1>3, AboutBatches, CorrectedFits DEF ProcessAnswer, DeckInv
    <2>2. cards' = Corrected(batch) /\ UNCHANGED <<now, dayStart>>
      BY <1>3 DEF ProcessAnswer, TimeUnchanged
    <2>3. DeckOK(cards')
      BY <2>1, <2>2
    <2>4. WithinCap
      BY <2>1, <2>2 DEF WithinCap
    <2> QED BY <2>2, <2>3, <2>4 DEF DeckInv
  <1>4. ASSUME NEW f \in Forms, DrillMistake(f) PROVE DeckInv' /\ WithinCap
    <2>1. Unknown(cards, "drill_error", f, NoText)
      BY <1>4, RoomIs DEF DrillMistake, Kinds, Unknown
    <2> QED BY <1>4, <2>1, OneMore DEF DrillMistake
  <1>5. ASSUME NEW c \in DOMAIN cards, DeleteCard(c) PROVE DeckInv' /\ WithinCap
    <2>1. cards' = [d \in DOMAIN cards \ {c} |-> cards[d]] /\ UNCHANGED <<now, dayStart>>
      BY <1>5 DEF DeleteCard, TimeUnchanged
    <2>2. DOMAIN cards' \subseteq DOMAIN cards /\ \A d \in DOMAIN cards' : cards'[d] = cards[d]
      BY <2>1
    <2>3. DeckOK(cards')
      BY <2>2 DEF DeckInv, DeckOK
    <2> QED BY <2>1, <2>2, <2>3 DEF DeckInv, WithinCap
  <1>6. ASSUME NEW c \in DOMAIN cards, NEW lemma \in Forms, OnRegenerate(c, lemma)
        PROVE  DeckInv' /\ WithinCap
    <2>1. DeckOK(cards') /\ DOMAIN cards' = DOMAIN cards
      BY <1>6, RegeneratedFits DEF DeckInv
    <2>2. WithinCap
      BY <2>1 DEF WithinCap
    <2> QED BY <1>6, <2>1, <2>2 DEF OnRegenerate, TimeUnchanged, DeckInv
  <1>7. ASSUME UNCHANGED cards, now' \in Nat, dayStart' \in 0 .. now' PROVE DeckInv' /\ WithinCap
    BY <1>7 DEF DeckInv, WithinCap
  <1>8. CASE Tick
    BY <1>7, <1>8 DEF Tick, DeckInv
  <1>9. CASE MoveZone
    BY <1>7, <1>9 DEF MoveZone, DeckInv
  <1>10. CASE UNCHANGED vars
    BY <1>7, <1>10 DEF vars, DeckInv
  <1> QED BY <1>1, <1>2, <1>3, <1>4, <1>5, <1>6, <1>8, <1>9, <1>10
         DEF Next, BuildStarterDeck

LEMMA Inductive == Spec => []DeckInv
  <1>1. DeckInv /\ [Next]_vars => DeckInv'
    BY StepHolds
  <1> QED BY InitHolds, <1>1, PTL DEF Spec

-----------------------------------------------------------------------------
\* Rows are cards with ids in range, and the day began before now.
THEOREM TypeCorrect == Spec => []TypeOK
  <1>1. DeckInv => TypeOK
    BY DEF DeckInv, DeckOK, RowOK, TypeOK
  <1> QED BY Inductive, <1>1, PTL

\* Whatever the model answers and whichever handler stores it, a lemma has one card of a
\* kind, because every writer stores it lowered and looks for it lowered before it does;
\* and a text that is its own lemma has one however often it is sent.  A mistake loses
\* this when an old preview's button regenerates its card: the key is the word's then.
THEOREM WordHasOneCard == Spec => []OneCardPerWord
  <1>1. DeckInv => OneCardPerWord
    <2> SUFFICES ASSUME DeckInv, NEW c \in DOMAIN cards, NEW d \in DOMAIN cards
                 PROVE  /\ SameWord(c, d) => c = d
                        /\ SentTwice(c, d) => cards[c].key # Lower[cards[d].text]
      BY DEF OneCardPerWord
    <2>1. Lower[cards[c].key] = cards[c].key /\ Lower[cards[d].key] = cards[d].key
      BY DEF DeckInv, DeckOK, RowOK, Lowered
    <2>2. SameWord(c, d) => c = d
      BY <2>1 DEF DeckInv, DeckOK, SameWord, Distinct, Keyed
    <2>3. SentTwice(c, d) => cards[c].key # Lower[cards[d].text]
      BY DEF DeckInv, DeckOK, SentTwice, Later
    <2> QED BY <2>2, <2>3
  <1> QED BY Inductive, <1>1, PTL

\* No text, however many errors the model finds in it, makes an error card beyond the
\* day's cap.
THEOREM CapHolds == Spec => CapKept
  <1>1. DeckInv /\ [Next]_vars => [WithinCap]_vars
    BY StepHolds
  <1> QED BY Inductive, <1>1, PTL DEF Spec, CapKept

-----------------------------------------------------------------------------
(* Course.                                                                  *)

LEMMA KeptRuns ==
    ASSUME NEW A, NEW s \in Seq(A), NEW S
    PROVE  \E g : /\ g[0] = <<>> /\ Kept(s, S) = g[Len(s)]
                  /\ \A i \in 1 .. Len(s) :
                        g[i] = IF s[i] \in S THEN Append(g[i - 1], s[i]) ELSE g[i - 1]
  <1> DEFINE n == Len(s)
             Runs(m, g) == g = [i \in 0 .. m |-> IF i = 0 THEN <<>>
                                                ELSE IF s[i] \in S THEN Append(g[i - 1], s[i])
                                                ELSE g[i - 1]]
             Long == {m \in 0 .. n : \E g : Runs(m, g)}
  <1>0. n \in Nat
    OBVIOUS
  <1>1. 0 \in Long
    <2>1. Runs(0, [i \in 0 .. 0 |-> <<>>])
      OBVIOUS
    <2> HIDE DEF Runs
    <2> QED BY <1>0, <2>1
  <1>2. ASSUME NEW m \in 0 .. n - 1, m \in Long PROVE m + 1 \in Long
    <2>0. m \in Nat /\ m + 1 \in 0 .. n
      BY <1>0
    <2>1. PICK g : Runs(m, g)
      BY <1>2
    <2> DEFINE next == IF s[m + 1] \in S THEN Append(g[m], s[m + 1]) ELSE g[m]
               h    == [i \in 0 .. m + 1 |-> IF i = m + 1 THEN next ELSE g[i]]
    <2>2. \A i \in 0 .. m : h[i] = g[i]
      BY <2>0
    <2>3. ASSUME NEW i \in 0 .. m + 1
          PROVE  h[i] = IF i = 0 THEN <<>>
                        ELSE IF s[i] \in S THEN Append(h[i - 1], s[i]) ELSE h[i - 1]
      <3>1. CASE i = m + 1
        <4>1. h[i] = next /\ i # 0 /\ i - 1 = m /\ h[m] = g[m]
          BY <2>0, <3>1
        <4> HIDE DEF h
        <4> QED BY <3>1, <4>1
      <3>2. CASE i = 0
        BY <2>0, <2>1, <2>2, <3>2
      <3>3. CASE i # 0 /\ i # m + 1
        <4>1. i \in 0 .. m /\ i - 1 \in 0 .. m
          BY <2>0, <3>3
        <4>2. g[i] = IF s[i] \in S THEN Append(g[i - 1], s[i]) ELSE g[i - 1]
          BY <2>1, <3>3, <4>1
        <4>3. h[i] = g[i] /\ h[i - 1] = g[i - 1]
          BY <2>2, <4>1
        <4> HIDE DEF h, Runs
        <4> QED BY <3>3, <4>2, <4>3
      <3> QED BY <3>1, <3>2, <3>3
    <2>4. h = [i \in 0 .. m + 1 |-> h[i]]
      OBVIOUS
    <2> HIDE DEF h
    <2>5. Runs(m + 1, h)
      BY <2>3, <2>4
    <2> HIDE DEF Runs
    <2> QED BY <2>0, <2>5
  <1>3. n \in Long
    <2> HIDE DEF Long, n
    <2>1. \A i \in 0 .. n : i \in Long
      BY <1>0, <1>1, <1>2, UpTo
    <2> QED BY <1>0, <2>1
  <1> DEFINE g == CHOOSE g : Runs(n, g)
  <1>4. Runs(n, g)
    <2>1. \E h : Runs(n, h)
      BY <1>3
    <2> HIDE DEF Runs
    <2> QED BY <2>1
  <1>5. Kept(s, S) = g[n]
    BY DEF Kept
  <1> HIDE DEF g
  <1>6. g[0] = <<>>
    BY <1>0, <1>4
  <1>7. ASSUME NEW i \in 1 .. n
        PROVE  g[i] = IF s[i] \in S THEN Append(g[i - 1], s[i]) ELSE g[i - 1]
    <2>1. i \in 0 .. n /\ i # 0
      BY <1>0
    <2> QED BY <1>4, <2>1
  <1> QED BY <1>5, <1>6, <1>7

\* What is kept of a sequence are its elements in S; it is empty only if none is.
LEMMA KeptIs ==
    ASSUME NEW A, NEW s \in Seq(A), NEW S
    PROVE  /\ Kept(s, S) \in Seq(A \cap S)
           /\ (\E i \in 1 .. Len(s) : s[i] \in S) => Kept(s, S) # <<>>
  <1> DEFINE n == Len(s)
  <1>1. n \in Nat /\ \A i \in 1 .. n : s[i] \in A
    OBVIOUS
  <1>2. PICK g : /\ g[0] = <<>> /\ Kept(s, S) = g[n]
                 /\ \A i \in 1 .. n :
                       g[i] = IF s[i] \in S THEN Append(g[i - 1], s[i]) ELSE g[i - 1]
    BY KeptRuns
  <1> DEFINE Good(i) == /\ g[i] \in Seq(A \cap S)
                        /\ (\E j \in 1 .. i : s[j] \in S) => Len(g[i]) > 0
             Long == {i \in 0 .. n : Good(i)}
  <1>3. 0 \in Long
    <2>1. g[0] \in Seq(A \cap S)
      BY <1>2
    <2>2. 1 .. 0 = {} /\ 0 \in 0 .. n
      BY <1>1
    <2>3. Good(0)
      BY <2>1, <2>2
    <2> QED BY <2>2, <2>3
  <1>4. ASSUME NEW i \in 0 .. n - 1, i \in Long PROVE i + 1 \in Long
    <2>1. Good(i) /\ i + 1 \in 1 .. n /\ (i + 1) - 1 = i /\ i \in Nat
      BY <1>1, <1>4
    <2>2. g[i + 1] = IF s[i + 1] \in S THEN Append(g[i], s[i + 1]) ELSE g[i]
      BY <1>2, <2>1
    <2>3. CASE s[i + 1] \in S
      <3>1. g[i + 1] = Append(g[i], s[i + 1]) /\ s[i + 1] \in A \cap S
        BY <1>1, <2>1, <2>2, <2>3
      <3>2. g[i + 1] \in Seq(A \cap S) /\ Len(g[i + 1]) > 0
        BY <2>1, <3>1
      <3> QED BY <2>1, <3>2
    <2>4. CASE s[i + 1] \notin S
      <3>1. g[i + 1] = g[i]
        BY <2>2, <2>4
      <3>2. (\E j \in 1 .. i + 1 : s[j] \in S) => \E j \in 1 .. i : s[j] \in S
        BY <2>1, <2>4
      <3>3. Good(i + 1)
        BY <2>1, <3>1, <3>2
      <3> QED BY <2>1, <3>3
    <2> QED BY <2>3, <2>4
  <1>5. n \in Long
    <2> HIDE DEF Long, n
    <2>1. \A i \in 0 .. n : i \in Long
      BY <1>1, <1>3, <1>4, UpTo
    <2> QED BY <1>1, <2>1
  <1>6. g[n] \in Seq(A \cap S) /\ ((\E j \in 1 .. n : s[j] \in S) => Len(g[n]) > 0)
    BY <1>5
  <1> QED BY <1>2, <1>6

\* get_topic_for_week never looks beyond the list: every track has a topic every week.
LEMMA TopicFits ==
    ASSUME NEW tr \in Tracks, NEW iso \in Nat
    PROVE  TopicInWeek(tr, iso) \in Slugs
  <1> DEFINE wished   == DrillPriority[tr]
             priority == Kept(wished, Slugs)
             further  == Kept(SeedTopics, Slugs \ ToSet(priority))
             ordered  == priority \o further
  <1>1. /\ wished \in Seq(ToSet(wished))
        /\ SeedTopics \in Seq(Slugs) /\ SeedTopics # <<>>
    BY CourseAssumption DEF Slugs
  <1>2. priority \in Seq(Slugs)
    <2> HIDE DEF wished
    <2>1. priority \in Seq(ToSet(wished) \cap Slugs)
      BY <1>1, KeptIs
    <2> QED BY <2>1
  <1>3. /\ further \in Seq(Slugs)
        /\ (\E i \in 1 .. Len(SeedTopics) : SeedTopics[i] \in Slugs \ ToSet(priority))
               => further # <<>>
    <2> HIDE DEF priority
    <2>1. /\ further \in Seq(Slugs \cap (Slugs \ ToSet(priority)))
          /\ (\E i \in 1 .. Len(SeedTopics) : SeedTopics[i] \in Slugs \ ToSet(priority))
                 => further # <<>>
      BY <1>1, KeptIs
    <2> QED BY <2>1
  <1>4. 1 \in 1 .. Len(SeedTopics) /\ SeedTopics[1] \in Slugs
    BY <1>1
  <1>5. Ordered[tr] = ordered
    BY DEF Ordered, OrderedTopicSlugs, Slugs
  <1> HIDE DEF further
  <1>6. priority # <<>> \/ further # <<>>
    <2>1. CASE priority = <<>>
      <3>1. ToSet(priority) = {}
        BY <2>1 DEF ToSet
      <3> QED BY <1>3, <1>4, <3>1
    <2> QED BY <2>1
  <1> HIDE DEF priority
  <1>7. ordered \in Seq(Slugs) /\ Len(ordered) \in Nat \ {0}
    BY <1>2, <1>3, <1>6
  <1> HIDE DEF ordered
  <1>8. (iso % Len(ordered)) + 1 \in 1 .. Len(ordered)
    BY <1>7
  <1>9. ordered[(iso % Len(ordered)) + 1] \in Slugs
    BY <1>7, <1>8
  <1> QED BY <1>5, <1>9 DEF TopicInWeek

\* The number in the calendar of the w-th week counted through.
CalendarWeek(w) == LET n == FirstWeek + (w - 1)
                   IN  IF n <= LastWeek THEN n ELSE n - LastWeek

\* The numbers of a day's week agree.
LEMMA WeeksAgree ==
    ASSUME NEW d \in Nat
    PROVE  IsoWeek(d) = CalendarWeek(Week(d)) /\ Week(d) # 0
  <1>1. d \div 7 \in Nat /\ (d \div 7 + 1) - 1 = d \div 7 /\ d \div 7 + 1 # 0
    OBVIOUS
  <1> QED BY <1>1 DEF IsoWeek, CalendarWeek, Week

-----------------------------------------------------------------------------
\* A lesson is the topic its track has in its week.
Due(x) == x # Nothing => x.topic = TopicInWeek(x.track, CalendarWeek(x.week))

Jobs == [todo : SUBSET Users, who : Users \cup {Nobody}, next : Nat,
         track : [Users -> Tracks \cup {Gone}]]

CourseInv ==
    /\ day \in Nat /\ track \in [Users -> Tracks \cup {Gone}]
    /\ job = NoJob \/ job \in Jobs
    /\ DOMAIN told = Users /\ DOMAIN drilled = Users
    /\ \A u \in Users : Due(told[u]) /\ Due(drilled[u])

LEMMA CourseInitHolds == CourseInit => CourseInv
  BY CourseAssumption DEF CourseInit, CourseInv, Due

LEMMA ServedKeepsJob ==
    ASSUME NEW u \in Users, job \in Jobs, job' = Served(u)
    PROVE  job' = NoJob \/ job' \in Jobs
  BY DEF Served, Jobs

LEMMA SendStatsKeeps ==
    ASSUME CourseInv, NEW u \in Users, SendStats(u)
    PROVE  CourseInv'
  <1>1. job # NoJob
    BY DEF SendStats, NoJob
  <1>2. job' \in Jobs
    BY <1>1 DEF CourseInv, SendStats, Jobs
  <1> QED BY <1>2 DEF CourseInv, SendStats

LEMMA SendTopicKeeps ==
    ASSUME CourseInv, NEW u \in Users, SendTopic(u)
    PROVE  CourseInv'
  <1>1. job \in Jobs
    BY CourseAssumption DEF CourseInv, SendTopic, NoJob
  <1>2. job' = NoJob \/ job' \in Jobs
    BY <1>1, ServedKeepsJob DEF SendTopic
  <1> DEFINE lesson == [week |-> Week(job.next), track |-> job.track[u],
                        topic |-> TopicToTell(u)]
  <1>3. Due(lesson)
    <2>1. job.next \in Nat
      BY <1>1 DEF Jobs
    <2>2. IsoWeek(job.next) = CalendarWeek(Week(job.next))
      BY <2>1, WeeksAgree
    <2>3. lesson.topic = TopicInWeek(job.track[u], IsoWeek(job.next))
      BY DEF TopicToTell
    <2> QED BY <2>2, <2>3 DEF Due
  <1>4. told' = [told EXCEPT ![u] = lesson]
    BY DEF SendTopic
  <1> HIDE DEF lesson
  <1>5. DOMAIN told' = Users /\ \A v \in Users : Due(told'[v])
    BY <1>3, <1>4 DEF CourseInv
  <1> QED BY <1>2, <1>5 DEF CourseInv, SendTopic

LEMMA SendFailsKeeps ==
    ASSUME CourseInv, NEW u \in Users, SendFails(u)
    PROVE  CourseInv'
  <1>1. job \in Jobs
    BY DEF CourseInv, SendFails, NoJob
  <1>2. job' = NoJob \/ job' \in Jobs
    BY <1>1, ServedKeepsJob DEF SendFails
  <1> QED BY <1>2 DEF CourseInv, SendFails

LEMMA DrillKeeps ==
    ASSUME CourseInv, NEW u \in Users, Drill(u)
    PROVE  CourseInv'
  <1> DEFINE lesson == [week |-> Week(day), track |-> track[u],
                        topic |-> TopicInWeek(track[u], IsoWeek(day))]
  <1>1. Due(lesson)
    <2>1. IsoWeek(day) = CalendarWeek(Week(day))
      BY WeeksAgree DEF CourseInv
    <2>2. lesson.topic = TopicInWeek(track[u], IsoWeek(day))
      OBVIOUS
    <2> QED BY <2>1, <2>2 DEF Due
  <1>2. drilled' = [drilled EXCEPT ![u] = lesson]
    BY DEF Drill
  <1> HIDE DEF lesson
  <1>3. DOMAIN drilled' = Users /\ \A v \in Users : Due(drilled'[v])
    BY <1>1, <1>2 DEF CourseInv
  <1> QED BY <1>3 DEF CourseInv, Drill

LEMMA CourseStepHolds == CourseInv /\ [CourseNext]_courseVars => CourseInv'
  <1> SUFFICES ASSUME CourseInv, [CourseNext]_courseVars PROVE CourseInv'
    OBVIOUS
  <1>1. CASE NextDay
    BY <1>1 DEF CourseInv, NextDay
  <1>2. CASE StartSummary
    <2>1. job' = NoJob \/ job' \in Jobs
      <3>1. day + 1 \in Nat /\ Members \subseteq Users
        BY DEF CourseInv, Members
      <3> QED BY <1>2, <3>1 DEF StartSummary, Jobs, CourseInv
    <2> QED BY <1>2, <2>1 DEF CourseInv, StartSummary
  <1>3. CASE Serve
    BY <1>3, SendStatsKeeps, SendTopicKeeps, SendFailsKeeps DEF Serve
  <1>4. CASE Restart
    BY <1>4 DEF CourseInv, Restart
  <1>5. ASSUME NEW u \in Users, ChooseTrack(u) PROVE CourseInv'
    <2>1. track' \in [Users -> Tracks \cup {Gone}]
      BY <1>5 DEF CourseInv, ChooseTrack
    <2> QED BY <1>5, <2>1 DEF CourseInv, ChooseTrack
  <1>6. ASSUME NEW u \in Users, Leave(u) PROVE CourseInv'
    <2>1. track' \in [Users -> Tracks \cup {Gone}]
      BY <1>6 DEF CourseInv, Leave
    <2> QED BY <1>6, <2>1 DEF CourseInv, Leave
  <1>7. ASSUME NEW u \in Users, Drill(u) PROVE CourseInv'
    BY <1>7, DrillKeeps
  <1>8. CASE UNCHANGED courseVars
    BY <1>8 DEF courseVars, CourseInv
  <1> QED BY <1>1, <1>2, <1>3, <1>4, <1>5, <1>6, <1>7, <1>8 DEF CourseNext

-----------------------------------------------------------------------------
LEMMA CourseInductive == CourseSpec => []CourseInv
  BY CourseInitHolds, CourseStepHolds, PTL DEF CourseSpec

\* A job under way: who is left on its list, and whose turn it is.
UnderWay == /\ job.todo \subseteq Users /\ job.todo # {}
            /\ job.who \in job.todo \cup {Nobody}
            /\ \A u \in job.todo : job.track[u] \in Tracks

LEMMA IsoWeekIs ==
    ASSUME NEW d \in Nat
    PROVE  IsoWeek(d) \in Nat /\ Week(d) \in Nat \ {0}
  <1>1. d \div 7 \in Nat /\ FirstWeek \in Nat /\ LastWeek \in Nat
    BY CourseAssumption
  <1> QED BY <1>1 DEF IsoWeek, Week

LEMMA ServedKeepsUnderWay ==
    ASSUME NEW u \in Users, job \in Jobs, UnderWay, job' = Served(u)
    PROVE  job' = NoJob \/ UnderWay'
  <1>1. CASE job.todo = {u}
    BY <1>1 DEF Served
  <1>2. CASE job.todo # {u}
    <2>1. job' = [job EXCEPT !.todo = @ \ {u}, !.who = Nobody]
      BY <1>2 DEF Served
    <2>2. /\ job'.todo = job.todo \ {u} /\ job'.who = Nobody /\ job'.track = job.track
      BY <2>1 DEF Jobs
    <2> QED BY <1>2, <2>2 DEF UnderWay
  <1> QED BY <1>1, <1>2

LEMMA CourseTypeStep ==
    ASSUME CourseTypeOK, CourseInv, [CourseNext]_courseVars
    PROVE  CourseTypeOK'
  <1>0. /\ day \in 0 .. MaxDay /\ day \in Nat /\ fired \in Nat /\ choices \in 0 .. MaxChoices
        /\ active \in [Slugs -> Nat] /\ track \in [Users -> Tracks \cup {Gone}]
        /\ told \in [Users -> Lesson \cup {Nothing}]
        /\ drilled \in [Users -> Lesson \cup {Nothing}]
        /\ job = NoJob \/ UnderWay
        /\ job = NoJob \/ job \in Jobs
        /\ MaxDay \in Nat /\ MaxChoices \in Nat
    BY CourseAssumption DEF CourseTypeOK, CourseInv, UnderWay
  <1>1. CASE NextDay
    BY <1>0, <1>1 DEF NextDay, CourseTypeOK
  <1>2. CASE StartSummary
    <2>1. active' \in [Slugs -> Nat]
      <3>1. Week(day + 1) \in Nat
        BY <1>0, IsoWeekIs
      <3> QED BY <1>0, <1>2, <3>1 DEF StartSummary
    <2>2. job' = NoJob \/ UnderWay'
      <3>1. CASE Members = {}
        BY <1>2, <3>1 DEF StartSummary
      <3>2. CASE Members # {}
        <4>1. job' = [todo |-> Members, who |-> Nobody, next |-> day + 1, track |-> track]
          BY <1>2, <3>2 DEF StartSummary
        <4>2. Members \subseteq Users /\ \A u \in Members : track[u] \in Tracks
          BY <1>0 DEF Members
        <4> QED BY <3>2, <4>1, <4>2 DEF UnderWay
      <3> QED BY <3>1, <3>2
    <2> QED BY <1>0, <1>2, <2>1, <2>2 DEF StartSummary, CourseTypeOK, UnderWay
  <1>3. ASSUME NEW u \in Users, SendStats(u) PROVE CourseTypeOK'
    <2>1. job \in Jobs /\ UnderWay /\ u \in job.todo
      BY <1>0, <1>3 DEF SendStats, NoJob
    <2>2. job' = [job EXCEPT !.who = u]
      BY <1>3 DEF SendStats
    <2>3. job'.todo = job.todo /\ job'.who = u /\ job'.track = job.track
      BY <2>1, <2>2 DEF Jobs
    <2>4. UnderWay'
      BY <2>1, <2>3 DEF UnderWay
    <2> QED BY <1>0, <1>3, <2>4 DEF SendStats, CourseTypeOK, UnderWay
  <1>4. ASSUME NEW u \in Users, SendTopic(u) PROVE CourseTypeOK'
    <2>1. job \in Jobs /\ UnderWay /\ u \in job.todo
      BY <1>0, <1>4, CourseAssumption DEF SendTopic, NoJob, UnderWay
    <2>2. job' = NoJob \/ UnderWay'
      BY <1>4, <2>1, ServedKeepsUnderWay DEF SendTopic
    <2> DEFINE lesson == [week |-> Week(job.next), track |-> job.track[u],
                          topic |-> TopicToTell(u)]
    <2>3. lesson \in Lesson
      <3>1. job.next \in Nat /\ job.track[u] \in Tracks
        BY <2>1 DEF Jobs, UnderWay
      <3>2. IsoWeek(job.next) \in Nat /\ Week(job.next) \in Nat \ {0}
        BY <3>1, IsoWeekIs
      <3>3. TopicToTell(u) \in Slugs
        BY <3>1, <3>2, TopicFits DEF TopicToTell
      <3> QED BY <3>1, <3>2, <3>3 DEF Lesson
    <2>4. told' = [told EXCEPT ![u] = lesson]
      BY <1>4 DEF SendTopic
    <2> HIDE DEF lesson
    <2>5. told' \in [Users -> Lesson \cup {Nothing}]
      BY <1>0, <2>3, <2>4
    <2> QED BY <1>0, <1>4, <2>2, <2>5 DEF SendTopic, CourseTypeOK, UnderWay
  <1>5. ASSUME NEW u \in Users, SendFails(u) PROVE CourseTypeOK'
    <2>1. job \in Jobs /\ UnderWay
      BY <1>0, <1>5 DEF SendFails, NoJob
    <2>2. job' = NoJob \/ UnderWay'
      BY <1>5, <2>1, ServedKeepsUnderWay DEF SendFails
    <2> QED BY <1>0, <1>5, <2>2 DEF SendFails, CourseTypeOK, UnderWay
  <1>6. CASE Restart
    BY <1>0, <1>6 DEF Restart, CourseTypeOK
  <1>7. ASSUME NEW u \in Users, ChooseTrack(u) PROVE CourseTypeOK'
    <2>1. track' \in [Users -> Tracks \cup {Gone}] /\ choices' \in 0 .. MaxChoices
      BY <1>0, <1>7 DEF ChooseTrack
    <2> QED BY <1>0, <1>7, <2>1 DEF ChooseTrack, CourseTypeOK, UnderWay
  <1>8. ASSUME NEW u \in Users, Leave(u) PROVE CourseTypeOK'
    <2>1. track' \in [Users -> Tracks \cup {Gone}] /\ choices' \in 0 .. MaxChoices
      BY <1>0, <1>8 DEF Leave
    <2> QED BY <1>0, <1>8, <2>1 DEF Leave, CourseTypeOK, UnderWay
  <1>9. ASSUME NEW u \in Users, Drill(u) PROVE CourseTypeOK'
    <2> DEFINE lesson == [week |-> Week(day), track |-> track[u],
                          topic |-> TopicInWeek(track[u], IsoWeek(day))]
    <2>1. lesson \in Lesson
      <3>1. track[u] \in Tracks
        BY <1>0, <1>9 DEF Drill, Members
      <3>2. IsoWeek(day) \in Nat /\ Week(day) \in Nat \ {0}
        BY <1>0, IsoWeekIs
      <3>3. TopicInWeek(track[u], IsoWeek(day)) \in Slugs
        BY <3>1, <3>2, TopicFits
      <3> QED BY <3>1, <3>2, <3>3 DEF Lesson
    <2>2. drilled' = [drilled EXCEPT ![u] = lesson]
      BY <1>9 DEF Drill
    <2> HIDE DEF lesson
    <2>3. drilled' \in [Users -> Lesson \cup {Nothing}]
      BY <1>0, <2>1, <2>2
    <2> QED BY <1>0, <1>9, <2>3 DEF Drill, CourseTypeOK, UnderWay
  <1>10. CASE UNCHANGED courseVars
    BY <1>0, <1>10 DEF courseVars, CourseTypeOK, UnderWay
  <1> QED BY <1>1, <1>2, <1>3, <1>4, <1>5, <1>6, <1>7, <1>8, <1>9, <1>10 DEF CourseNext, Serve

\* Every topic told or drilled is one of drill_topics: the rotation never leaves its list,
\* whatever slugs a track names and whichever week of the year it is.
THEOREM CourseTypeCorrect == CourseSpec => []CourseTypeOK
  <1>1. CourseInit => CourseTypeOK
    BY CourseAssumption DEF CourseInit, CourseTypeOK, Slugs
  <1>2. CourseTypeOK /\ CourseInv /\ [CourseNext]_courseVars => CourseTypeOK'
    BY CourseTypeStep
  <1> QED BY <1>1, <1>2, CourseInductive, PTL DEF CourseSpec

\* Whoever keeps the track the Sunday job read drills the topic it announced, all the
\* week: both come from the track and the week's number alone (send_weekly_summary,
\* cmd_drill, get_topic_for_week).
THEOREM AnnouncedTopicHolds == CourseSpec => []AnnouncedIsDrilled
  <1>1. CourseInv => AnnouncedIsDrilled
    BY DEF CourseInv, Due, AnnouncedIsDrilled
  <1> QED BY <1>1, CourseInductive, PTL
=============================================================================
