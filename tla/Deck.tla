-------------------------------- MODULE Deck --------------------------------
(***************************************************************************)
(* What puts cards into one participant's deck and keeps them apart: the   *)
(* capture of a word, topic packs and the starter deck, regeneration, the  *)
(* corrections of /write and /talk, the mistakes of /drill.  The table has *)
(* no unique key: what keeps a word from having two cards is that every    *)
(* writer looks first.  The language model may answer anything.            *)
(*                                                                         *)
(* The updates of one participant are serialised, so a handler is a step;  *)
(* review sessions over these cards are in module Review.                  *)
(***************************************************************************)
EXTENDS Naturals, Sequences, FiniteSets

CONSTANTS Forms,        \* what people type and the model answers, as spelled
          Lower,        \* Python's str.strip().lower()
          SqlLower,     \* SQLite's lower(), which knows ASCII letters only
          MaxCard,      \* card ids are 1..MaxCard
          BatchMax,     \* words of a pack, errors of a text
          DailyCap,     \* ERROR_CARDS_DAILY_CAP
          MaxTime,      \* bound on the clock
          NoText        \* the text of a card that nobody typed

ASSUME DeckAssumption ==
    /\ Lower \in [Forms -> Forms] /\ SqlLower \in [Forms -> Forms]
    \* what is in lower case stays so
    /\ \A f \in Forms : SqlLower[Lower[f]] = Lower[f] /\ Lower[Lower[f]] = Lower[f]
    /\ NoText \notin Forms
    /\ MaxCard \in Nat /\ BatchMax \in Nat /\ DailyCap \in Nat /\ MaxTime \in Nat

VARIABLES cards,     \* rows of "cards", by id
          now,
          dayStart   \* day_start_utc(now, user_tz)

vars == <<cards, now, dayStart>>

Ids   == 1 .. MaxCard
Kinds == {"vocab", "error", "drill_error"}

\* "key" is the column lemma; "text" is kept where it is a word somebody sent; "redone"
\* is history: on_regenerate has overwritten the key.
Card  == [kind : Kinds, key : Forms, text : Forms \cup {NoText}, created : Nat,
          redone : BOOLEAN]

\* find_card_by_lemma, find_error_card: the key is compared by SQLite, the probe was
\* lowered by Python.
Found(deck, kind, f) ==
    {c \in DOMAIN deck : deck[c].kind = kind /\ SqlLower[deck[c].key] = Lower[f]}

\* The id of a new row: above every id in use.
NextId(deck) == CHOOSE id \in 1 .. MaxCard + 1 :
                    /\ \A c \in DOMAIN deck : c < id
                    /\ id = 1 \/ id - 1 \in DOMAIN deck

Added(deck, row) == [c \in DOMAIN deck \cup {NextId(deck)} |->
                        IF c \in DOMAIN deck THEN deck[c] ELSE row]

\* create_vocab_card, create_error_card: the key is stored lowered, the text as it is.
Created(deck, kind, f, text) ==
    Added(deck, [kind |-> kind, key |-> Lower[f], text |-> text, created |-> now,
                 redone |-> FALSE])

Room(deck, n) == NextId(deck) + n <= MaxCard + 1

-----------------------------------------------------------------------------
Init == cards = << >> /\ now = 0 /\ dayStart = 0

TimeUnchanged == UNCHANGED <<now, dayStart>>

\* Variant of CaptureOne: only what the model answers is looked up.
CaptureOneUnchecked(raw, lemma) ==
    /\ Room(cards, 1)
    /\ Found(cards, "vocab", lemma) = {}
    /\ cards' = Created(cards, "vocab", lemma, raw)
    /\ TimeUnchanged

\* capture_one, once for a typed word and for each word of a voice message: neither the
\* word as typed nor the lemma the model gives it has a card.  A quota used up and a
\* failed model change nothing.
CaptureOne(raw, lemma) ==
    /\ Room(cards, 1)
    /\ Found(cards, "vocab", raw) = {} /\ Found(cards, "vocab", lemma) = {}
    /\ cards' = Created(cards, "vocab", lemma, raw)
    /\ TimeUnchanged

\* on_save and build_starter_deck: the lemmas the model gave, in order, in one
\* transaction; each is looked up among the rows flushed before it.
Batches == UNION {[1 .. n -> Forms] : n \in 1 .. BatchMax}

StoreOne(deck, f) ==
    IF Found(deck, "vocab", f) = {} THEN Created(deck, "vocab", f, NoText) ELSE deck

Stored(batch) ==
    LET Deck[i \in 0 .. Len(batch)] ==
            IF i = 0 THEN cards ELSE StoreOne(Deck[i - 1], batch[i])
    IN  Deck[Len(batch)]

OnSave(batch) ==
    /\ Room(cards, Len(batch))
    /\ cards' = Stored(batch)
    /\ TimeUnchanged

\* _ensure_starter_deck: only an empty deck is filled.
NeedsStarterDeck == DOMAIN cards = {}

\* A timeout or a failed write before the commit is no step.
BuildStarterDeck(batch) == NeedsStarterDeck /\ OnSave(batch)

\* on_regenerate: refused when the first card found under the new lemma is another.  A
\* preview left in the chat may name a card of any kind: SQLite gives the id of the last
\* card again once it is deleted.
OnRegenerate(c, lemma) ==
    /\ c \in DOMAIN cards
    /\ LET found == Found(cards, "vocab", lemma)
       IN  found = {} \/ (c \in found /\ \A other \in found : c <= other)
    /\ cards' = [cards EXCEPT ![c].key = Lower[lemma], ![c].redone = TRUE]
    /\ TimeUnchanged

-----------------------------------------------------------------------------
\* count_error_cards_created_since the start of the participant's day
CountErrorCards(deck) ==
    Cardinality({c \in DOMAIN deck : deck[c].kind = "error" /\ deck[c].created >= dayStart})

CapLeft == IF CountErrorCards(cards) >= DailyCap THEN 0
           ELSE DailyCap - CountErrorCards(cards)

\* Variant of Corrected: the cap does not go down within a text.
CorrectedCapOnce(batch) ==
    LET Row[i \in 0 .. Len(batch)] ==
            IF i = 0 THEN cards
            ELSE IF CapLeft = 0 \/ Found(Row[i - 1], "error", batch[i]) # {}
                 THEN Row[i - 1]
                 ELSE Created(Row[i - 1], "error", batch[i], NoText)
    IN  Row[Len(batch)]

\* process_answer and _create_error_cards: the cap is read once and goes down with every
\* card that is new; each error is looked up among the rows flushed before it.
CorrectOne(row, f) ==
    IF row.left = 0 \/ Found(row.deck, "error", f) # {}
    THEN row
    ELSE [deck |-> Created(row.deck, "error", f, NoText), left |-> row.left - 1]

Corrected(batch) ==
    LET Row[i \in 0 .. Len(batch)] ==
            IF i = 0 THEN [deck |-> cards, left |-> CapLeft]
            ELSE CorrectOne(Row[i - 1], batch[i])
    IN  Row[Len(batch)].deck

ProcessAnswer(batch) ==
    /\ Room(cards, Len(batch))
    /\ cards' = Corrected(batch)
    /\ TimeUnchanged

\* drill.on_answer: a wrong answer, outside the cap
DrillMistake(f) ==
    /\ Room(cards, 1)
    /\ Found(cards, "drill_error", f) = {}
    /\ cards' = Created(cards, "drill_error", f, NoText)
    /\ TimeUnchanged

DeleteCard(c) ==
    /\ cards' = [d \in DOMAIN cards \ {c} |-> cards[d]]
    /\ TimeUnchanged

\* Variant of Tick: the end of the day for its start.
TickToTomorrow ==
    /\ now < MaxTime
    /\ now' = now + 1
    /\ dayStart' \in {dayStart, now' + 1}
    /\ UNCHANGED cards

\* Time passes, perhaps over local midnight.
Tick ==
    /\ now < MaxTime
    /\ now' = now + 1
    /\ dayStart' \in {dayStart, now'}
    /\ UNCHANGED cards

\* set_user_setting TZ: the local day of the new zone began at another moment.
MoveZone ==
    /\ dayStart' \in 0 .. now
    /\ UNCHANGED <<cards, now>>

Next ==
    \/ \E raw, lemma \in Forms : CaptureOne(raw, lemma)
    \/ \E batch \in Batches : OnSave(batch) \/ BuildStarterDeck(batch) \/ ProcessAnswer(batch)
    \/ \E f \in Forms : DrillMistake(f)
    \/ \E c \in DOMAIN cards : DeleteCard(c) \/ \E lemma \in Forms : OnRegenerate(c, lemma)
    \/ Tick \/ MoveZone

Spec == Init /\ [][Next]_vars

-----------------------------------------------------------------------------
TypeOK ==
    /\ DOMAIN cards \subseteq Ids
    /\ \A c \in DOMAIN cards : cards[c] \in Card
    /\ now \in Nat /\ dayStart \in 0 .. now

\* Two rows of a kind with one key; the key of a mistake that on_regenerate has
\* overwritten is no longer the mistake's.
SameWord(c, d) ==
    /\ cards[c].kind = cards[d].kind /\ Lower[cards[c].key] = Lower[cards[d].key]
    /\ cards[c].kind = "vocab" \/ (~cards[c].redone /\ ~cards[d].redone)

\* One text sent twice, d after c, and neither card made anew since.
SentTwice(c, d) ==
    /\ c < d
    /\ \A e \in {c, d} : cards[e].text # NoText /\ ~cards[e].redone
    /\ Lower[cards[c].text] = Lower[cards[d].text]

\* README: "duplicates are detected by lemma, so sending the same word twice never creates
\* two cards".  However a word is spelled, whatever the model makes of it, and whichever
\* way it comes in -- captured, in a pack, regenerated, corrected or mistaken -- no two
\* cards of a kind have one lemma.  The second half of the sentence is true as far as
\* this: a text sent again gets another card only if its first one was given a lemma that
\* is not the text itself.
OneCardPerWord ==
    \A c, d \in DOMAIN cards :
        /\ SameWord(c, d) => c = d
        /\ SentTwice(c, d) => cards[c].key # Lower[cards[d].text]

\* A correction never takes the day's error cards over the cap, wherever the day begins
\* after a change of zone and however many of its cards came from earlier texts.
WithinCap ==
    (\E c \in DOMAIN cards' : c \notin DOMAIN cards /\ cards'[c].kind = "error")
        => CountErrorCards(cards') <= DailyCap
CapKept == [][WithinCap]_vars

=============================================================================
