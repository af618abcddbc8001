# frbot: a verification project

frbot is a Telegram bot for a small group of people who learn French: words become
flash cards, cards come back in spaced reviews, and a language model corrects texts,
talks, speaks and makes exercises. One process runs everything: aiogram's event loop,
APScheduler's jobs on the same loop, worker threads for files, and one SQLite database.
This directory holds TLA+ models of that process, the TLC runs that check them and the
theorems TLAPS proves about them.

Paths below are relative to `src/src/frbot/`, and `alembic/` to `src/`.

## 1. Inventory

| component | code | state it keeps | operations |
|---|---|---|---|
| registration | `bot/middleware.py`, `bot/handlers/system.py`, `bot/handlers/admin.py` | rows of `users` and `invites`; one asyncio lock per person (aiogram) | `/start`, `/invite`, `/delete_me`, adoption of the owner, nightly cleanup |
| review | `bot/handlers/review.py`, `srs/queue.py`, `srs/scheduler.py` | FSM data: queue, index, counters; `cards.due`, `reviews` | start a session, show, grade, skip, finish |
| conversation | `bot/handlers/*`, order of routers in `__main__.py` | FSM state and data per person, in memory; keyboards in the chat | every command, button and text of the nine flows |
| deck | `capture.py`, `topic.py`, `write.py`, `talk.py`, `drill.py`, `deck.py`, `db/repo.py` | rows of `cards` | capture, packs, starter deck, regeneration, error cards, pausing, deleting |
| reminders | `jobs/reminders.py`, `timeutil.py` | `_last_local`, `_sent_today`, `_in_flight` in memory; settings in `users` | minute tick, deliveries, cleanup |
| course | `tracks.py`, `bot/handlers/track.py`, `db/repo.py`, the weekly job | `users.track`, `drill_topics` | topic of the week, its announcement, `/track`, `/drill` |
| speech | `bot/pronounce.py`, `bot/audio.py` | files of the phrase cache | the pronunciation button, pruning |
| usage | `usage.py` | counts per person, in memory | `check_and_count`, daily reset |
| llm | `llm/client.py` | none | retry ladder, one second try for invalid JSON |
| alerts | `bot/alerts.py`, its callers | last alert of each kind, recent failures | `send`, `record_llm_failure` |
| storage | `db/session.py`, `__main__.py`, `alembic/`, the backup job | the database file, `alembic_version`, the copies | upgrade at start, `create_all`, nightly copy, pruning |
| placement scoring, statistics, rendering, configuration | `placement.py`, `stats.py`, `render.py`, `config.py` | none | pure functions, queries, texts |

**How they interact.** An update of a person first takes that person's lock, then its
FSM state is read, then `AuthMiddleware` decides whether it is heard, then the routers
offer it to the flows in their order. Two people's updates run concurrently and meet in
the database, in the usage counter, in the phrase cache and in the alerter. A handler
awaits the model's retry ladder and, when that fails, the message to the owner, with its
person's lock held. The tick reads the participants, then starts detached deliveries; a
writing prompt takes its participant's lock and arms the same FSM state as `/write`. The
nightly cleanup removes locks and FSM entries of people who are not participants, and
copies the database. Nothing but the database, its copies, the phrase cache and the chat
survives a restart; a start first brings the database to the release's schema.

**What is hard.** Reads before an await that are used after it (invites, roster,
cleanup, cache look-ups); a Telegram call that raises between two writes of the FSM;
keyboards that stay in the chat forever; a wall clock per participant; memory that a
restart empties; threads that share a file name; failures of many people at once; a
timeout that cancels whatever it meets; a migration cut between two statements.
`PROJECT.json` lists each hazard at its line with the properties that watch it.

**What makes each component correct.** Registration: a use of a code stands for an
admission, the roster is bounded, no update blocks. Review: no card is graded before its
time, the daily allowance of new cards is kept, a waiting session has its button in the
chat. Conversation: a text goes to the flow that asked for it, an account goes only
after a fresh warning, tests count answers once. Deck: one card per word, a bounded
number of error cards a day. Reminders: one message per kind and local date, and no date
without one. Course: what is announced is what is drilled. Speech: what is heard is one
whole recording, what is paid for is a synthesis. Alerts: a bulk failure is reported,
once per cool-down, and reporting it holds nobody up for ever. Storage: the version in
the file is true, the revisions bring what the models name, the last good copy stays.

## 2. Modules

| module | models | state ↔ code | a step is |
|---|---|---|---|
| `Registration` | registration, cleanup of locks | `members`, `used`, `maxUses`: tables; `writer`: SQLite's write lock; `lock`, `lockOf`: the generations of a person's lock; `pc`, `seen`: coroutines and what they read | the code between two awaits that matter: count, read, flush, commit |
| `Schedule` | what spaced repetition promises a learner | `deck`; `limit`; `promised`: what the session still owes | an answer, a promise made or dropped, an edit of the deck, a move to another zone, a new limit |
| `Review` | review, queue, scheduler; implements `Schedule` | `deck`: cards and the first review of each; `queue`, `index`: FSM data; `sessionMax`, `limit`: settings in `users`; `dayStart`: the learner's local midnight; `fronts`, `backs`: buttons that may still be pressed | one handler; where a failing Telegram call cuts it short is part of its outcome |
| `Conversation` | all flows' FSM use, routers | `state`, `data`: FSM; `packs`, `drills`, `places`: keyboards in the chat, which handlers send and take away | one handler or job, under the person's lock |
| `Deck` | every writer of `cards` | `cards`: id to kind, key (`lemma`), text, creation | one handler: its look-ups, its batch, its commit |
| `Reminders` | tick, deliveries, clocks | `sent`, `last`, `tasks`: the module's globals; `zone`, `at`: settings; `rows`: `writings` | a tick, a delivery, a minute, a change of settings or clocks |
| `Course` | topic of the week, weekly job, tracks | `track`, `active`: columns; `job`: what the job has read and whom it has not served | one message of the job, a choice, a drill, a day |
| `Speech` | pronunciation, quota, cache | `path`, `part`, `content`: names and inodes; `counts`: the limiter | one look-up, one count, one call to the model, one file operation |
| `Llm` | `complete_json` | `call`: the rung of each call | one answer of the service |
| `Alerts` | `AdminAlerter` | `lastSent`, `failures`: `_last_sent`, `_llm_failures`; `sending`: the await | the code up to the first await; the answer of Telegram |
| `Outage` | requests that fail: composes `Llm` (an instance) and `Alerts` (extended) with the handlers, the enrichment of packs and the starter deck under its timeout | `job`, `step`: the handler that holds a person's lock; `made`, `deck`: `created` and the committed rows | one answer of the model, a commit, a message to the owner, the timeout |
| `Storage` | the database file: migrations, fall-back, releases, crashes, backups, a copy put back | `db`: schema as pairs of a table and a column or index, `alembic_version`, rows; `at`: the statement that is next; `files`: the copies | one DDL statement (SQLite commits each), the stamp of a version, a copy begun, ended, pruned |
| `MC*` | — | give the constants of a module their values for TLC | |
| `RegistrationProofs`, `ReviewProofs` (with `Schedule`), `ConversationProofs`, `LearningProofs` (`Deck` and `Course`), `RemindersProofs`, `SpeechProofs`, `OutageProofs` (with `Alerts` and `Llm`), `StorageProofs` | — | theorems | |

The definitions named `...Unchecked`, `...OneMore` and the like, introduced by "Variant
of", are faulty forms of the definition after them. No specification uses them; they
show what each property would catch.

Modules meet where the code shares state: the lock whose pruning `Registration` shows is
the one that lets `Review`, `Conversation`, `Deck` and `Outage` treat a person's handlers
as serial; the capture that `Review` has as an environment action is made precise in
`Deck`; the words a pack loses to the model are lost in `Outage`; `Conversation` arms the
writing flow that `Reminders` delivers; the rows whose loss `Storage` fears are everybody's.

`LearningProofs` extends `Deck` and `Course` together, so the names of `Course` that any
module has -- initial states, next-state relation, type -- carry the module's name there
(`CourseInit`, `CourseNext`, `CourseSpec`, `CourseTypeOK`). Batches and filtered lists
are recursive functions (`Stored`, `Corrected`, `Kept`) whose single step is an operator
of its own where a proof speaks of it (`StoreOne`, `CorrectOne`).

History variables (marked so in each module) record what was seen or promised; no guard
of a modelled operation reads them, except as a named bound.

**The refinement.** `Schedule` knows no queue, no keyboard and no failing call. `Review`
instantiates it with `promised` mapped to the cards of the queue from the current one on
and `open` to a card that was graded while the session stayed on it, which is what a
Telegram call that fails after the commit leaves behind. `KeepsSchedule` is the abstract
specification as a property of `Review`: TLC checks it in the run `review`, and
`ScheduleImplemented` proves it.

## 3. Runs

Twelve configurations; `PROJECT.json` gives the question of each in a sentence.

| run | properties | shows |
|---|---|---|
| `registration` | `TypeOK` `NoPhantomUse` `RosterBounded` `UpdatesFinish` | with a lost update of `used_count`, crashes and redelivery, a count never exceeds admissions; the roster exceeds the cap only by joiners past the check at once; no lock blocks for good |
| `single_use` ✗ | `InviteUsesBounded` | two people share one single-use link |
| `review` | `TypeOK` `NewBudgetKept` `CurrentCardAsked` `NoEarlyReview` `KeepsSchedule` | stale buttons, deletions, midnights, moves, changed limits and failures never grade a card early or break the allowance; the schedule is implemented |
| `conversation` | `TypeOK` `TextGoesToAsker` `NoDeadFlow` `AnswersCounted` `OldPacksInert` `DeleteOnlyConfirmed` | a text goes to the flow that asked, and to capture when none did; flows keep their buttons; tests count answers once |
| `onboarding` ✗ | `OnboardingCompletes` | another command during the onboarding test loses the first steps |
| `reminders` | `TypeOK` `OncePerDay` `EveryDayServed` `ErasedUnlessRacing` | clock changes, moves and other people's dates neither double nor drop a day's message, but where a date's last minutes are left out |
| `deck` | `TypeOK` `OneCardPerWord` `CapKept` | whatever the model answers, no lemma has two cards, and corrections keep the cap |
| `speech` | `TypeOK` `ReadsAreSound` `PaidForSynthesis` `PressEnds` | what one writer stores is read whole, also over a crash; a payment is a synthesis unless the press ended in between; presses end |
| `half_read` ✗ | `NoHalfRead` | two writers of one phrase: half a recording is heard |
| `outage` | `TypeOK` `BulkFailuresReported` `ToldAsStored` `OneAlertPerWindow` `RequestsEnd` | the owner is told of a bulk failure, unless the message is given up, and once per cool-down; a newcomer hears what became of the starter deck; no outage keeps a lock |
| `storage` | `TypeOK` `VersionHonest` `UpgradesWork` `NewestCopyKept` `CopiesBounded` | the version in the file and in its copies is true; on an untouched file the revisions bring every column and index the models name; the last good copy stays, copies do not pile up |
| `course` | `CourseTypeOK` `AnnouncedIsDrilled` `SummaryReachesAll` | the topic announced on Sunday is drilled all week, over the turn of a year; one learner who cannot be reached costs the others nothing |

✗ marks a run whose property states what a document or comment of the repository says
and the code does not keep; the finding in `PROJECT.json` quotes the sentence. The
passing property beside it (`NoPhantomUse` beside `InviteUsesBounded`, `ReadsAreSound`
beside `NoHalfRead`) says how much of the promise is kept.

**Bounds, and why they are enough.** Every bound is a constant.
*Registration*: three updates of three people and one code, so that two joiners can race
while a third update deletes, invites or is redelivered; one cleanup and one crash.
*Review*: three card ids (a due card, a new one and one that is deleted and comes back),
sessions of up to three, a daily limit of one or two that changes between sessions, a
clock of one step on which midnight may fall, with moves to zones whose day began at any
moment so far, intervals of one and two (so that a grade before its time shows), and one
repeated grade of a position.
*Conversation*: two packs (an old and a new one) and two sessions, each a drill or a
placement test of two questions, so that the buttons of an old session meet a new one of
the same kind; three answers allow one answer too many.
*Reminders*: days of four minutes, seven of them in all, so that two midnights pass, two
zones a day apart (the real spread is 26 hours), jumps of one minute at any time of day,
two participants, two of {missed tick, failed tick, clock change, change of settings,
leaving}, one delivery that outlives its minute, and a restart; one kind of message,
since kinds meet only in the memory that people share too. A clock
that goes back over midnight while somebody changes a time and a tick is missed takes
more changes than these bounds leave; the theorem covers it (section 4).
*Deck*: four rows, batches of two, a cap of one, one step of the clock over midnight or not, and moves to another zone.
*Speech*: three presses (two writers and a reader), recordings of one and of two chunks.
*Outage*: two requests of a newcomer, and two senders for the requests of everybody else
and the error handler; two words enriched one at a time; one further word of a voice
message, of up to five in the code, since each has a ladder and a failure of its own and
only their order in time shows; ladders of two rungs; a threshold of two failures within one unit of time, a cool-down of two and a clock of
three, so that a second alert, a muted one and a late one all happen.
*Storage*: the statements of the four revisions as they are, with every column and index,
against those that `db/models.py` names; one copy kept, three dates, three of {crash, error, start without `alembic.ini`, failed copy, partial
pruning, restore}: enough for a copy from before a cut to be put back after a release.
*Course*: the real ten topics and four tracks, two learners, two weeks with the turn of
a 52-week year between them, two choices.
`CHECK_DEADLOCK FALSE` stands where the bounds, or people who stop writing, end a
behaviour.

**Fairness.** Only the process's own work is fair. `WF(Handle(p))` in `Registration`:
the event loop runs every coroutine that can go on and asyncio's lock wakes its waiters.
`WF(Step(p))` in `Speech` and `WF(Work)` in `Outage`: every call to the model, to
Telegram and to ffmpeg has a timeout, so an await ends; `Work` leaves out new requests
and the timeout of the starter deck, which nothing needs. `WF(Serve)` in `Course`:
the weekly job goes on to the next participant. Nothing makes a person write or press,
the clock move, a disk fail or the process crash.

## 4. Proofs

Each module of proofs gives an inductive invariant, a lemma per action, and theorems for
all values of the constants; the assumptions are the `ASSUME`s of the module it extends
(constants are natural numbers, some sets are finite, values that stand for "none" are
outside). TLC checked the properties first.

*Registration*: `TypeCorrect`, `UsesAreReal` (`[]NoPhantomUse`), `RosterIsBounded`
(`[]RosterBounded`). `NoPhantomUse` is not inductive: a coroutine between its read and
its commit carries a count in `seen`. The invariant adds that what a coroutine knows is
well-formed (`LocalsKnown`) and that the count it read is neither above the admissions
nor at the limit (`SeenBounded`). The bound on the roster needs in addition that members,
and coroutines past the check, fit in the places counted so far (`PlacesTaken`).

*Review*: `TypeCorrect`, `GradesOnlyRipeCards` (`NoEarlyReview`), `BudgetIsKept`
(`[]NewBudgetKept`) and `WaitsOnAskedCard` (`[]CurrentCardAsked`). The strengthening says
of a running session that what it still has queued was ripe or new when queued, that
cards are queued once, and that the cards introduced since the start of the day it was
opened on (`opened`), together with the new ones still queued, stay within the limit;
grading moves a card from one part of that union to the other, and neither midnight nor a
move to another zone reaches `opened`. That is why `NewBudgetKept` counts from there and
not from today's midnight: after a move in a running session the new zone's day may have
begun earlier, and the cards of the day before would count again. The limit
cannot change under a session, because `/settings` takes the FSM state away from it. A
card captured under the id of a deleted one that was queued as due is in `reborn`, and
asked beyond the limit.

`ScheduleImplemented` (`KeepsSchedule`) is in the same module: under the mapping, initial
states of `Review` are initial states of `Schedule`, and with the invariant of `ReviewProofs` every
action is one of its steps or a stutter; the bound a new session must meet is the
allowance that `build_queue` computes. `Schedule` lets a promised card be answered though
it was paused since: that is what the code does, not what its comments say (section 5).

*Conversation*: `TypeCorrect`, `TextReachesAsker`, `NoFlowIsDead`, `TestCountsAnswers`,
`SupersededPacksInert`, `DeletionIsDeliberate`. One lemma says what every handler that
enters a flow owes (`EnterKeeps`: the data it leaves, the message and the keyboard it
sends), one what a handler owes that leaves the flow alone. The strengthening: an armed
confirmation was armed in time, a bound pack is the one in the FSM, a drill or test under
way was begun (`SessionBegun`), so that its keyboards carry a number of their own. A press
takes away one keyboard at most (`Edited`), and `NoFlowIsDead` has to show of each that it
is not the one the flow waits for, or that the next question's is there instead.

*Reminders*: `TypeCorrect`, `NobodyIsToldTwice` (`[]OncePerDay`), `EveryDayHasItsMessage`
(`[]EveryDayServed`) and `ErasureHolds` (`[]ErasedUnlessRacing`). For the first, a
dispatched message must be remembered for as long as its date can be anybody's: the
invariant says that every remembered date has been reached somewhere (`SentReached`), so
that a key that is dropped has aged, and that a dispatched key is remembered, aged or
forgotten in a restart (`Remembered`); nobody is on an aged date, because no two wall
clocks are two days apart -- the assumption behind the code's "widest possible spread is
~26 hours".

For the second, `EveryDayServed` speaks of whole dates only and is not inductive: the
last tick may stand in the middle of a date. `Served` adds that date up to the time the
tick saw. A tick then has to serve every time between two readings of a clock (`Caught`):
`_minutes_skipped` lists them, as minutes modulo a day, when the gap is one it makes up
for, and less than a day apart two readings have one midnight between them at most
(`Ahead`). A time before that midnight, when the minutes left out reach over it, is served
under the next date; `cut` remembers the date it was taken from, and the message of the
next date is what remains of it. Here the prover gets division and remainder as a quotient and a remainder
(`DivModOf`, `ClockIs`). The attempt showed that the promise had been stated too
strongly: a participant whose clock has gone back over midnight, and who then changes
their time, had been promised a date that the tick before the change had already seen in
part. TLC finds that history for one participant in one zone, with a jump of three
quarters of a day and four changes. The first date to rely on is now the one after the
later of the two (`NextDate`). For the third theorem, every prompt on its way is a
participant's or of someone who left under it.

*Deck* (in `LearningProofs`): `TypeCorrect`, `WordHasOneCard` (`[]OneCardPerWord`) and
`CapHolds` (`CapKept`). A batch is a recursive function, which the provers know as the
`CHOOSE` of a solution; what is true along it is an induction, stated without an operator
parameter, as the set of those lengths for which it holds (`UpTo`). `StoredRuns` and
`CorrectedRuns` show that there is such a function, hence what each row adds to the one
before; `StoredFits` and `CorrectedFits` carry the invariant (`DeckOK`) through the batch
and show that the cap left and the error cards made add up. `OneCardPerWord` needs the keys
in lowered form, and an assumption on the constants that the code's `str.lower` has:
lowering a lowered word changes nothing. `SqlLower`, which leaves letters beyond ASCII
alone, need not agree with `Lower`, since every key it is applied to is lowered already.
The half about texts (`SentTwice`) needs that a text is looked up as a lemma when it comes
again, which is all that the code looks up.

*Course* (in `LearningProofs`): `CourseTypeCorrect` (`[]CourseTypeOK`), for which the
lists that the rotation orders must hold topics only and never be empty (`KeptRuns` and
`KeptIs`, again along the length of a list), and `AnnouncedTopicHolds` (`[]AnnouncedIsDrilled`):
every lesson told or drilled is the topic of its track in the calendar week of its date;
two dates of a week have the same calendar week.

*Speech*: `TypeCorrect`, `PaidIsSynthesized` (`[]PaidForSynthesis`) and `HeardIsWhole`
(`[]ReadsAreSound`). Payments and calls to the model are counts; the invariant ties their
difference to the presses that have paid and not yet called, to those that found the
phrase stored in between, and to those that Telegram ended there. For the recordings it says of every phrase that two presses
never wrote at once that the file under its final name is whole, that its temporary file
belongs to one writer at most, and that this file holds exactly what its writer has
written so far, a crash leaving the file to the next writer, who empties it.

*Outage*: `TypeCorrect`; `AlertsKeepApart` (`OneAlertPerWindow`), since a kind is marked
in the step that hands its message over; `BulkFailuresHeard` (`[]BulkFailuresReported`);
`DeckToldAsStored` (`[]ToldAsStored`), since a starter deck is built only for an empty
one, `created` is empty until the commit, and the first call is under way only while its
handler waits for it. `BulkFailuresReported` speaks of a history that the deque does not
keep, for it is cut at its length and cleared by every alert. The invariant (`BulkInv`)
says that failures come in the order of time (`Rising`), that the deque ends like the
record of all of them (`InStep`), that of what is no longer in the deque the owner heard
less than a cool-down before (`Heard`), and that the last `Threshold` entries of the
deque are not within the window, for then they would have alerted and been cleared
(`Sparse`). It assumes a cool-down of more than nothing. What became of the latest message
is in `told` and `lost`, and until one of them is true a sender is in its await
(`Underway`): no coroutine forgets a message without an answer, a refusal or a
cancellation.

*Storage*: `TypeCorrect`, `VersionIsHonest`, `UpgradesReachSchema`, `NewestCopySurvives`,
`CopiesAreBounded`. The schema's invariant: the statements a revision has run are in the
file (`Midway`); a file that nothing cut or patched holds the columns of its version and
of those statements and no others (`Uncut`), so that none of the four revisions' statements
clashes (`NeverClashes`). What they bring is then compared with what the models name, two
texts written down from two places of the code, column by column and index by index. The copies' invariant: files carry past dates and the copy under
way the latest (`FilesDated`), so the copy just completed is never among those pruned;
that pruning leaves `Keep` files (`KeptFew`) rests on finite sets of dates having a least
element.

Only model-checked: what needs fairness (`UpdatesFinish`, `PressEnds`, `RequestsEnd`,
`SummaryReachesAll`), which the prover does not reach. Every invariant and
every action property that a passing run checks, and the refinement of `Schedule`, is a
theorem. What the recursive functions compute is proved only as far as the invariants
need it: that an ordered list of topics holds every topic once, for example, is not.

## 5. Known divergences

Places where the code does something else than its documents or a reader expects, met
while modelling. The three with a ✗ run are findings in `PROJECT.json`; the others are
excepted by name in the property that would forbid them, or outside the models.

- *A lock pruned under a new member* (`jobs/reminders.py:289`): the cleanup reads the
  participants, and removes the lock of somebody who registers meanwhile; their next
  update may run beside the one that holds the old lock. `UpdatesFinish` shows that nobody
  blocks; serial handlers elsewhere assume that it did not happen.
- *`MAX_USERS`* (`bot/handlers/system.py:116`): "hard cap on registrations"
  (`src/README.md:135`), but the count and the join are in two transactions, and joiners who
  are past the check at once all get in. `RosterBounded` excepts exactly those.
- *Feedback "no matter which session is running"* (`__main__.py:59-60`; `system.py:311-312`
  "whatever else is running"): the filter of the feedback router returns False whenever a
  state is set, so a flow that was started after `/feedback` gets the text first. `TextGoesToAsker` states what the code does, and what
  the comment inside the filter says: no other flow's text is taken.
- *`/stop` and feedback* (`bot/handlers/talk.py:91`): "the state must never stay armed",
  but the feedback flag is not a state. `TextGoesToAsker` excepts it.
- *Pausing* (`db/repo.py:257-258` "takes it out of reviews", `bot/handlers/deck.py:3-5`
  "should leave the review queue"): a session that runs keeps its queue, asks the paused
  card and grades it; only later sessions leave it out. `Answer` in `Schedule` allows it.
- *Messages the bot cannot reach any more* (`InaccessibleMessage`): a drill's index moves
  and nothing is asked (`bot/handlers/drill.py:168-174`); the placement test notes the
  answer, asks nothing, and notes it again at the next press
  (`bot/handlers/placement.py:222-232`); an inaccessible message of a superseded pack passes
  `topic._is_stale_pack` and drives the new pack (`topic.py:171-175`). `NoDeadFlow` and
  `AnswersCounted` except these by `hiccup` and `failed`, and `OldPacksInert` speaks of
  messages the bot can reach.
- *A date without a message* (`jobs/reminders.py:205-207`, "Treat every minute the clock
  jumped over as also due now"): where a clock jumps over midnight (America/Scoresbysund,
  America/Nuuk), or the last minutes before midnight are missed, they are made up for after
  midnight under the next date; `_sent_today` then holds that date's message, and when the
  time comes that day nothing is sent. One of the two dates has no message.
  `EveryDayServed` excepts it by `cut`.
- *"Sending the same word twice never creates two cards"* (`src/README.md:56-57`): the text
  is looked up as a lemma only, so a text that the model gives a lemma other than itself,
  and another one the second time, gets two cards. `OneCardPerWord` excepts texts whose first
  card has a lemma that is not the text.
- *Regeneration of another card* (`bot/handlers/capture.py:204-208`): a preview left in the
  chat names an id; SQLite gives the last id again after a deletion, and nothing checks the
  kind, so the key of a mistake's card may be overwritten with a word. `OneCardPerWord`
  leaves out mistakes so overwritten (`redone`).
- *"Only a real synthesis costs anything"* (`bot/pronounce.py:78`): after the count,
  `safe_answer` lets every error but `TelegramBadRequest` through; the press is over, paid
  and without a synthesis. `PaidForSynthesis` excepts it (`unanswered`), as it does a phrase
  that another participant's press stored between the two looks (`spared`).
- *Alerts that are given up* (`src/README.md:89-92`; `bot/alerts.py:55-56` "an alert that
  cannot be delivered is worse than no alerting at all, because it is silent"): when both
  forms of a message are refused, or the timeout of a starter deck cancels it, nobody is told
  and the kind stays muted for the cool-down. `BulkFailuresReported` excepts it (`lost`).
- *A prompt for an erased account* (`bot/handlers/write.py:145`, `db/repo.py:106`): a
  prompt on its way writes a row after `/delete_me`. `ErasedUnlessRacing` excepts it.
- *A cut revision* (`__main__.py:147`): SQLite commits each statement, so the next start
  finds a column there, raises, and falls back on `create_all`, which adds tables but no
  column; "schema ensured" is then not so, for good. `UpgradesWork` excepts such files.
- *A timeout past the commit* (`bot/handlers/placement.py:176`): the newcomer is told that
  the starter deck failed and has one. `ToldAsStored` excepts it.
- *Failures that are not counted*: `topic.on_save` records no failed words; words the
  quota refused count as a failure of the model in the starter deck.
- *"Everyone in the pilot drills the same topic"* (`db/repo.py:533`): everyone of a track.
  The rotation of ten topics also jumps at the end of a year, and `active_week` is
  written but never read.
- *`level_from_answers`* (`placement.py:161`): "Highest band with >= PASS_MARK correct",
  but the search ends at the first band that fails.
- *The level an exam track implies* (`bot/handlers/track.py:64`) can be lowered again by
  `/level` or the placement test while the track stays.

## 6. Not modelled

The heartbeat (one message of counts); statistics, `/users` and paging of `/cards`, which
only read; rendering and escaping, whose failing Telegram calls are steps of the modules
that call them; configuration; scoring of the placement test, a pure function of the
answers tested directly; prompts and JSON schemas, what an answer may contain being the
environment's choice; the contents of FSRS, a library; the texts of exam tasks and the
level an exam track implies; `downgrade()`, which nothing calls. `Storage` assumes that
`ADMIN_USER_ID` (or the older `ALLOWED_USER_ID`) is set when revision 0002 runs: without
either, that revision leaves the rows of the single-user time with no owner. Only the
last `db/models.py` is in the repository: which of its columns an earlier release named is
read from the titles of the revisions (`Since`).

Three approximations are worth knowing: a handler of one participant is one step outside
`Registration`, `Speech` and `Outage` (sound while its lock is not pruned); Telegram calls
fail only where the code has a state write on either side; and `MinuteTick` reads the
participants and dispatches in one step, since what commits between the two touches only
the database and the dispatch only the process.

## 7. Plan

Done: registration, review, conversation, deck, reminders, speech; alerts with the retry
ladder; course; storage; the schedule and its refinement; the proofs above. Left:

1. A composition of `Deck` with two handlers of one participant after a pruned lock.
2. `Scoring`: `level_from_answers`, `score_by_band`, `weakest_skills`, `parse_topic_args`,
   each against a reference definition.
3. A theorem that the rotation of a track goes through every topic once; a lemma library
   for induction along a list, which `Deck` and `Course` now share in one module.
