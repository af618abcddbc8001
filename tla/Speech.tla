------------------------------- MODULE Speech -------------------------------
(***************************************************************************)
(* The pronunciation button: bot/pronounce.py looks a phrase up in the     *)
(* disk cache of bot/audio.py, counts the participant's daily quota        *)
(* (usage.py), has the model speak (llm/client.py) and stores the result.  *)
(* Presses of different participants run at the same time, the file        *)
(* operations in threads; the nightly job prunes; the process restarts.    *)
(*                                                                         *)
(* A file is an inode that paths and open handles refer to.  Its content   *)
(* says which press wrote each chunk: two recordings of a phrase differ,   *)
(* in length as well.                                                      *)
(***************************************************************************)
EXTENDS Naturals, FiniteSets

CONSTANTS MaxPress,     \* presses are numbered 1..MaxPress
          Users, Phrases,
          Chunks,       \* chunks of the recording each press gets
          Attempts,     \* calls of the retry ladder, len(DEFAULT_BACKOFF) + 1
          DailyLimit,   \* settings.daily_llm_actions
          MaxRestarts   \* bound on restarts

ASSUME SpeechAssumption ==
    /\ MaxPress \in Nat /\ Attempts \in Nat \ {0}
    /\ Chunks \in [1 .. MaxPress -> Nat \ {0}]
    /\ DailyLimit \in Nat /\ MaxRestarts \in Nat

VARIABLES pc, user, phrase,   \* of every press
          attempt,            \* calls of the ladder it has made
          inode, offset,      \* its open handle
          heard,              \* the recording it has to answer with, if any
          \* the directory
          path, part,         \* the .ogg and .part of a phrase: inodes, 0 for none
          content,            \* chunks of an inode, each with the press that wrote it
          counts,             \* UsageLimiter._counts
          restarts,
          \* history
          paid,               \* counted for a participant, ever
          calls,              \* syntheses begun for a participant
          spared,             \* presses that paid and then found the phrase stored
          unanswered,         \* presses that paid and could not reach Telegram then
          torn                \* phrases of which two recordings were written at once

press   == <<pc, user, phrase>>
handle  == <<inode, offset>>
disk    == <<path, part, content>>
history == <<paid, calls, spared, unanswered, torn>>
vars    == <<pc, user, phrase, attempt, inode, offset, heard, path, part, content,
             counts, restarts, paid, calls, spared, unanswered, torn>>

Presses == 1 .. MaxPress
Inodes  == 1 .. MaxPress
Steps   == {"new", "look", "pay", "again", "speak", "open", "write", "replace", "done"}
Running == Steps \ {"new", "done"}

\* A recording is sound when it is one press's, from its first chunk to its last.
Sound(c) == \E q \in Presses : DOMAIN c = 1 .. Chunks[q] /\ \A i \in DOMAIN c : c[i] = q

Init ==
    /\ pc = [p \in Presses |-> "new"]
    /\ user \in [Presses -> Users] /\ phrase \in [Presses -> Phrases]
    /\ attempt = [p \in Presses |-> 0]
    /\ inode = [p \in Presses |-> 0] /\ offset = [p \in Presses |-> 0]
    /\ heard = [p \in Presses |-> {}]
    /\ path = [f \in Phrases |-> 0] /\ part = [f \in Phrases |-> 0]
    /\ content = [i \in Inodes |-> << >>]
    /\ counts = [u \in Users |-> 0] /\ restarts = 0
    /\ paid = [u \in Users |-> 0] /\ calls = [u \in Users |-> 0]
    /\ spared = {} /\ unanswered = {} /\ torn = {}

Go(p, step) == pc' = [pc EXCEPT ![p] = step] /\ UNCHANGED <<user, phrase>>

\* What is in the cache under p's phrase, read into p's answer.
Cached(p) == path[phrase[p]] # 0
Hear(p)   == heard' = [heard EXCEPT ![p] = {content[path[phrase[p]]]}]

-----------------------------------------------------------------------------
\* on_speak starts; the presses of one participant run one after another.
Press(p) ==
    /\ pc[p] = "new"
    /\ \A q \in Presses : user[q] = user[p] => pc[q] \notin Running
    /\ Go(p, "look")
    /\ UNCHANGED <<attempt, handle, heard, disk, counts, restarts, history>>

\* Variant of Look: the quota is counted for a replay as well.
LookAndPay(p) ==
    /\ pc[p] = "look"
    /\ Go(p, IF Cached(p) THEN "done" ELSE "pay")
    /\ IF Cached(p) THEN Hear(p) ELSE UNCHANGED heard
    /\ paid' = [paid EXCEPT ![user[p]] = IF Cached(p) THEN @ + 1 ELSE @]
    /\ UNCHANGED <<attempt, handle, disk, counts, restarts, calls, spared, unanswered, torn>>

\* the first voice_cache.get: a phrase that is stored costs nothing
Look(p) ==
    /\ pc[p] = "look"
    /\ IF Cached(p) THEN Hear(p) /\ Go(p, "done")
                    ELSE Go(p, "pay") /\ UNCHANGED heard
    /\ UNCHANGED <<attempt, handle, disk, counts, restarts, history>>

\* Variant of CheckAndCount: > for >=.
CheckAndCountOneMore(p) ==
    /\ pc[p] = "pay"
    /\ IF counts[user[p]] > DailyLimit
       THEN Go(p, "done") /\ UNCHANGED <<counts, paid>>
       ELSE /\ counts' = [counts EXCEPT ![user[p]] = @ + 1]
            /\ paid' = [paid EXCEPT ![user[p]] = @ + 1]
            /\ Go(p, "again")
    /\ UNCHANGED <<attempt, handle, heard, disk, restarts, calls, spared, unanswered, torn>>

\* UsageLimiter.check_and_count
CheckAndCount(p) ==
    /\ pc[p] = "pay"
    /\ IF counts[user[p]] >= DailyLimit
       THEN Go(p, "done") /\ UNCHANGED <<counts, paid>>
       ELSE /\ counts' = [counts EXCEPT ![user[p]] = @ + 1]
            /\ paid' = [paid EXCEPT ![user[p]] = @ + 1]
            /\ Go(p, "again")
    /\ UNCHANGED <<attempt, handle, heard, disk, restarts, calls, spared, unanswered, torn>>

\* query.answer between the payment and the second look: safe_answer lets everything but
\* TelegramBadRequest through, and the press is over.
AnswerFails(p) ==
    /\ pc[p] = "again" /\ Go(p, "done")
    /\ unanswered' = unanswered \cup {p}
    /\ UNCHANGED <<attempt, handle, heard, disk, counts, restarts, paid, calls, spared, torn>>

\* speak looks again
LookAgain(p) ==
    /\ pc[p] = "again"
    /\ IF Cached(p)
       THEN /\ Hear(p) /\ Go(p, "done") /\ spared' = spared \cup {p}
            /\ UNCHANGED <<attempt, calls>>
       ELSE /\ Go(p, "speak") /\ attempt' = [attempt EXCEPT ![p] = 1]
            /\ calls' = [calls EXCEPT ![user[p]] = @ + 1]
            /\ UNCHANGED <<heard, spared>>
    /\ UNCHANGED <<handle, disk, counts, restarts, paid, unanswered, torn>>

\* Variant of Synthesize: the ladder begins anew instead of ending.
SynthesizeForever(p) ==
    /\ pc[p] = "speak"
    /\ \/ Go(p, "open") /\ UNCHANGED attempt
       \/ attempt' = [attempt EXCEPT ![p] = (@ % Attempts) + 1] /\ UNCHANGED press
    /\ UNCHANGED <<handle, heard, disk, counts, restarts, history>>

\* synthesize and to_voice_ogg: 429, 5xx and connection errors climb the ladder;
\* anything else, or ffmpeg, ends it
Synthesize(p) ==
    /\ pc[p] = "speak"
    /\ \/ Go(p, "open") /\ attempt' = [attempt EXCEPT ![p] = 0]
       \/ Go(p, "done") /\ attempt' = [attempt EXCEPT ![p] = 0]
       \/ /\ attempt[p] < Attempts
          /\ attempt' = [attempt EXCEPT ![p] = @ + 1] /\ UNCHANGED press
    /\ UNCHANGED <<handle, heard, disk, counts, restarts, history>>

-----------------------------------------------------------------------------
(* audio._write, in a thread: open the .part for writing, which empties it, *)
(* write, and rename it over the .ogg.                                      *)

Writing(f) == {q \in Presses : phrase[q] = f /\ pc[q] \in {"write", "replace"}}

\* Variant of Open: a .part left by an earlier attempt is gone on with.
OpenAppend(p) ==
    /\ pc[p] = "open" /\ Go(p, "write")
    /\ LET f == phrase[p]
           i == IF part[f] = 0 THEN p ELSE part[f]
       IN  /\ part' = [part EXCEPT ![f] = i]
           /\ inode' = [inode EXCEPT ![p] = i]
           /\ offset' = [offset EXCEPT ![p] = Cardinality(DOMAIN content[i])]
           /\ torn' = IF Writing(f) = {} THEN torn ELSE torn \cup {f}
    /\ UNCHANGED <<attempt, heard, path, content, counts, restarts, paid, calls, spared,
                   unanswered>>

Open(p) ==
    /\ pc[p] = "open" /\ Go(p, "write")
    /\ LET f == phrase[p]
           i == IF part[f] = 0 THEN p ELSE part[f]
       IN  /\ part' = [part EXCEPT ![f] = i]
           /\ inode' = [inode EXCEPT ![p] = i]
           /\ content' = [content EXCEPT ![i] = << >>]
           /\ torn' = IF Writing(f) = {} THEN torn ELSE torn \cup {f}
    /\ offset' = [offset EXCEPT ![p] = 0]
    /\ UNCHANGED <<attempt, heard, path, counts, restarts, paid, calls, spared,
                   unanswered>>

\* one more chunk at p's own offset
Write(p) ==
    /\ pc[p] = "write"
    /\ LET i == inode[p]
           n == offset[p] + 1
       IN  /\ content' = [content EXCEPT ![i] =
                              [k \in DOMAIN @ \cup 1 .. n |->
                                  IF k = n THEN p ELSE IF k \in DOMAIN @ THEN @[k] ELSE 0]]
           /\ offset' = [offset EXCEPT ![p] = n]
           /\ Go(p, IF n < Chunks[p] THEN "write" ELSE "replace")
    /\ UNCHANGED <<attempt, inode, heard, path, part, counts, restarts, history>>

\* rename; when another press has renamed the .part away it raises, and nobody catches it
Replace(p) ==
    /\ pc[p] = "replace" /\ Go(p, "done")
    /\ LET f == phrase[p]
       IN  IF part[f] = 0
           THEN UNCHANGED <<path, part, heard>>
           ELSE /\ path' = [path EXCEPT ![f] = part[f]]
                /\ part' = [part EXCEPT ![f] = 0]
                /\ heard' = [heard EXCEPT ![p] = {[k \in 1 .. Chunks[p] |-> p]}]
    /\ inode' = [inode EXCEPT ![p] = 0] /\ offset' = [offset EXCEPT ![p] = 0]
    /\ UNCHANGED <<attempt, content, counts, restarts, history>>

-----------------------------------------------------------------------------
\* VoiceCache.prune, at night
Prune(f) ==
    /\ path[f] # 0
    /\ path' = [path EXCEPT ![f] = 0]
    /\ UNCHANGED <<press, attempt, handle, heard, part, content, counts, restarts, history>>

\* UsageLimiter._roll: a new day begins for everybody.
Roll ==
    /\ counts' = [u \in Users |-> 0]
    /\ UNCHANGED <<press, attempt, handle, heard, disk, restarts, history>>

\* The process dies and comes back: presses and counts are gone, files stay as they are.
Restart ==
    /\ restarts < MaxRestarts /\ restarts' = restarts + 1
    /\ pc' = [p \in Presses |-> IF pc[p] = "new" THEN "new" ELSE "done"]
    /\ attempt' = [p \in Presses |-> 0]
    /\ inode' = [p \in Presses |-> 0] /\ offset' = [p \in Presses |-> 0]
    /\ counts' = [u \in Users |-> 0]
    /\ UNCHANGED <<user, phrase, heard, disk, history>>

Step(p) ==
    \/ Look(p) \/ CheckAndCount(p) \/ AnswerFails(p) \/ LookAgain(p) \/ Synthesize(p)
    \/ Open(p) \/ Write(p) \/ Replace(p)

Next ==
    \/ \E p \in Presses : Press(p) \/ Step(p)
    \/ \E f \in Phrases : Prune(f)
    \/ Roll \/ Restart

\* The event loop and its threads carry on with what was begun: every call to the model
\* has a timeout, as does ffmpeg.
Spec == Init /\ [][Next]_vars /\ \A p \in Presses : WF_vars(Step(p))

-----------------------------------------------------------------------------
TypeOK ==
    /\ pc \in [Presses -> Steps]
    /\ user \in [Presses -> Users] /\ phrase \in [Presses -> Phrases]
    /\ attempt \in [Presses -> 0 .. Attempts]
    /\ inode \in [Presses -> {0} \cup Inodes] /\ offset \in [Presses -> Nat]
    /\ path \in [Phrases -> {0} \cup Inodes] /\ part \in [Phrases -> {0} \cup Inodes]
    /\ counts \in [Users -> 0 .. DailyLimit] /\ restarts \in Nat
    /\ paid \in [Users -> Nat] /\ calls \in [Users -> Nat]
    /\ spared \subseteq Presses /\ unanswered \subseteq Presses /\ torn \subseteq Phrases

\* audio._write: "a reader never sees a half-written file" -- nor one put together from
\* two recordings.  It holds of every phrase that was written by one press at a time,
\* whatever restarts left behind.
ReadsAreSound == \A p \in Presses : \A c \in heard[p] : Sound(c) \/ phrase[p] \in torn

\* The same without the exception.
NoHalfRead == \A p \in Presses : \A c \in heard[p] : Sound(c)

Of(u, S) == Cardinality({p \in S : user[p] = u})

\* Presses that paid and never called the model.
Unspoken == spared \cup unanswered

\* on_speak: "only a real synthesis costs anything; a replay must never burn the quota":
\* no synthesis is free, and whoever pays gets one, unless another participant's press
\* stored the phrase between the two looks, Telegram could not be reached for the answer
\* in between (which the comment does not foresee), or the process was restarted there.
PaidForSynthesis ==
    \A u \in Users :
        /\ calls[u] <= paid[u]
        /\ paid[u] <= calls[u] + Of(u, Unspoken) + Of(u, {p \in Presses : pc[p] = "again"}) + restarts

\* Every press comes to an end, however often the model fails.
PressEnds == \A p \in Presses : pc[p] = "look" ~> pc[p] = "done"

=============================================================================
