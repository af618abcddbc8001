------------------------------- MODULE Outage -------------------------------
(***************************************************************************)
(* What people and the owner hear when the model, the database or Telegram *)
(* fail: requests climb the ladder of Llm under their person's lock, their *)
(* failures are recorded with Alerts, and the handler goes on only when    *)
(* the alert was delivered or given up.  The starter deck of a newcomer    *)
(* runs under a timeout that may strike at every await.                    *)
(***************************************************************************)
EXTENDS Alerts

CONSTANTS People,       \* one request of each at a time: the per-user lock
          Newcomers,    \* those without a card at the start
          Words,        \* words of a pack or starter deck, numbered
          Concurrency,  \* ENRICH_CONCURRENCY
          Attempts,     \* len(backoff) + 1
          MaxRequests   \* bound on requests

ASSUME OutageAssumption ==
    /\ People \subseteq Senders /\ Newcomers \subseteq People
    /\ "starter-db" \in Kinds /\ "handler" \in Kinds
    /\ Attempts \in Nat \ {0} /\ Concurrency \in Nat \ {0} /\ MaxRequests \in Nat
    /\ Words \subseteq Nat \ {0} /\ IsFiniteSet(Words)

VARIABLES call,     \* Llm's variable, by person and part of the request
          job,      \* the handler that holds the person's lock
          step,     \* where it stands
          made,     \* build_starter_deck's `created`: the handler has cards to show
          deck,     \* the person has cards of a starter deck or pack
          requests, \* counts towards MaxRequests
          \* history
          late      \* in this request the timeout struck after the deck was committed

Calls == People \X ({0} \cup Words)   \* 0: the first call of a request
LLM   == INSTANCE Llm

handlers == <<call, job, step, made, deck, requests, late>>
vars     == <<now, lastSent, failures, sending, begun, told, lost, recorded,
              call, job, step, made, deck, requests, late>>

\* "text": a capture, a correction, a turn of a dialogue, a drill or a list of words;
\* "voice": a voice message, transcribed first; "spoken": a word of one, with another to
\* come; "pack": on_save; "starter": a newcomer
Jobs  == {"none", "text", "voice", "spoken", "pack", "starter"}
Arrivals == Jobs \ {"none", "spoken"}
Steps == {"idle", "first", "words", "report", "answer"}

Init ==
    /\ AlertsInit /\ LLM!LlmInit
    /\ job = [p \in People |-> "none"] /\ step = [p \in People |-> "idle"]
    /\ made = [p \in People |-> FALSE] /\ late = [p \in People |-> FALSE]
    /\ deck = [p \in People |-> p \notin Newcomers]
    /\ requests = 0

Goto(p, s) == step' = [step EXCEPT ![p] = s]
Created(p, b) == made' = [made EXCEPT ![p] = b]
NoCalls(p)   == call' = [c \in Calls |-> IF c[1] = p THEN LLM!Off ELSE call[c]]
OpenFirst(p) == call' = [call EXCEPT ![<<p, 0>>] = LLM!Asking(1, FALSE)]
AlertsQuiet  == UNCHANGED <<lastSent, failures, sending, fate, recorded>>

\* The handler waits for a message to the owner, if there is one.
GoOn(p) == Goto(p, IF sending'[p] = Idle THEN "answer" ELSE "report")

\* An update arrives and its handler passes the quota.  A starter deck is built only
\* for an empty deck.
Request(p) ==
    /\ job[p] = "none" /\ requests < MaxRequests
    /\ \E j \in Arrivals :
          /\ j = "starter" => ~deck[p]
          /\ job' = [job EXCEPT ![p] = j]
          /\ IF j = "pack" THEN Goto(p, "words") /\ UNCHANGED call
                           ELSE Goto(p, "first") /\ OpenFirst(p)
    /\ requests' = requests + 1
    /\ UNCHANGED <<alerts, made, deck, late>>

\* A call goes on, or the enrichment of a word ends.
Model(p) ==
    /\ \E c \in Calls : /\ c[1] = p /\ LLM!LlmStep(c)
                        /\ c[2] = 0 => call'[c].at = "asking"
    /\ UNCHANGED <<alerts, job, step, made, deck, requests, late>>

\* The transcript of a spoken answer goes straight to process_answer; the words heard in
\* another voice message are captured one after another -- unless there are none, or the
\* quota refuses the first.
Transcribed(p) ==
    /\ job[p] = "voice"
    /\ \/ /\ LLM!InFlight(<<p, 0>>)
          /\ \E j \in {"text", "spoken"} : job' = [job EXCEPT ![p] = j]
          /\ OpenFirst(p) /\ UNCHANGED step
       \/ LLM!Answered(<<p, 0>>) /\ Goto(p, "answer") /\ UNCHANGED job
    /\ UNCHANGED <<alerts, made, deck, requests, late>>

\* handle_voice_capture goes on to the next word, which has a ladder of its own.
NextWord(p) ==
    /\ job[p] = "spoken" /\ LLM!InFlight(<<p, 0>>)
    /\ job' = [job EXCEPT ![p] = "text"]
    /\ OpenFirst(p)
    /\ UNCHANGED <<alerts, step, made, deck, requests, late>>

\* The first call succeeds: on to the reply, or to the words of the deck.  A further word
\* may be one the quota refuses.
FirstDone(p) ==
    /\ job[p] # "voice" /\ LLM!Answered(<<p, 0>>)
    /\ Goto(p, IF job[p] = "starter" THEN "words" ELSE "answer")
    /\ UNCHANGED <<alerts, job, made, deck, requests, late>>

\* except LLMError: record_llm_failure
FirstFailed(p) ==
    /\ LLM!LlmStep(<<p, 0>>) /\ call'[<<p, 0>>] = LLM!Failed
    /\ RecordLlmFailure(p)
    /\ GoOn(p)
    /\ UNCHANGED <<now, job, made, deck, requests, late>>

\* enrich_one behind its semaphore, which lets the words in by turns: the quota
\* refuses, or the model is asked
EnrichOne(p, w) ==
    /\ step[p] = "words" /\ call[<<p, w>>] = LLM!Off
    /\ \A v \in Words : v < w => call[<<p, v>>] # LLM!Off
    /\ Cardinality({v \in Words : LLM!InFlight(<<p, v>>)}) < Concurrency
    /\ \/ call' = [call EXCEPT ![<<p, w>>] = LLM!Failed]
       \/ call' = [call EXCEPT ![<<p, w>>] = LLM!Asking(1, FALSE)]
    /\ UNCHANGED <<alerts, job, step, made, deck, requests, late>>

\* asyncio.gather has returned: the words go into one transaction
Storing(p) == step[p] = "words" /\ \A w \in Words : LLM!Ended(<<p, w>>)
Usable(p)  == \E w \in Words : call[<<p, w>>] = LLM!Done
Missing(p) == \E w \in Words : call[<<p, w>>] = LLM!Failed

\* The commit; build_starter_deck records failed words as one failure, on_save does not.
Stored(p) ==
    /\ Storing(p)
    /\ deck' = [deck EXCEPT ![p] = @ \/ Usable(p)]
    /\ Created(p, Usable(p))
    /\ NoCalls(p)
    /\ IF job[p] = "starter" /\ Missing(p) THEN RecordLlmFailure(p) ELSE AlertsQuiet
    /\ GoOn(p)
    /\ UNCHANGED <<now, job, requests, late>>

\* Variant of StoreFails: the list collected before the failure is returned.
StoreFailsReturning(p) ==
    /\ Storing(p) /\ job[p] = "starter"
    /\ Send(p, "starter-db")
    /\ Created(p, Usable(p))
    /\ NoCalls(p)
    /\ GoOn(p)
    /\ UNCHANGED <<now, failures, recorded, job, deck, requests, late>>

\* storing the starter deck raises
StoreFails(p) ==
    /\ Storing(p) /\ job[p] = "starter"
    /\ Send(p, "starter-db")
    /\ NoCalls(p)
    /\ GoOn(p)
    /\ UNCHANGED <<now, failures, recorded, job, made, deck, requests, late>>

\* STARTER_DECK_TIMEOUT: whatever build_starter_deck awaits is cancelled, a message to
\* the owner and a commit that may be done already included.
Timeout(p) ==
    /\ job[p] = "starter" /\ step[p] \in {"first", "words", "report"}
    /\ GiveUp(p)
    /\ NoCalls(p)
    /\ Created(p, FALSE)
    /\ \/ UNCHANGED deck
       \/ Storing(p) /\ deck' = [deck EXCEPT ![p] = @ \/ Usable(p)]
    /\ late' = [late EXCEPT ![p] = deck'[p]]
    /\ Goto(p, "answer")
    /\ UNCHANGED <<now, lastSent, failures, recorded, job, requests>>

Release(p) ==
    /\ job' = [job EXCEPT ![p] = "none"] /\ Goto(p, "idle")
    /\ Created(p, FALSE) /\ late' = [late EXCEPT ![p] = FALSE]
    /\ NoCalls(p)

\* What the handler is about to say last; a newcomer hears that the deck is ready if
\* `made`, else that it failed.
Telling(p) == step[p] \in {"answer", "report"} /\ sending[p] = Idle

Answer(p) == Telling(p) /\ Release(p) /\ UNCHANGED <<alerts, deck, requests>>

\* A handler raises, in a call to Telegram or the database or on an error of the
\* transport that is no LLMError; results still to come are dropped.  The lock is
\* released, and on_unhandled_error alerts outside it.
Unhandled(p, e) ==
    /\ Telling(p) \/ (job[p] # "starter" /\ step[p] \in {"first", "words"})
    /\ sending[e] = Idle
    /\ Send(e, "handler")
    /\ Release(p)
    /\ UNCHANGED <<now, failures, recorded, deck, requests>>

\* The same elsewhere: a call for somebody else fails.
OthersFail(e) ==
    /\ sending[e] = Idle
    /\ RecordLlmFailure(e)
    /\ UNCHANGED <<now, handlers>>

Sending(s) == (SendPlain(s) \/ SendAccepted(s) \/ SendRefused(s)) /\ UNCHANGED handlers

Tick == AlertsTick /\ UNCHANGED handlers

\* What the process does for p without waiting for anything but time limits.
Work(p) ==
    \/ Model(p) \/ Transcribed(p) \/ NextWord(p) \/ FirstDone(p) \/ FirstFailed(p)
    \/ \E w \in Words : EnrichOne(p, w)
    \/ Stored(p) \/ StoreFails(p) \/ Answer(p)
    \/ Sending(p)

Next ==
    \/ Tick
    \/ \E p \in People : \/ Request(p) \/ Work(p) \/ Timeout(p)
                         \/ \E e \in Senders \ People : Unhandled(p, e)
    \/ \E e \in Senders \ People : OthersFail(e) \/ Sending(e)

Spec == Init /\ [][Next]_vars /\ WF_vars(\E p \in People : Work(p))

-----------------------------------------------------------------------------
TypeOK ==
    /\ AlertsTypeOK /\ LLM!LlmTypeOK
    /\ job \in [People -> Jobs] /\ step \in [People -> Steps]
    /\ made \in [People -> BOOLEAN] /\ deck \in [People -> BOOLEAN]
    /\ late \in [People -> BOOLEAN] /\ requests \in Nat

\* A newcomer who is told that the deck is ready has one, and one who is told that it
\* failed has none -- unless the timeout struck in or after the commit, while the
\* failed words were being reported to the owner.
ToldAsStored ==
    \A p \in People :
        job[p] = "starter" /\ Telling(p) =>
            IF made[p] THEN deck[p] ELSE ~deck[p] \/ late[p]

\* No failure of the model, the database or Telegram keeps a person's lock for ever.
RequestsEnd == \A p \in People : job[p] # "none" ~> job[p] = "none"
=============================================================================
