---------------------------- MODULE OutageProofs ----------------------------
(***************************************************************************)
(* Theorems about Outage for any number of people, senders, kinds, words,  *)
(* attempts, and any cool-down, window and threshold.                      *)
(***************************************************************************)
EXTENDS Outage, SequenceTheorems, FiniteSetTheorems, TLAPS

-----------------------------------------------------------------------------
(* The starter deck.                                                        *)

DeckTypes ==
    /\ DOMAIN call = Calls
    /\ job \in [People -> Jobs] /\ step \in [People -> Steps]
    /\ made \in [People -> BOOLEAN] /\ deck \in [People -> BOOLEAN]
    /\ late \in [People -> BOOLEAN]

\* A starter deck is built for an empty deck, and `created` is empty until then; the
\* first call is under way only while its handler waits for it.
Settled(p) ==
    /\ job[p] = "none" => step[p] = "idle"
    /\ LLM!InFlight(<<p, 0>>) => step[p] = "first"
    /\ step[p] \in {"idle", "first", "words"} => made[p] = FALSE
    /\ job[p] = "starter" /\ step[p] \in {"first", "words"} => deck[p] = FALSE
    /\ job[p] = "starter" /\ step[p] \in {"report", "answer"} =>
          \/ made[p] = TRUE /\ deck[p] = TRUE
          \/ made[p] = FALSE /\ deck[p] = FALSE
          \/ made[p] = FALSE /\ late[p] = TRUE

DeckInv == DeckTypes /\ \A p \in People : Settled(p)

\* The step concerns nobody but p.
OthersKeep(p) ==
    \A q \in People \ {p} :
        /\ job'[q] = job[q] /\ step'[q] = step[q] /\ made'[q] = made[q]
        /\ deck'[q] = deck[q] /\ late'[q] = late[q]
        /\ call'[<<q, 0>>] = call[<<q, 0>>]

LEMMA OneSettles ==
    ASSUME DeckInv, DeckTypes', NEW p \in People, OthersKeep(p), Settled(p)'
    PROVE  DeckInv'
  <1>1. ASSUME NEW q \in People, q # p PROVE Settled(q)'
    BY <1>1 DEF OthersKeep, DeckInv, Settled, LLM!InFlight
  <1> QED BY <1>1 DEF DeckInv

\* What the operators on call do.
LEMMA CallSteps ==
    ASSUME DOMAIN call = Calls, NEW p \in People
    PROVE  /\ <<p, 0>> \in Calls
           /\ \A q \in People \ {p} : <<q, 0>> \in Calls
           /\ NoCalls(p) => /\ DOMAIN call' = Calls /\ call'[<<p, 0>>].at = "off"
                            /\ \A q \in People \ {p} : call'[<<q, 0>>] = call[<<q, 0>>]
           /\ OpenFirst(p) => /\ DOMAIN call' = Calls
                              /\ \A q \in People \ {p} : call'[<<q, 0>>] = call[<<q, 0>>]
  <1>1. \A q \in People : <<q, 0>> \in Calls /\ <<q, 0>>[1] = q
    BY DEF Calls
  <1>2. ASSUME NoCalls(p)
        PROVE  /\ DOMAIN call' = Calls /\ call'[<<p, 0>>].at = "off"
               /\ \A q \in People \ {p} : call'[<<q, 0>>] = call[<<q, 0>>]
    BY <1>1, <1>2 DEF NoCalls, LLM!Off
  <1>3. ASSUME OpenFirst(p)
        PROVE  /\ DOMAIN call' = Calls
               /\ \A q \in People \ {p} : call'[<<q, 0>>] = call[<<q, 0>>]
    BY <1>1, <1>3 DEF OpenFirst
  <1> QED BY <1>1, <1>2, <1>3

LEMMA LlmStepFrame ==
    ASSUME DOMAIN call = Calls, NEW c \in Calls, LLM!LlmStep(c)
    PROVE  /\ LLM!InFlight(c) /\ DOMAIN call' = Calls
           /\ \A x \in Calls : x # c => call'[x] = call[x]
  <1>1. LLM!InFlight(c)
    BY DEF LLM!LlmStep, LLM!Answered, LLM!Invalid, LLM!Unavailable, LLM!Refused
  <1>2. \E s : call' = [call EXCEPT ![c] = s]
    BY DEF LLM!LlmStep, LLM!Answered, LLM!Invalid, LLM!Unavailable, LLM!Refused,
           LLM!Becomes
  <1> QED BY <1>1, <1>2

LEMMA RequestSettles ==
    ASSUME DeckInv, NEW p \in People, Request(p)
    PROVE  DeckInv'
  <1>1. /\ job[p] = "none" /\ step[p] = "idle" /\ made[p] = FALSE
        /\ ~LLM!InFlight(<<p, 0>>) /\ UNCHANGED <<made, deck, late>>
    BY DEF Request, DeckInv, DeckTypes, Settled
  <1>2. PICK j \in Arrivals :
           /\ j = "starter" => ~deck[p]
           /\ job' = [job EXCEPT ![p] = j]
           /\ IF j = "pack" THEN Goto(p, "words") /\ UNCHANGED call
                            ELSE Goto(p, "first") /\ OpenFirst(p)
    BY DEF Request
  <1>3. PICK s \in {"words", "first"} :
           /\ step' = [step EXCEPT ![p] = s]
           /\ s = "words" => j = "pack" /\ call' = call
           /\ s = "first" => OpenFirst(p)
    BY <1>2 DEF Goto
  <1>4. DOMAIN call' = Calls /\ \A q \in People \ {p} : call'[<<q, 0>>] = call[<<q, 0>>]
    BY <1>3, CallSteps DEF DeckInv, DeckTypes
  <1>5. DeckTypes'
    BY <1>1, <1>2, <1>3, <1>4 DEF DeckInv, DeckTypes, Steps, Arrivals
  <1>6. OthersKeep(p)
    BY <1>1, <1>2, <1>3, <1>4 DEF DeckInv, DeckTypes, OthersKeep, Arrivals
  <1>7. /\ job'[p] = j /\ step'[p] = s /\ made'[p] = FALSE /\ deck'[p] = deck[p]
        /\ deck[p] \in BOOLEAN
    BY <1>1, <1>2, <1>3 DEF DeckInv, DeckTypes
  <1>8. Settled(p)'
    BY <1>1, <1>2, <1>3, <1>7 DEF Settled, LLM!InFlight, Arrivals
  <1> QED BY <1>5, <1>6, <1>8, OneSettles

LEMMA FirstGone ==
    ASSUME DeckInv, NEW p \in People, LLM!LlmStep(<<p, 0>>)
    PROVE  /\ step[p] = "first" /\ made[p] = FALSE /\ DOMAIN call' = Calls
           /\ job[p] = "starter" => deck[p] = FALSE
           /\ \A q \in People \ {p} : call'[<<q, 0>>] = call[<<q, 0>>]
  <1>1. \A q \in People : <<q, 0>> \in Calls
    BY DEF Calls
  <1>2. \A q \in People \ {p} : <<q, 0>> # <<p, 0>>
    OBVIOUS
  <1>3. LLM!InFlight(<<p, 0>>) /\ DOMAIN call' = Calls
    BY <1>1, LlmStepFrame DEF DeckInv, DeckTypes
  <1>4. \A q \in People \ {p} : call'[<<q, 0>>] = call[<<q, 0>>]
    BY <1>1, <1>2, LlmStepFrame DEF DeckInv, DeckTypes
  <1> QED BY <1>3, <1>4 DEF DeckInv, Settled

LEMMA ModelSettles ==
    ASSUME DeckInv, NEW p \in People, Model(p)
    PROVE  DeckInv'
  <1>1. PICK c \in Calls : c[1] = p /\ LLM!LlmStep(c)
    BY DEF Model
  <1>2. UNCHANGED <<job, step, made, deck, late>>
    BY DEF Model
  <1>3. /\ LLM!InFlight(c) /\ DOMAIN call' = Calls
        /\ \A x \in Calls : x # c => call'[x] = call[x]
    BY <1>1, LlmStepFrame DEF DeckInv, DeckTypes
  <1>4. DeckTypes'
    BY <1>2, <1>3 DEF DeckInv, DeckTypes
  <1>5. \A q \in People : <<q, 0>> \in Calls /\ (q # p => <<q, 0>> # c)
    BY <1>1 DEF Calls
  <1>6. OthersKeep(p)
    BY <1>2, <1>3, <1>5 DEF OthersKeep
  <1>7. LLM!InFlight(<<p, 0>>)' => LLM!InFlight(<<p, 0>>)
    BY <1>3, <1>5 DEF LLM!InFlight
  <1>8. Settled(p)'
    BY <1>2, <1>7 DEF DeckInv, Settled
  <1> QED BY <1>4, <1>6, <1>8, OneSettles

\* The next call of the same handler.
LEMMA NextCallSettles ==
    ASSUME DeckInv, NEW p \in People, LLM!InFlight(<<p, 0>>), OpenFirst(p),
           NEW j \in {"text", "spoken"}, job' = [job EXCEPT ![p] = j],
           UNCHANGED <<step, made, deck, late>>
    PROVE  DeckInv'
  <1>1. step[p] = "first" /\ made[p] = FALSE
    BY DEF DeckInv, Settled
  <1>2. DOMAIN call' = Calls /\ \A q \in People \ {p} : call'[<<q, 0>>] = call[<<q, 0>>]
    BY CallSteps DEF DeckInv, DeckTypes
  <1>3. DeckTypes'
    BY <1>2 DEF DeckInv, DeckTypes, Jobs
  <1>4. OthersKeep(p)
    BY <1>2 DEF DeckInv, DeckTypes, OthersKeep
  <1>5. job'[p] = j
    BY DEF DeckInv, DeckTypes
  <1>6. Settled(p)'
    BY <1>1, <1>5 DEF Settled, LLM!InFlight
  <1> QED BY <1>3, <1>4, <1>6, OneSettles

LEMMA FirstAnsweredSettles ==
    ASSUME DeckInv, NEW p \in People, FirstDone(p) \/ Transcribed(p) \/ NextWord(p)
    PROVE  DeckInv'
  <1> SUFFICES ASSUME \/ FirstDone(p)
                      \/ Transcribed(p) /\ LLM!Answered(<<p, 0>>) /\ Goto(p, "answer")
                         /\ UNCHANGED job
               PROVE  DeckInv'
    BY NextCallSettles DEF Transcribed, NextWord
  <1>1. /\ LLM!LlmStep(<<p, 0>>) /\ call' = [call EXCEPT ![<<p, 0>>] = LLM!Done]
        /\ UNCHANGED <<job, made, deck, late>>
    BY DEF FirstDone, Transcribed, LLM!LlmStep, LLM!Answered, LLM!Becomes
  <1>2. PICK s \in {"words", "answer"} :
           /\ step' = [step EXCEPT ![p] = s]
           /\ s = "answer" => job[p] # "starter"
    BY DEF FirstDone, Transcribed, Goto
  <1>3. /\ step[p] = "first" /\ made[p] = FALSE /\ DOMAIN call' = Calls
        /\ job[p] = "starter" => deck[p] = FALSE
        /\ \A q \in People \ {p} : call'[<<q, 0>>] = call[<<q, 0>>]
    BY <1>1, FirstGone
  <1>4. DeckTypes'
    BY <1>1, <1>2, <1>3 DEF DeckInv, DeckTypes, Steps
  <1>5. OthersKeep(p)
    BY <1>1, <1>2, <1>3 DEF DeckInv, DeckTypes, OthersKeep
  <1>6. step'[p] = s /\ call'[<<p, 0>>].at = "done"
    BY <1>1, <1>2, CallSteps DEF DeckInv, DeckTypes, LLM!Done
  <1>7. job[p] # "none"
    BY <1>3 DEF DeckInv, Settled
  <1>8. Settled(p)'
    BY <1>1, <1>2, <1>3, <1>6, <1>7 DEF Settled, LLM!InFlight
  <1> QED BY <1>4, <1>5, <1>8, OneSettles

\* Wherever the handler goes on to, it waits for the owner or answers.
LEMMA GoOnSteps ==
    ASSUME DeckTypes, NEW p \in People, GoOn(p)
    PROVE  /\ step' \in [People -> Steps] /\ step'[p] \in {"answer", "report"}
           /\ \A q \in People \ {p} : step'[q] = step[q]
  BY DEF GoOn, Goto, DeckTypes, Steps

LEMMA FirstFailedSettles ==
    ASSUME DeckInv, NEW p \in People, FirstFailed(p)
    PROVE  DeckInv'
  <1>1. /\ LLM!LlmStep(<<p, 0>>) /\ call'[<<p, 0>>] = LLM!Failed
        /\ UNCHANGED <<job, made, deck, late>> /\ GoOn(p)
    BY DEF FirstFailed
  <1>2. /\ step[p] = "first" /\ made[p] = FALSE /\ DOMAIN call' = Calls
        /\ job[p] = "starter" => deck[p] = FALSE
        /\ \A q \in People \ {p} : call'[<<q, 0>>] = call[<<q, 0>>]
    BY <1>1, FirstGone
  <1>3. /\ step' \in [People -> Steps] /\ step'[p] \in {"answer", "report"}
        /\ \A q \in People \ {p} : step'[q] = step[q]
    BY <1>1, GoOnSteps DEF DeckInv
  <1>4. DeckTypes' /\ OthersKeep(p)
    BY <1>1, <1>2, <1>3 DEF DeckInv, DeckTypes, OthersKeep
  <1>5. job[p] # "none" /\ call'[<<p, 0>>].at = "failed"
    BY <1>1, <1>2 DEF DeckInv, Settled, LLM!Failed
  <1>6. Settled(p)'
    BY <1>1, <1>2, <1>3, <1>5 DEF Settled, LLM!InFlight
  <1> QED BY <1>4, <1>6, OneSettles

LEMMA EnrichOneSettles ==
    ASSUME DeckInv, NEW p \in People, NEW w \in Words, EnrichOne(p, w)
    PROVE  DeckInv'
  <1>1. PICK s : call' = [call EXCEPT ![<<p, w>>] = s]
    BY DEF EnrichOne
  <1>2. UNCHANGED <<job, step, made, deck, late>>
    BY DEF EnrichOne
  <1>3. \A q \in People : <<q, 0>> \in Calls /\ <<q, 0>> # <<p, w>>
    BY OutageAssumption DEF Calls
  <1>4. DOMAIN call' = Calls /\ \A q \in People : call'[<<q, 0>>] = call[<<q, 0>>]
    BY <1>1, <1>3 DEF DeckInv, DeckTypes
  <1>5. DeckTypes' /\ OthersKeep(p)
    BY <1>2, <1>4 DEF DeckInv, DeckTypes, OthersKeep
  <1>6. Settled(p)'
    BY <1>2, <1>4 DEF DeckInv, Settled, LLM!InFlight
  <1> QED BY <1>5, <1>6, OneSettles

LEMMA StoredSettles ==
    ASSUME DeckInv, NEW p \in People, Stored(p)
    PROVE  DeckInv'
  <1>1. /\ step[p] = "words" /\ NoCalls(p) /\ GoOn(p) /\ UNCHANGED <<job, late>>
    BY DEF Stored, Storing
  <1> DEFINE kept == deck[p] \/ Usable(p)
             b == Usable(p)
  <1>2. b \in BOOLEAN /\ kept \in BOOLEAN
    BY DEF Usable
  <1>3. deck' = [deck EXCEPT ![p] = kept] /\ made' = [made EXCEPT ![p] = b]
    BY DEF Stored, Created
  <1>4. job[p] # "none" /\ (job[p] = "starter" => deck[p] = FALSE)
    BY <1>1 DEF DeckInv, Settled
  <1>5. job[p] = "starter" => kept = b
    BY <1>2, <1>4
  <1> HIDE DEF kept, b
  <1>6. /\ DOMAIN call' = Calls /\ call'[<<p, 0>>].at = "off"
        /\ \A q \in People \ {p} : call'[<<q, 0>>] = call[<<q, 0>>]
    BY <1>1, CallSteps DEF DeckInv, DeckTypes
  <1>7. /\ step' \in [People -> Steps] /\ step'[p] \in {"answer", "report"}
        /\ \A q \in People \ {p} : step'[q] = step[q]
    BY <1>1, GoOnSteps DEF DeckInv
  <1>8. DeckTypes' /\ OthersKeep(p)
    BY <1>1, <1>2, <1>3, <1>6, <1>7 DEF DeckInv, DeckTypes, OthersKeep
  <1>9. deck'[p] = kept /\ made'[p] = b
    BY <1>3 DEF DeckInv, DeckTypes
  <1>10. Settled(p)'
    BY <1>1, <1>2, <1>4, <1>5, <1>6, <1>7, <1>9 DEF Settled, LLM!InFlight
  <1> QED BY <1>8, <1>10, OneSettles

LEMMA StoreFailsSettles ==
    ASSUME DeckInv, NEW p \in People, StoreFails(p)
    PROVE  DeckInv'
  <1>1. /\ step[p] = "words" /\ job[p] = "starter" /\ NoCalls(p) /\ GoOn(p)
        /\ UNCHANGED <<job, made, deck, late>>
    BY DEF StoreFails, Storing
  <1>2. made[p] = FALSE /\ deck[p] = FALSE
    BY <1>1 DEF DeckInv, Settled
  <1>3. /\ DOMAIN call' = Calls /\ call'[<<p, 0>>].at = "off"
        /\ \A q \in People \ {p} : call'[<<q, 0>>] = call[<<q, 0>>]
    BY <1>1, CallSteps DEF DeckInv, DeckTypes
  <1>4. /\ step' \in [People -> Steps] /\ step'[p] \in {"answer", "report"}
        /\ \A q \in People \ {p} : step'[q] = step[q]
    BY <1>1, GoOnSteps DEF DeckInv
  <1>5. DeckTypes' /\ OthersKeep(p)
    BY <1>1, <1>3, <1>4 DEF DeckInv, DeckTypes, OthersKeep
  <1>6. Settled(p)'
    BY <1>1, <1>2, <1>3, <1>4 DEF Settled, LLM!InFlight
  <1> QED BY <1>5, <1>6, OneSettles

LEMMA TimeoutSettles ==
    ASSUME DeckInv, NEW p \in People, Timeout(p)
    PROVE  DeckInv'
  <1>1. /\ job[p] = "starter" /\ NoCalls(p) /\ UNCHANGED job
        /\ made' = [made EXCEPT ![p] = FALSE]
        /\ late' = [late EXCEPT ![p] = deck'[p]]
        /\ step' = [step EXCEPT ![p] = "answer"]
    BY DEF Timeout, Created, Goto
  <1>2. PICK b \in BOOLEAN : deck' = [deck EXCEPT ![p] = b]
    <2>1. CASE UNCHANGED deck
      <3>1. deck[p] \in BOOLEAN /\ deck = [deck EXCEPT ![p] = deck[p]]
        BY DEF DeckInv, DeckTypes
      <3> QED BY <2>1, <3>1
    <2>2. CASE deck' = [deck EXCEPT ![p] = @ \/ Usable(p)]
      <3>1. (deck[p] \/ Usable(p)) \in BOOLEAN
        OBVIOUS
      <3> QED BY <2>2, <3>1
    <2> QED BY <2>1, <2>2 DEF Timeout
  <1>3. /\ DOMAIN call' = Calls /\ call'[<<p, 0>>].at = "off"
        /\ \A q \in People \ {p} : call'[<<q, 0>>] = call[<<q, 0>>]
    BY <1>1, CallSteps DEF DeckInv, DeckTypes
  <1>4. /\ made'[p] = FALSE /\ deck'[p] = b /\ late'[p] = b /\ step'[p] = "answer"
        /\ late' = [late EXCEPT ![p] = b]
    BY <1>1, <1>2 DEF DeckInv, DeckTypes
  <1>5. DeckTypes' /\ OthersKeep(p)
    BY <1>1, <1>2, <1>3, <1>4 DEF DeckInv, DeckTypes, OthersKeep, Steps
  <1>6. Settled(p)'
    BY <1>1, <1>3, <1>4 DEF Settled, LLM!InFlight
  <1> QED BY <1>5, <1>6, OneSettles

LEMMA ReleaseSettles ==
    ASSUME DeckInv, NEW p \in People, Release(p), UNCHANGED deck
    PROVE  DeckInv'
  <1>1. /\ job' = [job EXCEPT ![p] = "none"] /\ step' = [step EXCEPT ![p] = "idle"]
        /\ made' = [made EXCEPT ![p] = FALSE] /\ late' = [late EXCEPT ![p] = FALSE]
        /\ NoCalls(p)
    BY DEF Release, Goto, Created
  <1>2. /\ DOMAIN call' = Calls /\ call'[<<p, 0>>].at = "off"
        /\ \A q \in People \ {p} : call'[<<q, 0>>] = call[<<q, 0>>]
    BY <1>1, CallSteps DEF DeckInv, DeckTypes
  <1>3. DeckTypes' /\ OthersKeep(p)
    BY <1>1, <1>2 DEF DeckInv, DeckTypes, OthersKeep, Jobs, Steps
  <1>4. job'[p] = "none" /\ step'[p] = "idle" /\ made'[p] = FALSE
    BY <1>1 DEF DeckInv, DeckTypes
  <1>5. Settled(p)'
    BY <1>2, <1>4 DEF Settled, LLM!InFlight
  <1> QED BY <1>3, <1>5, OneSettles

LEMMA InitDeckInv == Init => DeckInv
  <1> SUFFICES ASSUME Init PROVE DeckInv
    OBVIOUS
  <1>1. DeckTypes
    BY DEF Init, LLM!LlmInit, DeckTypes, Jobs, Steps
  <1>2. ASSUME NEW p \in People PROVE Settled(p)
    <2>1. <<p, 0>> \in Calls
      BY DEF Calls
    <2>2. /\ job[p] = "none" /\ step[p] = "idle" /\ made[p] = FALSE
          /\ call[<<p, 0>>].at = "off"
      BY <2>1 DEF Init, LLM!LlmInit, LLM!Off
    <2> QED BY <2>2 DEF Settled, LLM!InFlight
  <1> QED BY <1>1, <1>2 DEF DeckInv

LEMMA NextKeepsDeckInv == DeckInv /\ [Next]_vars => DeckInv'
  <1> SUFFICES ASSUME DeckInv, [Next]_vars PROVE DeckInv'
    OBVIOUS
  <1>1. CASE UNCHANGED handlers
    BY <1>1 DEF handlers, DeckInv, DeckTypes, Settled, LLM!InFlight
  <1>2. ASSUME NEW p \in People, Request(p) PROVE DeckInv'
    BY <1>2, RequestSettles
  <1>3. ASSUME NEW p \in People, Work(p) PROVE DeckInv'
    <2>1. CASE Answer(p)
      BY <2>1, ReleaseSettles DEF Answer
    <2>2. CASE Sending(p)
      BY <1>1, <2>2 DEF Sending
    <2> QED BY <1>3, <2>1, <2>2, ModelSettles, FirstAnsweredSettles,
               FirstFailedSettles, EnrichOneSettles, StoredSettles, StoreFailsSettles
            DEF Work
  <1>4. ASSUME NEW p \in People, Timeout(p) PROVE DeckInv'
    BY <1>4, TimeoutSettles
  <1>5. ASSUME NEW p \in People, NEW e, Unhandled(p, e) PROVE DeckInv'
    BY <1>5, ReleaseSettles DEF Unhandled
  <1>6. ASSUME NEW e, OthersFail(e) \/ Sending(e) PROVE DeckInv'
    BY <1>1, <1>6 DEF OthersFail, Sending
  <1>7. CASE Tick
    BY <1>1, <1>7 DEF Tick
  <1>8. CASE UNCHANGED vars
    BY <1>1, <1>8 DEF vars, handlers
  <1> QED BY <1>2, <1>3, <1>4, <1>5, <1>6, <1>7, <1>8 DEF Next

\* A newcomer is told that the deck is ready only with one, and that it failed only
\* without one or after the timeout of build_starter_deck struck past its commit
\* (topic.build_starter_deck, placement.py).
THEOREM DeckToldAsStored == Spec => []ToldAsStored
  <1>1. DeckInv => ToldAsStored
    BY DEF DeckInv, DeckTypes, Settled, ToldAsStored, Telling
  <1> QED BY <1>1, InitDeckInv, NextKeepsDeckInv, PTL DEF Spec

-----------------------------------------------------------------------------
(* The owner's alerts.                                                      *)

\* What marks a kind is written in the step that hands the message over.
MarkInv ==
    /\ now \in Nat /\ lastSent = begun /\ lastSent \in [Kinds -> Nat]
    /\ sending \in [Senders -> {Idle} \cup Message]

\* Who waits for a message of their own to be sent does nothing else meanwhile.
WaitInv ==
    /\ DOMAIN step = People /\ DOMAIN sending = Senders
    /\ \A p \in People : sending[p] # Idle => step[p] = "report"

LEMMA SendTouches ==
    ASSUME WaitInv, NEW s \in Senders, (\E k \in Kinds : Send(s, k)) \/ RecordLlmFailure(s)
    PROVE  DOMAIN sending' = Senders /\ \A e \in Senders \ {s} : sending'[e] = sending[e]
  <1>1. ASSUME NEW k, Send(s, k)
        PROVE  DOMAIN sending' = Senders /\ \A e \in Senders \ {s} : sending'[e] = sending[e]
    BY <1>1 DEF WaitInv, Send, Deliver
  <1>2. CASE UNCHANGED sending
    BY <1>2 DEF WaitInv
  <1> QED BY <1>1, <1>2 DEF RecordLlmFailure

LEMMA NextKeepsWait == DeckInv /\ WaitInv /\ [Next]_vars => WaitInv'
  <1> SUFFICES ASSUME DeckInv, WaitInv, [Next]_vars PROVE WaitInv'
    OBVIOUS
  <1>0. People \subseteq Senders /\ {"starter-db", "handler", "llm"} \subseteq Kinds
    BY OutageAssumption, AlertsAssumption
  <1>1. ASSUME NEW p \in People, sending[p] = Idle, UNCHANGED sending,
               NEW x, step' = [step EXCEPT ![p] = x]
        PROVE  WaitInv'
    BY <1>1 DEF WaitInv
  <1>2. ASSUME NEW p \in People, GoOn(p), DOMAIN sending' = Senders,
               \A e \in Senders \ {p} : sending'[e] = sending[e]
        PROVE  WaitInv'
    BY <1>0, <1>2 DEF WaitInv, GoOn, Goto
  <1>3. ASSUME UNCHANGED step, NEW e \in Senders, NEW m, sending' = [sending EXCEPT ![e] = m],
               e \in People => sending[e] # Idle \/ m = Idle
        PROVE  WaitInv'
    BY <1>3 DEF WaitInv
  <1>4. CASE UNCHANGED <<step, sending>>
    BY <1>4 DEF WaitInv
  <1>5. ASSUME NEW e \in Senders, Sending(e) PROVE WaitInv'
    <2>1. sending[e] # Idle
      BY <1>5 DEF Sending, SendPlain, SendAccepted, SendRefused, Idle
    <2> QED BY <1>3, <1>5, <2>1
            DEF Sending, SendPlain, SendAccepted, SendRefused, GiveUp, handlers
  <1>6. ASSUME NEW p \in People, step[p] # "report" PROVE sending[p] = Idle
    BY <1>6 DEF WaitInv
  <1>7. ASSUME NEW p \in People, Request(p) PROVE WaitInv'
    <2>1. step[p] = "idle" /\ UNCHANGED sending /\ \E x : step' = [step EXCEPT ![p] = x]
      BY <1>7 DEF Request, DeckInv, Settled, Goto, alerts
    <2> QED BY <1>1, <1>6, <2>1
  <1>8. ASSUME NEW p \in People, Work(p) PROVE WaitInv'
    <2>1. CASE Model(p) \/ NextWord(p) \/ \E w \in Words : EnrichOne(p, w)
      BY <1>4, <2>1 DEF Model, NextWord, EnrichOne, alerts
    <2>2. CASE Transcribed(p) \/ FirstDone(p)
      <3>1. CASE UNCHANGED step
        BY <1>4, <2>2, <3>1 DEF Transcribed, FirstDone, alerts
      <3>2. CASE LLM!Answered(<<p, 0>>) /\ \E x : step' = [step EXCEPT ![p] = x]
        <4>1. step[p] = "first" /\ UNCHANGED sending
          BY <2>2, <3>2, FirstGone DEF Transcribed, FirstDone, alerts, LLM!LlmStep
        <4> QED BY <1>1, <1>6, <3>2, <4>1
      <3> QED BY <2>2, <3>1, <3>2 DEF Transcribed, FirstDone, Goto
    <2>3. CASE FirstFailed(p) \/ Stored(p) \/ StoreFails(p)
      <3>1. GoOn(p)
        BY <2>3 DEF FirstFailed, Stored, StoreFails
      <3>2. UNCHANGED sending \/ RecordLlmFailure(p) \/ Send(p, "starter-db")
        BY <2>3 DEF FirstFailed, Stored, StoreFails, AlertsQuiet
      <3>3. DOMAIN sending' = Senders /\ \A e \in Senders \ {p} : sending'[e] = sending[e]
        BY <1>0, <3>2, SendTouches DEF WaitInv
      <3> QED BY <1>2, <3>1, <3>3
    <2>4. CASE Answer(p)
      <3>1. UNCHANGED sending /\ step' = [step EXCEPT ![p] = "idle"] /\ sending[p] = Idle
        BY <1>6, <2>4 DEF Answer, Telling, Release, Goto, alerts
      <3> QED BY <1>1, <3>1
    <2>5. CASE Sending(p)
      BY <1>0, <1>5, <2>5
    <2> QED BY <1>8, <2>1, <2>2, <2>3, <2>4, <2>5 DEF Work
  <1>9. ASSUME NEW p \in People, Timeout(p) PROVE WaitInv'
    BY <1>0, <1>9 DEF Timeout, GiveUp, Goto, WaitInv
  <1>10. ASSUME NEW p \in People, NEW e \in Senders \ People, Unhandled(p, e) PROVE WaitInv'
    <2>1. sending[p] = Idle /\ step' = [step EXCEPT ![p] = "idle"] /\ Send(e, "handler")
      BY <1>6, <1>10 DEF Unhandled, Release, Goto, Telling
    <2>2. DOMAIN sending' = Senders /\ \A q \in People : sending'[q] = sending[q]
      BY <1>0, <2>1, SendTouches
    <2> QED BY <2>1, <2>2 DEF WaitInv
  <1>11. ASSUME NEW e \in Senders \ People, OthersFail(e) PROVE WaitInv'
    <2>1. RecordLlmFailure(e) /\ UNCHANGED step
      BY <1>11 DEF OthersFail, handlers
    <2>2. DOMAIN sending' = Senders /\ \A q \in People : sending'[q] = sending[q]
      BY <1>0, <2>1, SendTouches
    <2> QED BY <2>1, <2>2 DEF WaitInv
  <1>12. CASE Tick \/ UNCHANGED vars
    BY <1>4, <1>12 DEF Tick, AlertsTick, handlers, vars
  <1> QED BY <1>5, <1>7, <1>8, <1>9, <1>10, <1>11, <1>12 DEF Next

LEMMA HandlersInductive == Spec => [](DeckInv /\ WaitInv)
  <1>1. Init => WaitInv
    BY OutageAssumption DEF Init, AlertsInit, WaitInv
  <1> QED BY <1>1, InitDeckInv, NextKeepsDeckInv, NextKeepsWait, PTL DEF Spec

\* The step hands over no message whose kind is still muted.
Spaced == \A s \in Senders, k \in Kinds :
             Begins(s, k) => begun[k] = 0 \/ now - begun[k] >= Cooldown

\* A step of Outage touches the alerts in one of these ways.
AlertStep ==
    \/ UNCHANGED <<lastSent, failures, sending, fate, recorded>> /\ now' \in {now, now + 1}
    \/ UNCHANGED <<now, lastSent, failures, recorded>> /\ \E s \in Senders : GiveUp(s)
    \/ \E s \in Senders : SendPlain(s) \/ SendAccepted(s)
    \/ \E s \in Senders, k \in Kinds :
          sending[s] = Idle /\ Send(s, k) /\ UNCHANGED <<now, failures, recorded>>
    \/ \E s \in Senders : sending[s] = Idle /\ RecordLlmFailure(s) /\ UNCHANGED now

LEMMA NextIsAlertStep ==
    ASSUME DeckInv, WaitInv, [Next]_vars
    PROVE  AlertStep
  <1>0. People \subseteq Senders /\ "starter-db" \in Kinds /\ "handler" \in Kinds
    BY OutageAssumption
  <1>1. CASE UNCHANGED alerts
    BY <1>1 DEF alerts, fate, AlertStep
  <1>2. CASE Tick
    BY <1>2 DEF Tick, AlertsTick, AlertStep
  <1>3. ASSUME NEW p \in People, Work(p) PROVE AlertStep
    <2>0. step[p] # "report" => sending[p] = Idle
      BY DEF WaitInv
    <2>1. CASE FirstFailed(p)
      <3>1. step[p] = "first"
        BY <2>1, FirstGone DEF FirstFailed
      <3> QED BY <1>0, <2>0, <2>1, <3>1 DEF FirstFailed, AlertStep
    <2>2. CASE Stored(p)
      BY <1>0, <2>0, <2>2 DEF Stored, Storing, AlertsQuiet, AlertStep
    <2>3. CASE StoreFails(p)
      BY <1>0, <2>0, <2>3 DEF StoreFails, Storing, AlertStep
    <2>4. CASE Sending(p)
      BY <1>0, <2>4 DEF Sending, SendRefused, AlertStep
    <2> QED BY <1>1, <1>3, <2>1, <2>2, <2>3, <2>4
            DEF Work, Model, Transcribed, NextWord, FirstDone, EnrichOne, Answer
  <1>4. ASSUME NEW p \in People, Timeout(p) PROVE AlertStep
    BY <1>0, <1>4 DEF Timeout, AlertStep
  <1>5. ASSUME NEW p \in People, NEW e \in Senders \ People, Unhandled(p, e) PROVE AlertStep
    BY <1>0, <1>5 DEF Unhandled, AlertStep
  <1>6. ASSUME NEW e \in Senders \ People, OthersFail(e) \/ Sending(e) PROVE AlertStep
    BY <1>6 DEF OthersFail, Sending, SendRefused, AlertStep
  <1>7. ASSUME NEW p \in People, Request(p) PROVE AlertStep
    BY <1>1, <1>7 DEF Request
  <1>8. CASE UNCHANGED vars
    BY <1>1, <1>8 DEF vars, alerts
  <1> QED BY <1>2, <1>3, <1>4, <1>5, <1>6, <1>7, <1>8 DEF Next

LEMMA QuietIsSpaced ==
    ASSUME MarkInv, now' \in {now, now + 1}, UNCHANGED <<lastSent, begun>>,
           sending' \in [Senders -> {Idle} \cup Message],
           \A s \in Senders : sending'[s] = sending[s] \/ sending'[s].form # "html"
    PROVE  MarkInv' /\ Spaced
  <1>1. MarkInv'
    BY DEF MarkInv
  <1>2. Spaced
    BY DEF Spaced, Begins
  <1> QED BY <1>1, <1>2

LEMMA SendIsSpaced ==
    ASSUME MarkInv, NEW s \in Senders, NEW k \in Kinds, Send(s, k), now' = now
    PROVE  MarkInv' /\ Spaced
  <1>1. CASE Muted(k)
    BY <1>1, QuietIsSpaced DEF MarkInv, Send, fate
  <1>2. CASE ~Muted(k)
    <2> DEFINE m == [form |-> "html", kind |-> k]
    <2>1. /\ sending' = [sending EXCEPT ![s] = m]
          /\ begun' = [begun EXCEPT ![k] = now] /\ lastSent' = [lastSent EXCEPT ![k] = now]
      BY <1>2 DEF Send, Deliver
    <2>2. MarkInv'
      BY <2>1 DEF MarkInv, Message
    <2>3. begun[k] = 0 \/ now - begun[k] >= Cooldown
      <3>1. begun[k] \in Nat /\ now \in Nat /\ Cooldown \in Nat
        BY AlertsAssumption DEF MarkInv
      <3> QED BY <1>2, <3>1 DEF Muted, MarkInv
    <2>4. ASSUME NEW e \in Senders, NEW j \in Kinds, Begins(e, j) PROVE j = k
      <3>1. sending'[e] = [form |-> "html", kind |-> j] /\ sending[e] # sending'[e]
        BY <2>4 DEF Begins
      <3>2. e = s
        BY <2>1, <3>1 DEF MarkInv
      <3>3. m = [form |-> "html", kind |-> j]
        BY <2>1, <3>1, <3>2 DEF MarkInv
      <3>4. m.kind = k /\ [form |-> "html", kind |-> j].kind = j
        OBVIOUS
      <3> QED BY <3>3, <3>4
    <2> QED BY <2>2, <2>3, <2>4 DEF Spaced
  <1> QED BY <1>1, <1>2

LEMMA RecordIsSpaced ==
    ASSUME MarkInv, NEW s \in Senders, RecordLlmFailure(s), now' = now
    PROVE  MarkInv' /\ Spaced
  <1>1. CASE Send(s, "llm")
    BY <1>1, SendIsSpaced, AlertsAssumption
  <1>2. CASE UNCHANGED <<lastSent, sending, fate>>
    BY <1>2, QuietIsSpaced DEF MarkInv, fate
  <1> QED BY <1>1, <1>2 DEF RecordLlmFailure

LEMMA SendingIsSpaced ==
    ASSUME MarkInv, NEW s \in Senders, SendPlain(s) \/ SendAccepted(s)
    PROVE  MarkInv' /\ Spaced
  <1>1. CASE SendPlain(s)
    <2>1. sending[s] \in Message
      BY <1>1 DEF SendPlain, MarkInv, Idle
    <2>2. PICK m \in Message : m.form = "plain" /\ sending' = [sending EXCEPT ![s] = m]
      BY <1>1, <2>1 DEF SendPlain, Message
    <2> QED BY <1>1, <2>2, QuietIsSpaced DEF SendPlain, MarkInv, fate
  <1>2. CASE SendAccepted(s)
    <2>1. Idle.form # "html"
      BY DEF Idle
    <2> QED BY <1>2, <2>1, QuietIsSpaced DEF SendAccepted, MarkInv
  <1> QED BY <1>1, <1>2

LEMMA InitMarkInv == Init => MarkInv
  BY DEF Init, AlertsInit, MarkInv

LEMMA NextIsSpaced == DeckInv /\ WaitInv /\ MarkInv /\ [Next]_vars => MarkInv' /\ Spaced
  <1> SUFFICES ASSUME DeckInv, WaitInv, MarkInv, [Next]_vars PROVE MarkInv' /\ Spaced
    OBVIOUS
  <1>1. CASE UNCHANGED <<lastSent, failures, sending, fate, recorded>> /\ now' \in {now, now + 1}
    BY <1>1, QuietIsSpaced DEF MarkInv, fate
  <1>2. ASSUME UNCHANGED <<now, lastSent, failures, recorded>>, NEW s \in Senders, GiveUp(s)
        PROVE  MarkInv' /\ Spaced
    <2>1. Idle.form # "html"
      BY DEF Idle
    <2> QED BY <1>2, <2>1, QuietIsSpaced DEF GiveUp, MarkInv
  <1> QED BY <1>1, <1>2, SendingIsSpaced, SendIsSpaced, RecordIsSpaced, NextIsAlertStep
         DEF AlertStep

\* However many coroutines fail at once, and whether Telegram accepts their messages or
\* not, two messages of one kind are a cool-down apart (AdminAlerter.send).
THEOREM AlertsKeepApart == Spec => OneAlertPerWindow
  <1>1. DeckInv /\ WaitInv /\ MarkInv /\ [Next]_vars => [Spaced]_alerts
    BY NextIsSpaced
  <1> QED BY <1>1, InitMarkInv, NextIsSpaced, HandlersInductive, PTL
          DEF Spec, OneAlertPerWindow, Spaced

-----------------------------------------------------------------------------
(* Failures in bulk.                                                        *)

\* Moments in the order they came, none after now.
Rising(s) == /\ s \in Seq(Nat)
             /\ \A i \in 1 .. Len(s) : s[i] <= now
             /\ \A i, j \in 1 .. Len(s) : i <= j => s[i] <= s[j]

\* The deque ends like the record of all failures, for the length of the shorter.
InStep(all, kept) ==
    \A i \in 1 .. Len(all) :
        i <= Len(kept) => all[Len(all) + 1 - i] = kept[Len(kept) + 1 - i]

\* The owner heard of what is no longer in the deque, less than a cool-down before.
Heard(all, kept) ==
    Len(kept) < Len(all) =>
        begun["llm"] # 0 /\ begun["llm"] + Cooldown > all[Len(all) - Len(kept)]

\* The last Threshold failures in the deque are not within the window.
Sparse(kept) ==
    Len(kept) >= Threshold => ~(kept[Len(kept)] - kept[Len(kept) + 1 - Threshold] <= Window)

BulkInv ==
    /\ now \in Nat \ {0} /\ begun["llm"] <= now
    /\ Rising(recorded) /\ Len(recorded) <= Threshold
    /\ Rising(failures) /\ Len(failures) <= MaxKept
    /\ InStep(recorded, failures)
    /\ Heard(recorded, failures)
    /\ Sparse(failures)

LEMMA LatestIs ==
    ASSUME NEW s \in Seq(Nat), NEW n \in Nat
    PROVE  /\ Latest(s, n) \in Seq(Nat)
           /\ Len(Latest(s, n)) = IF Len(s) <= n THEN Len(s) ELSE n
           /\ \A i \in 1 .. Len(Latest(s, n)) :
                 Latest(s, n)[i] = s[i + Len(s) - Len(Latest(s, n))]
  <1>1. CASE Len(s) <= n
    BY <1>1 DEF Latest
  <1>2. CASE Len(s) > n
    <2> DEFINE m == Len(s) - n + 1
               t == SubSeq(s, m, Len(s))
    <2>1. m \in 1 .. Len(s) + 1 /\ Len(s) \in Nat /\ Len(s) - m + 1 = n
      BY <1>2
    <2>2. Latest(s, n) = t
      BY <1>2 DEF Latest
    <2>3. m \in Int /\ Len(s) \in Int /\ \A i \in m .. Len(s) : s[i] \in Nat
      BY <2>1
    <2> HIDE DEF m
    <2>4. /\ t \in Seq(Nat) /\ Len(t) = IF m <= Len(s) THEN Len(s) - m + 1 ELSE 0
          /\ \A i \in 1 .. Len(s) - m + 1 : t[i] = s[m + i - 1]
      BY <2>3, SubSeqProperties
    <2> HIDE DEF t
    <2>5. Len(t) = n
      BY <2>1, <2>4
    <2>6. \A i \in 1 .. n : t[i] = s[i + Len(s) - n]
      <3>1. \A i \in 1 .. n : m + i - 1 = i + Len(s) - n
        BY <2>1
      <3> QED BY <2>1, <2>4, <3>1
    <2>7. Len(t) = IF Len(s) <= n THEN Len(s) ELSE n
      BY <1>2, <2>1, <2>5
    <2>8. \A i \in 1 .. Len(t) : t[i] = s[i + Len(s) - Len(t)]
      BY <2>5, <2>6
    <2> QED BY <2>2, <2>4, <2>7, <2>8
  <1> QED BY <1>1, <1>2

\* A moment added to a bounded deque: the last entry is now, those before move up.
LEMMA AppendedIs ==
    ASSUME now \in Nat, NEW s, Rising(s), NEW n \in Nat \ {0}, NEW t, t = Latest(Append(s, now), n)
    PROVE  /\ Rising(t)
           /\ Len(t) = IF Len(s) < n THEN Len(s) + 1 ELSE n
           /\ t[Len(t)] = now
           /\ \A i \in 1 .. Len(t) - 1 : t[i] = s[i + Len(s) + 1 - Len(t)]
  <1> DEFINE a == Append(s, now)
             k == Len(s)
             l == Len(t)
             d == k + 1 - l
  <1>1. s \in Seq(Nat) /\ k \in Nat
    BY DEF Rising
  <1>2. a \in Seq(Nat) /\ Len(a) = k + 1 /\ a[k + 1] = now /\ \A i \in 1 .. k : a[i] = s[i]
    BY <1>1
  <1>3. \A i \in 1 .. k : s[i] \in Nat /\ s[i] <= now
    BY <1>1 DEF Rising
  <1>4. \A i, j \in 1 .. k : i <= j => s[i] <= s[j]
    BY DEF Rising
  <1>5. t \in Seq(Nat) /\ l \in Nat /\ l = (IF k + 1 <= n THEN k + 1 ELSE n)
        /\ \A i \in 1 .. l : t[i] = a[i + (k + 1) - l]
    <2> HIDE DEF a
    <2>1. t = Latest(a, n) /\ n \in Nat
      BY DEF a
    <2>2. /\ t \in Seq(Nat) /\ Len(t) = IF Len(a) <= n THEN Len(a) ELSE n
          /\ \A i \in 1 .. Len(t) : t[i] = a[i + Len(a) - Len(t)]
      BY ONLY <1>2, <2>1, LatestIs
    <2>3. l \in Nat
      BY <2>2
    <2> QED BY <1>2, <2>2, <2>3
  <1> HIDE DEF a, k, l
  <1>6. \A i \in 1 .. k + 1 : a[i] \in Nat /\ a[i] <= now
    <2> SUFFICES ASSUME NEW i \in 1 .. k + 1 PROVE a[i] \in Nat /\ a[i] <= now
      OBVIOUS
    <2>1. i = k + 1 \/ i \in 1 .. k
      BY <1>1
    <2> QED BY <1>2, <1>3, <2>1
  <1>7. \A i, j \in 1 .. k + 1 : i <= j => a[i] <= a[j]
    <2> SUFFICES ASSUME NEW i \in 1 .. k + 1, NEW j \in 1 .. k + 1, i <= j PROVE a[i] <= a[j]
      OBVIOUS
    <2>1. j = k + 1 \/ (i \in 1 .. k /\ j \in 1 .. k)
      BY <1>1
    <2> QED BY <1>2, <1>4, <1>6, <2>1
  <1>8. d \in Nat /\ l >= 1 /\ l + d = k + 1
    BY <1>1, <1>5
  <1>9. \A i \in 1 .. l : i + d \in 1 .. k + 1 /\ t[i] = a[i + d]
    <2> SUFFICES ASSUME NEW i \in 1 .. l PROVE i + d \in 1 .. k + 1 /\ t[i] = a[i + d]
      OBVIOUS
    <2>1. i + (k + 1) - l = i + d /\ i + d \in 1 .. k + 1
      BY <1>1, <1>5, <1>8
    <2> QED BY <1>5, <2>1
  <1> HIDE DEF d
  <1>10. Rising(t)
    <2>1. \A i \in 1 .. l : t[i] <= now
      BY <1>6, <1>9
    <2>2. ASSUME NEW i \in 1 .. l, NEW j \in 1 .. l, i <= j PROVE t[i] <= t[j]
      <3>1. i + d <= j + d
        BY <1>5, <1>8, <2>2
      <3> QED BY <1>7, <1>9, <3>1
    <2> QED BY <1>5, <2>1, <2>2 DEF Rising, l
  <1>11. t[l] = now
    BY <1>2, <1>5, <1>8, <1>9
  <1>12. ASSUME NEW i \in 1 .. l - 1 PROVE t[i] = s[i + k + 1 - l]
    <2>1. i \in 1 .. l /\ i + d \in 1 .. k
      BY <1>1, <1>5, <1>8
    <2>2. i + d = i + k + 1 - l
      BY <1>1, <1>5 DEF d
    <2> QED BY <1>2, <1>9, <2>1, <2>2
  <1>13. l = IF k < n THEN k + 1 ELSE n
    BY <1>1, <1>5
  <1> QED BY <1>10, <1>11, <1>12, <1>13 DEF k, l

LEMMA FewRecentIsSparse ==
    ASSUME now \in Nat, NEW kept, Rising(kept), kept[Len(kept)] = now,
           ~(Cardinality({i \in DOMAIN kept : now - kept[i] <= Window}) >= Threshold)
    PROVE  Sparse(kept)
  <1> DEFINE k      == Len(kept)
             first  == k + 1 - Threshold
             recent == {i \in DOMAIN kept : now - kept[i] <= Window}
  <1> SUFFICES ASSUME k >= Threshold, kept[k] - kept[first] <= Window PROVE FALSE
    BY DEF Sparse
  <1>1. Threshold \in Nat \ {0} /\ Window \in Nat
    BY AlertsAssumption
  <1>2. kept \in Seq(Nat) /\ k \in Nat /\ DOMAIN kept = 1 .. k
    BY DEF Rising
  <1>3. \A i, j \in 1 .. k : kept[i] \in Nat /\ (i <= j => kept[i] <= kept[j])
    BY <1>2 DEF Rising
  <1> HIDE DEF k
  <1>4. first \in 1 .. k
    BY <1>1, <1>2
  <1>5. ASSUME NEW i \in first .. k PROVE i \in recent
    <2>1. i \in 1 .. k /\ first <= i
      BY <1>2, <1>4
    <2>2. kept[first] <= kept[i] /\ kept[i] \in Nat /\ kept[first] \in Nat
      BY <1>3, <1>4, <2>1
    <2>3. now - kept[first] <= Window
      BY DEF k
    <2> HIDE DEF first
    <2>4. now - kept[i] <= Window
      BY <1>1, <2>2, <2>3
    <2> QED BY <1>2, <2>1, <2>4
  <1>6. IsFiniteSet(recent) /\ Cardinality(recent) \in Nat
    <2>1. IsFiniteSet(1 .. k)
      BY <1>2, FS_Interval
    <2>2. recent \in SUBSET (1 .. k)
      BY <1>2
    <2> HIDE DEF recent
    <2>3. IsFiniteSet(recent)
      BY <2>1, <2>2, FS_Subset
    <2> QED BY <2>3, FS_CardinalityType
  <1>7. Cardinality(first .. k) = Threshold
    <2>1. first \in Int /\ k \in Int /\ k - first + 1 = Threshold /\ ~(first > k)
      BY <1>1, <1>2, <1>4
    <2> HIDE DEF first
    <2> QED BY <2>1, FS_Interval
  <1>8. Cardinality(first .. k) <= Cardinality(recent)
    <2>1. first .. k \in SUBSET recent
      BY <1>5
    <2> HIDE DEF first, recent
    <2> QED BY <1>6, <2>1, FS_Subset
  <1> QED BY <1>1, <1>6, <1>7, <1>8

\* A message handed over, or one handed over less than a cool-down before.
LEMMA SentIsHeard ==
    ASSUME MarkInv, now # 0, begun["llm"] <= now, NEW s \in Senders, NEW k \in Kinds, Send(s, k)
    PROVE  /\ begun'["llm"] \in {begun["llm"], now}
           /\ k = "llm" => begun'["llm"] # 0 /\ begun'["llm"] + Cooldown > now
  <1>0. /\ "llm" \in Kinds /\ Cooldown \in Nat \ {0} /\ now \in Nat /\ begun \in [Kinds -> Nat]
        /\ lastSent = begun
    BY AlertsAssumption DEF MarkInv
  <1>1. CASE Muted(k)
    <2>1. begun' = begun /\ begun[k] # 0 /\ now - begun[k] < Cooldown
      BY <1>0, <1>1 DEF Send, Muted, fate
    <2> QED BY <1>0, <2>1
  <1>2. CASE ~Muted(k)
    <2>1. begun' = [begun EXCEPT ![k] = now]
      BY <1>2 DEF Send, Deliver
    <2>2. begun'["llm"] = IF k = "llm" THEN now ELSE begun["llm"]
      BY <1>0, <2>1
    <2> QED BY <1>0, <2>2
  <1> QED BY <1>1, <1>2

\* The owner's latest message may only be later.
LEMMA HeardStays ==
    ASSUME MarkInv, BulkInv, begun'["llm"] \in {begun["llm"], now}
    PROVE  /\ begun'["llm"] \in Nat /\ begun["llm"] <= begun'["llm"] /\ begun'["llm"] <= now
           /\ begun["llm"] # 0 => begun'["llm"] # 0
  <1>1. begun["llm"] \in Nat /\ now \in Nat \ {0} /\ begun["llm"] <= now
    BY AlertsAssumption DEF MarkInv, BulkInv
  <1> QED BY <1>1

LEMMA SendKeepsBulk ==
    ASSUME MarkInv, BulkInv, begun'["llm"] \in {begun["llm"], now}, now' \in {now, now + 1},
           UNCHANGED <<failures, recorded>>
    PROVE  BulkInv'
  <1>1. /\ begun'["llm"] \in Nat /\ begun["llm"] <= begun'["llm"] /\ begun'["llm"] <= now
        /\ begun["llm"] # 0 => begun'["llm"] # 0
    BY HeardStays
  <1>2. begun["llm"] \in Nat /\ now \in Nat \ {0} /\ Cooldown \in Nat
    BY AlertsAssumption DEF MarkInv, BulkInv
  <1>3. now' \in Nat \ {0} /\ begun'["llm"] <= now' /\ now <= now'
    BY <1>1, <1>2
  <1>4. Rising(recorded)'
    <2>1. \A i \in 1 .. Len(recorded) : recorded[i] \in Nat /\ recorded[i] <= now
      BY DEF BulkInv, Rising
    <2> QED BY <1>2, <1>3, <2>1 DEF BulkInv, Rising
  <1>5. Rising(failures)'
    <2>1. \A i \in 1 .. Len(failures) : failures[i] \in Nat /\ failures[i] <= now
      BY DEF BulkInv, Rising
    <2> QED BY <1>2, <1>3, <2>1 DEF BulkInv, Rising
  <1>6. Heard(recorded, failures)'
    <2>1. ASSUME Len(failures) < Len(recorded)
          PROVE  /\ begun'["llm"] # 0
                 /\ begun'["llm"] + Cooldown > recorded[Len(recorded) - Len(failures)]
      <3>1. /\ begun["llm"] # 0
            /\ begun["llm"] + Cooldown > recorded[Len(recorded) - Len(failures)]
        BY <2>1 DEF BulkInv, Heard
      <3>2. recorded[Len(recorded) - Len(failures)] \in Nat
        BY <2>1 DEF BulkInv, Rising
      <3> QED BY <1>1, <1>2, <3>1, <3>2
    <2> QED BY <2>1 DEF Heard
  <1> QED BY <1>3, <1>4, <1>5, <1>6 DEF BulkInv, InStep, Sparse

LEMMA RecordKeepsBulk ==
    ASSUME MarkInv, BulkInv, NEW s \in Senders, RecordLlmFailure(s), UNCHANGED now
    PROVE  BulkInv'
  <1> DEFINE kept   == Latest(Append(failures, now), MaxKept)
             recent == {i \in DOMAIN kept : now - kept[i] <= Window}
             n  == Len(recorded)
             n1 == Len(recorded')
             k  == Len(failures)
             k1 == Len(kept)
  <1>1. /\ Threshold \in Nat \ {0} /\ MaxKept \in Nat \ {0} /\ MaxKept >= Threshold
        /\ Cooldown \in Nat \ {0} /\ "llm" \in Kinds
    BY AlertsAssumption
  <1>2. /\ now \in Nat \ {0} /\ begun["llm"] <= now /\ now' = now
        /\ Rising(recorded) /\ Rising(failures) /\ n <= Threshold /\ k <= MaxKept
        /\ InStep(recorded, failures) /\ Heard(recorded, failures)
    BY DEF BulkInv
  <1>3. n \in Nat /\ k \in Nat
    BY <1>2 DEF Rising
  <1>4. /\ Rising(recorded') /\ n1 = (IF n < Threshold THEN n + 1 ELSE Threshold)
        /\ recorded'[n1] = now
        /\ \A i \in 1 .. n1 - 1 : recorded'[i] = recorded[i + n + 1 - n1]
    <2>1. recorded' = Latest(Append(recorded, now), Threshold)
      BY DEF RecordLlmFailure
    <2>2. now \in Nat /\ Threshold \in Nat \ {0} /\ Rising(recorded)
      BY <1>1, <1>2
    <2>3. /\ Rising(recorded')
          /\ Len(recorded') = IF Len(recorded) < Threshold THEN Len(recorded) + 1 ELSE Threshold
          /\ recorded'[Len(recorded')] = now
          /\ \A i \in 1 .. Len(recorded') - 1 :
                recorded'[i] = recorded[i + Len(recorded) + 1 - Len(recorded')]
      BY ONLY <2>1, <2>2, AppendedIs
    <2> QED BY <2>3
  <1>5. /\ Rising(kept) /\ k1 = (IF k < MaxKept THEN k + 1 ELSE MaxKept)
        /\ kept[k1] = now
        /\ \A i \in 1 .. k1 - 1 : kept[i] = failures[i + k + 1 - k1]
    <2>1. kept = Latest(Append(failures, now), MaxKept)
      OBVIOUS
    <2>2. now \in Nat /\ MaxKept \in Nat \ {0} /\ Rising(failures)
      BY <1>1, <1>2
    <2> HIDE DEF kept
    <2>3. /\ Rising(kept)
          /\ Len(kept) = IF Len(failures) < MaxKept THEN Len(failures) + 1 ELSE MaxKept
          /\ kept[Len(kept)] = now
          /\ \A i \in 1 .. Len(kept) - 1 : kept[i] = failures[i + Len(failures) + 1 - Len(kept)]
      BY ONLY <2>1, <2>2, AppendedIs
    <2> QED BY <2>3
  <1>6. \/ failures' = <<>> /\ Send(s, "llm")
        \/ /\ ~(Cardinality(recent) >= Threshold) /\ failures' = kept
           /\ UNCHANGED <<lastSent, sending, fate>>
    BY DEF RecordLlmFailure
  <1>7. n1 \in Nat \ {0} /\ n1 <= n + 1 /\ n1 <= Threshold /\ k1 \in Nat \ {0} /\ k1 <= k + 1
        /\ k1 <= MaxKept
    BY <1>1, <1>2, <1>3, <1>4, <1>5
  <1>8. CASE failures' = <<>> /\ Send(s, "llm")
    <2>1. begun'["llm"] \in {begun["llm"], now} /\ begun'["llm"] # 0 /\ begun'["llm"] + Cooldown > now
      BY <1>1, <1>2, <1>8, SentIsHeard
    <2>2. begun'["llm"] <= now
      BY <1>2, <2>1
    <2>3. Heard(recorded, failures)'
      <3>1. Len(failures') = 0 /\ n1 - 0 = n1
        BY <1>7, <1>8
      <3> QED BY <1>4, <2>1, <3>1 DEF Heard
    <2>4. Rising(failures)' /\ InStep(recorded, failures)' /\ Sparse(failures)' /\ Len(failures') <= MaxKept
      BY <1>1, <1>8 DEF Rising, InStep, Sparse
    <2>5. Rising(recorded)' /\ n1 <= Threshold
      BY <1>2, <1>4, <1>7 DEF Rising
    <2> QED BY <1>2, <2>2, <2>3, <2>4, <2>5 DEF BulkInv
  <1>9. CASE /\ ~(Cardinality(recent) >= Threshold) /\ failures' = kept
             /\ UNCHANGED <<lastSent, sending, fate>>
    <2>1. Sparse(kept)
      BY <1>2, <1>5, <1>9, FewRecentIsSparse
    <2> HIDE DEF kept, n, n1, k, k1
    <2>2. \A i \in 1 .. n1 : i <= k1 => recorded'[n1 + 1 - i] = kept[k1 + 1 - i]
      <3> SUFFICES ASSUME NEW i \in 1 .. n1, i <= k1
                   PROVE  recorded'[n1 + 1 - i] = kept[k1 + 1 - i]
        OBVIOUS
      <3>1. CASE i = 1
        <4>1. n1 + 1 - i = n1 /\ k1 + 1 - i = k1
          BY <1>7, <3>1
        <4> QED BY <1>4, <1>5, <4>1
      <3>2. CASE i # 1
        <4> DEFINE j == i - 1
        <4>1. j \in 1 .. n /\ j <= k
          BY <1>3, <1>7, <3>2
        <4>2. recorded[n + 1 - j] = failures[k + 1 - j]
          BY <1>2, <4>1 DEF InStep, n, k
        <4>3. n1 + 1 - i \in 1 .. n1 - 1 /\ (n1 + 1 - i) + n + 1 - n1 = n + 1 - j
          BY <1>3, <1>7, <3>2
        <4>4. k1 + 1 - i \in 1 .. k1 - 1 /\ (k1 + 1 - i) + k + 1 - k1 = k + 1 - j
          BY <1>3, <1>7, <3>2
        <4>5. recorded'[n1 + 1 - i] = recorded[n + 1 - j]
          BY <1>4, <4>3
        <4>6. kept[k1 + 1 - i] = failures[k + 1 - j]
          BY <1>5, <4>4
        <4> QED BY <4>2, <4>5, <4>6
      <3> QED BY <3>1, <3>2
    <2>3. k1 < n1 => begun["llm"] # 0 /\ begun["llm"] + Cooldown > recorded'[n1 - k1]
      <3> SUFFICES ASSUME k1 < n1
                   PROVE  begun["llm"] # 0 /\ begun["llm"] + Cooldown > recorded'[n1 - k1]
        OBVIOUS
      <3>1. k1 = k + 1 /\ k < n
        BY <1>1, <1>3, <1>5, <1>7
      <3>2. n1 - k1 \in 1 .. n1 - 1 /\ (n1 - k1) + n + 1 - n1 = n - k
        BY <1>3, <1>7, <3>1
      <3>3. recorded'[n1 - k1] = recorded[n - k]
        BY <1>4, <3>2
      <3>4. begun["llm"] # 0 /\ begun["llm"] + Cooldown > recorded[n - k]
        BY <1>2, <3>1 DEF Heard, n, k
      <3> QED BY <3>3, <3>4
    <2>4. InStep(recorded, failures)' /\ Heard(recorded, failures)'
      BY <1>9, <2>2, <2>3 DEF fate, InStep, Heard, n1, k1
    <2>5. Rising(recorded)' /\ Rising(failures)' /\ Sparse(failures)'
      BY <1>2, <1>4, <1>5, <1>9, <2>1 DEF Rising, Sparse
    <2>6. Len(recorded') <= Threshold /\ Len(failures') <= MaxKept
      BY <1>7, <1>9 DEF n1, k1
    <2> QED BY <1>2, <1>9, <2>4, <2>5, <2>6 DEF BulkInv, fate
  <1> QED BY <1>6, <1>8, <1>9

LEMMA NextKeepsBulk == DeckInv /\ WaitInv /\ MarkInv /\ BulkInv /\ [Next]_vars => BulkInv'
  <1> SUFFICES ASSUME DeckInv, WaitInv, MarkInv, BulkInv, [Next]_vars PROVE BulkInv'
    OBVIOUS
  <1>1. ASSUME UNCHANGED <<begun, failures, recorded>>, now' \in {now, now + 1} PROVE BulkInv'
    BY <1>1, SendKeepsBulk
  <1>2. ASSUME NEW s \in Senders, NEW k \in Kinds, Send(s, k), UNCHANGED <<now, failures, recorded>>
        PROVE  BulkInv'
    BY <1>2, SendKeepsBulk, SentIsHeard DEF BulkInv
  <1>3. ASSUME NEW s \in Senders, SendPlain(s) \/ SendAccepted(s) PROVE BulkInv'
    BY <1>1, <1>3 DEF SendPlain, SendAccepted, fate
  <1>4. ASSUME NEW s \in Senders, GiveUp(s), UNCHANGED <<now, failures, recorded>> PROVE BulkInv'
    BY <1>1, <1>4 DEF GiveUp
  <1>5. ASSUME UNCHANGED <<failures, fate, recorded>>, now' \in {now, now + 1} PROVE BulkInv'
    BY <1>1, <1>5 DEF fate
  <1> QED BY <1>2, <1>3, <1>4, <1>5, RecordKeepsBulk, NextIsAlertStep DEF AlertStep

\* A message about the model, once handed over, is under way, has arrived or was given up.
FateInv ==
    /\ told \in BOOLEAN /\ lost \in BOOLEAN
    /\ begun["llm"] # 0 => told \/ lost \/ \E s \in Senders : Underway(s)

LEMMA SendKeepsFate ==
    ASSUME MarkInv, FateInv, NEW s \in Senders, sending[s] = Idle, NEW k \in Kinds, Send(s, k)
    PROVE  FateInv'
  <1>1. CASE UNCHANGED <<sending, fate>>
    BY <1>1 DEF FateInv, Underway, fate
  <1>2. CASE Deliver(s, k)
    <2>1. sending'[s] = [form |-> "html", kind |-> k]
      BY <1>2 DEF Deliver, MarkInv
    <2>2. CASE k = "llm"
      <3>1. Underway(s)'
        BY <2>1, <2>2 DEF Underway
      <3>2. told' = FALSE /\ lost' = FALSE
        BY <1>2, <2>2, Zenon DEF Deliver
      <3> QED BY <3>1, <3>2 DEF FateInv
    <2>3. CASE k # "llm"
      <3>1. told' = told /\ lost' = lost /\ begun'["llm"] = begun["llm"]
        BY <1>2, <2>3 DEF Deliver, FateInv, MarkInv
      <3>2. \A e \in Senders : Underway(e) => Underway(e)'
        BY <1>2, <2>3 DEF Deliver, Underway, MarkInv, Idle
      <3> QED BY <3>1, <3>2 DEF FateInv
    <2> QED BY <2>2, <2>3
  <1> QED BY <1>1, <1>2 DEF Send

LEMMA NextKeepsFate ==
    DeckInv /\ WaitInv /\ MarkInv /\ FateInv /\ [Next]_vars => FateInv'
  <1> SUFFICES ASSUME DeckInv, WaitInv, MarkInv, FateInv, [Next]_vars PROVE FateInv'
    OBVIOUS
  <1>1. CASE UNCHANGED <<sending, fate>>
    BY <1>1 DEF FateInv, Underway, fate
  <1>2. ASSUME NEW s \in Senders, GiveUp(s) \/ SendAccepted(s) PROVE FateInv'
    <2>1. /\ told' \in BOOLEAN /\ lost' \in BOOLEAN /\ begun' = begun
          /\ (told => told') /\ (lost => lost') /\ (Underway(s) => told' \/ lost')
      BY <1>2 DEF GiveUp, SendAccepted, FateInv
    <2>2. \A e \in Senders : e # s => (Underway(e) => Underway(e)')
      BY <1>2, <2>1 DEF GiveUp, SendAccepted, Underway, MarkInv
    <2> QED BY <2>1, <2>2 DEF FateInv
  <1>3. ASSUME NEW s \in Senders, SendPlain(s) PROVE FateInv'
    <2>1. UNCHANGED fate /\ \A e \in Senders : Underway(e) => Underway(e)'
      BY <1>3 DEF SendPlain, Underway, MarkInv, Message, Idle
    <2> QED BY <2>1 DEF FateInv, fate
  <1>4. ASSUME NEW s \in Senders, sending[s] = Idle, RecordLlmFailure(s) PROVE FateInv'
    BY <1>1, <1>4, SendKeepsFate, AlertsAssumption DEF RecordLlmFailure
  <1> QED BY <1>1, <1>2, <1>3, <1>4, SendKeepsFate, NextIsAlertStep DEF AlertStep

BulkFailures == DeckInv /\ WaitInv /\ MarkInv /\ BulkInv /\ FateInv

LEMMA BulkInductive == Spec => []BulkFailures
  <1>1. Init => BulkInv
    BY AlertsAssumption DEF Init, AlertsInit, BulkInv, Rising, InStep, Heard, Sparse
  <1>2. Init => FateInv
    BY AlertsAssumption DEF Init, AlertsInit, FateInv
  <1> QED BY <1>1, <1>2, InitMarkInv, NextIsSpaced, NextKeepsBulk, NextKeepsFate,
             HandlersInductive, PTL DEF Spec, BulkFailures

\* Threshold failures within the window never pass without a message handed over less
\* than a cool-down before the first of them, or since, however they come and whatever the
\* deque has lost; and that message has reached the owner or is on its way, unless an
\* alert was given up since it was begun: refused twice by Telegram, or cancelled by the
\* timeout of a starter deck (record_llm_failure, AdminAlerter.send).
THEOREM BulkFailuresHeard == Spec => []BulkFailuresReported
  <1>1. BulkFailures => BulkFailuresReported
    <2> SUFFICES ASSUME MarkInv, BulkInv, FateInv, Len(recorded) = Threshold,
                        recorded[Threshold] - recorded[1] <= Window
                 PROVE  begun["llm"] # 0 /\ begun["llm"] + Cooldown > recorded[1]
      BY DEF BulkFailuresReported, BulkFailures, FateInv
    <2> DEFINE k == Len(failures)
    <2>0. Threshold \in Nat \ {0} /\ k \in Nat /\ Cooldown \in Nat
      BY AlertsAssumption DEF BulkInv, Rising
    <2>1. CASE k >= Threshold
      <3>1. recorded[Threshold + 1 - 1] = failures[k + 1 - 1]
        BY <2>0, <2>1 DEF BulkInv, InStep
      <3>2. recorded[Threshold + 1 - Threshold] = failures[k + 1 - Threshold]
        BY <2>0, <2>1 DEF BulkInv, InStep
      <3>3. /\ Threshold + 1 - 1 = Threshold /\ Threshold + 1 - Threshold = 1
            /\ k + 1 - 1 = k
        BY <2>0
      <3> QED BY <2>1, <3>1, <3>2, <3>3 DEF BulkInv, Sparse
    <2>2. CASE k < Threshold
      <3>1. begun["llm"] # 0 /\ begun["llm"] + Cooldown > recorded[Threshold - k]
        BY <2>2 DEF BulkInv, Heard
      <3>2. 1 \in 1 .. Threshold /\ Threshold - k \in 1 .. Threshold /\ 1 <= Threshold - k
        BY <2>0, <2>2
      <3>3. recorded[1] <= recorded[Threshold - k] /\ recorded[1] \in Nat
            /\ recorded[Threshold - k] \in Nat
        BY <3>2 DEF BulkInv, Rising
      <3>4. begun["llm"] \in Nat
        BY AlertsAssumption DEF MarkInv
      <3> QED BY <2>0, <3>1, <3>3, <3>4
    <2> QED BY <2>0, <2>1, <2>2
  <1> QED BY <1>1, BulkInductive, PTL

-----------------------------------------------------------------------------
(* The calls to the model, and the types of all the rest.                   *)

CallsOK == LLM!LlmTypeOK /\ requests \in Nat

LEMMA CallStateKinds ==
    /\ LLM!Off \in LLM!CallStates /\ LLM!Done \in LLM!CallStates /\ LLM!Failed \in LLM!CallStates
    /\ \A b \in BOOLEAN : LLM!Asking(1, b) \in LLM!CallStates
    /\ \A x \in LLM!CallStates : x.at = "asking" =>
          /\ x.try \in 1 .. Attempts /\ x.second \in BOOLEAN
          /\ x.try < Attempts => LLM!Asking(x.try + 1, x.second) \in LLM!CallStates
  BY OutageAssumption DEF LLM!CallStates, LLM!Off, LLM!Done, LLM!Failed, LLM!Asking

LEMMA LlmStepTyped ==
    ASSUME LLM!LlmTypeOK, NEW c \in Calls, LLM!LlmStep(c)
    PROVE  LLM!LlmTypeOK'
  <1>1. call \in [Calls -> LLM!CallStates]
    BY DEF LLM!LlmTypeOK
  <1>2. \E x \in LLM!CallStates : call' = [call EXCEPT ![c] = x]
    <2>1. CASE LLM!Answered(c)
      BY <2>1, CallStateKinds DEF LLM!Answered, LLM!Becomes
    <2>2. CASE LLM!Invalid(c)
      BY <1>1, <2>2, CallStateKinds DEF LLM!Invalid, LLM!Becomes
    <2>3. CASE LLM!Unavailable(c)
      BY <1>1, <2>3, CallStateKinds DEF LLM!Unavailable, LLM!Becomes, LLM!InFlight
    <2>4. CASE LLM!Refused(c)
      BY <2>4, CallStateKinds DEF LLM!Refused, LLM!Becomes
    <2> QED BY <2>1, <2>2, <2>3, <2>4 DEF LLM!LlmStep
  <1> QED BY <1>1, <1>2 DEF LLM!LlmTypeOK

LEMMA CallsSet ==
    ASSUME LLM!LlmTypeOK, NEW p \in People
    PROVE  /\ NoCalls(p) => LLM!LlmTypeOK'
           /\ OpenFirst(p) => LLM!LlmTypeOK'
  <1>1. call \in [Calls -> LLM!CallStates]
    BY DEF LLM!LlmTypeOK
  <1>2. ASSUME NoCalls(p) PROVE LLM!LlmTypeOK'
    BY <1>1, <1>2, CallStateKinds DEF NoCalls, LLM!LlmTypeOK
  <1>3. ASSUME OpenFirst(p) PROVE LLM!LlmTypeOK'
    <2>1. LLM!Asking(1, FALSE) \in LLM!CallStates
      BY CallStateKinds
    <2> QED BY <1>1, <1>3, <2>1 DEF OpenFirst, LLM!LlmTypeOK
  <1> QED BY <1>2, <1>3

LEMMA NextKeepsCalls == CallsOK /\ [Next]_vars => CallsOK'
  <1> SUFFICES ASSUME CallsOK, [Next]_vars PROVE CallsOK'
    OBVIOUS
  <1>0. LLM!LlmTypeOK /\ requests \in Nat
    BY DEF CallsOK
  <1>1. CASE UNCHANGED handlers
    BY <1>1 DEF handlers, CallsOK, LLM!LlmTypeOK
  <1>2. ASSUME NEW p \in People, Request(p) PROVE CallsOK'
    <2>1. call' = call \/ OpenFirst(p)
      BY <1>2 DEF Request
    <2>2. LLM!LlmTypeOK'
      BY <1>0, <2>1, CallsSet DEF LLM!LlmTypeOK
    <2> QED BY <1>0, <1>2, <2>2 DEF Request, CallsOK
  <1>3. ASSUME NEW p \in People, UNCHANGED requests, NoCalls(p) \/ OpenFirst(p) PROVE CallsOK'
    BY <1>0, <1>3, CallsSet DEF CallsOK
  <1>4. ASSUME NEW c \in Calls, LLM!LlmStep(c), UNCHANGED requests PROVE CallsOK'
    BY <1>0, <1>4, LlmStepTyped DEF CallsOK
  <1>5. ASSUME NEW p \in People, NEW w \in Words, EnrichOne(p, w) PROVE CallsOK'
    <2>1. PICK x \in LLM!CallStates : call' = [call EXCEPT ![<<p, w>>] = x]
      BY <1>5, CallStateKinds DEF EnrichOne
    <2>2. LLM!LlmTypeOK'
      BY <1>0, <2>1 DEF LLM!LlmTypeOK
    <2> QED BY <1>0, <1>5, <2>2 DEF EnrichOne, CallsOK
  <1>6. ASSUME NEW p \in People, Work(p) PROVE CallsOK'
    <2>0. <<p, 0>> \in Calls
      BY DEF Calls
    <2>1. CASE Model(p)
      BY <1>4, <2>1 DEF Model
    <2>2. CASE FirstDone(p) \/ FirstFailed(p)
      BY <1>4, <2>0, <2>2 DEF FirstDone, FirstFailed, LLM!LlmStep
    <2>3. CASE NextWord(p) \/ Stored(p) \/ StoreFails(p) \/ Answer(p)
      BY <1>3, <2>3 DEF NextWord, Stored, StoreFails, Answer, Release
    <2>4. CASE Sending(p)
      BY <1>1, <2>4 DEF Sending
    <2>5. CASE Transcribed(p)
      BY <1>3, <1>4, <2>0, <2>5 DEF Transcribed, LLM!LlmStep
    <2> QED BY <1>5, <1>6, <2>1, <2>2, <2>3, <2>4, <2>5 DEF Work
  <1>7. ASSUME NEW p \in People, Timeout(p) PROVE CallsOK'
    BY <1>3, <1>7 DEF Timeout
  <1>8. ASSUME NEW p \in People, NEW e, Unhandled(p, e) PROVE CallsOK'
    BY <1>3, <1>8 DEF Unhandled, Release
  <1>9. ASSUME NEW e, OthersFail(e) \/ Sending(e) PROVE CallsOK'
    BY <1>1, <1>9 DEF OthersFail, Sending
  <1>10. CASE Tick
    BY <1>1, <1>10 DEF Tick
  <1>11. CASE UNCHANGED vars
    BY <1>1, <1>11 DEF vars, handlers
  <1> QED BY <1>2, <1>6, <1>7, <1>8, <1>9, <1>10, <1>11 DEF Next

\* Calls stay on the ladder's rungs, and the deque keeps no more than it may.
THEOREM TypeCorrect == Spec => []TypeOK
  <1>1. Init => CallsOK
    BY CallStateKinds DEF Init, LLM!LlmInit, CallsOK, LLM!LlmTypeOK
  <1>2. BulkFailures /\ CallsOK => TypeOK
    BY DEF BulkFailures, FateInv, MarkInv, BulkInv, Rising, DeckInv, DeckTypes, CallsOK, TypeOK, AlertsTypeOK
  <1>3. Spec => []CallsOK
    BY <1>1, NextKeepsCalls, PTL DEF Spec
  <1> QED BY <1>2, <1>3, BulkInductive, PTL
=============================================================================
