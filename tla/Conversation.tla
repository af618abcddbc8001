---------------------------- MODULE Conversation ----------------------------
(***************************************************************************)
(* One participant's conversation: the FSM state and data that the         *)
(* handlers of bot/handlers/ share, the keyboards that stay in the chat,   *)
(* and the order in which the routers of __main__.py offer a message to    *)
(* the flows.  Updates of one person and the job that sends the writing    *)
(* prompt hold one lock, so each handler is a step; a Telegram call that   *)
(* raises ends the handler where it stands.                                *)
(*                                                                         *)
(* The card queue of /review is in module Review; here it is one state.    *)
(***************************************************************************)
EXTENDS Naturals, FiniteSets

CONSTANTS MaxPack,    \* /topic packs are numbered 1..MaxPack, as are their messages
          MaxSession, \* drills and placement tests are numbered 1..MaxSession
          Questions,  \* questions of a drill and of the placement test
          MaxAnswers  \* bound on the answers of one placement test

ASSUME ConversationAssumption ==
    /\ MaxPack \in Nat /\ MaxSession \in Nat
    /\ Questions \in Nat \ {0} /\ MaxAnswers \in Nat

VARIABLES member,   \* the account exists
          state,    \* FSM state
          data,     \* FSM data
          packs,    \* pack keyboards in the chat
          drills,   \* drill keyboards in the chat: <<session, question>>
          places,   \* placement keyboards in the chat: <<session, question>>
          nextPack, nextSession,
          \* history: what the participant saw
          asked,    \* the flow that last asked for a message; "nobody"; "stopped"
          hiccup,   \* a handler that moved the FSM or a keyboard was cut short or could
                    \* not reach the message pressed, or the process was
          warned,   \* /delete_me was used within DELETE_CONFIRM_TTL
          failed,   \* answers of the running placement test that left their question open
          notice    \* the last handler showed FIRST_STEPS_TEXT

fsm      == <<state, data>>
chat     == <<packs, drills, places>>
counters == <<nextPack, nextSession>>
seen     == <<asked, hiccup>>
vars     == <<member, state, data, packs, drills, places, nextPack, nextSession,
              asked, hiccup, warned, failed, notice>>

TextFlows   == {"confirming", "running", "awaiting_answer", "awaiting_value",
                "talking", "choosing"}
ButtonFlows == {"reviewing", "drilling", "selecting"}
States      == {"none"} \cup TextFlows \cup ButtonFlows

\* The keys any flow keeps in the FSM data; a missing key has the value here.  `session`
\* and `pack` say whose data these are; no handler reads them.
Data    == [feedback : BOOLEAN, armed : {"no", "fresh", "lapsed"},
            pack : Nat, bound : Nat, selected : BOOLEAN,
            session : Nat, index : Nat, answers : Nat, onboarding : BOOLEAN]
NoData  == [feedback |-> FALSE, armed |-> "no", pack |-> 0, bound |-> 0,
            selected |-> FALSE, session |-> 0, index |-> 0, answers |-> 0,
            onboarding |-> FALSE]

Init ==
    /\ member = TRUE /\ state = "none" /\ data = NoData
    /\ packs = {} /\ drills = {} /\ places = {}
    /\ nextPack = 1 /\ nextSession = 1
    /\ asked = "nobody" /\ hiccup = FALSE /\ warned = FALSE
    /\ failed = 0 /\ notice = FALSE

-----------------------------------------------------------------------------
\* Variant of Route: the catch-all of capture is included before the topic's router.
RouteCaptureEarly ==
    IF state = "none" /\ data.feedback THEN "feedback"
    ELSE IF state \in TextFlows \ {"choosing"} THEN state ELSE "capture"

\* The flow whose router takes a text that is no command: feedback's filter first,
\* then the state filters, capture last.
Route == IF state = "none" /\ data.feedback THEN "feedback"
         ELSE IF state \in TextFlows THEN state ELSE "capture"

\* FSMContext.set_state and set_data, then the message that asks for `flow`.  A call
\* that raises may have reached the participant or not.
Enter(s, d, flow) ==
    /\ state' = s /\ data' = d
    /\ hiccup' \in BOOLEAN
    /\ asked' \in IF hiccup' THEN {asked, flow} ELSE {flow}

\* FSMContext.clear(), then the message that says so
Clear == Enter("none", NoData, "nobody")

\* A handler that answers and leaves the conversation as it is.
Stay == UNCHANGED <<fsm, seen>>

\* An update of a participant (AuthMiddleware drops the others) that touches nothing else.
RestUnchanged == /\ member /\ notice' = FALSE
                 /\ UNCHANGED <<member, chat, counters, warned, failed>>

\* safe_edit_text without a keyboard takes the pressed keyboard k away; Telegram may
\* refuse the edit, and a message that is inaccessible is not edited.
Edited(keyboards, k) == {keyboards, keyboards \ {k}}

\* A call raises and the flow stays; what it did to the keyboards may stand.
CutShort(lost) == asked' = asked /\ hiccup' = (hiccup \/ lost)

\* The keyboards in the chat once a message with keyboard k was sent, or failed.
Shown(keyboards, k) == IF hiccup' THEN {keyboards, keyboards \cup {k}}
                       ELSE {keyboards \cup {k}}

-----------------------------------------------------------------------------
\* /review and its button
StartReview ==
    /\ \/ Clear
       \/ Enter("reviewing", NoData, "nobody")
    /\ RestUnchanged

\* the last grade of a session
FinishReview ==
    /\ state = "reviewing"
    /\ Clear
    /\ RestUnchanged

\* cmd_drill; without topic, allowance or model the running flow stays
StartDrill ==
    /\ member
    /\ nextSession <= MaxSession
    /\ \/ /\ Enter("drilling", [NoData EXCEPT !.session = nextSession], "nobody")
          /\ drills' \in Shown(drills, <<nextSession, 0>>)
          /\ nextSession' = nextSession + 1
       \/ Stay /\ UNCHANGED <<drills, nextSession>>
    /\ notice' = FALSE /\ UNCHANGED <<member, packs, places, nextPack, warned, failed>>

\* Variant of AnswerDrill: the session is not closed after its last question.
AnswerDrillUnended(k) ==
    /\ member
    /\ state = "drilling" /\ k[2] = data.index
    /\ Enter("drilling", [data EXCEPT !.index = @ + 1], "nobody")
    /\ \E left \in Edited(drills, k) :
          drills' \in IF data.index + 1 < Questions
                      THEN Shown(left, <<data.session, data.index + 1>>) ELSE {left}
    /\ notice' = FALSE /\ UNCHANGED <<member, packs, places, counters, warned, failed>>

\* drill.on_answer: k is the keyboard pressed, of whatever session.  The edit, or the
\* card of a mistake before it, may fail before the index moves; under an inaccessible
\* message the index moves and nothing is asked.
AnswerDrill(k) ==
    /\ member
    /\ state = "drilling" /\ k[2] = data.index
    /\ \E left \in Edited(drills, k) :
          \/ /\ data.index + 1 < Questions
             /\ Enter("drilling", [data EXCEPT !.index = @ + 1], "nobody")
             /\ drills' \in Shown(left, <<data.session, data.index + 1>>)
          \/ data.index + 1 >= Questions /\ Clear /\ drills' = left
          \/ CutShort(left # drills) /\ drills' = left /\ UNCHANGED fsm
    /\ notice' = FALSE /\ UNCHANGED <<member, packs, places, counters, warned, failed>>

\* cmd_talk
StartTalk ==
    /\ \/ Enter("talking", NoData, "talking")
       \/ Stay
    /\ RestUnchanged

\* start_writing: the prompt is sent before the state is armed; a call that raises, or
\* the job's timeout, may leave the prompt in the chat and the state unarmed
StartWriting ==
    \/ /\ state' = "awaiting_answer" /\ data' = NoData
       /\ asked' = "awaiting_answer" /\ hiccup' = FALSE
    \/ Stay
    \/ asked' = "awaiting_answer" /\ hiccup' = TRUE /\ UNCHANGED fsm

\* cmd_write
WriteCommand ==
    /\ StartWriting
    /\ RestUnchanged

\* send_writing_prompt, under the participant's lock: not into a running flow
WritingPrompt ==
    /\ IF state = "none" THEN StartWriting ELSE Stay
    /\ RestUnchanged

-----------------------------------------------------------------------------
\* cmd_placement
StartPlacement(onboarding) ==
    /\ member
    /\ nextSession <= MaxSession
    /\ Enter("running", [NoData EXCEPT !.onboarding = onboarding, !.session = nextSession],
             "running")
    /\ places' \in Shown(places, <<nextSession, 0>>)
    /\ nextSession' = nextSession + 1
    /\ failed' = 0
    /\ notice' = FALSE /\ UNCHANGED <<member, packs, drills, nextPack, warned>>

\* placement._finish and cmd_stop_placement: the state is cleared first; a newcomer
\* gets the first steps last
EndPlacement ==
    /\ Clear
    /\ notice' \in IF ~data.onboarding THEN {FALSE}
                  ELSE IF hiccup' THEN BOOLEAN ELSE {TRUE}

\* placement.on_answer cut short after the answer was noted: editing the message raises,
\* or answering the press after the edit took the keyboard away.  An inaccessible
\* message is not edited, and the next question is not asked.
NoteAnswerOnly(left) ==
    /\ data.answers < MaxAnswers
    /\ data' = [data EXCEPT !.answers = @ + 1]
    /\ failed' = failed + 1
    /\ places' = left /\ CutShort(left # places)
    /\ notice' = FALSE /\ UNCHANGED state

\* Variant of AnswerPlacement: buttons of earlier questions count too.
AnswerPlacementAnyQuestion(k) ==
    /\ member
    /\ state = "running" /\ k[2] <= data.index
    /\ \E left \in Edited(places, k) :
          \/ /\ k[2] + 1 < Questions
             /\ Enter("running", [data EXCEPT !.answers = @ + 1, !.index = k[2] + 1],
                      "running")
             /\ places' \in Shown(left, <<data.session, k[2] + 1>>)
             /\ notice' = FALSE /\ UNCHANGED failed
          \/ k[2] + 1 >= Questions /\ EndPlacement /\ places' = left /\ UNCHANGED failed
    /\ UNCHANGED <<member, packs, drills, counters, warned>>

\* Variant of AnswerPlacement: one question too many.
AnswerPlacementPastEnd(k) ==
    /\ member
    /\ state = "running" /\ k[2] = data.index
    /\ \E left \in Edited(places, k) :
          \/ /\ k[2] < Questions
             /\ Enter("running", [data EXCEPT !.answers = @ + 1, !.index = @ + 1], "running")
             /\ places' \in Shown(left, <<data.session, k[2] + 1>>)
             /\ notice' = FALSE /\ UNCHANGED failed
          \/ k[2] >= Questions /\ EndPlacement /\ places' = left /\ UNCHANGED failed
    /\ UNCHANGED <<member, packs, drills, counters, warned>>

\* placement.on_answer: the answer is noted, the message edited, the next question asked
AnswerPlacement(k) ==
    /\ member
    /\ state = "running" /\ k[2] = data.index
    /\ \E left \in Edited(places, k) :
          \/ /\ data.index + 1 < Questions
             /\ Enter("running", [data EXCEPT !.answers = @ + 1, !.index = @ + 1], "running")
             /\ places' \in Shown(left, <<data.session, data.index + 1>>)
             /\ notice' = FALSE /\ UNCHANGED failed
          \/ /\ data.index + 1 >= Questions
             /\ EndPlacement
             /\ places' = left /\ UNCHANGED failed
          \/ NoteAnswerOnly(left)
    /\ UNCHANGED <<member, packs, drills, counters, warned>>

\* on_level_chosen: a level, not the test
ChooseLevel ==
    /\ member
    /\ notice' \in BOOLEAN
    /\ UNCHANGED <<member, fsm, chat, counters, seen, warned, failed>>

-----------------------------------------------------------------------------
\* Variant of Generate: the message is not bound to the pack.
GenerateUnbound ==
    \/ Stay /\ UNCHANGED <<packs, nextPack>>
    \/ Clear /\ UNCHANGED <<packs, nextPack>>
    \/ /\ nextPack <= MaxPack
       /\ nextPack' = nextPack + 1
       /\ Enter("selecting", [NoData EXCEPT !.pack = nextPack, !.selected = TRUE], "nobody")
       /\ packs' \in Shown(packs, nextPack)

\* topic._generate: state and words first, then the message, then its id
Generate ==
    \/ Stay /\ UNCHANGED <<packs, nextPack>>
    \/ Clear /\ UNCHANGED <<packs, nextPack>>
    \/ /\ nextPack <= MaxPack
       /\ nextPack' = nextPack + 1
       /\ \E sent \in BOOLEAN :
             /\ Enter("selecting", [NoData EXCEPT !.pack = nextPack, !.selected = TRUE,
                                     !.bound = IF sent THEN nextPack ELSE 0], "nobody")
             /\ hiccup' = ~sent
       /\ packs' \in Shown(packs, nextPack)

\* cmd_topic; without a topic it only sets the state, the old data stay
TopicCommand ==
    /\ member
    /\ \/ Generate
       \/ Enter("choosing", data, "choosing") /\ UNCHANGED <<packs, nextPack>>
    /\ notice' = FALSE /\ UNCHANGED <<member, drills, places, nextSession, warned, failed>>

\* _is_stale_pack for the keyboard of pack p under a message the bot can reach
Stale(p) == data.bound # 0 /\ p # data.bound

TogglePack == /\ data' = [data EXCEPT !.selected = ~@]
              /\ UNCHANGED <<state, seen, packs>>

\* on_save and on_cancel clear the state before anything else
ClosePack(p) == Clear /\ packs' \in Edited(packs, p)

\* A press on the keyboard of pack p.  No message of a pack that is inaccessible passes
\* for stale; a stale or cancelled one loses its keyboard.
PressPack(p) ==
    /\ member
    /\ \/ /\ state = "selecting"
          /\ \E accessible \in BOOLEAN :
                ~(accessible /\ Stale(p)) /\ (TogglePack \/ ClosePack(p))
       \/ /\ state # "selecting" \/ Stale(p)
          /\ Stay /\ packs' \in Edited(packs, p)
    /\ notice' = FALSE /\ UNCHANGED <<member, drills, places, counters, warned, failed>>

-----------------------------------------------------------------------------
\* cmd_settings
SettingsCommand ==
    /\ Clear
    /\ RestUnchanged

\* settings.on_edit
EditSetting ==
    /\ Enter("awaiting_value", NoData, "awaiting_value")
    /\ RestUnchanged

\* on_timezone_chosen ends the settings flow and no other
ChooseZone ==
    /\ IF state = "awaiting_value" THEN Clear ELSE Stay
    /\ RestUnchanged

\* cmd_feedback
FeedbackCommand ==
    /\ IF state # "none" THEN Stay
       ELSE Enter(state, [data EXCEPT !.feedback = TRUE], "feedback")
    /\ RestUnchanged

\* cmd_delete_me
DeleteMeCommand ==
    /\ member
    /\ Enter("confirming", [data EXCEPT !.armed = "fresh"], "confirming")
    /\ warned' = TRUE
    /\ notice' = FALSE /\ UNCHANGED <<member, chat, counters, failed>>

\* DELETE_CONFIRM_TTL passes
Lapse ==
    /\ member
    /\ warned
    /\ warned' = FALSE
    /\ data' = [data EXCEPT !.armed = IF @ = "fresh" THEN "lapsed" ELSE @]
    /\ notice' = FALSE /\ UNCHANGED <<member, state, chat, counters, seen, failed>>

\* cmd_stop_placement and cmd_stop
Stop ==
    /\ member
    /\ IF state = "running" THEN EndPlacement
       ELSE /\ IF state = "none" THEN asked' = "stopped" /\ UNCHANGED <<fsm, hiccup>>
                                 ELSE Enter("none", NoData, "stopped")
            /\ notice' = FALSE
    /\ UNCHANGED <<member, chat, counters, warned, failed>>

-----------------------------------------------------------------------------
\* Variant of ConfirmDelete: the armed confirmation never lapses.
ConfirmDeleteForever(word) ==
    /\ Route = "confirming"
    /\ Clear
    /\ member' = ~word
    /\ UNCHANGED <<packs, nextPack>>

\* handle_delete_confirmation
ConfirmDelete(word) ==
    /\ Route = "confirming"
    /\ Clear
    /\ member' = ~(word /\ data.armed = "fresh")
    /\ UNCHANGED <<packs, nextPack>>

\* A text that is no command, in the flow that takes it.  Too long, over the limit, an
\* invalid value, a failed model: the flow asks again and stays.
Text ==
    /\ member
    /\ \/ \E word \in BOOLEAN : ConfirmDelete(word)
       \/ /\ Route = "feedback"
          /\ Enter(state, [data EXCEPT !.feedback = FALSE], "nobody")
          /\ UNCHANGED <<member, packs, nextPack>>
       \/ Route \in {"awaiting_answer", "awaiting_value"} /\ (Clear \/ Stay)
            /\ UNCHANGED <<member, packs, nextPack>>
       \/ Route \in {"talking", "running", "capture"} /\ Stay
            /\ UNCHANGED <<member, packs, nextPack>>
       \/ Route = "choosing" /\ Generate /\ UNCHANGED member
    /\ notice' = FALSE /\ UNCHANGED <<drills, places, nextSession, warned, failed>>

\* A voice message: the writing flow takes it for an answer; a dialogue goes on, and
\* everything else keeps its state.
Voice ==
    /\ IF state = "awaiting_answer" THEN Clear \/ Stay ELSE Stay
    /\ RestUnchanged

\* The process restarts: MemoryStorage is empty, the chat is as it was.
Restart ==
    /\ member
    /\ state' = "none" /\ data' = NoData /\ hiccup' = TRUE
    /\ notice' = FALSE /\ UNCHANGED <<member, chat, counters, asked, warned, failed>>

Next ==
    \/ StartReview \/ FinishReview \/ StartDrill \/ StartTalk
    \/ WriteCommand \/ WritingPrompt \/ ChooseLevel
    \/ TopicCommand \/ SettingsCommand \/ EditSetting \/ ChooseZone
    \/ FeedbackCommand \/ DeleteMeCommand \/ Lapse \/ Stop
    \/ Text \/ Voice \/ Restart
    \/ \E onboarding \in BOOLEAN : StartPlacement(onboarding)
    \/ \E k \in drills : AnswerDrill(k)
    \/ \E k \in places : AnswerPlacement(k)
    \/ \E p \in packs : PressPack(p)

Spec == Init /\ [][Next]_vars

-----------------------------------------------------------------------------
TypeOK ==
    /\ member \in BOOLEAN /\ state \in States /\ data \in Data
    /\ packs \subseteq 1 .. MaxPack
    /\ drills \cup places \subseteq (1 .. MaxSession) \X (0 .. Questions - 1)
    /\ nextPack \in 1 .. MaxPack + 1 /\ nextSession \in 1 .. MaxSession + 1
    /\ asked \in TextFlows \cup {"nobody", "feedback", "stopped"}
    /\ hiccup \in BOOLEAN /\ warned \in BOOLEAN
    /\ failed \in Nat /\ notice \in BOOLEAN

\* What the next text should be taken for: the answer to the last question, or a word.
Awaited == IF asked \in {"nobody", "stopped"} THEN "capture" ELSE asked

\* A text goes to the flow that last asked for one, and becomes a word's card exactly
\* when none did: whatever commands, buttons, jobs and failures came in between, no flow
\* takes a message it did not ask for and capture takes no flow's answer -- unless the
\* handler that armed the flow was cut short, or /stop left the feedback flag on, which
\* cmd_stop does not look at.
TextGoesToAsker ==
    Route = Awaited \/ hiccup \/ (Route = "feedback" /\ asked = "stopped")

\* An account is erased only when the warning was the last thing that asked for a
\* message and /delete_me was used within the time to live.
Deliberate == member /\ ~member' =>
                  warned /\ state = "confirming" /\ (asked = "confirming" \/ hiccup)
DeleteOnlyConfirmed == [][Deliberate]_vars

\* A flow that waits for a button has its own button in the chat, though every press
\* takes one away and the buttons of other sessions move it too -- unless a handler was
\* cut short or the message pressed was inaccessible.
NoDeadFlow ==
    hiccup \/ /\ state = "drilling"  => <<data.session, data.index>> \in drills
              /\ state = "running"   => <<data.session, data.index>> \in places
              /\ state = "selecting" => data.pack \in packs

\* The placement test counts every question once, however often and late its buttons
\* are pressed, and once more for every press that was noted and left the question open.
AnswersCounted == state = "running" => data.answers = data.index + failed

\* topic._is_stale_pack: "a keyboard from a superseded /topic pack must not drive the
\* new pack".
StalePackInert == state = "selecting" => \A p \in packs \ {data.pack} : Stale(p)

\* It holds when the new pack's own message went out, for messages the bot can reach.
OldPacksInert == hiccup \/ StalePackInert

\* cmd_stop_placement: "abandoning the test must not abandon onboarding" -- who leaves
\* the onboarding test gets the first steps with the data notice.
LeavesOnboarding == /\ state = "running" /\ data.onboarding
                    /\ ~(state' = "running" /\ data'.onboarding)
OnboardingCompletes == [][LeavesOnboarding => notice' \/ hiccup']_vars

=============================================================================
