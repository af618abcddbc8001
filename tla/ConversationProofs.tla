------------------------- MODULE ConversationProofs -------------------------
(***************************************************************************)
(* Theorems about Conversation for any number of packs, sessions,          *)
(* questions and answers.                                                  *)
(***************************************************************************)
EXTENDS Conversation, TLAPS

-----------------------------------------------------------------------------
\* What the participant's account, the chat and the history may be.
RestTypes ==
    /\ member \in BOOLEAN
    /\ packs \subseteq 1 .. MaxPack
    /\ drills \subseteq (1 .. MaxSession) \X (0 .. Questions - 1)
    /\ places \subseteq (1 .. MaxSession) \X (0 .. Questions - 1)
    /\ nextPack \in 1 .. MaxPack + 1 /\ nextSession \in 1 .. MaxSession + 1
    /\ warned \in BOOLEAN /\ failed \in Nat /\ notice \in BOOLEAN

\* A confirmation that would erase the account was armed within its time to live.
ArmedInTime == data.armed = "fresh" => warned = TRUE

\* A handler that was not cut short leaves its keyboard in the chat, and a new pack
\* bound to its own message.
ButtonsSent ==
    /\ state = "drilling"  => <<data.session, data.index>> \in drills
    /\ state = "running"   => <<data.session, data.index>> \in places
    /\ state = "selecting" => data.pack \in packs /\ data.bound = data.pack

\* The session a button is waited for is one of those that were begun.
SessionBegun == state \in {"drilling", "running"} => data.session \in 1 .. MaxSession

IInv ==
    /\ TypeOK /\ ArmedInTime /\ AnswersCounted /\ SessionBegun
    /\ Route = Awaited \/ hiccup = TRUE
         \/ (Route = "feedback" /\ asked = "stopped")
    /\ hiccup = TRUE \/ ButtonsSent

LEMMA TypesSplit ==
    TypeOK <=> /\ RestTypes /\ state \in States /\ data \in Data
               /\ asked \in TextFlows \cup {"nobody", "feedback", "stopped"}
               /\ hiccup \in BOOLEAN
  BY DEF TypeOK, RestTypes

LEMMA NoDataTyped == /\ NoData \in Data /\ NoData.armed = "no"
                     /\ NoData.feedback = FALSE
                     /\ NoData.index = 0 /\ NoData.answers = 0
  BY DEF NoData, Data

\* What Enter asks of the flow it enters.
LEMMA EnterKeeps ==
    ASSUME IInv, RestTypes', NEW s \in States, NEW d \in Data,
           NEW flow \in TextFlows \cup {"nobody", "feedback"}, Enter(s, d, flow),
           s \in TextFlows => flow = s,
           s = "none" /\ d.feedback = TRUE => flow = "feedback",
           s \notin TextFlows /\ ~(s = "none" /\ d.feedback = TRUE) => flow = "nobody",
           d.armed = "fresh" => warned' = TRUE,
           s = "running" => d.answers = d.index + failed',
           s \in {"drilling", "running"} => d.session \in 1 .. MaxSession,
           hiccup' = FALSE =>
               /\ s = "drilling" => <<d.session, d.index>> \in drills'
               /\ s = "running" => <<d.session, d.index>> \in places'
               /\ s = "selecting" => d.pack \in packs' /\ d.bound = d.pack
    PROVE  IInv'
  <1>1. /\ state' = s /\ data' = d /\ hiccup' \in BOOLEAN
        /\ asked' \in {asked, flow} /\ (hiccup' = FALSE => asked' = flow)
    BY DEF Enter
  <1>2. TypeOK'
    BY <1>1, TypesSplit DEF IInv, TypeOK, RestTypes
  <1>3. ArmedInTime' /\ AnswersCounted' /\ SessionBegun'
    BY <1>1 DEF ArmedInTime, AnswersCounted, SessionBegun
  <1>4. hiccup' = TRUE \/ ButtonsSent'
    BY <1>1 DEF ButtonsSent
  <1>5. hiccup' = FALSE => Route' = Awaited'
    <2> SUFFICES ASSUME hiccup' = FALSE PROVE Route' = Awaited'
      OBVIOUS
    <2>1. asked' = flow
      BY <1>1
    <2>2. CASE s = "none" /\ d.feedback = TRUE
      BY <1>1, <2>1, <2>2 DEF Route, Awaited
    <2>3. CASE s \in TextFlows
      BY <1>1, <2>1, <2>3 DEF Route, TextFlows, Awaited
    <2>4. CASE s \notin TextFlows /\ ~(s = "none" /\ d.feedback = TRUE)
      <3>1. d.feedback \in BOOLEAN
        BY DEF Data
      <3>2. ~(s = "none" /\ d.feedback)
        BY <2>4, <3>1
      <3> QED BY <1>1, <2>1, <2>4, <3>2 DEF Route, Awaited
    <2> QED BY <2>2, <2>3, <2>4
  <1> QED BY <1>1, <1>2, <1>3, <1>4, <1>5 DEF IInv

\* A step that leaves the flow and the keyboards alone; a message may bring a new one.
LEMMA StayKeeps ==
    ASSUME IInv, RestTypes', Stay, warned' = warned, failed' = failed,
           packs \subseteq packs', drills \subseteq drills', places \subseteq places'
    PROVE  IInv'
  <1>1. UNCHANGED <<state, data, asked, hiccup>>
    BY DEF Stay, fsm, seen
  <1>2. TypeOK'
    BY <1>1, TypesSplit DEF IInv, TypeOK, RestTypes
  <1>3. ArmedInTime' /\ AnswersCounted' /\ SessionBegun' /\ Route' = Route
        /\ Awaited' = Awaited
    BY <1>1 DEF IInv, ArmedInTime, AnswersCounted, SessionBegun, Route, Awaited
  <1>4. hiccup' = TRUE \/ ButtonsSent'
    BY <1>1 DEF IInv, ButtonsSent
  <1> QED BY <1>1, <1>2, <1>3, <1>4 DEF IInv

LEMMA ClearKeeps ==
    ASSUME IInv, RestTypes', Clear
    PROVE  IInv'
  <1>1. Enter("none", NoData, "nobody")
    BY DEF Clear
  <1>2. "none" \in States /\ "none" \notin TextFlows
    BY DEF States, TextFlows
  <1> QED BY <1>1, <1>2, NoDataTyped, EnterKeeps

\* The flows whose entry leaves nothing in the FSM data.
LEMMA PlainEnterKeeps ==
    ASSUME IInv, RestTypes', NEW s \in TextFlows \ {"running"}, Enter(s, NoData, s)
    PROVE  IInv'
  <1>1. s \in States /\ s # "none" /\ s \notin {"drilling", "running", "selecting"}
    BY DEF States, TextFlows
  <1> QED BY <1>1, NoDataTyped, EnterKeeps

\* Most handlers leave everything but the FSM alone.
LEMMA RestStays ==
    ASSUME IInv, RestUnchanged
    PROVE  /\ RestTypes' /\ UNCHANGED <<member, packs, drills, places, warned, failed>>
  BY TypesSplit DEF IInv, RestUnchanged, RestTypes, chat, counters

-----------------------------------------------------------------------------
(* The handlers.                                                            *)

\* /review, /settings, an edit of a setting and /delete_me
LEMMA PlainHandlersKeep ==
    ASSUME IInv, StartReview \/ FinishReview \/ SettingsCommand \/ EditSetting
    PROVE  IInv'
  <1>1. RestTypes'
    BY RestStays DEF StartReview, FinishReview, SettingsCommand, EditSetting
  <1>2. ASSUME Enter("reviewing", NoData, "nobody") PROVE IInv'
    <2>1. "reviewing" \in States /\ "reviewing" \notin TextFlows
      BY DEF States, TextFlows, ButtonFlows
    <2> QED BY <1>1, <1>2, <2>1, NoDataTyped, EnterKeeps
  <1>3. ASSUME Enter("awaiting_value", NoData, "awaiting_value") PROVE IInv'
    <2>1. "awaiting_value" \in TextFlows \ {"running"}
      BY DEF TextFlows
    <2> QED BY <1>1, <1>3, <2>1, PlainEnterKeeps
  <1> QED BY <1>1, <1>2, <1>3, ClearKeeps
          DEF StartReview, FinishReview, SettingsCommand, EditSetting

LEMMA StartTalkKeeps == ASSUME IInv, StartTalk PROVE IInv'
  <1>1. /\ RestTypes' /\ UNCHANGED <<packs, drills, places, warned, failed>>
    BY RestStays DEF StartTalk
  <1>2. "talking" \in TextFlows \ {"running"}
    BY DEF TextFlows
  <1> QED BY <1>1, <1>2, PlainEnterKeeps, StayKeeps DEF StartTalk

\* The prompt of /write and of the job
LEMMA StartWritingKeeps ==
    ASSUME IInv, RestUnchanged, StartWriting
    PROVE  IInv'
  <1>1. /\ RestTypes' /\ UNCHANGED <<packs, drills, places, warned, failed>>
    BY RestStays
  <1>2. CASE Stay
    BY <1>1, <1>2, StayKeeps
  <1>3. CASE /\ state' = "awaiting_answer" /\ data' = NoData
             /\ asked' = "awaiting_answer" /\ hiccup' = FALSE
    <2>1. Enter("awaiting_answer", NoData, "awaiting_answer")
      BY <1>3 DEF Enter
    <2>2. "awaiting_answer" \in TextFlows \ {"running"}
      BY DEF TextFlows
    <2> QED BY <1>1, <2>1, <2>2, PlainEnterKeeps
  <1>4. CASE asked' = "awaiting_answer" /\ hiccup' = TRUE /\ UNCHANGED fsm
    <2>1. UNCHANGED <<state, data>> /\ "awaiting_answer" \in TextFlows
      BY <1>4 DEF fsm, TextFlows
    <2>2. TypeOK'
      BY <1>1, <1>4, <2>1, TypesSplit DEF IInv, TypeOK, RestTypes
    <2>3. ArmedInTime' /\ AnswersCounted' /\ SessionBegun'
      BY <1>1, <2>1 DEF IInv, ArmedInTime, AnswersCounted, SessionBegun
    <2> QED BY <1>4, <2>2, <2>3 DEF IInv
  <1> QED BY <1>2, <1>3, <1>4 DEF StartWriting

LEMMA StartDrillKeeps == ASSUME IInv, StartDrill PROVE IInv'
  <1>0. RestTypes /\ nextSession <= MaxSession
    BY TypesSplit DEF IInv, StartDrill
  <1>1. /\ UNCHANGED <<member, packs, places, nextPack, warned, failed>>
        /\ notice' = FALSE
    BY DEF StartDrill
  <1>2. CASE Stay /\ UNCHANGED <<drills, nextSession>>
    <2>1. RestTypes'
      BY <1>0, <1>1, <1>2 DEF RestTypes
    <2> QED BY <1>1, <1>2, <2>1, StayKeeps
  <1>3. CASE /\ Enter("drilling", [NoData EXCEPT !.session = nextSession], "nobody")
             /\ drills' \in Shown(drills, <<nextSession, 0>>)
             /\ nextSession' = nextSession + 1
    <2> DEFINE d == [NoData EXCEPT !.session = nextSession]
    <2>1. nextSession \in 1 .. MaxSession /\ nextSession \in Nat /\ 0 \in 0 .. Questions - 1
      BY <1>0, ConversationAssumption DEF RestTypes
    <2>2. RestTypes'
      <3>1. drills' \subseteq (1 .. MaxSession) \X (0 .. Questions - 1)
        BY <1>0, <1>3, <2>1 DEF RestTypes, Shown
      <3>2. nextSession' \in 1 .. MaxSession + 1
        BY <1>3, <2>1, ConversationAssumption
      <3> QED BY <1>0, <1>1, <3>1, <3>2 DEF RestTypes
    <2>3. /\ d \in Data /\ d.armed = "no" /\ d.feedback = FALSE /\ d.session = nextSession
          /\ d.index = 0
      BY <2>1 DEF NoData, Data
    <2>4. hiccup' = FALSE => <<nextSession, 0>> \in drills'
      BY <1>3 DEF Shown
    <2>5. "drilling" \in States /\ "drilling" \notin TextFlows
      BY DEF States, TextFlows, ButtonFlows
    <2> HIDE DEF d
    <2>6. Enter("drilling", d, "nobody")
      BY <1>3 DEF d
    <2> QED BY <2>1, <2>2, <2>3, <2>4, <2>5, <2>6, EnterKeeps
  <1> QED BY <1>2, <1>3 DEF StartDrill

LEMMA AnswerDrillKeeps ==
    ASSUME IInv, NEW k \in drills, AnswerDrill(k)
    PROVE  IInv'
  <1>0. RestTypes /\ data \in Data /\ state = "drilling"
    BY TypesSplit DEF IInv, AnswerDrill
  <1>1. /\ UNCHANGED <<member, packs, places, nextPack, nextSession, warned, failed>>
        /\ notice' = FALSE
    BY DEF AnswerDrill, counters
  <1> PICK left \in Edited(drills, k) :
         \/ /\ data.index + 1 < Questions
            /\ Enter("drilling", [data EXCEPT !.index = @ + 1], "nobody")
            /\ drills' \in Shown(left, <<data.session, data.index + 1>>)
         \/ data.index + 1 >= Questions /\ Clear /\ drills' = left
         \/ CutShort(left # drills) /\ drills' = left /\ UNCHANGED fsm
    BY DEF AnswerDrill
  <1>L. left \subseteq (1 .. MaxSession) \X (0 .. Questions - 1)
    BY <1>0 DEF RestTypes, Edited
  <1>2. CASE Clear /\ drills' = left
    <2>1. RestTypes'
      BY <1>0, <1>1, <1>2, <1>L DEF RestTypes
    <2> QED BY <1>2, <2>1, ClearKeeps
  <1>4. CASE CutShort(left # drills) /\ drills' = left /\ UNCHANGED fsm
    <2>1. /\ UNCHANGED <<state, data, asked>> /\ hiccup' = (hiccup \/ left # drills)
          /\ RestTypes'
      BY <1>0, <1>1, <1>4, <1>L DEF RestTypes, CutShort, fsm
    <2>2. hiccup' \in BOOLEAN
      BY <2>1
    <2>3. TypeOK'
      BY <2>1, <2>2, TypesSplit DEF IInv, TypeOK, RestTypes
    <2>4. ArmedInTime' /\ AnswersCounted' /\ SessionBegun' /\ Route' = Route
          /\ Awaited' = Awaited
      BY <1>1, <2>1 DEF IInv, ArmedInTime, AnswersCounted, SessionBegun, Route, Awaited
    <2>5. CASE hiccup' = TRUE
      BY <2>3, <2>4, <2>5 DEF IInv
    <2>6. CASE hiccup' = FALSE
      <3>0. hiccup \in BOOLEAN
        BY TypesSplit DEF IInv
      <3>1. ~hiccup /\ left = drills
        BY <2>1, <2>6, Zenon
      <3>2. hiccup = FALSE /\ drills' = drills
        BY <1>4, <3>0, <3>1
      <3> QED BY <1>1, <2>1, <2>6, <3>2, StayKeeps DEF Stay, fsm, seen
    <2> QED BY <2>2, <2>5, <2>6
  <1>3. CASE /\ data.index + 1 < Questions
             /\ Enter("drilling", [data EXCEPT !.index = @ + 1], "nobody")
             /\ drills' \in Shown(left, <<data.session, data.index + 1>>)
    <2> DEFINE d == [data EXCEPT !.index = @ + 1]
    <2>1. /\ d \in Data /\ d.armed = data.armed /\ d.session = data.session
          /\ d.index = data.index + 1
      BY <1>0 DEF Data
    <2>2. hiccup' = FALSE => <<data.session, data.index + 1>> \in drills'
      BY <1>3 DEF Shown
    <2>3. data.session \in 1 .. MaxSession /\ data.index + 1 \in 0 .. Questions - 1
      BY <1>0, <1>3, ConversationAssumption DEF IInv, SessionBegun, Data
    <2>4. RestTypes'
      <3>1. drills' \subseteq (1 .. MaxSession) \X (0 .. Questions - 1)
        BY <1>L, <1>3, <2>3 DEF Shown
      <3> QED BY <1>0, <1>1, <3>1 DEF RestTypes
    <2>5. d.armed = "fresh" => warned' = TRUE
      BY <1>1, <2>1 DEF IInv, ArmedInTime
    <2>6. "drilling" \in States /\ "drilling" \notin TextFlows
      BY DEF States, TextFlows, ButtonFlows
    <2> HIDE DEF d
    <2>7. Enter("drilling", d, "nobody")
      BY <1>3 DEF d
    <2> QED BY <2>1, <2>2, <2>3, <2>4, <2>5, <2>6, <2>7, EnterKeeps
  <1> QED BY <1>2, <1>3, <1>4

LEMMA StartPlacementKeeps ==
    ASSUME IInv, NEW onboarding \in BOOLEAN, StartPlacement(onboarding)
    PROVE  IInv'
  <1> DEFINE d == [NoData EXCEPT !.onboarding = onboarding, !.session = nextSession]
  <1>1. /\ Enter("running", d, "running") /\ places' \in Shown(places, <<nextSession, 0>>)
        /\ nextSession <= MaxSession /\ nextSession' = nextSession + 1
        /\ failed' = 0 /\ notice' = FALSE
        /\ UNCHANGED <<member, packs, drills, nextPack, warned>>
    BY DEF StartPlacement
  <1>3. /\ nextSession \in 1 .. MaxSession /\ nextSession \in Nat
        /\ nextSession' \in 1 .. MaxSession + 1 /\ 0 \in 0 .. Questions - 1
    BY <1>1, TypesSplit, ConversationAssumption DEF IInv, RestTypes
  <1>2. /\ d \in Data /\ d.armed = "no" /\ d.feedback = FALSE
        /\ d.index = 0 /\ d.answers = 0 /\ d.session = nextSession
    BY <1>3 DEF NoData, Data
  <1>4. RestTypes'
    <2>1. places' \subseteq (1 .. MaxSession) \X (0 .. Questions - 1)
      BY <1>1, <1>3, TypesSplit DEF IInv, RestTypes, Shown
    <2> QED BY <1>1, <1>3, <2>1, TypesSplit DEF IInv, RestTypes
  <1>5. hiccup' = FALSE => <<nextSession, 0>> \in places'
    BY <1>1 DEF Shown
  <1>6. "running" \in States /\ "running" \in TextFlows
    BY DEF States, TextFlows
  <1>7. d.answers = d.index + failed' /\ (hiccup' = FALSE => <<d.session, d.index>> \in places')
    BY <1>1, <1>2, <1>5
  <1> HIDE DEF d
  <1> QED BY <1>1, <1>2, <1>3, <1>4, <1>6, <1>7, EnterKeeps

LEMMA AnswerPlacementKeeps ==
    ASSUME IInv, NEW k \in places, AnswerPlacement(k)
    PROVE  IInv'
  <1>0. RestTypes /\ data \in Data /\ state = "running"
    BY TypesSplit DEF IInv, AnswerPlacement
  <1>1. UNCHANGED <<member, packs, drills, nextPack, nextSession, warned>>
    BY DEF AnswerPlacement, counters
  <1> PICK left \in Edited(places, k) :
         \/ /\ data.index + 1 < Questions
            /\ Enter("running", [data EXCEPT !.answers = @ + 1, !.index = @ + 1], "running")
            /\ places' \in Shown(left, <<data.session, data.index + 1>>)
            /\ notice' = FALSE /\ UNCHANGED failed
         \/ /\ data.index + 1 >= Questions
            /\ EndPlacement
            /\ places' = left /\ UNCHANGED failed
         \/ NoteAnswerOnly(left)
    BY DEF AnswerPlacement
  <1>L. left \subseteq (1 .. MaxSession) \X (0 .. Questions - 1)
    BY <1>0 DEF RestTypes, Edited
  <1>2. CASE /\ data.index + 1 < Questions
             /\ Enter("running", [data EXCEPT !.answers = @ + 1, !.index = @ + 1], "running")
             /\ places' \in Shown(left, <<data.session, data.index + 1>>)
             /\ notice' = FALSE /\ UNCHANGED failed
    <2> DEFINE d == [data EXCEPT !.answers = @ + 1, !.index = @ + 1]
    <2>1. /\ d \in Data /\ d.armed = data.armed
          /\ d.index = data.index + 1 /\ d.answers = data.answers + 1
          /\ d.session = data.session
          /\ data.index \in Nat /\ data.answers \in Nat
      <3>1. data.index + 1 \in Nat /\ data.answers + 1 \in Nat
        BY <1>0 DEF Data
      <3>2. d = [data EXCEPT !.answers = data.answers + 1, !.index = data.index + 1]
        BY Zenon
      <3> HIDE DEF d
      <3> QED BY <1>0, <3>1, <3>2 DEF Data
    <2>2. data.index + 1 \in 0 .. Questions - 1 /\ data.session \in 1 .. MaxSession
      BY <1>0, <1>2, <2>1, ConversationAssumption DEF IInv, SessionBegun
    <2>3. RestTypes'
      <3>1. places' \subseteq (1 .. MaxSession) \X (0 .. Questions - 1)
        BY <1>L, <1>2, <2>2 DEF Shown
      <3> QED BY <1>0, <1>1, <1>2, <3>1 DEF RestTypes
    <2>4. hiccup' = FALSE => <<d.session, d.index>> \in places'
      BY <1>0, <1>2, <2>1 DEF Shown
    <2>5. d.armed = "fresh" => warned' = TRUE
      BY <1>1, <2>1 DEF IInv, ArmedInTime
    <2>6. d.answers = d.index + failed'
      <3>1. data.answers = data.index + failed /\ failed \in Nat
        BY <1>0 DEF IInv, AnswersCounted, RestTypes
      <3> QED BY <1>2, <2>1, <3>1
    <2>7. "running" \in States /\ "running" \in TextFlows
      BY DEF States, TextFlows
    <2>8. Enter("running", d, "running")
      BY <1>2
    <2> HIDE DEF d
    <2> QED BY <2>1, <2>2, <2>3, <2>4, <2>5, <2>6, <2>7, <2>8, EnterKeeps
  <1>3. CASE EndPlacement /\ places' = left /\ UNCHANGED failed
    <2>1. Clear /\ notice' \in BOOLEAN
      BY <1>3 DEF EndPlacement
    <2>2. RestTypes'
      BY <1>0, <1>1, <1>3, <1>L, <2>1 DEF RestTypes
    <2> QED BY <2>1, <2>2, ClearKeeps
  <1>4. CASE NoteAnswerOnly(left)
    <2>1. /\ data' = [data EXCEPT !.answers = data.answers + 1] /\ failed' = failed + 1
          /\ notice' = FALSE /\ UNCHANGED <<state, asked>> /\ places' = left
          /\ hiccup' = (hiccup \/ left # places)
      BY <1>4 DEF NoteAnswerOnly, CutShort
    <2>2. /\ data' \in Data /\ data'.answers = data.answers + 1
          /\ data'.index = data.index /\ data'.armed = data.armed
          /\ data'.feedback = data.feedback /\ data'.session = data.session
          /\ data.index \in Nat /\ data.answers \in Nat /\ failed \in Nat
      BY <1>0, <2>1 DEF Data, RestTypes
    <2>3. TypeOK'
      <3>1. failed' \in Nat /\ notice' \in BOOLEAN /\ places' = left
        <4>1. failed' = failed + 1 /\ failed \in Nat
          BY <2>1, <2>2
        <4>2. failed' \in Nat
          BY <4>1
        <4>3. notice' \in BOOLEAN /\ places' = left
          BY <2>1
        <4> QED BY <4>2, <4>3
      <3>2. RestTypes'
        BY <1>0, <1>1, <1>L, <3>1 DEF RestTypes
      <3>3. hiccup' \in BOOLEAN
        BY <2>1
      <3> QED BY <2>1, <2>2, <3>2, <3>3, TypesSplit DEF IInv, TypeOK, RestTypes
    <2>4. ArmedInTime'
      BY <1>1, <2>2 DEF IInv, ArmedInTime
    <2>5. AnswersCounted' /\ SessionBegun'
      BY <1>0, <2>1, <2>2 DEF IInv, AnswersCounted, SessionBegun
    <2>6. Route' = Route /\ Awaited' = Awaited
      BY <2>1, <2>2 DEF Route, Awaited
    <2>7. CASE hiccup' = TRUE
      BY <2>3, <2>4, <2>5, <2>7 DEF IInv
    <2>8. CASE hiccup' = FALSE
      <3>0. hiccup \in BOOLEAN
        BY TypesSplit DEF IInv
      <3>3. ~hiccup /\ left = places
        BY <2>1, <2>8, Zenon
      <3>1. hiccup = FALSE /\ places' = places
        BY <2>1, <3>0, <3>3
      <3>2. ButtonsSent'
        BY <1>0, <2>1, <2>2, <3>1 DEF IInv, ButtonsSent
      <3> QED BY <2>1, <2>3, <2>4, <2>5, <2>6, <3>1, <3>2 DEF IInv
    <2>9. hiccup' \in BOOLEAN
      BY <2>1
    <2> QED BY <2>7, <2>8, <2>9
  <1> QED BY <1>2, <1>3, <1>4

\* A new pack, asked for by command or by text
LEMMA GenerateKeeps ==
    ASSUME IInv, Generate, notice' = FALSE,
           UNCHANGED <<member, drills, places, nextSession, warned, failed>>
    PROVE  IInv'
  <1>0. RestTypes
    BY TypesSplit DEF IInv
  <1>1. CASE UNCHANGED <<packs, nextPack>> /\ (Stay \/ Clear)
    <2>1. RestTypes'
      BY <1>0, <1>1 DEF RestTypes
    <2> QED BY <1>1, <2>1, ClearKeeps, StayKeeps
  <1>2. CASE /\ nextPack <= MaxPack
             /\ nextPack' = nextPack + 1
             /\ \E sent \in BOOLEAN :
                   /\ Enter("selecting", [NoData EXCEPT !.pack = nextPack, !.selected = TRUE,
                                           !.bound = IF sent THEN nextPack ELSE 0], "nobody")
                   /\ hiccup' = ~sent
             /\ packs' \in Shown(packs, nextPack)
    <2>1. PICK b \in {0, nextPack} :
             /\ Enter("selecting", [NoData EXCEPT !.pack = nextPack, !.selected = TRUE,
                                     !.bound = b], "nobody")
             /\ hiccup' = FALSE => b = nextPack
      BY <1>2
    <2> DEFINE d == [NoData EXCEPT !.pack = nextPack, !.selected = TRUE, !.bound = b]
    <2>2. nextPack \in 1 .. MaxPack /\ nextPack \in Nat
      BY <1>0, <1>2, ConversationAssumption DEF RestTypes
    <2>3. /\ d \in Data /\ d.armed = "no" /\ d.feedback = FALSE /\ d.pack = nextPack
          /\ d.bound = b
      <3>1. b \in Nat
        BY <2>2
      <3> QED BY <2>2, <3>1 DEF NoData, Data
    <2>4. RestTypes'
      <3>1. packs' \subseteq 1 .. MaxPack
        BY <1>0, <1>2, <2>2 DEF RestTypes, Shown
      <3>2. nextPack' \in 1 .. MaxPack + 1
        BY <1>2, <2>2, ConversationAssumption
      <3> QED BY <1>0, <3>1, <3>2 DEF RestTypes
    <2>5. hiccup' = FALSE => nextPack \in packs'
      BY <1>2 DEF Shown
    <2>6. "selecting" \in States /\ "selecting" \notin TextFlows
      BY DEF States, TextFlows, ButtonFlows
    <2>7. Enter("selecting", d, "nobody")
      BY <2>1
    <2> HIDE DEF d
    <2> QED BY <2>1, <2>3, <2>4, <2>5, <2>6, <2>7, EnterKeeps
  <1> QED BY <1>1, <1>2 DEF Generate

LEMMA TopicCommandKeeps == ASSUME IInv, TopicCommand PROVE IInv'
  <1>1. /\ notice' = FALSE
        /\ UNCHANGED <<member, drills, places, nextSession, warned, failed>>
    BY DEF TopicCommand
  <1>2. CASE Enter("choosing", data, "choosing") /\ UNCHANGED <<packs, nextPack>>
    <2>1. RestTypes' /\ data \in Data
      BY <1>1, <1>2, TypesSplit DEF IInv, RestTypes
    <2>2. "choosing" \in States /\ "choosing" \in TextFlows
      BY DEF States, TextFlows
    <2>3. data.armed = "fresh" => warned' = TRUE
      BY <1>1 DEF IInv, ArmedInTime
    <2> QED BY <1>2, <2>1, <2>2, <2>3, EnterKeeps
  <1> QED BY <1>1, <1>2, GenerateKeeps DEF TopicCommand

LEMMA PressPackKeeps ==
    ASSUME IInv, NEW p \in packs, PressPack(p)
    PROVE  IInv'
  <1>0. /\ UNCHANGED <<member, drills, places, nextPack, nextSession, warned, failed>>
        /\ notice' = FALSE /\ RestTypes
    BY TypesSplit DEF IInv, PressPack, counters
  <1>2. CASE ClosePack(p)
    <2>1. Clear /\ packs' \subseteq packs
      BY <1>2 DEF ClosePack, Edited
    <2>2. RestTypes'
      BY <1>0, <2>1 DEF RestTypes
    <2> QED BY <2>1, <2>2, ClearKeeps
  <1>4. CASE (state # "selecting" \/ Stale(p)) /\ Stay /\ packs' \in Edited(packs, p)
    <2>1. UNCHANGED <<state, data, asked, hiccup>> /\ packs' \subseteq packs
      BY <1>4 DEF Stay, fsm, seen, Edited
    <2>2. RestTypes'
      BY <1>0, <2>1 DEF RestTypes
    <2>3. TypeOK'
      BY <2>1, <2>2, TypesSplit DEF IInv, TypeOK, RestTypes
    <2>4. /\ ArmedInTime' /\ AnswersCounted' /\ SessionBegun' /\ Route' = Route
          /\ Awaited' = Awaited
      BY <1>0, <2>1 DEF IInv, ArmedInTime, AnswersCounted, SessionBegun, Route, Awaited
    <2>5. ButtonsSent => ButtonsSent'
      BY <1>0, <1>4, <2>1 DEF ButtonsSent, Stale, Edited
    <2> QED BY <2>1, <2>3, <2>4, <2>5 DEF IInv
  <1>3. CASE state = "selecting" /\ TogglePack
    <2>0. RestTypes' /\ packs' = packs
      BY <1>0, <1>3 DEF TogglePack, RestTypes
    <2>1. PICK b \in BOOLEAN : data' = [data EXCEPT !.selected = b]
      BY <1>3, TypesSplit DEF IInv, TogglePack, Data
    <2>2. state = "selecting" /\ UNCHANGED <<state, asked, hiccup>>
      BY <1>3 DEF TogglePack, seen
    <2>3. data \in Data
      BY TypesSplit DEF IInv
    <2>4. /\ data' \in Data /\ data'.armed = data.armed /\ data'.pack = data.pack
          /\ data'.session = data.session
          /\ data'.bound = data.bound /\ data'.feedback = data.feedback
      BY <2>1, <2>3 DEF Data
    <2>5. TypeOK'
      BY <1>0, <2>0, <2>2, <2>4, TypesSplit DEF IInv, TypeOK, RestTypes
    <2>6. ArmedInTime' /\ AnswersCounted' /\ SessionBegun'
      BY <1>0, <2>0, <2>2, <2>4 DEF IInv, ArmedInTime, AnswersCounted, SessionBegun
    <2>7. Route' = Route /\ Awaited' = Awaited
      BY <2>2, <2>4 DEF Route, Awaited
    <2>8. hiccup' = TRUE \/ ButtonsSent'
      BY <1>0, <2>0, <2>2, <2>4 DEF IInv, ButtonsSent
    <2> QED BY <2>2, <2>5, <2>6, <2>7, <2>8 DEF IInv
  <1> QED BY <1>2, <1>3, <1>4 DEF PressPack

\* The keys that no flow's buttons or texts depend on, but for the one in question
LEMMA FeedbackKeeps == ASSUME IInv, FeedbackCommand PROVE IInv'
  <1>1. /\ RestTypes' /\ UNCHANGED <<packs, drills, places, warned, failed>>
    BY RestStays DEF FeedbackCommand
  <1>2. CASE Stay
    BY <1>1, <1>2, StayKeeps
  <1>3. CASE state = "none" /\ Enter(state, [data EXCEPT !.feedback = TRUE], "feedback")
    <2> DEFINE d == [data EXCEPT !.feedback = TRUE]
    <2>1. d \in Data /\ d.armed = data.armed /\ d.feedback = TRUE
      BY TypesSplit DEF IInv, Data
    <2>2. d.armed = "fresh" => warned' = TRUE
      BY <1>1, <2>1 DEF IInv, ArmedInTime
    <2>3. "none" \in States /\ "none" \notin TextFlows
      BY DEF States, TextFlows
    <2>4. Enter("none", d, "feedback")
      BY <1>3
    <2> HIDE DEF d
    <2> QED BY <1>1, <2>1, <2>2, <2>3, <2>4, EnterKeeps
  <1> QED BY <1>2, <1>3 DEF FeedbackCommand

LEMMA DeleteMeKeeps == ASSUME IInv, DeleteMeCommand PROVE IInv'
  <1> DEFINE d == [data EXCEPT !.armed = "fresh"]
  <1>1. /\ Enter("confirming", d, "confirming") /\ warned' = TRUE /\ notice' = FALSE
        /\ UNCHANGED <<member, packs, drills, places, nextPack, nextSession, failed>>
    BY DEF DeleteMeCommand, chat, counters
  <1>2. RestTypes' /\ d \in Data
    BY <1>1, TypesSplit DEF IInv, RestTypes, Data
  <1>3. "confirming" \in States /\ "confirming" \in TextFlows
    BY DEF States, TextFlows
  <1> HIDE DEF d
  <1> QED BY <1>1, <1>2, <1>3, EnterKeeps

LEMMA LapseKeeps == ASSUME IInv, Lapse PROVE IInv'
  <1>1. /\ warned' = FALSE /\ notice' = FALSE
        /\ UNCHANGED <<member, state, packs, drills, places, nextPack, nextSession, asked,
                       hiccup, failed>>
    BY DEF Lapse, chat, counters, seen
  <1>2. PICK a \in {"no", "lapsed"} : data' = [data EXCEPT !.armed = a]
    <2> DEFINE x == IF data.armed = "fresh" THEN "lapsed" ELSE data.armed
    <2>1. data' = [data EXCEPT !.armed = x]
      BY Zenon DEF Lapse
    <2>2. x \in {"no", "lapsed"}
      BY TypesSplit DEF IInv, Data
    <2> QED BY <2>1, <2>2
  <1>3. RestTypes' /\ data \in Data
    BY <1>1, TypesSplit DEF IInv, RestTypes
  <1>4. /\ data' \in Data /\ data'.armed = a /\ data'.pack = data.pack
        /\ data'.bound = data.bound /\ data'.feedback = data.feedback
        /\ data'.session = data.session /\ data'.index = data.index
        /\ data'.answers = data.answers
    BY <1>2, <1>3 DEF Data
  <1>5. TypeOK'
    BY <1>1, <1>3, <1>4, TypesSplit DEF IInv, TypeOK, RestTypes
  <1>6. ArmedInTime' /\ AnswersCounted' /\ SessionBegun' /\ Route' = Route
        /\ Awaited' = Awaited
    BY <1>1, <1>4 DEF IInv, ArmedInTime, AnswersCounted, SessionBegun, Route, Awaited
  <1>7. hiccup' = TRUE \/ ButtonsSent'
    BY <1>1, <1>4 DEF IInv, ButtonsSent
  <1> QED BY <1>1, <1>5, <1>6, <1>7 DEF IInv

LEMMA StopKeeps == ASSUME IInv, Stop PROVE IInv'
  <1>0. RestTypes
    BY TypesSplit DEF IInv
  <1>1. UNCHANGED <<member, packs, drills, places, nextPack, nextSession, warned, failed>>
    BY DEF Stop, chat, counters
  <1>2. CASE EndPlacement
    <2>1. Clear /\ RestTypes'
      BY <1>0, <1>1, <1>2 DEF EndPlacement, RestTypes
    <2> QED BY <2>1, ClearKeeps
  <1>3. CASE /\ state = "none" /\ asked' = "stopped" /\ UNCHANGED <<fsm, hiccup>>
             /\ notice' = FALSE
    <2>1. UNCHANGED <<state, data, hiccup>>
      BY <1>3 DEF fsm
    <2>2. TypeOK'
      BY <1>0, <1>1, <1>3, <2>1, TypesSplit DEF IInv, TypeOK, RestTypes
    <2>3. ArmedInTime' /\ AnswersCounted' /\ SessionBegun'
      BY <1>1, <2>1 DEF IInv, ArmedInTime, AnswersCounted, SessionBegun
    <2>4. hiccup' = TRUE \/ ButtonsSent'
      BY <1>1, <2>1 DEF IInv, ButtonsSent
    <2>5. Route' \in {"capture", "feedback"} /\ Awaited' = "capture"
      BY <1>3, <2>1 DEF Route, TextFlows, Awaited
    <2> QED BY <1>3, <2>2, <2>3, <2>4, <2>5 DEF IInv
  <1>4. CASE Enter("none", NoData, "stopped") /\ notice' = FALSE
    <2>1. /\ state' = "none" /\ data' = NoData /\ hiccup' \in BOOLEAN
          /\ (hiccup' = FALSE => asked' = "stopped") /\ asked' \in {asked, "stopped"}
      BY <1>4 DEF Enter
    <2>2. "none" \in States
      BY DEF States
    <2>3. TypeOK'
      BY <1>0, <1>1, <1>4, <2>1, <2>2, TypesSplit, NoDataTyped
         DEF IInv, TypeOK, RestTypes
    <2>4. ArmedInTime' /\ AnswersCounted' /\ SessionBegun' /\ ButtonsSent'
      BY <2>1, NoDataTyped DEF ArmedInTime, AnswersCounted, SessionBegun, ButtonsSent
    <2>5. Route' = "capture" /\ (hiccup' = FALSE => Awaited' = "capture")
      BY <2>1, NoDataTyped DEF Route, TextFlows, Awaited
    <2> QED BY <2>1, <2>3, <2>4, <2>5 DEF IInv
  <1> QED BY <1>2, <1>3, <1>4 DEF Stop

LEMMA TextKeeps == ASSUME IInv, Text PROVE IInv'
  <1>0. RestTypes /\ data \in Data
    BY TypesSplit DEF IInv
  <1>1. notice' = FALSE /\ UNCHANGED <<drills, places, nextSession, warned, failed>>
    BY DEF Text
  <1>2. ASSUME NEW word \in BOOLEAN, ConfirmDelete(word) PROVE IInv'
    <2>1. Clear /\ member' \in BOOLEAN /\ UNCHANGED <<packs, nextPack>>
      BY <1>2 DEF ConfirmDelete
    <2>2. RestTypes'
      BY <1>0, <1>1, <2>1 DEF RestTypes
    <2> QED BY <2>1, <2>2, ClearKeeps
  <1>3. CASE (Clear \/ Stay) /\ UNCHANGED <<member, packs, nextPack>>
    <2>1. RestTypes'
      BY <1>0, <1>1, <1>3 DEF RestTypes
    <2> QED BY <1>1, <1>3, <2>1, ClearKeeps, StayKeeps
  <1>4. CASE /\ Route = "feedback"
             /\ Enter(state, [data EXCEPT !.feedback = FALSE], "nobody")
             /\ UNCHANGED <<member, packs, nextPack>>
    <2> DEFINE d == [data EXCEPT !.feedback = FALSE]
    <2>1. RestTypes'
      BY <1>0, <1>1, <1>4 DEF RestTypes
    <2>2. d \in Data /\ d.armed = data.armed /\ d.feedback = FALSE
      BY <1>0 DEF Data
    <2>3. d.armed = "fresh" => warned' = TRUE
      BY <1>1, <2>2 DEF IInv, ArmedInTime
    <2>4. state = "none" /\ "none" \in States /\ "none" \notin TextFlows
      BY <1>4 DEF Route, States, TextFlows
    <2>5. Enter("none", d, "nobody")
      BY <1>4, <2>4
    <2> HIDE DEF d
    <2> QED BY <2>1, <2>2, <2>3, <2>4, <2>5, EnterKeeps
  <1>5. CASE Generate /\ UNCHANGED member
    BY <1>1, <1>5, GenerateKeeps
  <1> QED BY <1>2, <1>3, <1>4, <1>5 DEF Text

LEMMA RestartKeeps == ASSUME IInv, Restart PROVE IInv'
  <1>1. /\ state' = "none" /\ data' = NoData /\ hiccup' = TRUE /\ notice' = FALSE
        /\ UNCHANGED <<member, packs, drills, places, nextPack, nextSession, asked,
                       warned, failed>>
    BY DEF Restart, chat, counters
  <1>2. TypeOK'
    <2>1. RestTypes' /\ "none" \in States
      BY <1>1, TypesSplit DEF IInv, RestTypes, States
    <2> QED BY <1>1, <2>1, TypesSplit, NoDataTyped DEF IInv, TypeOK, RestTypes
  <1>3. ArmedInTime' /\ AnswersCounted' /\ SessionBegun'
    BY <1>1, NoDataTyped DEF ArmedInTime, AnswersCounted, SessionBegun
  <1> QED BY <1>1, <1>2, <1>3 DEF IInv

LEMMA InitIInv == Init => IInv
  <1> SUFFICES ASSUME Init PROVE IInv
    OBVIOUS
  <1>1. TypeOK
    <2>1. 1 \in 1 .. MaxPack + 1 /\ 1 \in 1 .. MaxSession + 1
      BY ConversationAssumption
    <2>2. /\ member \in BOOLEAN /\ hiccup \in BOOLEAN /\ warned \in BOOLEAN
          /\ notice \in BOOLEAN /\ failed \in Nat
      BY DEF Init
    <2> QED BY <2>1, <2>2, NoDataTyped DEF Init, TypeOK, States
  <1>2. ArmedInTime /\ AnswersCounted /\ SessionBegun /\ ButtonsSent
    BY NoDataTyped DEF Init, ArmedInTime, AnswersCounted, SessionBegun, ButtonsSent
  <1>3. Route = "capture" /\ Awaited = "capture"
    BY NoDataTyped DEF Init, Route, TextFlows, Awaited
  <1> QED BY <1>1, <1>2, <1>3 DEF IInv

LEMMA NextKeepsIInv == IInv /\ [Next]_vars => IInv'
  <1> SUFFICES ASSUME IInv, [Next]_vars PROVE IInv'
    OBVIOUS
  <1>1. CASE WriteCommand
    BY <1>1, StartWritingKeeps DEF WriteCommand
  <1>2. ASSUME RestUnchanged, Stay \/ Clear PROVE IInv'
    BY <1>2, RestStays, StayKeeps, ClearKeeps
  <1>3. CASE WritingPrompt
    BY <1>2, <1>3, StartWritingKeeps DEF WritingPrompt
  <1>4. CASE ChooseZone
    BY <1>2, <1>4 DEF ChooseZone
  <1>5. CASE Voice
    BY <1>2, <1>5 DEF Voice
  <1>6. CASE ChooseLevel
    <2>1. /\ notice' \in BOOLEAN /\ Stay
          /\ UNCHANGED <<member, packs, drills, places, nextPack, nextSession, warned, failed>>
      BY <1>6 DEF ChooseLevel, Stay, chat, counters
    <2>2. RestTypes'
      BY <2>1, TypesSplit DEF IInv, RestTypes
    <2> QED BY <2>1, <2>2, StayKeeps
  <1>7. CASE UNCHANGED vars
    <2>1. /\ Stay /\ UNCHANGED <<member, packs, drills, places, nextPack, nextSession,
                                  warned, failed, notice>>
      BY <1>7 DEF vars, Stay, fsm, seen
    <2>2. RestTypes'
      BY <2>1, TypesSplit DEF IInv, RestTypes
    <2> QED BY <2>1, <2>2, StayKeeps
  <1> QED BY <1>1, <1>3, <1>4, <1>5, <1>6, <1>7, PlainHandlersKeep, StartTalkKeeps,
             StartDrillKeeps, AnswerDrillKeeps, StartPlacementKeeps,
             AnswerPlacementKeeps, TopicCommandKeeps, PressPackKeeps, FeedbackKeeps,
             DeleteMeKeeps, LapseKeeps, StopKeeps, TextKeeps, RestartKeeps
          DEF Next

LEMMA Invariant == Spec => []IInv
  BY InitIInv, NextKeepsIInv, PTL DEF Spec

-----------------------------------------------------------------------------
\* Type correctness: states, data and keyboards keep their form.
THEOREM TypeCorrect == Spec => []TypeOK
  <1>1. IInv => TypeOK
    BY DEF IInv
  <1> QED BY <1>1, Invariant, PTL

\* A text goes to the flow that last asked for one, to the capture of a word exactly when
\* none did, or, after /stop, to a feedback flow left on; or a handler was cut short
\* (routers of __main__.py).
THEOREM TextReachesAsker == Spec => []TextGoesToAsker
  <1>1. IInv => TextGoesToAsker
    BY DEF IInv, TextGoesToAsker
  <1> QED BY <1>1, Invariant, PTL

\* A flow that waits for a button has its own in the chat, whatever keyboards the presses
\* took away (drill, placement, topic); or a handler was cut short.
THEOREM NoFlowIsDead == Spec => []NoDeadFlow
  <1>1. IInv => NoDeadFlow
    BY DEF IInv, ButtonsSent, NoDeadFlow
  <1> QED BY <1>1, Invariant, PTL

\* The placement test counts each question once, and once more for each press that was
\* noted and left the question open.
THEOREM TestCountsAnswers == Spec => []AnswersCounted
  <1>1. IInv => AnswersCounted
    BY DEF IInv
  <1> QED BY <1>1, Invariant, PTL

\* Keyboards of earlier packs leave the new pack alone once its own message is out
\* (topic._is_stale_pack).
THEOREM SupersededPacksInert == Spec => []OldPacksInert
  <1>1. IInv => OldPacksInert
    <2>1. IInv => 0 \notin packs
      BY TypesSplit DEF IInv, RestTypes
    <2> QED BY <2>1 DEF IInv, ButtonsSent, OldPacksInert, StalePackInert, Stale
  <1> QED BY <1>1, Invariant, PTL

\* An account goes only after /delete_me within the time to live, with the warning the
\* last thing that asked for a message (handle_delete_confirmation).
THEOREM DeletionIsDeliberate == Spec => DeleteOnlyConfirmed
  <1>1. IInv /\ [Next]_vars => [Deliberate]_vars
    <2> SUFFICES ASSUME IInv, [Next]_vars, member, ~member' PROVE Deliberate
      BY DEF Deliberate
    <2>1. Text
      BY DEF Next, vars, StartReview, FinishReview, StartDrill, StartTalk, WriteCommand,
             WritingPrompt, ChooseLevel, TopicCommand, SettingsCommand, EditSetting,
             ChooseZone, FeedbackCommand, DeleteMeCommand, Lapse, Stop, Voice, Restart,
             StartPlacement, AnswerDrill, AnswerPlacement, PressPack, RestUnchanged
    <2>2. PICK word \in BOOLEAN : ConfirmDelete(word)
      BY <2>1 DEF Text
    <2>3. Route = "confirming" /\ data.armed = "fresh"
      BY <2>2 DEF ConfirmDelete
    <2>4. state = "confirming"
      BY <2>3 DEF Route
    <2> QED BY <2>3, <2>4 DEF IInv, ArmedInTime, Deliberate, Awaited
  <1> QED BY <1>1, Invariant, PTL DEF Spec, DeleteOnlyConfirmed
=============================================================================
