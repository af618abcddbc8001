------------------------------- MODULE Alerts -------------------------------
(***************************************************************************)
(* bot/alerts.py: alerts to the owner, at most one of a kind per cool-     *)
(* down, and the memory of failed calls to the model.  A sender marks the  *)
(* kind before it awaits Telegram; meanwhile other coroutines run.         *)
(***************************************************************************)
EXTENDS Naturals, Sequences, FiniteSets

CONSTANTS Kinds,      \* "llm", "starter-db", "handler:<exception>", "backup"
          Senders,    \* coroutines that may alert
          Cooldown,   \* ALERT_COOLDOWN
          Window,     \* LLM_FAILURE_WINDOW
          Threshold,  \* LLM_FAILURE_THRESHOLD
          MaxKept,    \* maxlen of the deque
          MaxTime     \* bound on the clock

ASSUME AlertsAssumption ==
    /\ "llm" \in Kinds
    /\ Cooldown \in Nat \ {0} /\ Window \in Nat /\ MaxTime \in Nat
    /\ Threshold \in Nat \ {0} /\ MaxKept \in Nat /\ MaxKept >= Threshold

VARIABLES now,       \* datetime.now(UTC)
          lastSent,  \* _last_sent; 0 stands for a kind that is missing
          failures,  \* _llm_failures
          sending,   \* the await a sender is in
          \* history
          begun,     \* when the latest message of a kind was handed to Telegram
          told,      \* since then an "llm" message has reached the owner
          lost,      \* since then an "llm" message was given up
          recorded   \* the last Threshold calls of record_llm_failure

fate   == <<begun, told, lost>>
alerts == <<now, lastSent, failures, sending, begun, told, lost, recorded>>

Idle    == [form |-> "none"]
Message == [form : {"html", "plain"}, kind : Kinds]

AlertsInit ==
    /\ now = 1
    /\ lastSent = [k \in Kinds |-> 0] /\ begun = [k \in Kinds |-> 0]
    /\ failures = <<>> /\ recorded = <<>>
    /\ sending = [s \in Senders |-> Idle]
    /\ told = FALSE /\ lost = FALSE

\* The last n entries of s.
Latest(s, n) == IF Len(s) <= n THEN s ELSE SubSeq(s, Len(s) - n + 1, Len(s))

Muted(k) == lastSent[k] # 0 /\ now - lastSent[k] < Cooldown

\* bot.send_message is awaited
Deliver(s, k) ==
    /\ sending' = [sending EXCEPT ![s] = [form |-> "html", kind |-> k]]
    /\ begun' = [begun EXCEPT ![k] = now]
    /\ told' = (told /\ k # "llm") /\ lost' = (lost /\ k # "llm")

\* Variant of Send: the kind is marked only once the message is accepted.
SendUnmarked(s, k) ==
    IF Muted(k) THEN UNCHANGED <<lastSent, sending, fate>>
    ELSE Deliver(s, k) /\ UNCHANGED lastSent

\* AdminAlerter.send up to its first await
Send(s, k) ==
    IF Muted(k) THEN UNCHANGED <<lastSent, sending, fate>>
    ELSE Deliver(s, k) /\ lastSent' = [lastSent EXCEPT ![k] = now]

\* Variant of RecordLlmFailure: the threshold must be exceeded.
RecordLlmFailureLate(s) ==
    LET kept   == Latest(Append(failures, now), MaxKept)
        recent == {i \in DOMAIN kept : now - kept[i] <= Window}
    IN  /\ recorded' = Latest(Append(recorded, now), Threshold)
        /\ IF Cardinality(recent) > Threshold
           THEN failures' = <<>> /\ Send(s, "llm")
           ELSE failures' = kept /\ UNCHANGED <<lastSent, sending, fate>>

\* record_llm_failure up to its first await
RecordLlmFailure(s) ==
    LET kept   == Latest(Append(failures, now), MaxKept)
        recent == {i \in DOMAIN kept : now - kept[i] <= Window}
    IN  /\ recorded' = Latest(Append(recorded, now), Threshold)
        /\ IF Cardinality(recent) >= Threshold
           THEN failures' = <<>> /\ Send(s, "llm")
           ELSE failures' = kept /\ UNCHANGED <<lastSent, sending, fate>>

\* The first message raises: once more, as plain text.
SendPlain(s) ==
    /\ sending[s].form = "html"
    /\ sending' = [sending EXCEPT ![s].form = "plain"]
    /\ UNCHANGED <<now, lastSent, failures, fate, recorded>>

\* s is sending a message about the model.
Underway(s) == sending[s].form # "none" /\ sending[s].kind = "llm"

\* Telegram accepts the message.
SendAccepted(s) ==
    /\ sending[s].form # "none" /\ sending' = [sending EXCEPT ![s] = Idle]
    /\ told' = (told \/ Underway(s))
    /\ UNCHANGED <<now, lastSent, failures, begun, lost, recorded>>

\* No further attempt is made; the kind stays marked.
GiveUp(s) ==
    /\ sending' = [sending EXCEPT ![s] = Idle]
    /\ lost' = (lost \/ Underway(s))
    /\ UNCHANGED <<begun, told>>

\* The plain message raises too.
SendRefused(s) ==
    /\ sending[s].form = "plain" /\ GiveUp(s)
    /\ UNCHANGED <<now, lastSent, failures, recorded>>

AlertsTick ==
    /\ now < MaxTime
    /\ now' = now + 1
    /\ UNCHANGED <<lastSent, failures, sending, fate, recorded>>

AlertsTypeOK ==
    /\ now \in Nat \ {0}
    /\ lastSent \in [Kinds -> Nat] /\ begun \in [Kinds -> Nat]
    /\ told \in BOOLEAN /\ lost \in BOOLEAN
    /\ failures \in Seq(Nat) /\ Len(failures) <= MaxKept
    /\ recorded \in Seq(Nat) /\ Len(recorded) <= Threshold
    /\ sending \in [Senders -> {Idle} \cup Message]

\* Sender s hands a message of kind k to Telegram in this step.
Begins(s, k) == sending'[s] = [form |-> "html", kind |-> k] /\ sending[s] # sending'[s]

\* "Never send the same alert more than once per window": however many coroutines
\* fail while others are still waiting for Telegram, messages of one kind are handed
\* over a cool-down apart.
OneAlertPerWindow ==
    [][\A s \in Senders, k \in Kinds :
          Begins(s, k) => begun[k] = 0 \/ now - begun[k] >= Cooldown]_alerts

\* When Threshold calls have failed within the window, the owner has been told of it, is
\* being told, or was told less than a cool-down before -- also when the failures come
\* from many people, straddle an alert, or outnumber what the deque keeps.  The exception
\* is a message given up, in `lost`: Telegram refused both its forms, or the timeout of a
\* starter deck cancelled it.  Nobody tells the owner then, and the kind stays muted for
\* the cool-down, which is all that holds of it.
BulkFailuresReported ==
    Len(recorded) = Threshold /\ recorded[Threshold] - recorded[1] <= Window
        => /\ begun["llm"] # 0 /\ begun["llm"] + Cooldown > recorded[1]
           /\ told \/ lost \/ \E s \in Senders : Underway(s)
=============================================================================
