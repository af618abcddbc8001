-------------------------------- MODULE Llm --------------------------------
(***************************************************************************)
(* llm/client.py, complete_json: the ladder of transport retries, and one  *)
(* more climb when the answer does not validate.  The pauses between two   *)
(* attempts are part of the step to the next attempt.                      *)
(***************************************************************************)
EXTENDS Naturals

CONSTANTS Calls,     \* calls that may be under way
          Attempts   \* len(backoff) + 1

VARIABLE call        \* where each call stands

Off     == [at |-> "off"]
Done    == [at |-> "done"]
Failed  == [at |-> "failed"]
Asking(try, second) == [at |-> "asking", try |-> try, second |-> second]
CallStates == {Off, Done, Failed} \cup {Asking(t, b) : t \in 1 .. Attempts, b \in BOOLEAN}

LlmInit == call = [c \in Calls |-> Off]

InFlight(c) == call[c].at = "asking"
Ended(c)    == call[c].at \in {"done", "failed"}
Becomes(c, s) == call' = [call EXCEPT ![c] = s]

\* a response whose JSON validates
Answered(c) == InFlight(c) /\ Becomes(c, Done)

\* _parse raises: the error goes into a second prompt, once
Invalid(c) ==
    /\ InFlight(c)
    /\ Becomes(c, IF call[c].second THEN Failed ELSE Asking(1, TRUE))

\* Variant of Unavailable: the ladder has one rung too many.
UnavailableLong(c) ==
    /\ InFlight(c)
    /\ Becomes(c, IF call[c].try <= Attempts THEN Asking(call[c].try + 1, call[c].second)
                                             ELSE Failed)

\* Variant of Unavailable: retried until the service is back.
UnavailableForever(c) ==
    /\ InFlight(c)
    /\ Becomes(c, Asking(IF call[c].try < Attempts THEN call[c].try + 1 ELSE 1,
                         call[c].second))

\* status 429 or 5xx, or a connection error
Unavailable(c) ==
    /\ InFlight(c)
    /\ Becomes(c, IF call[c].try < Attempts THEN Asking(call[c].try + 1, call[c].second)
                                            ELSE Failed)

\* any other status, or an answer cut at the token ceiling: no further attempt
Refused(c) == InFlight(c) /\ Becomes(c, Failed)

LlmStep(c) == Answered(c) \/ Invalid(c) \/ Unavailable(c) \/ Refused(c)
LlmTypeOK == call \in [Calls -> CallStates]
=============================================================================
