------------------------------ MODULE Reminders ------------------------------
(***************************************************************************)
(* jobs/reminders.py: one tick a minute compares every participant's wall  *)
(* clock with the times in their settings and starts the deliveries, which *)
(* run detached from it.  Clocks jump, ticks are missed or fail, the       *)
(* process restarts, participants move, change their times, leave and come *)
(* back while deliveries are on their way.                                 *)
(*                                                                         *)
(* A wall clock is a number of minutes: x \div Day is its date and x % Day *)
(* its HH:MM.                                                              *)
(***************************************************************************)
EXTENDS Integers, FiniteSets

CONSTANTS Users, Zones,
          Kinds,        \* the messages: "reminder", "writing"
          Offset,       \* offset of each zone, without summer time
          Jump,         \* minutes the clock moves forward in spring
          Day,          \* minutes of a day
          MaxGap,       \* the three hours of _minutes_skipped
          Times,        \* the times of day participants choose
          MaxTime,      \* bound on the clock
          MaxChanges,   \* bound on changes of settings and clocks, leaves, missed
                        \* and failed ticks
          MaxLate,      \* bound on the deliveries that outlive their minute
          MaxRestarts   \* bound on restarts

ASSUME RemindersAssumption ==
    /\ Kinds \subseteq {"reminder", "writing"}
    /\ Offset \in [Zones -> Nat] /\ Jump \in Nat
    /\ Day \in Nat \ {0} /\ MaxGap \in 0 .. Day - 1
    /\ Times \subseteq 0 .. Day - 1
    \* "widest possible spread is ~26 hours": no two wall clocks are two days apart
    /\ \A y, z \in Zones : Offset[y] + Jump <= Offset[z] + 2 * Day
    /\ MaxTime \in Nat /\ MaxChanges \in Nat
    /\ MaxLate \in Nat /\ MaxRestarts \in Nat

VARIABLES now,        \* minutes since the beginning, UTC
          summer,     \* zones on summer time
          members,    \* rows of "users"
          zone, at,   \* their settings: the zone, and the time of each kind
          rows,       \* participants with a row in "writings"
          fresh,      \* no tick ran in this minute yet
          ticked,     \* _last_local is not None
          last,       \* _last_local, read in every zone
          sent,       \* _sent_today
          tasks,      \* _in_flight: <<user, kind, date>>
          changes, restarts,
          \* history
          fired,      \* every <<user, kind, date>> a tick has dispatched
          again,      \* those it dispatched more than once
          forgotten,  \* those a restart made it forget
          since,      \* the first date each participant can rely on
          cut,        \* <<user, date>>: the clock was not ticked up to the date's end
          racing      \* who left while a writing prompt was on its way

settings == <<zone, at>>
clock    == <<now, summer>>
memory   == <<ticked, last, sent>>
history  == <<fired, again, forgotten, cut>>
vars     == <<now, summer, members, zone, at, rows, fresh, ticked, last, sent, tasks,
              changes, restarts, fired, again, forgotten, since, cut, racing>>

Keys  == Users \X Kinds \X Nat

Local(z)  == now + Offset[z] + (IF z \in summer THEN Jump ELSE 0)
Date(x)   == x \div Day
Today(u)  == Date(Local(zone[u]))

Init ==
    /\ now = 0 /\ summer \in SUBSET Zones
    /\ members = Users
    /\ zone \in [Users -> Zones] /\ at \in [Users -> [Kinds -> Times]]
    /\ rows = {} /\ fresh = TRUE
    /\ ticked = FALSE /\ last = [z \in Zones |-> 0]
    /\ sent = {} /\ tasks = {} /\ changes = 0 /\ restarts = 0
    /\ fired = {} /\ again = {} /\ forgotten = {} /\ cut = {} /\ racing = {}
    /\ since = [u \in Users |-> Today(u) + 1]

-----------------------------------------------------------------------------
Gap(z) == Local(z) - last[z]

Change == changes < MaxChanges /\ changes' = changes + 1

\* Variant of MinutesSkipped: minutes that never happened are nobody's time.
NothingSkipped(z) == {}

\* _minutes_skipped: the wall clock minutes between two ticks; an ordinary tick or a
\* clock set back skips none, and a longer gap is an outage.
MinutesSkipped(z) ==
    IF ticked /\ Gap(z) \in 2 .. MaxGap
    THEN {(last[z] + i) % Day : i \in 1 .. Gap(z) - 1}
    ELSE {}

\* Whose time has come, and the local date it counts for.
Matching == {<<u, k, Today(u)>> : u \in members, k \in Kinds}
Due == {key \in Matching \ sent :
           at[key[1]][key[2]] \in
               {Local(zone[key[1]]) % Day} \cup MinutesSkipped(zone[key[1]])}

\* Variant of Recent: only the newest date is kept.
RecentToday(keys) == {key \in keys : \A other \in keys : key[3] >= other[3]}

\* _mark_sent: entries more than two days older than the newest are dropped.
Recent(keys) == {key \in keys : \A other \in keys : key[3] >= other[3] - 2}

\* The first date still to come, whole, on the clock of a zone: one just set back may be
\* before a midnight that the last tick has seen.
NextDate(z) == (IF ticked /\ Date(last[z]) > Date(Local(z)) THEN Date(last[z])
                ELSE Date(Local(z))) + 1

\* The first date u can rely on after this tick: an outage costs the whole day, as does
\* the time before the first tick.
Reliable(u) == IF ~ticked \/ Gap(zone[u]) > MaxGap THEN Today(u) + 1 ELSE since[u]

\* Yesterday's last minutes were jumped over or missed, and the tick is past midnight.
CutShort(u) == /\ ticked /\ Gap(zone[u]) \in 2 .. MaxGap
               /\ Date(last[zone[u]] + 1) < Today(u)

\* minute_tick.  What commits between its read and the dispatch is as if it came after:
\* the one touches only the database, the other only the process.
MinuteTick ==
    /\ fresh /\ fresh' = FALSE
    /\ ticked' = TRUE /\ last' = [z \in Zones |-> Local(z)]
    /\ sent' = IF Due = {} THEN sent ELSE Recent(sent \cup Due)
    /\ tasks' = tasks \cup Due
    /\ fired' = fired \cup Due
    /\ again' = again \cup (Due \cap fired)
    /\ since' = [u \in Users |-> Reliable(u)]
    /\ cut' = cut \cup {<<u, Date(last[zone[u]])>> : u \in {v \in Users : CutShort(v)}}
    /\ UNCHANGED <<clock, members, settings, rows, changes, restarts, forgotten, racing>>

\* minute_tick when reading the participants fails: _last_local has moved already, so
\* what was due in this minute is not made up for.
TickFails ==
    /\ Change
    /\ fresh /\ fresh' = FALSE
    /\ ticked' = TRUE /\ last' = [z \in Zones |-> Local(z)]
    /\ since' = [u \in Users |-> Today(u) + 1]
    /\ UNCHANGED <<clock, members, settings, rows, sent, tasks, restarts, history, racing>>

-----------------------------------------------------------------------------
\* send_writing_prompt stores a row before it sends, for whoever the tick read, when
\* nothing else occupies them.
PromptRow(u) == {rows, rows \cup {u}}

\* _deliver: a reminder leaves nothing behind; failures and timeouts are swallowed.
Deliver(t) ==
    /\ tasks' = tasks \ {t}
    /\ rows' \in IF t[2] = "writing" THEN PromptRow(t[1]) ELSE {rows}
    /\ UNCHANGED <<clock, members, settings, fresh, memory, changes, restarts,
                   history, since, racing>>

-----------------------------------------------------------------------------
\* A minute passes, its tick perhaps missed; in one zone the clock may be changed.
\* Deliveries may be on their way still: DELIVERY_TIMEOUT starts after their stagger.
\* Clocks go forward at any time, over midnight too (America/Scoresbysund, America/Nuuk).
Minute ==
    /\ now < MaxTime /\ Cardinality(tasks) <= MaxLate
    /\ now' = now + 1 /\ fresh' = TRUE
    /\ \/ ~fresh /\ UNCHANGED <<summer, changes>>
       \/ fresh /\ Change /\ UNCHANGED summer
       \/ /\ ~fresh /\ Change
          /\ \E z \in Zones : \/ z \notin summer /\ summer' = summer \cup {z}
                              \/ z \in summer /\ summer' = summer \ {z}
    /\ UNCHANGED <<members, settings, rows, memory, tasks, restarts, history, since, racing>>

\* Variant of SetUserSetting: the time is stored as typed.
SetUserSettingRaw(u) ==
    /\ Change /\ u \in members
    /\ \E k \in Kinds, t \in Times \cup {Day} : at' = [at EXCEPT ![u][k] = t]
    /\ since' = [since EXCEPT ![u] = NextDate(zone[u])]
    /\ UNCHANGED <<zone, clock, members, rows, fresh, memory, tasks, restarts, history,
                   racing>>

\* set_user_setting: TZ, REMINDER_TIME or WRITING_TIME
SetUserSetting(u) ==
    /\ Change /\ u \in members
    /\ \/ /\ \E z \in Zones : zone' = [zone EXCEPT ![u] = z]
          /\ UNCHANGED at
       \/ /\ \E k \in Kinds, t \in Times : at' = [at EXCEPT ![u][k] = t]
          /\ UNCHANGED zone
    /\ since' = [since EXCEPT ![u] = NextDate(zone'[u])]
    /\ UNCHANGED <<clock, members, rows, fresh, memory, tasks, restarts, history, racing>>

\* Variant of DeleteUserData: the writings stay.
DeleteUserDataPartly(u) ==
    /\ Change /\ u \in members
    /\ members' = members \ {u}
    /\ racing' = IF \E t \in tasks : t[1] = u /\ t[2] = "writing"
                 THEN racing \cup {u} ELSE racing \ {u}
    /\ UNCHANGED <<clock, settings, rows, fresh, memory, tasks, restarts, history, since>>

\* delete_user_data
DeleteUserData(u) ==
    /\ Change /\ u \in members
    /\ members' = members \ {u} /\ rows' = rows \ {u}
    /\ racing' = IF \E t \in tasks : t[1] = u /\ t[2] = "writing"
                 THEN racing \cup {u} ELSE racing \ {u}
    /\ UNCHANGED <<clock, settings, fresh, memory, tasks, restarts, history, since>>

\* create_user, with the settings of the environment or of later choice
CreateUser(u) ==
    /\ u \notin members /\ members' = members \cup {u}
    /\ since' = [since EXCEPT ![u] = NextDate(zone[u])]
    /\ UNCHANGED <<clock, settings, rows, fresh, memory, tasks, changes, restarts, history,
                   racing>>

\* The process dies and comes back: the module's globals and tasks are gone, and the
\* next tick is that of the next minute.
Restart ==
    /\ restarts < MaxRestarts /\ restarts' = restarts + 1
    /\ fresh' = FALSE
    /\ ticked' = FALSE /\ last' = [z \in Zones |-> 0]
    /\ sent' = {} /\ tasks' = {}
    /\ forgotten' = fired
    /\ since' = [u \in Users |-> Today(u) + 1]
    /\ UNCHANGED <<clock, members, settings, rows, changes, fired, again, cut, racing>>

Next ==
    \/ MinuteTick \/ TickFails \/ Minute \/ Restart
    \/ \E t \in tasks : Deliver(t)
    \/ \E u \in Users : SetUserSetting(u) \/ DeleteUserData(u) \/ CreateUser(u)

Spec == Init /\ [][Next]_vars

-----------------------------------------------------------------------------
TypeOK ==
    /\ now \in Nat /\ summer \subseteq Zones
    /\ members \subseteq Users
    /\ zone \in [Users -> Zones] /\ at \in [Users -> [Kinds -> Times]]
    /\ rows \subseteq Users
    /\ fresh \in BOOLEAN /\ ticked \in BOOLEAN /\ last \in [Zones -> Nat]
    /\ sent \subseteq Keys /\ tasks \subseteq Keys
    /\ changes \in Nat /\ restarts \in Nat
    /\ fired \subseteq Keys /\ again \subseteq Keys /\ forgotten \subseteq Keys
    /\ since \in [Users -> Nat] /\ cut \subseteq Users \X Nat /\ racing \subseteq Users

\* "False when this user already got this message on their own local day": nobody gets
\* a message twice on one date, whatever jumps, moves and changes of settings make the
\* time match again, and whoever lives on another date -- but for what a restart forgot.
OncePerDay == again \subseteq forgotten

\* minute_tick: "treat every minute the clock jumped over as also due now".  Every whole
\* date a participant spent under one setting, with no restart, outage or failed tick, has
\* its message, even if their time of day was jumped over or its tick was missed -- but
\* when the minutes left out are the last of a date, their message comes after midnight
\* and is the next date's: that one then has no other.
EveryDayServed ==
    ticked => \A u \in members, k \in Kinds :
                  \A d \in since[u] .. Date(last[zone[u]]) - 1 :
                      \/ <<u, k, d>> \in fired
                      \/ <<u, d>> \in cut /\ <<u, k, d + 1>> \in fired

\* delete_user_data: withdrawing "must actually remove the data", but for a writing
\* prompt that was on its way.
ErasedUnlessRacing == rows \subseteq members \cup racing

=============================================================================
