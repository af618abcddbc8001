--------------------------- MODULE RemindersProofs ---------------------------
(***************************************************************************)
(* Theorems about Reminders for every set of participants, zones, offsets  *)
(* and times of day: nobody gets a message twice on one date, and nothing  *)
(* of an account that is gone comes back, but in the cases named there.    *)
(***************************************************************************)
EXTENDS Reminders, TLAPS

-----------------------------------------------------------------------------
\* Dates.

LEMMA DateMonotone ==
    ASSUME NEW x \in Nat, NEW y \in Nat, x <= y
    PROVE  Date(x) \in Nat /\ Date(x) <= Date(y)
  <1>1. \A d \in Nat \ {0} : x \div d \in Nat /\ x \div d <= y \div d
    BY SMT
  <1> QED BY <1>1, RemindersAssumption DEF Date

LEMMA DateTwoDays ==
    ASSUME NEW x \in Nat, NEW y \in Nat, y <= x + 2 * Day
    PROVE  Date(y) <= Date(x) + 2
  <1>1. \A d \in Nat \ {0} : y <= x + 2 * d => y \div d <= x \div d + 2
    BY SMT
  <1> QED BY <1>1, RemindersAssumption DEF Date

\* The wall clock of a zone at its latest, on summer time.
Latest(z) == now + Offset[z] + Jump

\* Some participant may be past d by now.
Reached(d) == \E z \in Zones : d <= Date(Latest(z))

\* Some wall clock is more than two dates past d: nobody can be on d.
Aged(d) == \E z \in Zones : d + 2 < Date(Latest(z))

LEMMA LocalType ==
    ASSUME TypeOK, NEW z \in Zones
    PROVE  Local(z) \in Nat /\ Latest(z) \in Nat /\ Local(z) <= Latest(z)
  BY RemindersAssumption DEF TypeOK, Local, Latest

LEMMA TodayType ==
    ASSUME TypeOK, NEW u \in Users
    PROVE  Today(u) \in Nat /\ zone[u] \in Zones
  <1>1. zone[u] \in Zones
    BY DEF TypeOK
  <1> QED BY <1>1, LocalType, DateMonotone DEF Today

\* No wall clock is on a date that has aged.
LEMMA NobodyOnAged ==
    ASSUME TypeOK, NEW u \in Users
    PROVE  ~Aged(Today(u))
  <1>1. zone[u] \in Zones /\ Today(u) = Date(Local(zone[u]))
    BY TodayType DEF Today
  <1>2. ASSUME NEW z \in Zones PROVE Date(Latest(z)) <= Today(u) + 2
    <2>1. Offset[z] + Jump <= Offset[zone[u]] + 2 * Day
      BY <1>1, RemindersAssumption
    <2>2. Latest(z) <= Local(zone[u]) + 2 * Day
      BY <1>1, <2>1, RemindersAssumption DEF Latest, Local, TypeOK
    <2> QED BY <1>1, <2>2, LocalType, DateTwoDays
  <1>3. \A z \in Zones : Date(Latest(z)) \in Nat
    BY LocalType, DateMonotone
  <1> QED BY <1>2, <1>3, TodayType DEF Aged

\* Time only brings dates nearer: what is reached or aged stays so.
LEMMA TimePasses ==
    ASSUME TypeOK, now' \in Nat, now <= now', NEW d \in Nat
    PROVE  (Reached(d) => Reached(d)') /\ (Aged(d) => Aged(d)')
  <1>1. \A z \in Zones : /\ Latest(z) \in Nat /\ Latest(z)' \in Nat
                         /\ Latest(z) <= Latest(z)'
    BY RemindersAssumption DEF Latest, TypeOK
  <1>2. \A z \in Zones : /\ Date(Latest(z)) \in Nat /\ Date(Latest(z)') \in Nat
                         /\ Date(Latest(z)) <= Date(Latest(z)')
    BY <1>1, DateMonotone
  <1> QED BY <1>2 DEF Reached, Aged, Date

-----------------------------------------------------------------------------
\* Types.

LEMMA DueType ==
    ASSUME TypeOK
    PROVE  /\ Due \subseteq Keys
           /\ \A key \in Due : key[1] \in members /\ key[3] = Today(key[1]) /\ key \notin sent
  BY TodayType DEF Due, Matching, Keys, TypeOK

\* Every participant's first reliable date is a date.
LEMMA ReliableType ==
    ASSUME TypeOK, NEW u \in Users
    PROVE  Reliable(u) \in Nat
  BY TodayType DEF Reliable, TypeOK

LEMMA NextDateType ==
    ASSUME TypeOK, NEW z \in Zones
    PROVE  NextDate(z) \in Nat
  <1>1. Date(Local(z)) \in Nat
    BY LocalType, DateMonotone
  <1>2. last[z] \in Nat
    BY DEF TypeOK
  <1>3. Date(last[z]) \in Nat
    BY <1>2, DateMonotone
  <1> QED BY <1>1, <1>3 DEF NextDate

LEMMA TypeInit == Init => TypeOK
  <1> SUFFICES ASSUME Init PROVE TypeOK
    OBVIOUS
  <1>1. \A z \in Zones : Local(z) \in Nat /\ Date(Local(z)) \in Nat
    <2> TAKE z \in Zones
    <2>1. Local(z) \in Nat
      BY RemindersAssumption DEF Init, Local
    <2> QED BY <2>1, DateMonotone
  <1>2. \A u \in Users : Today(u) + 1 \in Nat
    BY <1>1 DEF Today, Init
  <1> QED BY <1>2 DEF Init, TypeOK

LEMMA TypeStep ==
    ASSUME TypeOK, [Next]_vars
    PROVE  TypeOK'
  <1> USE DEF TypeOK
  <1>0. \A u \in Users : Today(u) + 1 \in Nat
    BY TodayType
  <1>a. \A z \in Zones : Local(z) \in Nat
    BY LocalType
  <1>1. CASE MinuteTick
    <2>1. sent' \subseteq sent \cup Due /\ tasks' = tasks \cup Due
      BY <1>1 DEF MinuteTick, Recent
    <2>2. \A u \in Users : Reliable(u) \in Nat
      BY ReliableType
    <2>3. cut' \subseteq Users \X Nat
      <3>1. \A u \in Users : Date(last[zone[u]]) \in Nat
        <4> TAKE u \in Users
        <4>1. last[zone[u]] \in Nat
          OBVIOUS
        <4> QED BY <4>1, DateMonotone
      <3> QED BY <1>1, <3>1 DEF MinuteTick
    <2> QED BY <1>1, <1>a, <2>1, <2>2, <2>3, DueType DEF MinuteTick, clock, settings
  <1>2. CASE TickFails
    <2>1. fresh' \in BOOLEAN /\ ticked' \in BOOLEAN
      BY <1>2, Zenon DEF TickFails
    <2>2. last' \in [Zones -> Nat] /\ since' \in [Users -> Nat] /\ changes' \in Nat
      BY <1>2, <1>0, <1>a DEF TickFails, Change
    <2> QED BY <1>2, <2>1, <2>2 DEF TickFails, clock, settings, history
  <1>3. CASE Minute
    BY <1>3 DEF Minute, Change, settings, memory, history
  <1>4. CASE Restart
    <2>1. fresh' \in BOOLEAN /\ ticked' \in BOOLEAN
      BY <1>4, Zenon DEF Restart
    <2>2. last' \in [Zones -> Nat] /\ since' \in [Users -> Nat] /\ restarts' \in Nat
      BY <1>4, <1>0 DEF Restart
    <2> QED BY <1>4, <2>1, <2>2 DEF Restart, clock, settings
  <1>5. ASSUME NEW t \in tasks, Deliver(t) PROVE TypeOK'
    <2>1. t[1] \in Users
      BY DEF Keys
    <2> QED BY <1>5, <2>1 DEF Deliver, PromptRow, clock, settings, memory, history
  <1>6. ASSUME NEW u \in Users, SetUserSetting(u) PROVE TypeOK'
    <2>1. zone' \in [Users -> Zones] /\ at' \in [Users -> [Kinds -> Times]]
      <3>1. CASE \E z \in Zones : zone' = [zone EXCEPT ![u] = z] /\ UNCHANGED at
        BY <3>1
      <3>2. CASE \E k \in Kinds, t \in Times : /\ at' = [at EXCEPT ![u][k] = t]
                                               /\ UNCHANGED zone
        BY <3>2
      <3> QED BY <1>6, <3>1, <3>2 DEF SetUserSetting
    <2>2. NextDate(zone'[u]) \in Nat
      BY <2>1, NextDateType
    <2> QED BY <1>6, <2>1, <2>2 DEF SetUserSetting, Change, clock, memory, history
  <1>7. ASSUME NEW u \in Users, DeleteUserData(u) PROVE TypeOK'
    BY <1>7 DEF DeleteUserData, Change, clock, settings, memory, history
  <1>8. ASSUME NEW u \in Users, CreateUser(u) PROVE TypeOK'
    BY <1>8, TodayType, NextDateType DEF CreateUser, clock, settings, memory, history
  <1>9. CASE UNCHANGED vars
    BY <1>9 DEF vars
  <1> QED BY <1>1, <1>2, <1>3, <1>4, <1>5, <1>6, <1>7, <1>8, <1>9 DEF Next

\* The tick's memory, the settings and the history keep their types (_last_local,
\* _sent_today, _in_flight of jobs/reminders.py).
THEOREM TypeCorrect == Spec => []TypeOK
  BY TypeInit, TypeStep, PTL DEF Spec

-----------------------------------------------------------------------------
(* _sent_today is emptied by age: a key may go only when nobody can be on   *)
(* its date any more, and it is kept as long as somebody can.               *)

\* What was remembered is a date somebody may be past.
SentReached == \A key \in sent : Reached(key[3])

\* What was dispatched, and not lost in a restart, is remembered or aged.
Remembered == \A key \in fired : key \in forgotten \/ key \in sent \/ Aged(key[3])

\* A restart forgets only what was dispatched.
ForgottenFired == forgotten \subseteq fired

MemoryInv == TypeOK /\ SentReached /\ Remembered /\ ForgottenFired /\ OncePerDay

\* A key due now is on its participant's date, which is reached and not aged.
LEMMA DueDates ==
    ASSUME TypeOK, NEW key \in Due
    PROVE  Reached(key[3]) /\ ~Aged(key[3])
  <1>1. key[1] \in Users /\ key[3] = Today(key[1])
    BY DueType DEF TypeOK
  <1>2. zone[key[1]] \in Zones
    BY <1>1, TodayType
  <1>3. Today(key[1]) <= Date(Latest(zone[key[1]]))
    BY <1>2, LocalType, DateMonotone DEF Today
  <1> QED BY <1>1, <1>2, <1>3, NobodyOnAged DEF Reached

\* _mark_sent drops a key only when a remembered date is more than two days newer.
LEMMA DroppedIsAged ==
    ASSUME TypeOK, SentReached, NEW key \in sent \cup Due, key \notin Recent(sent \cup Due)
    PROVE  Aged(key[3])
  <1>1. \A k \in sent \cup Due : k \in Keys /\ k[3] \in Nat
    BY DueType DEF TypeOK, Keys
  <1>2. PICK other \in sent \cup Due : ~(key[3] >= other[3] - 2)
    BY DEF Recent
  <1>3. Reached(other[3])
    BY <1>2, DueDates DEF SentReached
  <1>4. PICK z \in Zones : other[3] <= Date(Latest(z))
    BY <1>3 DEF Reached
  <1>5. Date(Latest(z)) \in Nat
    BY LocalType, DateMonotone
  <1>6. key[3] + 2 < Date(Latest(z))
    BY <1>1, <1>2, <1>4, <1>5
  <1> QED BY <1>6 DEF Aged

\* With the clock and the memory alone, the memory's invariant stands.
LEMMA MemoryUntouched ==
    ASSUME MemoryInv, TypeOK', sent' = sent, now' = now \/ now' = now + 1,
           UNCHANGED <<fired, again, forgotten>>
    PROVE  MemoryInv'
  <1>1. now' \in Nat /\ now <= now'
    BY DEF MemoryInv, TypeOK
  <1>2. \A key \in fired \cup sent : key[3] \in Nat
    BY DEF MemoryInv, TypeOK, Keys
  <1>3. \A key \in fired \cup sent : /\ Reached(key[3]) => Reached(key[3])'
                                     /\ Aged(key[3]) => Aged(key[3])'
    BY <1>1, <1>2, TimePasses DEF MemoryInv
  <1>4. SentReached'
    BY <1>3 DEF MemoryInv, SentReached
  <1>5. Remembered'
    BY <1>3 DEF MemoryInv, Remembered
  <1> QED BY <1>4, <1>5 DEF MemoryInv, ForgottenFired, OncePerDay

LEMMA MemoryTick ==
    ASSUME MemoryInv, TypeOK', MinuteTick
    PROVE  MemoryInv'
  <1> USE DEF MemoryInv
  <1>1. /\ sent' = IF Due = {} THEN sent ELSE Recent(sent \cup Due)
        /\ fired' = fired \cup Due /\ again' = again \cup (Due \cap fired)
        /\ forgotten' = forgotten /\ now' = now
    BY DEF MinuteTick, clock
  <1>2. sent' \subseteq sent \cup Due
    BY <1>1 DEF Recent
  <1>3. \A d \in Nat : (Reached(d)' <=> Reached(d)) /\ (Aged(d)' <=> Aged(d))
    BY <1>1 DEF Reached, Aged, Latest, Date
  <1>4. \A key \in sent \cup Due \cup fired : key[3] \in Nat
    BY DueType DEF TypeOK, Keys
  <1>5. SentReached'
    BY <1>2, <1>3, <1>4, DueDates DEF SentReached
  <1>6. Remembered'
    <2> SUFFICES ASSUME NEW key \in fired \cup Due, key \notin forgotten, key \notin sent'
                 PROVE  Aged(key[3])
      BY <1>1, <1>3, <1>4 DEF Remembered
    <2>1. CASE key \in sent \cup Due
      BY <1>1, <2>1, DroppedIsAged
    <2>2. CASE key \notin sent \cup Due
      BY <2>2 DEF Remembered
    <2> QED BY <2>1, <2>2
  <1>7. OncePerDay'
    <2> SUFFICES ASSUME NEW key \in Due, key \in fired PROVE key \in forgotten
      BY <1>1 DEF OncePerDay
    <2>1. key \notin sent /\ ~Aged(key[3])
      BY DueType, DueDates
    <2> QED BY <2>1 DEF Remembered
  <1>8. ForgottenFired'
    BY <1>1 DEF ForgottenFired
  <1> QED BY <1>5, <1>6, <1>7, <1>8

\* A restart forgets everything at once.
LEMMA MemoryRestart ==
    ASSUME MemoryInv, TypeOK', Restart
    PROVE  MemoryInv'
  <1>1. sent' = {} /\ forgotten' = fired /\ fired' = fired /\ again' = again
    BY DEF Restart
  <1> QED BY <1>1 DEF MemoryInv, SentReached, Remembered, ForgottenFired, OncePerDay

LEMMA MemoryInit == Init => MemoryInv
  BY TypeInit DEF Init, MemoryInv, SentReached, Remembered, ForgottenFired, OncePerDay

LEMMA MemoryStep ==
    ASSUME MemoryInv, [Next]_vars
    PROVE  MemoryInv'
  <1>0. TypeOK'
    BY TypeStep DEF MemoryInv
  <1>1. CASE MinuteTick
    BY <1>0, <1>1, MemoryTick
  <1>2. CASE Restart
    BY <1>0, <1>2, MemoryRestart
  <1>3. CASE TickFails
    BY <1>0, <1>3, MemoryUntouched DEF TickFails, clock, history
  <1>4. CASE Minute
    BY <1>0, <1>4, MemoryUntouched DEF Minute, memory, history
  <1>5. ASSUME NEW t \in tasks, Deliver(t) PROVE MemoryInv'
    BY <1>0, <1>5, MemoryUntouched DEF Deliver, clock, memory, history
  <1>6. ASSUME NEW u \in Users, SetUserSetting(u) PROVE MemoryInv'
    BY <1>0, <1>6, MemoryUntouched DEF SetUserSetting, clock, memory, history
  <1>7. ASSUME NEW u \in Users, DeleteUserData(u) PROVE MemoryInv'
    BY <1>0, <1>7, MemoryUntouched DEF DeleteUserData, clock, memory, history
  <1>8. ASSUME NEW u \in Users, CreateUser(u) PROVE MemoryInv'
    BY <1>0, <1>8, MemoryUntouched DEF CreateUser, clock, memory, history
  <1>9. CASE UNCHANGED vars
    BY <1>0, <1>9, MemoryUntouched DEF vars
  <1> QED BY <1>1, <1>2, <1>3, <1>4, <1>5, <1>6, <1>7, <1>8, <1>9 DEF Next

\* _mark_sent: however clocks jump, participants move and change their times, and
\* whichever dates the others are on, nobody gets a message twice on one local date, but
\* for what a restart made the process forget.
THEOREM NobodyIsToldTwice == Spec => []OncePerDay
  <1>1. MemoryInv => OncePerDay
    BY DEF MemoryInv
  <1> QED BY <1>1, MemoryInit, MemoryStep, PTL DEF Spec

-----------------------------------------------------------------------------
(* A prompt on its way writes for whoever the tick read.                    *)

\* Every prompt on its way is a participant's, or of someone who left under it.
TasksKnown == \A t \in tasks : t[2] = "writing" => t[1] \in members \cup racing

ErasureInv == TypeOK /\ TasksKnown /\ ErasedUnlessRacing

LEMMA ErasureInit == Init => ErasureInv
  BY TypeInit DEF Init, ErasureInv, TasksKnown, ErasedUnlessRacing

LEMMA ErasureStep ==
    ASSUME ErasureInv, [Next]_vars
    PROVE  ErasureInv'
  <1> USE DEF ErasureInv, TasksKnown, ErasedUnlessRacing
  <1>0. TypeOK'
    BY TypeStep
  <1>1. CASE MinuteTick
    <2>1. \A t \in Due : t[1] \in members
      BY DueType
    <2> QED BY <1>0, <1>1, <2>1 DEF MinuteTick
  <1>2. CASE Restart
    BY <1>0, <1>2 DEF Restart
  <1>3. CASE TickFails
    BY <1>0, <1>3 DEF TickFails
  <1>4. CASE Minute
    BY <1>0, <1>4 DEF Minute
  <1>5. ASSUME NEW t \in tasks, Deliver(t) PROVE ErasureInv'
    BY <1>0, <1>5 DEF Deliver, PromptRow
  <1>6. ASSUME NEW u \in Users, SetUserSetting(u) PROVE ErasureInv'
    BY <1>0, <1>6 DEF SetUserSetting
  <1>7. ASSUME NEW u \in Users, DeleteUserData(u) PROVE ErasureInv'
    BY <1>0, <1>7 DEF DeleteUserData
  <1>8. ASSUME NEW u \in Users, CreateUser(u) PROVE ErasureInv'
    BY <1>0, <1>8 DEF CreateUser
  <1>9. CASE UNCHANGED vars
    BY <1>0, <1>9 DEF vars
  <1> QED BY <1>1, <1>2, <1>3, <1>4, <1>5, <1>6, <1>7, <1>8, <1>9 DEF Next

\* delete_user_data: a row of "writings" belongs to a participant, or to someone who left
\* while the process had a writing prompt for them on its way.
THEOREM ErasureHolds == Spec => []ErasedUnlessRacing
  <1>1. ErasureInv => ErasedUnlessRacing
    BY DEF ErasureInv
  <1> QED BY <1>1, ErasureInit, ErasureStep, PTL DEF Spec

-----------------------------------------------------------------------------
(* What a tick makes up for.                                                *)

LEMMA DivMod ==
    ASSUME NEW d \in Nat \ {0}, NEW q \in Nat, NEW r \in 0 .. d - 1
    PROVE  (q * d + r) \div d = q /\ (q * d + r) % d = r
  OBVIOUS

LEMMA DivModOf ==
    ASSUME NEW d \in Nat \ {0}, NEW x \in Nat
    PROVE  \E q \in Nat, r \in 0 .. d - 1 : x = q * d + r
  <1> DEFINE q == x \div d
             r == x % d
  <1>1. q \in Nat
    OBVIOUS
  <1>2. r \in 0 .. d - 1
    OBVIOUS
  <1>3. r = x - d * q
    <2>1. d \in Nat /\ d > 0
      OBVIOUS
    <2> QED BY <2>1, SMTT(30)
  <1> HIDE DEF q, r
  <1>4. x = q * d + r
    BY <1>1, <1>2, <1>3
  <1> QED BY <1>1, <1>2, <1>4

\* A wall clock is its date and its time.
LEMMA ClockIs ==
    ASSUME NEW x \in Nat
    PROVE  \E q \in Nat, r \in 0 .. Day - 1 : Date(x) = q /\ x % Day = r /\ x = q * Day + r
  <1>0. Day \in Nat \ {0}
    BY RemindersAssumption
  <1>1. PICK q \in Nat, r \in 0 .. Day - 1 : x = q * Day + r
    BY <1>0, DivModOf
  <1>2. x \div Day = q /\ x % Day = r
    BY <1>0, <1>1, DivMod
  <1>3. Date(x) = q
    BY <1>2 DEF Date
  <1> QED BY <1>1, <1>2, <1>3

\* Less than a day on, it is the same date or the next.
LEMMA Ahead ==
    ASSUME NEW x \in Nat, NEW g \in 1 .. Day - 1
    PROVE  \/ Date(x + g) = Date(x) /\ (x + g) % Day = (x % Day) + g
           \/ Date(x + g) = Date(x) + 1 /\ (x + g) % Day = (x % Day) + g - Day
  <1>0. PICK q \in Nat, r \in 0 .. Day - 1 : Date(x) = q /\ x % Day = r /\ x = q * Day + r
    BY ClockIs
  <1>1. q \in Nat /\ r \in 0 .. Day - 1 /\ x = q * Day + r /\ Day \in Nat \ {0}
    BY <1>0, RemindersAssumption
  <1>2. CASE r + g < Day
    <2>1. r + g \in 0 .. Day - 1 /\ x + g = q * Day + (r + g)
      BY <1>1, <1>2
    <2>2. (x + g) \div Day = q /\ (x + g) % Day = r + g
      BY <1>1, <2>1, DivMod
    <2> QED BY <1>0, <2>2 DEF Date
  <1>3. CASE r + g >= Day
    <2>1. r + g - Day \in 0 .. Day - 1 /\ q + 1 \in Nat
      BY <1>1, <1>3
    <2>2. x + g = (q + 1) * Day + (r + g - Day)
      BY <1>1
    <2>3. (x + g) \div Day = q + 1 /\ (x + g) % Day = r + g - Day
      <3> DEFINE p == q + 1
                 t == r + g - Day
      <3>1. p \in Nat /\ t \in 0 .. Day - 1 /\ x + g = p * Day + t
        BY <2>1, <2>2
      <3> HIDE DEF p, t
      <3>2. (x + g) \div Day = p /\ (x + g) % Day = t
        BY <1>1, <3>1, DivMod
      <3> QED BY <3>2 DEF p, t
    <2> QED BY <1>0, <2>3 DEF Date
  <1> QED BY <1>1, <1>2, <1>3

LEMMA TimeType ==
    ASSUME NEW x \in Nat
    PROVE  Date(x) \in Nat /\ x % Day \in 0 .. Day - 1
  BY ClockIs

\* A clock that does not run ahead of another on the same date shows no later time.
LEMMA NotAhead ==
    ASSUME NEW x \in Nat, NEW y \in Nat, x <= y, Date(x) = Date(y)
    PROVE  x % Day <= y % Day
  <1>1. PICK q \in Nat, r \in 0 .. Day - 1 : Date(x) = q /\ x % Day = r /\ x = q * Day + r
    BY ClockIs
  <1>2. PICK p \in Nat, t \in 0 .. Day - 1 : Date(y) = p /\ y % Day = t /\ y = p * Day + t
    BY ClockIs
  <1>3. p = q
    BY <1>1, <1>2
  <1>4. q * Day \in Nat /\ y = q * Day + t
    BY <1>1, <1>2, <1>3, RemindersAssumption
  <1>5. r <= t
    BY <1>1, <1>2, <1>4
  <1> QED BY <1>1, <1>2, <1>5

\* Since the last tick the wall clock has moved on by no more than a tick makes up for: a
\* time it has passed or shows now is caught, and counts for the present date.
LEMMA Caught ==
    ASSUME NEW z \in Zones, ticked, last[z] \in Nat, Local(z) \in Nat, Gap(z) \in 1 .. MaxGap,
           NEW a \in 0 .. Day - 1, a <= Local(z) % Day,
           Date(Local(z)) = Date(last[z]) => a > last[z] % Day
    PROVE  a \in {Local(z) % Day} \cup MinutesSkipped(z)
  <1> DEFINE x == last[z]
             g == Gap(z)
             y == Local(z)
             r == x % Day
             t == y % Day
  <1>1. /\ x \in Nat /\ g \in 1 .. Day - 1 /\ g \in 1 .. MaxGap /\ y = x + g
        /\ Day \in Nat \ {0} /\ MaxGap \in 0 .. Day - 1
    <2>1. MaxGap \in 0 .. Day - 1 /\ Day \in Nat \ {0}
      BY RemindersAssumption
    <2>2. Gap(z) = Local(z) - last[z]
      BY DEF Gap
    <2> QED BY <2>1, <2>2
  <1>2. r \in 0 .. Day - 1 /\ t \in 0 .. Day - 1
    BY <1>1, TimeType
  <1>3. /\ \/ Date(y) = Date(x) /\ t = r + g
           \/ Date(y) = Date(x) + 1 /\ t = r + g - Day
        /\ Date(x) \in Nat
    BY <1>1, Ahead, TimeType
  <1>4. MinutesSkipped(z) = IF g \in 2 .. MaxGap THEN {(x + i) % Day : i \in 1 .. g - 1} ELSE {}
    BY DEF MinutesSkipped
  <1>5. a \in 0 .. Day - 1 /\ a <= t /\ (Date(y) = Date(x) => a > r)
    OBVIOUS
  <1> HIDE DEF g, y
  <1>6. \A i \in 1 .. g - 1 : \/ (x + i) % Day = r + i
                             \/ (x + i) % Day = r + i - Day
    <2> SUFFICES ASSUME NEW i \in 1 .. g - 1
                 PROVE  (x + i) % Day = r + i \/ (x + i) % Day = r + i - Day
      OBVIOUS
    <2>1. i \in 1 .. Day - 1
      BY <1>1
    <2> QED BY <1>1, <2>1, Ahead
  <1>7. \A i \in 1 .. g - 1 : (x + i) % Day \in 0 .. Day - 1
    <2> SUFFICES ASSUME NEW i \in 1 .. g - 1 PROVE (x + i) % Day \in 0 .. Day - 1
      OBVIOUS
    <2>1. x + i \in Nat
      BY <1>1
    <2> HIDE DEF x
    <2> QED BY <2>1, TimeType
  <1>8. CASE a = t
    BY <1>8 DEF y
  <1>9. ASSUME a # t
        PROVE  \E i \in 1 .. g - 1 : r + i = a \/ (r + i - Day = a /\ r + i >= Day)
    <2> HIDE DEF r, t
    <2>1. CASE Date(y) = Date(x) /\ t = r + g
      <3>1. a - r \in 1 .. g - 1 /\ r + (a - r) = a
        BY <1>1, <1>2, <1>5, <1>9, <2>1
      <3> QED BY <3>1
    <2>2. CASE Date(y) = Date(x) + 1 /\ t = r + g - Day
      <3>1. /\ a + Day - r \in 1 .. g - 1 /\ r + (a + Day - r) - Day = a
            /\ r + (a + Day - r) >= Day
        BY <1>1, <1>2, <1>5, <1>9, <2>2
      <3> QED BY <3>1
    <2> QED BY <1>3, <2>1, <2>2
  <1>10. CASE a # t
    <2>1. PICK i \in 1 .. g - 1 : r + i = a \/ (r + i - Day = a /\ r + i >= Day)
      BY <1>9, <1>10
    <2> DEFINE w == (x + i) % Day
    <2>2. (w = r + i \/ w = r + i - Day) /\ w \in 0 .. Day - 1
      BY <1>6, <1>7
    <2> HIDE DEF w, r
    <2>3. w = a
      BY <1>1, <1>2, <1>5, <2>1, <2>2
    <2>4. g \in 2 .. MaxGap
      BY <1>1, <2>1
    <2> QED BY <1>4, <2>3, <2>4 DEF w
  <1> QED BY <1>8, <1>10

\* Up to the last tick, u has the messages of every date to rely on, or has that of the
\* next date for one cut short; of the last tick's own date, those whose time has come.
ServedTo(u, x, s, f, o) ==
    \A k \in Kinds, d \in Nat :
        s <= d /\ d <= Date(x) =>
            \/ <<u, k, d>> \in f
            \/ <<u, d>> \in o /\ <<u, k, d + 1>> \in f
            \/ d = Date(x) /\ at[u][k] > x % Day

Served(u) == ServedTo(u, last[zone[u]], since[u], fired, cut)

ServedInv ==
    /\ TypeOK
    /\ sent \subseteq fired
    /\ ticked => \A u \in members : Served(u)

\* Whoever relies on no date up to the last tick's is served.
LEMMA NothingOwed ==
    ASSUME NEW u \in Users, NEW x \in Nat, NEW s \in Nat, Date(x) < s, NEW f, NEW o
    PROVE  ServedTo(u, x, s, f, o)
  BY TimeType DEF ServedTo

\* The dates this tick finds cut short.
Cut == cut \cup {<<u, Date(last[zone[u]])>> : u \in {v \in Users : CutShort(v)}}

\* One date to rely on, when the clock has moved on within what a tick makes up for.
LEMMA CaughtUp ==
    ASSUME ServedInv, ticked, NEW u \in members, NEW k \in Kinds, NEW d \in Nat,
           Gap(zone[u]) \in 1 .. MaxGap, since[u] <= d, d <= Today(u)
    PROVE  \/ <<u, k, d>> \in fired \cup Due
           \/ <<u, d>> \in Cut /\ <<u, k, d + 1>> \in fired \cup Due
           \/ d = Today(u) /\ at[u][k] > Local(zone[u]) % Day
  <1> DEFINE z == zone[u]
             x == last[z]
             y == Local(z)
             g == Gap(z)
             a == at[u][k]
  <1>1. /\ u \in Users /\ z \in Zones /\ x \in Nat /\ y \in Nat /\ since[u] \in Nat
        /\ Today(u) = Date(y) /\ Date(x) \in Nat /\ Date(y) \in Nat /\ y = x + g
        /\ x % Day \in 0 .. Day - 1 /\ y % Day \in 0 .. Day - 1
    <2>1. /\ u \in Users /\ z \in Zones /\ x \in Nat /\ y \in Nat /\ since[u] \in Nat
      BY LocalType DEF ServedInv, TypeOK
    <2>2. y = x + g
      BY <2>1 DEF Gap
    <2> QED BY <2>1, <2>2, TimeType DEF Today
  <1>2. /\ Times \subseteq 0 .. Day - 1 /\ MaxGap \in 0 .. Day - 1 /\ Day \in Nat \ {0}
        /\ g \in 1 .. MaxGap /\ g \in 1 .. Day - 1
    BY RemindersAssumption
  <1>3. a \in 0 .. Day - 1
    <2>1. at[u] \in [Kinds -> Times]
      BY <1>1 DEF ServedInv, TypeOK
    <2>2. a \in Times
      BY <2>1
    <2> QED BY <1>2, <2>2
  <1>4. ASSUME a \in {y % Day} \cup MinutesSkipped(z)
        PROVE  <<u, k, Date(y)>> \in fired \cup Due
    <2>1. <<u, k, Date(y)>> \in Matching
      BY <1>1 DEF Matching
    <2>2. CASE <<u, k, Date(y)>> \in sent
      BY <2>2 DEF ServedInv
    <2>3. CASE <<u, k, Date(y)>> \notin sent
      BY <1>4, <2>1, <2>3 DEF Due
    <2> QED BY <2>2, <2>3
  <1>5. \/ Date(y) = Date(x) /\ y % Day = (x % Day) + g
        \/ Date(y) = Date(x) + 1 /\ y % Day = (x % Day) + g - Day
    <2> HIDE DEF x, y, g
    <2> QED BY <1>1, <1>2, Ahead
  <1>6. d <= Date(x) => \/ <<u, k, d>> \in fired
                        \/ <<u, d>> \in cut /\ <<u, k, d + 1>> \in fired
                        \/ d = Date(x) /\ a > x % Day
    BY DEF ServedInv, Served, ServedTo
  <1>7. CASE d = Date(y) /\ a <= y % Day /\ (Date(y) = Date(x) => a > x % Day)
    <2>1. a \in {y % Day} \cup MinutesSkipped(z)
      <3> HIDE DEF a
      <3> QED BY <1>1, <1>2, <1>3, <1>7, Caught
    <2> QED BY <1>4, <1>7, <2>1
  <1>8. CASE d = Date(y) /\ a <= y % Day /\ Date(y) = Date(x) /\ ~(a > x % Day)
    <2>1. d <= Date(x)
      BY <1>1, <1>8
    <2> QED BY <1>6, <1>8, <2>1 DEF Cut
  <1>9. CASE d = Date(y) /\ ~(a <= y % Day)
    <2> HIDE DEF a, y
    <2>1. a > y % Day
      BY <1>1, <1>2, <1>3, <1>9
    <2> QED BY <1>1, <1>9, <2>1 DEF a, y
  <1>10. CASE d # Date(y)
    <2>1. d <= Date(x)
      <3> HIDE DEF x, y
      <3> QED BY <1>1, <1>5, <1>10
    <2>2. CASE d = Date(x) /\ a > x % Day
      <3>1. Date(y) = Date(x) + 1 /\ y % Day = (x % Day) + g - Day
        BY <1>5, <1>10, <2>2
      <3>2. /\ g \in 2 .. MaxGap /\ x % Day # Day - 1
            /\ a - (x % Day) \in 1 .. g - 1
        <4> DEFINE m == x % Day
                   n == y % Day
        <4>1. m \in 0 .. Day - 1 /\ n \in 0 .. Day - 1 /\ n = m + g - Day /\ a > m
          BY <1>1, <2>2, <3>1
        <4> HIDE DEF m, n, g, a
        <4>2. g \in 2 .. MaxGap /\ m # Day - 1 /\ a - m \in 1 .. g - 1
          BY <1>2, <1>3, <4>1
        <4> QED BY <4>2 DEF m
      <3>3. Date(x + 1) = Date(x)
        <4> HIDE DEF x, g
        <4>1. 1 \in 1 .. Day - 1 /\ x + 1 \in Nat
          BY <1>1, <1>2, <3>2
        <4>2. \/ Date(x + 1) = Date(x) /\ (x + 1) % Day = (x % Day) + 1
              \/ Date(x + 1) = Date(x) + 1 /\ (x + 1) % Day = (x % Day) + 1 - Day
          BY <1>1, <4>1, Ahead
        <4>3. (x + 1) % Day \in 0 .. Day - 1
          BY <4>1, TimeType
        <4> QED BY <1>1, <1>2, <3>2, <4>2, <4>3
      <3>4. CutShort(u)
        <4>1. Date(x + 1) < Date(y)
          <5> HIDE DEF x, y
          <5> QED BY <1>1, <3>1, <3>3
        <4> QED BY <1>1, <3>2, <4>1 DEF CutShort
      <3>5. <<u, d>> \in Cut
        BY <1>1, <2>2, <3>4 DEF Cut
      <3>6. a \in MinutesSkipped(z)
        <4>1. MinutesSkipped(z) = {(x + i) % Day : i \in 1 .. g - 1}
          BY <3>2 DEF MinutesSkipped
        <4> DEFINE i == a - (x % Day)
        <4>2. i \in 1 .. g - 1 /\ (x + i) % Day = a
          <5> DEFINE m == x % Day
                     w == (x + i) % Day
          <5>1. i \in 1 .. g - 1 /\ i \in 1 .. Day - 1 /\ a = m + i
            <6>1. m \in 0 .. Day - 1 /\ i = a - m /\ i \in 1 .. g - 1
              BY <1>1, <3>2
            <6> HIDE DEF m, i, g
            <6> QED BY <1>2, <1>3, <6>1
          <5>2. w = m + i \/ w = m + i - Day
            <6> HIDE DEF x, i
            <6> QED BY <1>1, <5>1, Ahead
          <5>3. w \in 0 .. Day - 1
            <6>1. x + i \in Nat
              <7> HIDE DEF x, i
              <7> QED BY <1>1, <1>2, <5>1
            <6> QED BY <6>1, TimeType
          <5>0. m \in 0 .. Day - 1
            BY <1>1
          <5> HIDE DEF i, m, w, a, g
          <5>4. w = a
            BY <1>2, <1>3, <5>0, <5>1, <5>2, <5>3
          <5> QED BY <5>1, <5>4 DEF w
        <4> HIDE DEF i
        <4> QED BY <4>1, <4>2
      <3>7. <<u, k, d + 1>> \in fired \cup Due
        BY <1>4, <2>2, <3>1, <3>6
      <3> QED BY <3>5, <3>7
    <2> QED BY <1>6, <2>1, <2>2 DEF Cut
  <1>11. a <= y % Day \/ ~(a <= y % Day)
    OBVIOUS
  <1> QED BY <1>7, <1>8, <1>9, <1>10, <1>11

\* With the clock set back, or the minute seen twice, no new date is owed, and of the
\* present one no time has come that had not.
LEMMA SetBack ==
    ASSUME ServedInv, ticked, NEW u \in members, NEW k \in Kinds, NEW d \in Nat,
           Gap(zone[u]) <= 0, since[u] <= d, d <= Today(u)
    PROVE  \/ <<u, k, d>> \in fired
           \/ <<u, d>> \in cut /\ <<u, k, d + 1>> \in fired
           \/ d = Today(u) /\ at[u][k] > Local(zone[u]) % Day
  <1> DEFINE z == zone[u]
             x == last[z]
             y == Local(z)
             a == at[u][k]
  <1>1. /\ u \in Users /\ x \in Nat /\ y \in Nat /\ y <= x
        /\ Today(u) = Date(y) /\ Date(x) \in Nat /\ Date(y) \in Nat
        /\ x % Day \in 0 .. Day - 1 /\ y % Day \in 0 .. Day - 1
    <2>1. u \in Users /\ z \in Zones /\ x \in Nat /\ y \in Nat
      BY LocalType DEF ServedInv, TypeOK
    <2>2. y <= x
      BY <2>1 DEF Gap
    <2> QED BY <2>1, <2>2, TimeType DEF Today
  <1>2. a \in Nat
    <2>1. at[u] \in [Kinds -> Times] /\ Times \subseteq Nat
      BY <1>1, RemindersAssumption DEF ServedInv, TypeOK
    <2> QED BY <2>1
  <1>3. Date(y) <= Date(x)
    <2> HIDE DEF x, y
    <2> QED BY <1>1, DateMonotone
  <1>4. d <= Date(x)
    <2> HIDE DEF x, y
    <2> QED BY <1>1, <1>3
  <1>5. \/ <<u, k, d>> \in fired
        \/ <<u, d>> \in cut /\ <<u, k, d + 1>> \in fired
        \/ d = Date(x) /\ a > x % Day
    BY <1>4 DEF ServedInv, Served, ServedTo
  <1>6. CASE d = Date(x) /\ a > x % Day
    <2>1. d = Date(y) /\ Date(x) = Date(y)
      <3> HIDE DEF x, y
      <3> QED BY <1>1, <1>3, <1>6
    <2>2. y % Day <= x % Day
      <3> HIDE DEF x, y
      <3> QED BY <1>1, <2>1, NotAhead
    <2>3. a > y % Day
      <3> DEFINE m == x % Day
                 n == y % Day
      <3>1. m \in Nat /\ n \in Nat /\ n <= m /\ a > m
        BY <1>1, <1>6, <2>2, RemindersAssumption
      <3> HIDE DEF m, n, a
      <3>2. a > n
        BY <1>2, <3>1
      <3> QED BY <3>2 DEF n
    <2> QED BY <1>1, <2>1, <2>3
  <1> QED BY <1>5, <1>6

LEMMA TickServes ==
    ASSUME ServedInv, NEW u \in members
    PROVE  ServedTo(u, Local(zone[u]), Reliable(u), fired \cup Due, Cut)
  <1>1. /\ u \in Users /\ zone[u] \in Zones /\ Local(zone[u]) \in Nat
        /\ last[zone[u]] \in Nat /\ since[u] \in Nat
    BY LocalType DEF ServedInv, TypeOK
  <1>2. Today(u) = Date(Local(zone[u])) /\ Today(u) \in Nat
    BY <1>1, TimeType DEF Today
  <1>3. Gap(zone[u]) \in Int /\ MaxGap \in Nat
    BY <1>1, RemindersAssumption DEF Gap
  <1>4. CASE ~ticked \/ Gap(zone[u]) > MaxGap
    <2>1. Reliable(u) = Today(u) + 1 /\ Reliable(u) \in Nat
      BY <1>2, <1>4 DEF Reliable
    <2> QED BY <1>1, <1>2, <2>1, NothingOwed
  <1>5. CASE ticked /\ ~(Gap(zone[u]) > MaxGap)
    <2>1. Reliable(u) = since[u]
      BY <1>5 DEF Reliable
    <2>a. SUFFICES ServedTo(u, Local(zone[u]), since[u], fired \cup Due, Cut)
      BY <2>1
    <2> SUFFICES ASSUME NEW k \in Kinds, NEW d \in Nat, since[u] <= d, d <= Today(u)
                 PROVE  \/ <<u, k, d>> \in fired \cup Due
                        \/ <<u, d>> \in Cut /\ <<u, k, d + 1>> \in fired \cup Due
                        \/ d = Today(u) /\ at[u][k] > Local(zone[u]) % Day
      BY <1>2 DEF ServedTo
    <2>2. CASE Gap(zone[u]) <= 0
      BY <1>5, <2>2, SetBack DEF Cut
    <2>3. CASE Gap(zone[u]) \in 1 .. MaxGap
      BY <1>5, <2>3, CaughtUp
    <2> QED BY <1>3, <1>5, <2>2, <2>3
  <1> QED BY <1>4, <1>5

LEMMA ServedInit == Init => ServedInv
  BY TypeInit DEF Init, ServedInv

\* A later date is relied on than the last tick has seen.
LEMMA NextDateIsAhead ==
    ASSUME TypeOK, ticked, NEW z \in Zones
    PROVE  Date(last[z]) < NextDate(z)
  <1>1. last[z] \in Nat /\ Local(z) \in Nat
    BY LocalType DEF TypeOK
  <1>2. Date(last[z]) \in Nat /\ Date(Local(z)) \in Nat
    BY <1>1, TimeType
  <1> QED BY <1>2 DEF NextDate

\* Whoever keeps their settings between two ticks stays served.
LEMMA ServedKept ==
    ASSUME NEW u \in Users, Served(u), UNCHANGED <<last, fired, cut>>,
           zone'[u] = zone[u], at'[u] = at[u], since'[u] = since[u]
    PROVE  Served(u)'
  <1>1. /\ last' = last /\ fired' = fired /\ cut' = cut /\ zone'[u] = zone[u] /\ at'[u] = at[u]
        /\ since'[u] = since[u]
    OBVIOUS
  <1> QED BY <1>1 DEF Served, ServedTo

\* Whoever has just come, or has just changed a setting, is owed nothing yet.
LEMMA ServedAnew ==
    ASSUME TypeOK, ticked, TypeOK', NEW u \in Users, last' = last,
           since'[u] = NextDate(zone'[u])
    PROVE  Served(u)'
  <1> DEFINE z == zone'[u]
             x == last[z]
             s == since'[u]
  <1>1. z \in Zones /\ x \in Nat /\ s \in Nat
    BY DEF TypeOK
  <1>2. Date(x) < s
    BY <1>1, NextDateIsAhead
  <1>3. Date(x) \in Nat
    BY <1>1, TimeType
  <1>4. Served(u)' <=>
          \A k \in Kinds, d \in Nat :
              s <= d /\ d <= Date(x) =>
                  \/ <<u, k, d>> \in fired'
                  \/ <<u, d>> \in cut' /\ <<u, k, d + 1>> \in fired'
                  \/ d = Date(x) /\ at'[u][k] > x % Day
    BY DEF Served, ServedTo
  <1> HIDE DEF x, s
  <1>5. \A d \in Nat : s <= d => ~(d <= Date(x))
    BY <1>1, <1>2, <1>3
  <1> QED BY <1>4, <1>5

LEMMA ServedStep ==
    ASSUME ServedInv, [Next]_vars
    PROVE  ServedInv'
  <1> USE DEF ServedInv
  <1>0. TypeOK'
    BY TypeStep
  <1>1. CASE MinuteTick
    <2>1. sent' \subseteq fired'
      BY <1>1 DEF MinuteTick, Recent
    <2>2. ASSUME NEW u \in members PROVE Served(u)'
      <3>1. u \in Users /\ zone[u] \in Zones
        BY DEF TypeOK
      <3>2. /\ last'[zone'[u]] = Local(zone[u]) /\ since'[u] = Reliable(u)
            /\ fired' = fired \cup Due /\ cut' = Cut /\ at' = at
        BY <1>1, <3>1 DEF MinuteTick, settings, Cut
      <3>3. ServedTo(u, Local(zone[u]), Reliable(u), fired \cup Due, Cut)
        BY TickServes
      <3> QED BY <3>2, <3>3 DEF Served, ServedTo
    <2>3. members' = members
      BY <1>1 DEF MinuteTick
    <2> QED BY <1>0, <2>1, <2>2, <2>3
  <1>2. CASE TickFails
    <2>1. ASSUME NEW u \in members PROVE Served(u)'
      <3>1. u \in Users /\ zone[u] \in Zones /\ Local(zone[u]) \in Nat
        BY LocalType DEF TypeOK
      <3>2. /\ last'[zone'[u]] = Local(zone[u]) /\ since'[u] = Date(Local(zone[u])) + 1
            /\ fired' = fired /\ cut' = cut /\ at' = at
        BY <1>2, <3>1 DEF TickFails, settings, history, Today
      <3>3. Date(Local(zone[u])) \in Nat
        BY <3>1, TimeType
      <3>4. ServedTo(u, Local(zone[u]), Date(Local(zone[u])) + 1, fired, cut)
        BY <3>1, <3>3, NothingOwed
      <3> QED BY <3>2, <3>4 DEF Served, ServedTo
    <2> QED BY <1>0, <1>2, <2>1 DEF TickFails, history
  <1>3. CASE Minute
    BY <1>0, <1>3, ServedKept DEF Minute, settings, memory, history, TypeOK
  <1>4. CASE Restart
    BY <1>0, <1>4 DEF Restart
  <1>5. ASSUME NEW t \in tasks, Deliver(t) PROVE ServedInv'
    BY <1>0, <1>5, ServedKept DEF Deliver, settings, memory, history, TypeOK
  <1>6. ASSUME NEW u \in Users, SetUserSetting(u) PROVE ServedInv'
    <2>1. /\ members' = members /\ sent' = sent /\ fired' = fired /\ ticked' = ticked
          /\ last' = last /\ cut' = cut
      BY <1>6 DEF SetUserSetting, memory, history
    <2>2. /\ zone \in [Users -> Zones] /\ at \in [Users -> [Kinds -> Times]]
          /\ since \in [Users -> Nat]
      BY DEF TypeOK
    <2>3. since' = [since EXCEPT ![u] = NextDate(zone'[u])]
      BY <1>6 DEF SetUserSetting
    <2>4. ASSUME NEW v \in Users, v # u PROVE zone'[v] = zone[v] /\ at'[v] = at[v]
      BY <1>6, <2>2, <2>4 DEF SetUserSetting
    <2>5. ASSUME ticked, NEW v \in members PROVE Served(v)'
      <3>1. CASE v = u
        <4>1. since'[u] = NextDate(zone'[u])
          BY <2>2, <2>3
        <4> QED BY <1>0, <2>1, <2>5, <3>1, <4>1, ServedAnew
      <3>2. CASE v # u
        <4>1. v \in Users /\ Served(v)
          BY <2>5 DEF TypeOK
        <4>2. since'[v] = since[v]
          BY <2>2, <2>3, <3>2, <4>1
        <4> QED BY <2>1, <2>4, <3>2, <4>1, <4>2, ServedKept
      <3> QED BY <3>1, <3>2
    <2> QED BY <1>0, <2>1, <2>5
  <1>7. ASSUME NEW u \in Users, DeleteUserData(u) PROVE ServedInv'
    BY <1>0, <1>7, ServedKept DEF DeleteUserData, settings, memory, history, TypeOK
  <1>8. ASSUME NEW u \in Users, CreateUser(u) PROVE ServedInv'
    <2>1. /\ members' = members \cup {u} /\ sent' = sent /\ fired' = fired
          /\ ticked' = ticked /\ last' = last /\ zone' = zone /\ at' = at /\ cut' = cut
      BY <1>8 DEF CreateUser, settings, memory, history
    <2>2. since \in [Users -> Nat] /\ since' = [since EXCEPT ![u] = NextDate(zone[u])]
      BY <1>8 DEF CreateUser, TypeOK
    <2>3. ASSUME ticked, NEW v \in members \cup {u} PROVE Served(v)'
      <3>1. CASE v = u
        <4>1. since'[u] = NextDate(zone'[u])
          BY <2>1, <2>2
        <4> QED BY <1>0, <2>1, <2>3, <3>1, <4>1, ServedAnew
      <3>2. CASE v # u
        <4>1. v \in Users /\ Served(v)
          BY <2>3, <3>2 DEF TypeOK
        <4>2. since'[v] = since[v]
          BY <2>2, <3>2, <4>1
        <4> QED BY <2>1, <4>1, <4>2, ServedKept
      <3> QED BY <3>1, <3>2
    <2> QED BY <1>0, <2>1, <2>3
  <1>9. CASE UNCHANGED vars
    BY <1>0, <1>9, ServedKept DEF vars, TypeOK
  <1> QED BY <1>1, <1>2, <1>3, <1>4, <1>5, <1>6, <1>7, <1>8, <1>9 DEF Next

\* minute_tick with _minutes_skipped: a time inside a jump of the clock, or in a minute
\* whose tick was missed, is served with the next tick -- for every length of the day,
\* of the jump and of the longest gap made up for.  When the minutes left out end a date,
\* what is served is the next date's message, early, and the date itself has none.
THEOREM EveryDayHasItsMessage == Spec => []EveryDayServed
  <1>1. ServedInv => EveryDayServed
    <2> SUFFICES ASSUME ServedInv, ticked, NEW u \in members, NEW k \in Kinds,
                        NEW d \in since[u] .. Date(last[zone[u]]) - 1
                 PROVE  \/ <<u, k, d>> \in fired
                        \/ <<u, d>> \in cut /\ <<u, k, d + 1>> \in fired
      BY DEF EveryDayServed
    <2> DEFINE x == last[zone[u]]
    <2>1. since[u] \in Nat /\ x \in Nat
      BY DEF ServedInv, TypeOK
    <2>2. Date(x) \in Nat
      BY <2>1, TimeType
    <2>3. ServedTo(u, x, since[u], fired, cut)
      BY DEF ServedInv, Served
    <2> HIDE DEF x
    <2>4. d \in Nat /\ since[u] <= d /\ d <= Date(x) /\ d # Date(x)
      BY <2>1, <2>2 DEF x
    <2> QED BY <2>3, <2>4 DEF ServedTo
  <1> QED BY <1>1, ServedInit, ServedStep, PTL DEF Spec

=============================================================================
