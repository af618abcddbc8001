----------------------------- MODULE SpeechProofs -----------------------------
(***************************************************************************)
(* Theorems about Speech for any number of presses, participants, phrases, *)
(* chunks and attempts, any daily limit and any number of restarts.        *)
(***************************************************************************)
EXTENDS Speech, FiniteSetTheorems, TLAPS

-----------------------------------------------------------------------------
(* Types.                                                                   *)

LEMMA TypeInit == Init => TypeOK
  BY SpeechAssumption DEF Init, TypeOK, Presses, Steps

LEMMA TypeStep == TypeOK /\ [Next]_vars => TypeOK'
  <1> SUFFICES ASSUME TypeOK, [Next]_vars PROVE TypeOK'
    OBVIOUS
  <1> USE SpeechAssumption
  <1>1. ASSUME NEW p \in Presses, Press(p) PROVE TypeOK'
    BY <1>1 DEF Press, Go, TypeOK, Steps, handle, disk, history
  <1>2. ASSUME NEW p \in Presses, Look(p) PROVE TypeOK'
    BY <1>2 DEF Look, Go, TypeOK, Steps, handle, disk, history
  <1>3. ASSUME NEW p \in Presses, CheckAndCount(p) PROVE TypeOK'
    <2>1. user[p] \in Users /\ counts[user[p]] \in 0 .. DailyLimit /\ paid[user[p]] \in Nat
      BY DEF TypeOK
    <2>2. counts' \in [Users -> 0 .. DailyLimit] /\ paid' \in [Users -> Nat]
      <3>1. CASE counts[user[p]] >= DailyLimit
        BY <1>3, <3>1 DEF CheckAndCount, TypeOK
      <3>2. CASE ~(counts[user[p]] >= DailyLimit)
        <4>1. counts[user[p]] + 1 \in 0 .. DailyLimit /\ paid[user[p]] + 1 \in Nat
          BY <2>1, <3>2
        <4>2. /\ counts' = [counts EXCEPT ![user[p]] = @ + 1]
              /\ paid' = [paid EXCEPT ![user[p]] = @ + 1]
          BY <1>3, <3>2 DEF CheckAndCount
        <4> QED BY <2>1, <4>1, <4>2 DEF TypeOK
      <3> QED BY <3>1, <3>2
    <2> QED BY <1>3, <2>2 DEF CheckAndCount, Go, TypeOK, Steps, handle, disk
  <1>4. ASSUME NEW p \in Presses, LookAgain(p) PROVE TypeOK'
    <2>1. 1 \in 0 .. Attempts /\ calls[user[p]] + 1 \in Nat
      BY DEF TypeOK
    <2>2. attempt' \in [Presses -> 0 .. Attempts] /\ calls' \in [Users -> Nat]
      BY <1>4, <2>1 DEF LookAgain, TypeOK
    <2> QED BY <1>4, <2>2 DEF LookAgain, Go, TypeOK, Steps, handle, disk
  <1>5. ASSUME NEW p \in Presses, Synthesize(p) PROVE TypeOK'
    <2>1. attempt[p] \in 0 .. Attempts /\ 0 \in 0 .. Attempts
      BY DEF TypeOK
    <2>2. \/ attempt' = [attempt EXCEPT ![p] = 0]
          \/ attempt[p] < Attempts /\ attempt' = [attempt EXCEPT ![p] = @ + 1]
      BY <1>5 DEF Synthesize
    <2>3. attempt[p] < Attempts => attempt[p] + 1 \in 0 .. Attempts
      BY <2>1
    <2>4. attempt' \in [Presses -> 0 .. Attempts]
      BY <2>1, <2>2, <2>3 DEF TypeOK
    <2> QED BY <1>5, <2>4 DEF Synthesize, Go, TypeOK, Steps, press, handle, disk, history
  <1>6. ASSUME NEW p \in Presses, Open(p) PROVE TypeOK'
    <2>1. p \in Inodes /\ phrase[p] \in Phrases /\ part[phrase[p]] \in {0} \cup Inodes
      BY DEF TypeOK, Presses, Inodes
    <2> QED BY <1>6, <2>1 DEF Open, Go, TypeOK, Steps
  <1>7. ASSUME NEW p \in Presses, Write(p) PROVE TypeOK'
    <2>1. offset[p] + 1 \in Nat
      BY DEF TypeOK
    <2> QED BY <1>7, <2>1 DEF Write, Go, TypeOK, Steps, history
  <1>8. ASSUME NEW p \in Presses, Replace(p) PROVE TypeOK'
    <2>1. phrase[p] \in Phrases /\ part[phrase[p]] \in {0} \cup Inodes
      BY DEF TypeOK
    <2> QED BY <1>8, <2>1 DEF Replace, Go, TypeOK, Steps, history
  <1>9. ASSUME NEW f \in Phrases, Prune(f) PROVE TypeOK'
    BY <1>9 DEF Prune, TypeOK, press, handle, history
  <1>10. CASE Roll
    BY <1>10 DEF Roll, TypeOK, press, handle, disk, history
  <1>11. CASE Restart
    BY <1>11 DEF Restart, TypeOK, Steps, disk, history
  <1>12. CASE UNCHANGED vars
    BY <1>12 DEF vars, TypeOK
  <1>13. ASSUME NEW p \in Presses, AnswerFails(p) PROVE TypeOK'
    BY <1>13 DEF AnswerFails, Go, TypeOK, Steps, handle, disk
  <1> QED BY <1>1, <1>2, <1>3, <1>4, <1>5, <1>6, <1>7, <1>8, <1>9, <1>10, <1>11, <1>12,
             <1>13 DEF Next, Step

\* Presses, files, counts and quotas keep their types; no one is counted beyond the
\* daily limit (UsageLimiter.check_and_count).
THEOREM TypeCorrect == Spec => []TypeOK
  BY TypeInit, TypeStep, PTL DEF Spec

-----------------------------------------------------------------------------
(* What is paid for.                                                        *)

Again == {p \in Presses : pc[p] = "again"}

\* The lock of a participant: one press of theirs at a time.
Serial == \A p, q \in Presses :
             user[p] = user[q] /\ pc[p] \in Running /\ pc[q] \in Running => p = q

\* A press that paid and never spoke is over: it is not counted again.
UnspokenDone == \A p \in Unspoken : pc[p] = "done"

\* Every payment of a participant is a synthesis, was spared one, went without an answer,
\* has its second look to come, or was cut off by a restart before that look -- at most one by each restart.
Accounts ==
    \A u \in Users :
        /\ calls[u] + Of(u, Unspoken) + Of(u, Again) <= paid[u]
        /\ paid[u] <= calls[u] + Of(u, Unspoken) + Of(u, Again) + restarts

PaidInv == TypeOK /\ Serial /\ UnspokenDone /\ Accounts

LEMMA OfType ==
    ASSUME NEW S, S \subseteq Presses, NEW u
    PROVE  IsFiniteSet({p \in S : user[p] = u}) /\ Of(u, S) \in Nat
  <1>1. IsFiniteSet(Presses)
    BY SpeechAssumption, FS_Interval DEF Presses
  <1>2. {p \in S : user[p] = u} \in SUBSET Presses
    OBVIOUS
  <1> QED BY <1>1, <1>2, FS_Subset, FS_CardinalityType DEF Of

LEMMA OfAdd ==
    ASSUME NEW S, S \subseteq Presses, NEW p \in Presses \ S, NEW u
    PROVE  Of(u, S \cup {p}) = Of(u, S) + (IF user[p] = u THEN 1 ELSE 0)
  <1> DEFINE T == {q \in S : user[q] = u}
  <1>1. IsFiniteSet(T) /\ Cardinality(T) \in Nat
    BY OfType DEF Of
  <1>2. CASE user[p] = u
    <2>1. {q \in S \cup {p} : user[q] = u} = T \cup {p} /\ p \notin T
      BY <1>2
    <2> QED BY <1>1, <1>2, <2>1, FS_AddElement DEF Of
  <1>3. CASE user[p] # u
    <2>1. {q \in S \cup {p} : user[q] = u} = T
      BY <1>3
    <2> QED BY <1>1, <1>3, <2>1 DEF Of
  <1> QED BY <1>2, <1>3

LEMMA OfRemove ==
    ASSUME NEW S, S \subseteq Presses, NEW p \in S, NEW u
    PROVE  Of(u, S) = Of(u, S \ {p}) + (IF user[p] = u THEN 1 ELSE 0)
  <1>1. (S \ {p}) \cup {p} = S /\ p \in Presses \ (S \ {p}) /\ S \ {p} \subseteq Presses
    OBVIOUS
  <1> QED BY <1>1, OfAdd

\* A press that goes on stays its participant's only one.
LEMMA GoKeepsSerial ==
    ASSUME TypeOK, Serial, UnspokenDone, NEW p \in Presses, NEW s, pc[p] \in Running,
           Go(p, s), Unspoken' = Unspoken \/ (s = "done" /\ Unspoken' = Unspoken \cup {p})
    PROVE  Serial' /\ UnspokenDone'
  <1>1. /\ user' = user /\ Unspoken \subseteq Presses
        /\ \A q \in Presses : pc'[q] = IF q = p THEN s ELSE pc[q]
    BY DEF Go, TypeOK, Unspoken
  <1>2. Serial'
    BY <1>1 DEF Serial
  <1>3. pc[p] # "done"
    BY DEF Running, Steps
  <1>4. UnspokenDone'
    BY <1>1, <1>3 DEF UnspokenDone
  <1> QED BY <1>2, <1>4

LEMMA AccountsFrame ==
    ASSUME Accounts, UNCHANGED <<user, paid, calls, Unspoken, restarts>>, Again' = Again
    PROVE  Accounts'
  BY DEF Accounts, Of

\* A step to anything but the second look leaves the accounts alone.
LEMMA GoKeepsPaid ==
    ASSUME PaidInv, TypeOK', NEW p \in Presses, NEW s, pc[p] \in Running, Go(p, s),
           pc[p] # "again", s # "again", UNCHANGED <<paid, calls, Unspoken, restarts>>
    PROVE  PaidInv'
  <1>1. Again' = Again /\ user' = user
    BY DEF Again, Go, PaidInv, TypeOK
  <1>2. Serial' /\ UnspokenDone'
    BY GoKeepsSerial DEF PaidInv
  <1> QED BY <1>1, <1>2, AccountsFrame DEF PaidInv

LEMMA PressKeepsPaid ==
    ASSUME PaidInv, TypeOK', NEW p \in Presses, Press(p)
    PROVE  PaidInv'
  <1>1. /\ user' = user /\ Unspoken' = Unspoken /\ Unspoken \subseteq Presses
        /\ \A q \in Presses : pc'[q] = IF q = p THEN "look" ELSE pc[q]
    BY DEF Press, Go, PaidInv, TypeOK, history, Unspoken
  <1>2. Serial'
    BY <1>1 DEF PaidInv, Serial, Press, Running
  <1>3. UnspokenDone'
    BY <1>1 DEF PaidInv, UnspokenDone, Press
  <1>4. Again' = Again
    BY <1>1 DEF Again, Press
  <1>5. Accounts'
    BY <1>1, <1>4, AccountsFrame DEF PaidInv, Press, history
  <1> QED BY <1>2, <1>3, <1>5 DEF PaidInv

LEMMA CheckAndCountKeepsPaid ==
    ASSUME PaidInv, TypeOK', NEW p \in Presses, CheckAndCount(p)
    PROVE  PaidInv'
  <1>1. pc[p] = "pay" /\ pc[p] \in Running /\ UNCHANGED <<calls, Unspoken, restarts>>
    BY DEF CheckAndCount, Running, Steps, Unspoken
  <1>2. CASE Go(p, "done") /\ UNCHANGED paid
    BY <1>1, <1>2, GoKeepsPaid
  <1>3. CASE Go(p, "again") /\ paid' = [paid EXCEPT ![user[p]] = @ + 1]
    <2>1. Serial' /\ UnspokenDone'
      BY <1>1, <1>3, GoKeepsSerial DEF PaidInv
    <2>2. Again' = Again \cup {p} /\ p \in Presses \ Again /\ Again \subseteq Presses
          /\ user' = user /\ user[p] \in Users
      BY <1>1, <1>3 DEF Again, Go, PaidInv, TypeOK
    <2>3. ASSUME NEW u \in Users
          PROVE  /\ Of(u, Unspoken)' = Of(u, Unspoken)
                 /\ Of(u, Again)' = Of(u, Again) + (IF user[p] = u THEN 1 ELSE 0)
                 /\ paid'[u] = paid[u] + (IF user[p] = u THEN 1 ELSE 0)
      <3>1. Of(u, Again)' = Of(u, Again \cup {p})
        BY <2>2 DEF Of
      <3>2. Of(u, Again \cup {p}) = Of(u, Again) + (IF user[p] = u THEN 1 ELSE 0)
        BY <2>2, OfAdd
      <3> QED BY <1>1, <1>3, <2>2, <3>1, <3>2 DEF Of, PaidInv, TypeOK
    <2>4. Accounts'
      <3> SUFFICES ASSUME NEW u \in Users
                   PROVE  /\ calls[u] + Of(u, Unspoken)' + Of(u, Again)' <= paid'[u]
                          /\ paid'[u] <= calls[u] + Of(u, Unspoken)' + Of(u, Again)' + restarts
        BY <1>1 DEF Accounts
      <3>1. /\ calls[u] \in Nat /\ paid[u] \in Nat /\ restarts \in Nat
            /\ Of(u, Unspoken) \in Nat /\ Of(u, Again) \in Nat
        BY <2>2, OfType DEF PaidInv, TypeOK, Unspoken
      <3> QED BY <2>3, <3>1 DEF PaidInv, Accounts
    <2> QED BY <2>1, <2>4 DEF PaidInv
  <1> QED BY <1>2, <1>3 DEF CheckAndCount

LEMMA AgainKeepsPaid ==
    ASSUME PaidInv, TypeOK', NEW p \in Presses, AnswerFails(p) \/ LookAgain(p)
    PROVE  PaidInv'
  <1>1. /\ pc[p] = "again" /\ pc[p] \in Running /\ UNCHANGED <<paid, restarts>>
        /\ \/ Go(p, "done") /\ Unspoken' = Unspoken \cup {p} /\ calls' = calls
           \/ /\ Go(p, "speak") /\ Unspoken' = Unspoken
              /\ calls' = [calls EXCEPT ![user[p]] = @ + 1]
    BY DEF AnswerFails, LookAgain, Running, Steps, Unspoken
  <1>2. Serial' /\ UnspokenDone'
    BY <1>1, GoKeepsSerial DEF PaidInv
  <1>3. Again' = Again \ {p} /\ p \in Again /\ Again \subseteq Presses
        /\ user' = user /\ user[p] \in Users /\ Unspoken \subseteq Presses /\ p \notin Unspoken
    BY <1>1 DEF Again, Go, PaidInv, TypeOK, UnspokenDone, Unspoken
  <1>4. ASSUME NEW u \in Users
        PROVE  /\ Of(u, Again) = Of(u, Again)' + (IF user[p] = u THEN 1 ELSE 0)
               /\ calls'[u] + Of(u, Unspoken)' =
                     calls[u] + Of(u, Unspoken) + (IF user[p] = u THEN 1 ELSE 0)
               /\ Of(u, Again)' \in Nat
    <2>1. /\ Of(u, Again)' = Of(u, Again \ {p}) /\ Of(u, Unspoken)' = Of(u, Unspoken')
          /\ Of(u, Again \ {p}) \in Nat /\ calls[u] \in Nat /\ Of(u, Unspoken) \in Nat
      <3>1. Of(u, Again)' = Of(u, Again \ {p}) /\ Of(u, Unspoken)' = Of(u, Unspoken')
        BY <1>3 DEF Of
      <3>2. Again \ {p} \subseteq Presses /\ calls[u] \in Nat
        BY <1>3 DEF PaidInv, TypeOK
      <3> QED BY <1>3, <3>1, <3>2, OfType
    <2>2. Of(u, Again) = Of(u, Again \ {p}) + (IF user[p] = u THEN 1 ELSE 0)
      BY <1>3, OfRemove
    <2>3. CASE Unspoken' = Unspoken \cup {p} /\ calls' = calls
      <3>1. Of(u, Unspoken \cup {p}) = Of(u, Unspoken) + (IF user[p] = u THEN 1 ELSE 0)
        BY <1>3, OfAdd
      <3> QED BY <2>1, <2>2, <2>3, <3>1
    <2>4. CASE Unspoken' = Unspoken /\ calls' = [calls EXCEPT ![user[p]] = @ + 1]
      <3>1. calls'[u] = calls[u] + (IF user[p] = u THEN 1 ELSE 0)
        BY <1>3, <2>1, <2>4 DEF PaidInv, TypeOK
      <3> QED BY <2>1, <2>2, <2>4, <3>1
    <2> QED BY <1>1, <2>3, <2>4
  <1>5. Accounts'
    <2> SUFFICES ASSUME NEW u \in Users
                 PROVE  /\ calls'[u] + Of(u, Unspoken)' + Of(u, Again)' <= paid[u]
                        /\ paid[u] <= calls'[u] + Of(u, Unspoken)' + Of(u, Again)' + restarts
      BY <1>1 DEF Accounts
    <2>1. /\ calls[u] \in Nat /\ paid[u] \in Nat /\ restarts \in Nat
          /\ Of(u, Unspoken) \in Nat /\ Of(u, Again) \in Nat
      BY <1>3, OfType DEF PaidInv, TypeOK
    <2>2. calls'[u] + Of(u, Unspoken)' + Of(u, Again)' = calls[u] + Of(u, Unspoken) + Of(u, Again)
      BY <1>4, <2>1
    <2> QED BY <2>1, <2>2 DEF PaidInv, Accounts
  <1> QED BY <1>2, <1>5 DEF PaidInv

\* A restart cuts off at most one press of a participant.
LEMMA RestartKeepsPaid ==
    ASSUME PaidInv, TypeOK', Restart
    PROVE  PaidInv'
  <1>1. /\ UNCHANGED <<user, paid, calls, Unspoken>> /\ restarts' = restarts + 1
        /\ \A p \in Presses : pc'[p] = IF pc[p] = "new" THEN "new" ELSE "done"
    BY DEF Restart, history, Unspoken
  <1>2. Serial' /\ Again' = {}
    BY <1>1 DEF Serial, Again, Running
  <1>3. UnspokenDone'
    BY <1>1 DEF PaidInv, UnspokenDone, TypeOK, Unspoken
  <1>4. ASSUME NEW u \in Users
        PROVE  /\ Of(u, Again)' = 0 /\ Of(u, Unspoken)' = Of(u, Unspoken) /\ Of(u, Again) <= 1
    <2>1. {p \in {} : user[p] = u} = {}
      OBVIOUS
    <2>2. Of(u, Again)' = 0 /\ Of(u, Unspoken)' = Of(u, Unspoken)
      BY <1>1, <1>2, <2>1, FS_EmptySet DEF Of
    <2> DEFINE S == {p \in Again : user[p] = u}
    <2>3. CASE S = {}
      BY <2>2, <2>3, FS_EmptySet DEF Of
    <2>4. CASE S # {}
      <3>1. PICK p \in S : TRUE
        BY <2>4
      <3>2. "again" \in Running
        BY DEF Running, Steps
      <3>3. S = {p}
        BY <3>1, <3>2 DEF Again, PaidInv, Serial
      <3>4. Cardinality({p}) = 1
        BY FS_Singleton
      <3> QED BY <2>2, <3>3, <3>4 DEF Of
    <2> QED BY <2>3, <2>4
  <1>5. Accounts'
    <2> SUFFICES ASSUME NEW u \in Users
                 PROVE  /\ calls[u] + Of(u, Unspoken)' + Of(u, Again)' <= paid[u]
                        /\ paid[u] <= calls[u] + Of(u, Unspoken)' + Of(u, Again)' + (restarts + 1)
      BY <1>1 DEF Accounts
    <2>1. /\ calls[u] \in Nat /\ paid[u] \in Nat /\ restarts \in Nat
          /\ Of(u, Unspoken) \in Nat /\ Of(u, Again) \in Nat
      BY OfType DEF PaidInv, TypeOK, Again, Unspoken
    <2> QED BY <1>4, <2>1 DEF PaidInv, Accounts
  <1> QED BY <1>2, <1>3, <1>5 DEF PaidInv

LEMMA PaidInit == Init => PaidInv
  <1> SUFFICES ASSUME Init PROVE PaidInv
    OBVIOUS
  <1>1. Serial /\ UnspokenDone /\ Again = {}
    BY DEF Init, Serial, UnspokenDone, Again, Running, Unspoken
  <1>2. ASSUME NEW u \in Users PROVE Of(u, Unspoken) = 0 /\ Of(u, Again) = 0
    <2>1. Unspoken = {} /\ {p \in {} : user[p] = u} = {}
      BY DEF Init, Unspoken
    <2> QED BY <1>1, <2>1, FS_EmptySet DEF Of
  <1>3. Accounts
    BY <1>2 DEF Init, Accounts
  <1> QED BY <1>1, <1>3, TypeInit DEF PaidInv

LEMMA PaidStep == PaidInv /\ [Next]_vars => PaidInv'
  <1> SUFFICES ASSUME PaidInv, [Next]_vars PROVE PaidInv'
    OBVIOUS
  <1>0. TypeOK'
    BY TypeStep DEF PaidInv
  <1>1. ASSUME NEW p \in Presses, Press(p) PROVE PaidInv'
    BY <1>0, <1>1, PressKeepsPaid
  <1>2. ASSUME NEW p \in Presses, Look(p) PROVE PaidInv'
    BY <1>0, <1>2, GoKeepsPaid DEF Look, Running, Steps, history, Unspoken
  <1>3. ASSUME NEW p \in Presses, CheckAndCount(p) PROVE PaidInv'
    BY <1>0, <1>3, CheckAndCountKeepsPaid
  <1>4. ASSUME NEW p \in Presses, AnswerFails(p) \/ LookAgain(p) PROVE PaidInv'
    BY <1>0, <1>4, AgainKeepsPaid
  <1>5. ASSUME NEW p \in Presses, Synthesize(p) PROVE PaidInv'
    <2>1. pc[p] = "speak" /\ pc[p] \in Running /\ UNCHANGED <<paid, calls, Unspoken, restarts>>
      BY <1>5 DEF Synthesize, Running, Steps, history, Unspoken
    <2>2. CASE UNCHANGED press
      BY <1>0, <2>1, <2>2, AccountsFrame DEF press, PaidInv, Serial, UnspokenDone, Again
    <2> QED BY <1>0, <1>5, <2>1, <2>2, GoKeepsPaid DEF Synthesize
  <1>6. ASSUME NEW p \in Presses, Open(p) PROVE PaidInv'
    BY <1>0, <1>6, GoKeepsPaid DEF Open, Running, Steps, Unspoken
  <1>7. ASSUME NEW p \in Presses, Write(p) PROVE PaidInv'
    <2>1. pc[p] = "write" /\ pc[p] \in Running /\ UNCHANGED <<paid, calls, Unspoken, restarts>>
          /\ (Go(p, "write") \/ Go(p, "replace"))
      BY <1>7 DEF Write, Running, Steps, history, Unspoken
    <2> QED BY <1>0, <2>1, GoKeepsPaid
  <1>8. ASSUME NEW p \in Presses, Replace(p) PROVE PaidInv'
    BY <1>0, <1>8, GoKeepsPaid DEF Replace, Running, Steps, history, Unspoken
  <1>9. CASE Restart
    BY <1>0, <1>9, RestartKeepsPaid
  <1>10. CASE (\E f \in Phrases : Prune(f)) \/ Roll \/ UNCHANGED vars
    <2>1. UNCHANGED <<pc, user, paid, calls, Unspoken, restarts>>
      BY <1>10 DEF Prune, Roll, vars, press, history, Unspoken
    <2> QED BY <1>0, <2>1, AccountsFrame DEF PaidInv, Serial, UnspokenDone, Again
  <1> QED BY <1>1, <1>2, <1>3, <1>4, <1>5, <1>6, <1>7, <1>8, <1>9, <1>10 DEF Next, Step

\* Who pays gets a synthesis, however presses of different people, nights and restarts
\* interleave (on_speak, UsageLimiter.check_and_count, VoiceCache).
THEOREM PaidIsSynthesized == Spec => []PaidForSynthesis
  <1>1. PaidInv => PaidForSynthesis
    <2> SUFFICES ASSUME PaidInv, NEW u \in Users
                 PROVE  /\ calls[u] <= paid[u]
                        /\ paid[u] <= calls[u] + Of(u, Unspoken) + Of(u, Again) + restarts
      BY DEF PaidForSynthesis, Again
    <2>1. /\ calls[u] \in Nat /\ paid[u] \in Nat
          /\ Of(u, Unspoken) \in Nat /\ Of(u, Again) \in Nat
      BY OfType DEF PaidInv, TypeOK, Again, Unspoken
    <2> QED BY <2>1 DEF PaidInv, Accounts
  <1> QED BY <1>1, PaidInit, PaidStep, PTL DEF Spec

-----------------------------------------------------------------------------
(* What is in the files.                                                    *)

\* The press that made an inode has opened it.
Begun   == {"write", "replace", "done"}
Made(i) == pc[i] \in Begun

\* An inode stays with the phrase of the press that made it, whoever writes to it.
Homes ==
    /\ \A f \in Phrases : path[f] # 0 => Made(path[f]) /\ phrase[path[f]] = f
    /\ \A f \in Phrases : part[f] # 0 => Made(part[f]) /\ phrase[part[f]] = f
    /\ \A p \in Presses : inode[p] # 0 => Made(inode[p]) /\ phrase[inode[p]] = phrase[p]

\* What is stored is not what is being written.
Apart == \A f \in Phrases : path[f] # 0 => path[f] # part[f]

\* The writer of a phrase that never had two has written what it has come to.
Whole(p) ==
    /\ inode[p] # 0 /\ part[phrase[p]] = inode[p]
    /\ content[inode[p]] = [k \in 1 .. offset[p] |-> p]
    /\ pc[p] = "write" => offset[p] < Chunks[p]
    /\ pc[p] = "replace" => offset[p] = Chunks[p]

OneWriter ==
    \A f \in Phrases \ torn :
        /\ path[f] # 0 => Sound(content[path[f]])
        /\ \A p \in Writing(f) : Whole(p)
        /\ \A p, q \in Writing(f) : p = q

DiskInv ==
    /\ TypeOK /\ DOMAIN content = Inodes /\ DOMAIN heard = Presses
    /\ Homes /\ Apart /\ OneWriter
    /\ ReadsAreSound

\* A recording that is one press's from the first chunk to the last.
LEMMA WholeIsSound ==
    ASSUME NEW q \in Presses
    PROVE  Sound([k \in 1 .. Chunks[q] |-> q])
  BY DEF Sound

\* Steps that open, write and rename nothing, and read only what the cache holds.
LEMMA QuietKeepsDisk ==
    ASSUME DiskInv, TypeOK', UNCHANGED <<phrase, inode, offset, path, part, content, torn>>,
           \A q \in Presses : Made(q) => pc'[q] = pc[q] \/ pc'[q] = "done",
           \A q \in Presses : pc'[q] \in {"write", "replace"} => pc[q] = pc'[q],
           ReadsAreSound', DOMAIN heard' = Presses
    PROVE  DiskInv'
  <1>1. \A i \in Presses : Made(i) => Made(i)'
    BY DEF Made, Begun
  <1>2. Homes' /\ Apart'
    BY <1>1 DEF DiskInv, Homes, Apart, TypeOK, Inodes, Presses
  <1>3. OneWriter'
    <2>1. \A f \in Phrases : Writing(f)' \subseteq Writing(f)
      BY DEF Writing
    <2>2. ASSUME NEW f \in Phrases, NEW p \in Writing(f)', Whole(p) PROVE Whole(p)'
      BY <2>2 DEF Whole, Writing
    <2> QED BY <2>1, <2>2 DEF DiskInv, OneWriter, Sound
  <1> QED BY <1>2, <1>3 DEF DiskInv

\* What the cache holds of a phrase with one writer at a time may be heard.
LEMMA HearKeepsReads ==
    ASSUME DiskInv, NEW p \in Presses, Cached(p), Hear(p), phrase' = phrase, torn' = torn
    PROVE  ReadsAreSound' /\ DOMAIN heard' = Presses
  <1>1. phrase[p] \in Phrases
    BY DEF DiskInv, TypeOK
  <1>2. Sound(content[path[phrase[p]]]) \/ phrase[p] \in torn
    BY <1>1 DEF DiskInv, OneWriter, Cached
  <1>3. heard' = [heard EXCEPT ![p] = {content[path[phrase[p]]]}]
    BY DEF Hear
  <1>4. ASSUME NEW q \in Presses, NEW c \in heard'[q]
        PROVE  Sound(c) \/ phrase[q] \in torn
    <2>1. CASE q = p
      <3>1. c = content[path[phrase[p]]]
        BY <1>3, <1>4, <2>1 DEF DiskInv
      <3> QED BY <1>2, <2>1, <3>1
    <2>2. CASE q # p
      BY <1>3, <1>4, <2>2 DEF DiskInv, ReadsAreSound
    <2> QED BY <2>1, <2>2
  <1>5. ReadsAreSound'
    BY <1>4 DEF ReadsAreSound, Sound
  <1> QED BY <1>3, <1>5 DEF DiskInv

LEMMA SameReads ==
    ASSUME DiskInv, heard' = heard, phrase' = phrase, torn \subseteq torn'
    PROVE  ReadsAreSound' /\ DOMAIN heard' = Presses
  BY DEF DiskInv, ReadsAreSound, Sound

\* An inode that a phrase or a press knows belongs to one phrase only.
LEMMA OtherInodes ==
    ASSUME DiskInv, NEW i, NEW f \in Phrases, i # 0 => phrase[i] = f,
           NEW g \in Phrases, g # f
    PROVE  /\ path[g] # 0 => path[g] # i
           /\ \A q \in Writing(g) : inode[q] # 0 => inode[q] # i
  BY DEF DiskInv, Homes, Writing

LEMMA OpenKeepsDisk ==
    ASSUME DiskInv, TypeOK', NEW p \in Presses, Open(p)
    PROVE  DiskInv'
  <1> DEFINE f == phrase[p]
             i == IF part[f] = 0 THEN p ELSE part[f]
  <1>1. /\ pc[p] = "open" /\ pc' = [pc EXCEPT ![p] = "write"] /\ phrase' = phrase
        /\ part' = [part EXCEPT ![f] = i] /\ inode' = [inode EXCEPT ![p] = i]
        /\ content' = [content EXCEPT ![i] = << >>]
        /\ torn' = IF Writing(f) = {} THEN torn ELSE torn \cup {f}
        /\ offset' = [offset EXCEPT ![p] = 0] /\ heard' = heard /\ path' = path
    BY DEF Open, Go
  <1>2. /\ f \in Phrases /\ i \in Inodes /\ i # 0 /\ ~Made(p) /\ Inodes = Presses
        /\ (i = p \/ (i = part[f] /\ part[f] # 0))
    BY <1>1 DEF DiskInv, TypeOK, Made, Begun, Inodes, Presses
  <1> HIDE DEF i
  <1>3. /\ phrase[i] = f /\ pc'[i] \in Begun
        /\ \A j \in Presses : Made(j) => pc'[j] \in Begun
    <2>1. phrase[i] = f /\ (i = p \/ Made(i))
      BY <1>2 DEF DiskInv, Homes
    <2>2. \A j \in Presses : Made(j) \/ j = p => pc'[j] \in Begun
      BY <1>1 DEF Made, Begun, DiskInv, TypeOK
    <2> QED BY <1>2, <2>1, <2>2
  <1>4. path[f] # 0 => path[f] # i
    BY <1>2 DEF DiskInv, Homes, Apart
  <1>0. /\ \A g \in Phrases : /\ path[g] # 0 => path[g] \in Presses /\ Made(path[g])
                              /\ part[g] # 0 => part[g] \in Presses /\ Made(part[g])
        /\ \A q \in Presses : inode[q] # 0 => inode[q] \in Presses /\ Made(inode[q])
    BY DEF DiskInv, Homes, TypeOK, Inodes, Presses
  <1>5. Homes'
    <2>1. ASSUME NEW g \in Phrases
          PROVE  /\ path'[g] # 0 => pc'[path'[g]] \in Begun /\ phrase'[path'[g]] = g
                 /\ part'[g] # 0 => pc'[part'[g]] \in Begun /\ phrase'[part'[g]] = g
      <3>1. path'[g] # 0 => pc'[path'[g]] \in Begun /\ phrase'[path'[g]] = g
        BY <1>0, <1>1, <1>3 DEF DiskInv, Homes
      <3>2. part'[g] = IF g = f THEN i ELSE part[g]
        BY <1>1, <1>2 DEF DiskInv, TypeOK
      <3>3. CASE g = f
        BY <1>1, <1>3, <3>1, <3>2, <3>3
      <3>4. CASE g # f
        BY <1>0, <1>1, <1>3, <3>1, <3>2, <3>4 DEF DiskInv, Homes
      <3> QED BY <3>3, <3>4
    <2>2. ASSUME NEW q \in Presses, inode'[q] # 0
          PROVE  pc'[inode'[q]] \in Begun /\ phrase'[inode'[q]] = phrase'[q]
      <3>1. CASE q = p
        BY <1>1, <1>2, <1>3, <3>1 DEF DiskInv, TypeOK
      <3>2. CASE q # p
        <4>1. inode'[q] = inode[q]
          BY <1>1, <3>2 DEF DiskInv, TypeOK
        <4> QED BY <1>0, <1>1, <1>3, <2>2, <4>1 DEF DiskInv, Homes
      <3> QED BY <3>1, <3>2
    <2> QED BY <2>1, <2>2 DEF Homes, Made, Begun
  <1>6. Apart'
    BY <1>1, <1>2, <1>4 DEF DiskInv, Apart, TypeOK
  <1>7. ASSUME NEW g \in Phrases \ torn', g # f
        PROVE  /\ path'[g] # 0 => Sound(content'[path'[g]])
               /\ \A q \in Writing(g)' : Whole(q)'
               /\ \A q, r \in Writing(g)' : q = r
    <2>1. g \notin torn /\ Writing(g)' = Writing(g) /\ part'[g] = part[g]
      <3>1. g \notin torn /\ part'[g] = part[g]
        BY <1>1, <1>2, <1>7 DEF DiskInv, TypeOK
      <3>2. Writing(g)' = Writing(g)
        BY <1>1, <1>7 DEF Writing, DiskInv, TypeOK
      <3> QED BY <3>1, <3>2
    <2>2. /\ path[g] # 0 => path[g] # i
          /\ \A q \in Writing(g) : inode[q] # 0 => inode[q] # i
      BY <1>2, <1>3, <1>7, OtherInodes
    <2>3. ASSUME NEW q \in Writing(g) PROVE Whole(q)'
      <3>1. Whole(q) /\ q # p /\ q \in Presses /\ phrase[q] = g
        BY <1>1, <1>7, <2>1, <2>3 DEF DiskInv, OneWriter, Writing
      <3>2. inode[q] \in Inodes /\ inode[q] # i /\ content'[inode[q]] = content[inode[q]]
        BY <1>1, <1>2, <2>2, <2>3, <3>1 DEF Whole, DiskInv, TypeOK
      <3> QED BY <1>1, <2>1, <3>1, <3>2 DEF Whole, DiskInv, TypeOK
    <2>4. path[g] # 0 => Sound(content[path[g]]) /\ content'[path[g]] = content[path[g]]
      BY <1>1, <1>2, <1>7, <2>1, <2>2 DEF DiskInv, OneWriter, TypeOK
    <2> QED BY <1>1, <1>7, <2>1, <2>3, <2>4 DEF DiskInv, OneWriter
  <1>8. ASSUME f \notin torn'
        PROVE  /\ path'[f] # 0 => Sound(content'[path'[f]])
               /\ \A q \in Writing(f)' : Whole(q)'
               /\ \A q, r \in Writing(f)' : q = r
    <2>1. Writing(f) = {} /\ f \notin torn
      BY <1>1, <1>8
    <2>2. Writing(f)' = {p}
      BY <1>1, <2>1 DEF Writing, DiskInv, TypeOK
    <2>3. << >> = [k \in 1 .. 0 |-> p]
      <3>1. 1 .. 0 = {}
        OBVIOUS
      <3> QED BY <3>1
    <2>4. /\ inode'[p] = i /\ part'[f] = i /\ offset'[p] = 0 /\ content'[i] = << >>
          /\ pc'[p] = "write" /\ Chunks[p] \in Nat \ {0} /\ phrase'[p] = f
      BY <1>1, <1>2, SpeechAssumption DEF DiskInv, TypeOK, Presses
    <2>5. Whole(p)'
      BY <1>2, <2>3, <2>4 DEF Whole
    <2>6. path[f] # 0 => content'[path[f]] = content[path[f]]
      BY <1>1, <1>2, <1>4 DEF DiskInv, TypeOK
    <2> QED BY <1>1, <1>2, <2>1, <2>2, <2>5, <2>6 DEF DiskInv, OneWriter
  <1>9. OneWriter'
    <2>1. ASSUME NEW g \in Phrases \ torn'
          PROVE  /\ path'[g] # 0 => Sound(content'[path'[g]])
                 /\ \A q \in Writing(g)' : Whole(q)'
                 /\ \A q, r \in Writing(g)' : q = r
      <3>1. CASE g = f
        <4>1. path'[g] # 0 => Sound(content'[path'[g]])
          BY <1>8, <3>1
        <4>2. (\A q \in Writing(g)' : Whole(q)') /\ \A q, r \in Writing(g)' : q = r
          <5>1. Writing(g)' = Writing(f)'
            BY <1>1, <3>1 DEF Writing
          <5> QED BY <1>8, <3>1, <5>1
        <4> QED BY <4>1, <4>2
      <3>2. CASE g # f
        BY <1>7, <3>2
      <3> QED BY <3>1, <3>2
    <2> QED BY <2>1 DEF OneWriter
  <1>10. ReadsAreSound' /\ DOMAIN heard' = Presses /\ DOMAIN content' = Inodes
    <2>1. torn \subseteq torn'
      BY <1>1
    <2> QED BY <1>1, <2>1, SameReads DEF DiskInv
  <1> QED BY <1>5, <1>6, <1>9, <1>10 DEF DiskInv

LEMMA WriteKeepsDisk ==
    ASSUME DiskInv, TypeOK', NEW p \in Presses, Write(p)
    PROVE  DiskInv'
  <1> DEFINE f == phrase[p]
             i == inode[p]
             n == offset[p] + 1
             step == IF n < Chunks[p] THEN "write" ELSE "replace"
             grown == [k \in DOMAIN content[i] \cup 1 .. n |->
                          IF k = n THEN p ELSE IF k \in DOMAIN content[i] THEN content[i][k] ELSE 0]
  <1>1. /\ pc[p] = "write" /\ pc' = [pc EXCEPT ![p] = step]
        /\ content' = [content EXCEPT ![i] = grown] /\ offset' = [offset EXCEPT ![p] = n]
        /\ UNCHANGED <<phrase, heard, path, part, inode, torn>>
    BY DEF Write, Go, history
  <1>2. /\ f \in Phrases /\ offset[p] \in Nat /\ n \in Nat /\ Chunks[p] \in Nat
        /\ step \in {"write", "replace"} /\ (i # 0 => phrase[i] = f)
    <2>1. f \in Phrases /\ offset[p] \in Nat /\ (i # 0 => phrase[i] = f)
      BY DEF DiskInv, TypeOK, Homes
    <2>2. Chunks[p] \in Nat
      BY SpeechAssumption DEF Presses
    <2> QED BY <2>1, <2>2
  <1> HIDE DEF n, step, grown
  <1>3. Homes' /\ Apart'
    <2>1. \A j \in Presses : Made(j)' <=> Made(j)
      BY <1>1, <1>2 DEF Made, Begun, DiskInv, TypeOK
    <2> QED BY <1>1, <2>1 DEF DiskInv, Homes, Apart, TypeOK, Inodes, Presses
  <1>4. \A g \in Phrases : Writing(g)' = Writing(g)
    BY <1>1, <1>2 DEF Writing, DiskInv, TypeOK
  <1>5. ASSUME NEW g \in Phrases \ torn, g # f
        PROVE  /\ path'[g] # 0 => Sound(content'[path'[g]])
               /\ \A q \in Writing(g)' : Whole(q)'
    <2>1. /\ path[g] # 0 => path[g] # i
          /\ \A q \in Writing(g) : inode[q] # 0 => inode[q] # i
      BY <1>2, <1>5, OtherInodes
    <2>2. ASSUME NEW q \in Writing(g) PROVE Whole(q)'
      <3>1. Whole(q) /\ q # p /\ q \in Presses /\ phrase[q] = g
        BY <1>5, <2>2 DEF DiskInv, OneWriter, Writing
      <3>2. inode[q] \in Inodes /\ content'[inode[q]] = content[inode[q]]
        BY <1>1, <2>1, <2>2, <3>1 DEF Whole, DiskInv, TypeOK
      <3> QED BY <1>1, <3>1, <3>2 DEF Whole, DiskInv, TypeOK
    <2>3. path[g] # 0 => Sound(content[path[g]]) /\ content'[path[g]] = content[path[g]]
      BY <1>1, <1>5, <2>1 DEF DiskInv, OneWriter, TypeOK
    <2> QED BY <1>1, <1>4, <2>2, <2>3
  <1>6. ASSUME f \notin torn
        PROVE  /\ path'[f] # 0 => Sound(content'[path'[f]])
               /\ \A q \in Writing(f)' : Whole(q)'
    <2>1. p \in Writing(f)
      BY <1>1 DEF Writing
    <2>2. Whole(p) /\ \A q \in Writing(f) : q = p
      BY <1>2, <1>6, <2>1 DEF DiskInv, OneWriter
    <2>3. /\ i # 0 /\ i \in Inodes /\ part[f] = i
          /\ content[i] = [k \in 1 .. offset[p] |-> p] /\ offset[p] < Chunks[p]
      BY <1>1, <2>2 DEF Whole, DiskInv, TypeOK
    <2>4. DOMAIN content[i] \cup 1 .. n = 1 .. n
      BY <1>2, <2>3 DEF n
    <2>5. grown = [k \in 1 .. n |-> p]
      <3>1. \A k \in 1 .. n : k = n \/ (k \in 1 .. offset[p] /\ content[i][k] = p)
        BY <1>2, <2>3 DEF n
      <3>2. DOMAIN grown = 1 .. n /\ \A k \in 1 .. n : grown[k] = p
        BY <2>3, <2>4, <3>1 DEF grown
      <3>3. grown = [k \in 1 .. n |-> grown[k]]
        BY <2>4 DEF grown
      <3> QED BY <3>2, <3>3
    <2>6. content'[i] = [k \in 1 .. n |-> p] /\ offset'[p] = n /\ pc'[p] = step
      BY <1>1, <2>3, <2>5 DEF DiskInv, TypeOK
    <2>7. Whole(p)'
      <3>1. (step = "write" => n < Chunks[p]) /\ (step = "replace" => n = Chunks[p])
        BY <1>2, <2>3 DEF step, n
      <3> QED BY <1>1, <2>3, <2>6, <3>1 DEF Whole
    <2>8. path[f] # 0 => Sound(content[path[f]]) /\ content'[path[f]] = content[path[f]]
      BY <1>1, <1>2, <1>6, <2>3 DEF DiskInv, OneWriter, Apart, TypeOK
    <2> QED BY <1>1, <1>2, <1>4, <2>2, <2>7, <2>8
  <1>7. OneWriter'
    BY <1>1, <1>4, <1>5, <1>6 DEF OneWriter, DiskInv, Sound
  <1>8. ReadsAreSound' /\ DOMAIN heard' = Presses /\ DOMAIN content' = Inodes
    BY <1>1, SameReads DEF DiskInv
  <1> QED BY <1>3, <1>7, <1>8 DEF DiskInv

LEMMA ReplaceKeepsDisk ==
    ASSUME DiskInv, TypeOK', NEW p \in Presses, Replace(p)
    PROVE  DiskInv'
  <1> DEFINE f == phrase[p]
             whole == [k \in 1 .. Chunks[p] |-> p]
  <1>1. /\ pc[p] = "replace" /\ pc' = [pc EXCEPT ![p] = "done"]
        /\ inode' = [inode EXCEPT ![p] = 0] /\ offset' = [offset EXCEPT ![p] = 0]
        /\ UNCHANGED <<phrase, content, torn>>
        /\ \/ part[f] = 0 /\ UNCHANGED <<path, part, heard>>
           \/ /\ part[f] # 0 /\ path' = [path EXCEPT ![f] = part[f]]
              /\ part' = [part EXCEPT ![f] = 0]
              /\ heard' = [heard EXCEPT ![p] = {whole}]
    BY DEF Replace, Go, history
  <1>2. f \in Phrases /\ Sound(whole)
    BY WholeIsSound DEF DiskInv, TypeOK
  <1> HIDE DEF whole
  <1>3. Homes' /\ Apart'
    <2>1. \A j \in Presses : Made(j) => pc'[j] \in Begun
      BY <1>1 DEF Made, Begun, DiskInv, TypeOK
    <2>2. \A g \in Phrases : /\ path'[g] # 0 => path'[g] \in {path[g], part[g]}
                             /\ part'[g] # 0 => part'[g] = part[g]
                             /\ path'[g] # 0 => path'[g] # part'[g]
      BY <1>1, <1>2 DEF DiskInv, TypeOK, Apart
    <2>3. \A q \in Presses : inode'[q] # 0 => inode'[q] = inode[q]
      BY <1>1 DEF DiskInv, TypeOK
    <2>4. \A g \in Phrases : /\ path[g] # 0 => path[g] \in Presses
                             /\ part[g] # 0 => part[g] \in Presses
      BY DEF DiskInv, TypeOK, Inodes, Presses
    <2>5. \A q \in Presses : inode[q] # 0 => inode[q] \in Presses
      BY DEF DiskInv, TypeOK, Inodes, Presses
    <2>6. Apart'
      BY <2>2 DEF Apart
    <2>7. ASSUME NEW g \in Phrases
          PROVE  /\ path'[g] # 0 => pc'[path'[g]] \in Begun /\ phrase'[path'[g]] = g
                 /\ part'[g] # 0 => pc'[part'[g]] \in Begun /\ phrase'[part'[g]] = g
      BY <1>1, <2>1, <2>2, <2>4 DEF DiskInv, Homes
    <2>8. ASSUME NEW q \in Presses, inode'[q] # 0
          PROVE  pc'[inode'[q]] \in Begun /\ phrase'[inode'[q]] = phrase'[q]
      BY <1>1, <2>1, <2>3, <2>5, <2>8 DEF DiskInv, Homes
    <2> QED BY <2>6, <2>7, <2>8 DEF Homes, Made, Begun
  <1>4. ASSUME NEW g \in Phrases \ torn, g # f
        PROVE  /\ path'[g] # 0 => Sound(content'[path'[g]])
               /\ \A q \in Writing(g)' : Whole(q)'
               /\ \A q, r \in Writing(g)' : q = r
    <2>1. Writing(g)' = Writing(g) /\ path'[g] = path[g] /\ part'[g] = part[g]
      BY <1>1, <1>2, <1>4 DEF Writing, DiskInv, TypeOK
    <2>2. ASSUME NEW q \in Writing(g) PROVE Whole(q)'
      <3>1. Whole(q) /\ q # p /\ q \in Presses /\ phrase[q] = g
        BY <1>4, <2>2 DEF DiskInv, OneWriter, Writing
      <3> QED BY <1>1, <2>1, <3>1 DEF Whole, DiskInv, TypeOK
    <2> QED BY <1>1, <1>4, <2>1, <2>2 DEF DiskInv, OneWriter
  <1>5. ASSUME f \notin torn
        PROVE  (path'[f] # 0 => Sound(content'[path'[f]])) /\ Writing(f)' = {}
    <2>1. p \in Writing(f)
      BY <1>1 DEF Writing
    <2>2. Whole(p) /\ \A q \in Writing(f) : q = p
      BY <1>2, <1>5, <2>1 DEF DiskInv, OneWriter
    <2>3. part[f] # 0 /\ content[part[f]] = whole
      BY <1>1, <2>2 DEF Whole, whole
    <2>4. path'[f] = part[f]
      BY <1>1, <1>2, <2>3 DEF DiskInv, TypeOK
    <2>5. Writing(f)' = {}
      BY <1>1, <2>2 DEF Writing, DiskInv, TypeOK
    <2> QED BY <1>1, <1>2, <2>3, <2>4, <2>5
  <1>6. OneWriter'
    BY <1>1, <1>4, <1>5 DEF OneWriter, Sound
  <1>7. ReadsAreSound' /\ DOMAIN heard' = Presses
    <2>1. CASE heard' = heard
      BY <1>1, <2>1, SameReads
    <2>2. CASE heard' = [heard EXCEPT ![p] = {whole}]
      <3>1. \A q \in Presses : \A c \in heard'[q] : Sound(c) \/ phrase[q] \in torn
        BY <1>2, <2>2 DEF DiskInv, ReadsAreSound
      <3>2. ReadsAreSound'
        BY <1>1, <3>1 DEF ReadsAreSound, Sound
      <3> QED BY <2>2, <3>2 DEF DiskInv
    <2> QED BY <1>1, <2>1, <2>2
  <1> QED BY <1>1, <1>3, <1>6, <1>7 DEF DiskInv

LEMMA PruneKeepsDisk ==
    ASSUME DiskInv, TypeOK', NEW f \in Phrases, Prune(f)
    PROVE  DiskInv'
  <1>1. /\ path' = [path EXCEPT ![f] = 0]
        /\ UNCHANGED <<pc, phrase, inode, offset, heard, part, content, torn>>
    BY DEF Prune, press, handle, history
  <1>2. \A g \in Phrases : path'[g] # 0 => path'[g] = path[g]
    BY <1>1 DEF DiskInv, TypeOK
  <1>3. Homes' /\ Apart'
    BY <1>1, <1>2 DEF DiskInv, Homes, Apart, Made, Begun
  <1>4. OneWriter'
    BY <1>1, <1>2 DEF DiskInv, OneWriter, Writing, Whole, Sound
  <1> QED BY <1>1, <1>3, <1>4, SameReads DEF DiskInv

LEMMA RestartKeepsDisk ==
    ASSUME DiskInv, TypeOK', Restart
    PROVE  DiskInv'
  <1>1. /\ \A p \in Presses : pc'[p] = IF pc[p] = "new" THEN "new" ELSE "done"
        /\ \A p \in Presses : inode'[p] = 0
        /\ UNCHANGED <<phrase, heard, path, part, content, torn>>
    BY DEF Restart, disk, history
  <1>2. /\ \A i \in Presses : Made(i) => Made(i)'
        /\ \A f \in Phrases : Writing(f)' = {}
    BY <1>1 DEF Made, Begun, Writing
  <1>3. Homes' /\ Apart'
    BY <1>1, <1>2 DEF DiskInv, Homes, Apart, TypeOK, Inodes, Presses
  <1>4. OneWriter'
    BY <1>1, <1>2 DEF DiskInv, OneWriter, Sound
  <1> QED BY <1>1, <1>3, <1>4, SameReads DEF DiskInv

LEMMA DiskInit == Init => DiskInv
  <1> SUFFICES ASSUME Init PROVE DiskInv
    OBVIOUS
  <1>1. Homes /\ Apart /\ OneWriter
    BY DEF Init, Homes, Apart, OneWriter, Writing
  <1>2. ReadsAreSound /\ DOMAIN heard = Presses /\ DOMAIN content = Inodes
    BY DEF Init, ReadsAreSound
  <1> QED BY <1>1, <1>2, TypeInit DEF DiskInv

LEMMA DiskStep == DiskInv /\ [Next]_vars => DiskInv'
  <1> SUFFICES ASSUME DiskInv, [Next]_vars PROVE DiskInv'
    OBVIOUS
  <1>0. TypeOK'
    BY TypeStep DEF DiskInv
  <1>1. ASSUME NEW p \in Presses, pc[p] \notin {"write", "replace", "done"}, NEW s, Go(p, s),
               s \notin {"write", "replace"}, UNCHANGED <<handle, disk, torn>>,
               ReadsAreSound', DOMAIN heard' = Presses
        PROVE  DiskInv'
    <2>1. /\ \A q \in Presses : pc'[q] = IF q = p THEN s ELSE pc[q]
          /\ UNCHANGED <<phrase, inode, offset, path, part, content, torn>>
      BY <1>1 DEF Go, handle, disk, DiskInv, TypeOK
    <2> QED BY <1>0, <1>1, <2>1, QuietKeepsDisk DEF Made, Begun
  <1>2. ASSUME NEW p \in Presses, Press(p) PROVE DiskInv'
    BY <1>1, <1>2, SameReads DEF Press, Go, history
  <1>3. ASSUME NEW p \in Presses, Look(p) \/ LookAgain(p) PROVE DiskInv'
    <2>1. /\ UNCHANGED <<phrase, handle, disk, torn>> /\ pc[p] \in {"look", "again"}
          /\ \/ Cached(p) /\ Hear(p) /\ Go(p, "done")
             \/ heard' = heard /\ (Go(p, "pay") \/ Go(p, "speak"))
      BY <1>3 DEF Look, LookAgain, Go, history
    <2>2. ReadsAreSound' /\ DOMAIN heard' = Presses
      BY <2>1, HearKeepsReads, SameReads
    <2> QED BY <1>1, <2>1, <2>2
  <1>4. ASSUME NEW p \in Presses, CheckAndCount(p) PROVE DiskInv'
    <2>1. UNCHANGED <<phrase, heard, torn>>
      BY <1>4 DEF CheckAndCount, Go
    <2> QED BY <1>1, <1>4, <2>1, SameReads DEF CheckAndCount
  <1>5. ASSUME NEW p \in Presses, Synthesize(p) PROVE DiskInv'
    <2>1. UNCHANGED <<phrase, heard, torn, handle, disk>> /\ pc[p] = "speak"
      BY <1>5 DEF Synthesize, Go, press, history
    <2>2. ReadsAreSound' /\ DOMAIN heard' = Presses
      BY <2>1, SameReads
    <2>3. CASE UNCHANGED press
      BY <1>0, <2>1, <2>2, <2>3, QuietKeepsDisk DEF press, handle, disk
    <2>4. CASE Go(p, "done")
      BY <1>1, <2>1, <2>2, <2>4
    <2>5. CASE Go(p, "open")
      BY <1>1, <2>1, <2>2, <2>5
    <2> QED BY <1>5, <2>3, <2>4, <2>5 DEF Synthesize
  <1>6. CASE Roll \/ UNCHANGED vars
    <2>1. UNCHANGED <<pc, phrase, heard, torn, inode, offset, path, part, content>>
      BY <1>6 DEF Roll, vars, press, handle, disk, history
    <2> QED BY <1>0, <2>1, SameReads, QuietKeepsDisk
  <1>7. ASSUME NEW p \in Presses, AnswerFails(p) PROVE DiskInv'
    <2>1. UNCHANGED <<phrase, heard, handle, disk, torn>> /\ pc[p] = "again" /\ Go(p, "done")
      BY <1>7 DEF AnswerFails, Go
    <2>2. ReadsAreSound' /\ DOMAIN heard' = Presses
      BY <2>1, SameReads DEF disk
    <2> QED BY <1>1, <2>1, <2>2
  <1> QED BY <1>0, <1>2, <1>3, <1>4, <1>5, <1>6, <1>7, OpenKeepsDisk, WriteKeepsDisk,
             ReplaceKeepsDisk, PruneKeepsDisk, RestartKeepsDisk
          DEF Next, Step

\* Whoever hears a phrase that was never written by two at once hears one recording from
\* its first chunk to its last, over any restarts, prunings and failed calls
\* (audio._write, VoiceCache.get).
THEOREM HeardIsWhole == Spec => []ReadsAreSound
  <1>1. DiskInv => ReadsAreSound
    BY DEF DiskInv
  <1> QED BY <1>1, DiskInit, DiskStep, PTL DEF Spec
=============================================================================
