------------------------- MODULE RegistrationProofs -------------------------
(***************************************************************************)
(* Theorems about Registration for any people, codes, updates and limits.  *)
(***************************************************************************)
EXTENDS Registration, FiniteSetTheorems, TLAPS

\* Whoever is being handled is known, and joining by code is not for the owner.
LocalsKnown ==
    \A p \in Updates :
        /\ pc[p] \in Running \cup {"waiting"} => who[p] \in People
        /\ pc[p] \in {"count", "redeem", "flush", "commit"} =>
              code[p] \in Codes /\ who[p] # Admin

\* A count that was read is no more than the people admitted since, or before.
SeenBounded ==
    \A p \in Updates : pc[p] \in {"flush", "commit"} =>
        seen[p] <= admitted[code[p]] /\ seen[p] < maxUses[code[p]]

\* Joiners past the check take a place of the roster each.
PlacesTaken ==
    /\ Cardinality(Passed) <= peak /\ 1 <= peak
    /\ Cardinality(members \ {Admin}) + Cardinality(Passed) <= MaxUsers - 1 + peak

IInv == TypeOK /\ LocalsKnown /\ SeenBounded /\ NoPhantomUse

-----------------------------------------------------------------------------
LEMMA InitIInv == Init => IInv
  <1> SUFFICES ASSUME Init PROVE IInv
    OBVIOUS
  <1> USE RegistrationAssumption DEF Init
  <1>1. TypeOK
    BY DEF TypeOK, Steps
  <1>2. LocalsKnown /\ SeenBounded /\ NoPhantomUse
    BY DEF LocalsKnown, SeenBounded, NoPhantomUse, Running, Steps
  <1> QED BY <1>1, <1>2 DEF IInv

\* What every step of one update leaves of the others.
LEMMA FinishLocals ==
    ASSUME TypeOK, NEW p \in Updates, Finish(p)
    PROVE  /\ pc' \in [Updates -> Steps] /\ who' \in [Updates -> People \cup {Nobody}]
           /\ code' \in [Updates -> Codes \cup {Nobody}] /\ seen' \in [Updates -> Nat]
           /\ lockOf' \in [Updates -> Nat]
           /\ pc'[p] = "done"
           /\ \A q \in Updates \ {p} : /\ pc'[q] = pc[q] /\ who'[q] = who[q]
                                       /\ code'[q] = code[q] /\ seen'[q] = seen[q]
  BY DEF TypeOK, Finish, GoTo, Steps

\* A handler that returns without writing keeps the invariant.
LEMMA FinishKeeps ==
    ASSUME IInv, NEW p \in Updates, Finish(p),
           UNCHANGED <<members, maxUses, used, lock, snapshot, crashes, admitted>>,
           writer' \in Updates \cup {NoUpdate}, peak' \in Nat
    PROVE  IInv'
  BY FinishLocals
  DEF IInv, TypeOK, LocalsKnown, SeenBounded, NoPhantomUse, Running

\* A handler that goes on keeps it, if it meets what its next step asks.
LEMMA GoToKeeps ==
    ASSUME IInv, NEW p \in Updates, NEW step \in Steps, GoTo(p, step),
           UNCHANGED <<members, maxUses, used, lock, snapshot, crashes, admitted, who,
                       code, seen, lockOf>>,
           writer' \in Updates \cup {NoUpdate}, peak' \in Nat,
           step \in Running \cup {"waiting"} => who[p] \in People,
           step \in {"count", "redeem", "flush", "commit"} =>
               code[p] \in Codes /\ who[p] # Admin,
           step \in {"flush", "commit"} =>
               seen[p] <= admitted[code[p]] /\ seen[p] < maxUses[code[p]]
    PROVE  IInv'
  BY DEF GoTo, IInv, TypeOK, LocalsKnown, SeenBounded, NoPhantomUse

LEMMA ArriveKeeps ==
    ASSUME IInv, NEW p \in Updates, NEW u \in People, Arrive(p, u)
    PROVE  IInv'
  <1> USE DEF IInv
  <1>1. TypeOK'
    BY DEF Arrive, GoTo, tables, history, TypeOK, Steps
  <1>2. /\ pc'[p] = "waiting"
        /\ \A q \in Updates \ {p} : pc'[q] = pc[q] /\ who'[q] = who[q]
        /\ who'[p] \in People
        /\ UNCHANGED <<members, maxUses, used, code, seen, admitted>>
    BY DEF Arrive, GoTo, tables, history, TypeOK
  <1>3. LocalsKnown' /\ SeenBounded' /\ NoPhantomUse'
    BY <1>2 DEF LocalsKnown, SeenBounded, NoPhantomUse, Running
  <1> QED BY <1>1, <1>3

LEMMA AcquireKeeps ==
    ASSUME IInv, NEW p \in Updates, Acquire(p)
    PROVE  IInv'
  BY GoToKeeps
  DEF Acquire, tables, local, history, Running, Steps, IInv, TypeOK, LocalsKnown

LEMMA AuthKeeps ==
    ASSUME IInv, NEW p \in Updates, Auth(p)
    PROVE  IInv'
  <1> USE DEF IInv
  <1>1. /\ who[p] \in People
        /\ UNCHANGED <<members, maxUses, used, writer, lock, snapshot, crashes, admitted, peak>>
    BY DEF Auth, LocalsKnown, Running, Steps, tables, history
  <1>2. CASE Finish(p)
    BY <1>1, <1>2, FinishKeeps DEF TypeOK
  <1>3. CASE UNCHANGED local /\ (GoTo(p, "work") \/ GoTo(p, "adopt"))
    BY <1>1, <1>3, GoToKeeps DEF TypeOK, local, Steps
  <1>4. ASSUME NEW c \in Codes, who[p] # Admin, code' = [code EXCEPT ![p] = c],
               GoTo(p, "count"), UNCHANGED <<who, seen, lockOf>>
        PROVE  IInv'
    <2>1. TypeOK'
      BY <1>1, <1>4 DEF TypeOK, GoTo, Steps
    <2>2. LocalsKnown' /\ SeenBounded' /\ NoPhantomUse'
      BY <1>1, <1>4 DEF LocalsKnown, SeenBounded, NoPhantomUse, GoTo, TypeOK
    <2> QED BY <2>1, <2>2
  <1> QED BY <1>2, <1>3, <1>4 DEF Auth

LEMMA AdoptKeeps ==
    ASSUME IInv, NEW p \in Updates, Adopt(p)
    PROVE  IInv'
  <1> USE DEF IInv
  <1>1. UNCHANGED <<maxUses, used, writer, lock, snapshot, crashes, admitted, peak>>
    BY DEF Adopt, history
  <1>2. CASE Finish(p) /\ members' = members
    BY <1>1, <1>2, FinishKeeps DEF TypeOK
  <1>3. CASE GoTo(p, "work") /\ members' = members \cup {Admin} /\ UNCHANGED local
    <2>1. who[p] \in People
      BY DEF Adopt, LocalsKnown, Running, Steps
    <2>2. TypeOK'
      BY <1>1, <1>3, RegistrationAssumption DEF TypeOK, GoTo, Steps, local
    <2>3. LocalsKnown' /\ SeenBounded' /\ NoPhantomUse'
      BY <1>1, <1>3, <2>1 DEF LocalsKnown, SeenBounded, NoPhantomUse, GoTo, TypeOK, local
    <2> QED BY <2>2, <2>3
  <1> QED BY <1>2, <1>3 DEF Adopt

LEMMA PassedFinite ==
    /\ IsFiniteSet(Passed) /\ Cardinality(Passed) \in Nat
    /\ IsFiniteSet(Passed') /\ Cardinality(Passed') \in Nat
  <1>1. IsFiniteSet(Updates)
    BY FS_Interval, RegistrationAssumption DEF Updates
  <1>2. Passed \in SUBSET Updates /\ Passed' \in SUBSET Updates
    BY DEF Passed
  <1> QED BY <1>1, <1>2, FS_Subset, FS_CardinalityType

LEMMA CountUsersKeeps ==
    ASSUME IInv, NEW p \in Updates, CountUsers(p)
    PROVE  IInv'
  <1>1. /\ UNCHANGED <<members, maxUses, used, writer, lock, snapshot, crashes, admitted>>
        /\ peak' \in Nat
    BY PassedFinite DEF CountUsers, tables, IInv, TypeOK
  <1>2. CASE Finish(p)
    BY <1>1, <1>2, FinishKeeps DEF IInv, TypeOK
  <1>3. CASE GoTo(p, "redeem") /\ UNCHANGED local
    <2>1. who[p] \in People /\ who[p] # Admin /\ code[p] \in Codes
      BY DEF CountUsers, IInv, LocalsKnown, Running, Steps
    <2> QED BY <1>1, <1>3, <2>1, GoToKeeps DEF IInv, TypeOK, local, Steps
  <1> QED BY <1>2, <1>3 DEF CountUsers

LEMMA ReadInviteKeeps ==
    ASSUME IInv, NEW p \in Updates, ReadInvite(p)
    PROVE  IInv'
  <1> USE DEF IInv
  <1>1. /\ who[p] \in People /\ who[p] # Admin /\ code[p] \in Codes
        /\ UNCHANGED <<members, maxUses, used, writer, lock, snapshot, crashes, admitted, peak>>
    BY DEF ReadInvite, LocalsKnown, Running, Steps, tables, history
  <1>2. CASE Finish(p)
    BY <1>1, <1>2, FinishKeeps DEF TypeOK
  <1>3. CASE /\ used[code[p]] < maxUses[code[p]]
             /\ GoTo(p, "flush")
             /\ seen' = [seen EXCEPT ![p] = used[code[p]]]
             /\ UNCHANGED <<who, code, lockOf>>
    <2>1. used[code[p]] \in Nat /\ used[code[p]] <= admitted[code[p]]
      BY <1>1 DEF TypeOK, NoPhantomUse
    <2>2. TypeOK'
      BY <1>1, <1>3, <2>1 DEF TypeOK, GoTo, Steps
    <2>3. LocalsKnown' /\ NoPhantomUse'
      BY <1>1, <1>3 DEF LocalsKnown, NoPhantomUse, GoTo, TypeOK
    <2>4. SeenBounded'
      BY <1>1, <1>3, <2>1 DEF SeenBounded, GoTo, TypeOK
    <2> QED BY <2>2, <2>3, <2>4
  <1>4. used[code[p]] \in Nat /\ maxUses[code[p]] \in Nat
    BY <1>1 DEF TypeOK
  <1> QED BY <1>2, <1>3, <1>4 DEF ReadInvite

\* The use and the user are written together: admitted grows with used.
LEMMA CommitKeeps ==
    ASSUME IInv, NEW p \in Updates, Commit(p)
    PROVE  IInv'
  <1> USE DEF IInv
  <1>1. /\ who[p] \in People /\ code[p] \in Codes
        /\ seen[p] \in Nat /\ seen[p] <= admitted[code[p]] /\ seen[p] < maxUses[code[p]]
        /\ Finish(p) /\ writer' = NoUpdate
        /\ UNCHANGED <<maxUses, lock, snapshot, crashes, peak>>
    BY DEF Commit, LocalsKnown, SeenBounded, TypeOK, Running, Steps
  <1>2. CASE who[p] \in members
    BY <1>1, <1>2, FinishKeeps DEF Commit, TypeOK
  <1>3. CASE who[p] \notin members
    <2>1. /\ members' = members \cup {who[p]}
          /\ used' = [used EXCEPT ![code[p]] = seen[p] + 1]
          /\ admitted' = [admitted EXCEPT ![code[p]] = @ + 1]
      BY <1>3 DEF Commit
    <2>2. /\ used' \in [Codes -> Nat] /\ admitted' \in [Codes -> Nat]
          /\ members' \subseteq People
          /\ \A c \in Codes : admitted'[c] >= admitted[c]
      BY <1>1, <2>1 DEF TypeOK
    <2>3. TypeOK'
      BY <1>1, <2>2, FinishLocals DEF TypeOK
    <2>4. LocalsKnown'
      BY <1>1, FinishLocals DEF LocalsKnown, Running
    <2>5. SeenBounded'
      <3> SUFFICES ASSUME NEW q \in Updates, pc'[q] \in {"flush", "commit"}
                   PROVE  seen'[q] <= admitted'[code'[q]] /\ seen'[q] < maxUses[code'[q]]
        BY <1>1 DEF SeenBounded
      <3>1. q # p /\ pc'[q] = pc[q] /\ seen'[q] = seen[q] /\ code'[q] = code[q]
        BY <1>1, FinishLocals
      <3>2. /\ code[q] \in Codes /\ seen[q] <= admitted[code[q]]
            /\ seen[q] < maxUses[code[q]]
        BY <3>1 DEF SeenBounded, LocalsKnown
      <3> QED BY <3>1, <3>2, <2>2 DEF TypeOK
    <2>6. NoPhantomUse'
      <3> SUFFICES ASSUME NEW c \in Codes
                   PROVE  used'[c] <= admitted'[c] /\ used'[c] <= maxUses[c]
        BY <1>1 DEF NoPhantomUse
      <3>1. CASE c = code[p]
        BY <3>1, <1>1, <2>1 DEF TypeOK
      <3>2. CASE c # code[p]
        BY <3>2, <2>1 DEF TypeOK, NoPhantomUse
      <3> QED BY <3>1, <3>2
    <2> QED BY <2>3, <2>4, <2>5, <2>6
  <1> QED BY <1>2, <1>3

LEMMA FlushKeeps ==
    ASSUME IInv, NEW p \in Updates, Flush(p)
    PROVE  IInv'
  <1> USE DEF IInv
  <1>1. /\ who[p] \in People /\ who[p] # Admin /\ code[p] \in Codes
        /\ seen[p] <= admitted[code[p]] /\ seen[p] < maxUses[code[p]]
        /\ GoTo(p, "commit") /\ writer' = p
        /\ UNCHANGED <<members, maxUses, used, lock, snapshot, crashes, admitted, peak,
                       who, code, seen, lockOf>>
    BY DEF Flush, LocalsKnown, SeenBounded, Running, Steps, tables, local, history
  <1> QED BY <1>1, GoToKeeps DEF TypeOK, Steps

LEMMA ReturnKeeps ==
    ASSUME IInv, NEW p \in Updates, Busy(p) \/ Work(p)
    PROVE  IInv'
  BY FinishKeeps DEF Busy, Work, tables, history, IInv, TypeOK

LEMMA CreateInviteKeeps ==
    ASSUME IInv, NEW p \in Updates, NEW c \in Codes, NEW n \in 0 .. MaxUses,
           CreateInvite(p, c, n)
    PROVE  IInv'
  <1> USE DEF IInv
  <1>1. /\ Finish(p) /\ maxUses[c] = 0
        /\ maxUses' = [maxUses EXCEPT ![c] = IF n = 0 THEN 1 ELSE n]
        /\ UNCHANGED <<members, used, writer, lock, snapshot, crashes, admitted, peak>>
    BY DEF CreateInvite, history
  <1>2. maxUses' \in [Codes -> Nat] /\ \A d \in Codes : maxUses[d] <= maxUses'[d]
    BY <1>1, RegistrationAssumption DEF TypeOK
  <1>3. TypeOK'
    BY <1>1, <1>2, FinishLocals DEF TypeOK
  <1>4. LocalsKnown'
    BY <1>1, FinishLocals DEF LocalsKnown, Running
  <1>5. NoPhantomUse'
    BY <1>1, <1>2 DEF NoPhantomUse, TypeOK
  <1>6. SeenBounded'
    <2> SUFFICES ASSUME NEW q \in Updates, pc'[q] \in {"flush", "commit"}
                 PROVE  seen'[q] <= admitted[code'[q]] /\ seen'[q] < maxUses'[code'[q]]
      BY <1>1 DEF SeenBounded
    <2>1. q # p /\ pc'[q] = pc[q] /\ seen'[q] = seen[q] /\ code'[q] = code[q]
      BY <1>1, FinishLocals
    <2>2. /\ code[q] \in Codes /\ seen[q] <= admitted[code[q]]
          /\ seen[q] < maxUses[code[q]]
      BY <2>1 DEF SeenBounded, LocalsKnown
    <2> QED BY <2>1, <2>2, <1>2 DEF TypeOK
  <1> QED BY <1>3, <1>4, <1>5, <1>6

LEMMA DeleteMeKeeps ==
    ASSUME IInv, NEW p \in Updates, DeleteMe(p)
    PROVE  IInv'
  <1> USE DEF IInv
  <1>1. /\ Finish(p) /\ members' = members \ {who[p]}
        /\ UNCHANGED <<maxUses, used, writer, lock, snapshot, crashes, admitted, peak>>
    BY DEF DeleteMe, history
  <1>2. TypeOK'
    BY <1>1, FinishLocals DEF TypeOK
  <1>3. LocalsKnown' /\ SeenBounded' /\ NoPhantomUse'
    BY <1>1, FinishLocals DEF TypeOK, LocalsKnown, SeenBounded, NoPhantomUse, Running
  <1> QED BY <1>2, <1>3

LEMMA CleanupKeeps ==
    ASSUME IInv, CleanupRead \/ CleanupPrune
    PROVE  IInv'
  <1> USE DEF IInv
  <1>1. UNCHANGED <<members, maxUses, used, writer, pc, who, code, seen, lockOf, crashes,
                    admitted, peak>>
    BY DEF CleanupRead, CleanupPrune, tables, local, history
  <1>2. lock' \in [People -> Nat] /\ snapshot' \subseteq People \cup {Nobody}
    BY DEF CleanupRead, CleanupPrune, TypeOK
  <1>3. TypeOK'
    BY <1>1, <1>2 DEF TypeOK
  <1>4. LocalsKnown' /\ SeenBounded' /\ NoPhantomUse'
    BY <1>1 DEF LocalsKnown, SeenBounded, NoPhantomUse
  <1> QED BY <1>3, <1>4

LEMMA CrashKeeps ==
    ASSUME IInv, Crash
    PROVE  IInv'
  <1> USE DEF IInv
  <1>1. /\ UNCHANGED <<members, maxUses, used, lock, admitted, peak>>
        /\ writer' = NoUpdate /\ snapshot' = {Nobody} /\ crashes' = crashes + 1
        /\ who' = [p \in Updates |-> Nobody] /\ code' = [p \in Updates |-> Nobody]
        /\ seen' = [p \in Updates |-> 0] /\ lockOf' = [p \in Updates |-> 0]
    BY DEF Crash, tables, history
  <1>2. pc' \in [Updates -> {"new", "done"}]
    BY DEF Crash
  <1>3. TypeOK'
    BY <1>1, <1>2 DEF TypeOK, Steps
  <1>4. LocalsKnown' /\ SeenBounded' /\ NoPhantomUse'
    BY <1>1, <1>2 DEF LocalsKnown, SeenBounded, NoPhantomUse, Running, Steps
  <1> QED BY <1>3, <1>4

LEMMA StepKeeps == IInv /\ [Next]_vars => IInv'
  <1> SUFFICES ASSUME IInv, [Next]_vars PROVE IInv'
    OBVIOUS
  <1>1. ASSUME NEW p \in Updates, Handle(p) PROVE IInv'
    BY <1>1, AcquireKeeps, AuthKeeps, AdoptKeeps, CountUsersKeeps, ReadInviteKeeps,
       FlushKeeps, CommitKeeps, ReturnKeeps DEF Handle
  <1>2. ASSUME NEW p \in Updates, Busy(p) \/ DeleteMe(p) PROVE IInv'
    BY <1>2, ReturnKeeps, DeleteMeKeeps
  <1>3. ASSUME NEW p \in Updates, NEW u \in People, Arrive(p, u) PROVE IInv'
    BY <1>3, ArriveKeeps
  <1>4. ASSUME NEW p \in Updates, NEW c \in Codes, NEW n \in 0 .. MaxUses,
               CreateInvite(p, c, n)
        PROVE  IInv'
    BY <1>4, CreateInviteKeeps
  <1>5. CASE CleanupRead \/ CleanupPrune \/ Crash
    BY <1>5, CleanupKeeps, CrashKeeps
  <1>6. CASE UNCHANGED vars
    BY <1>6 DEF vars, IInv, TypeOK, LocalsKnown, SeenBounded, NoPhantomUse
  <1> QED BY <1>1, <1>2, <1>3, <1>4, <1>5, <1>6 DEF Next

\* What the tables and the coroutines hold has its type, however many people, codes
\* and updates there are.
THEOREM TypeCorrect == Spec => []TypeOK
  <1>1. IInv => TypeOK
    BY DEF IInv
  <1> QED BY InitIInv, StepKeeps, <1>1, PTL DEF Spec

\* redeem_invite and create_user commit together: no code ever shows a use nobody
\* joined with, and never more uses than it allows.
THEOREM UsesAreReal == Spec => []NoPhantomUse
  <1>1. IInv => NoPhantomUse
    BY DEF IInv
  <1> QED BY InitIInv, StepKeeps, <1>1, PTL DEF Spec

-----------------------------------------------------------------------------
LEMMA RosterFinite ==
    ASSUME TypeOK
    PROVE  /\ IsFiniteSet(members) /\ IsFiniteSet(members \ {Admin})
           /\ Cardinality(members) \in Nat /\ Cardinality(members \ {Admin}) \in Nat
           /\ Cardinality(members \ {Admin}) <= Cardinality(members)
  <1>1. IsFiniteSet(members)
    BY RegistrationAssumption, FS_Subset DEF TypeOK
  <1> QED BY <1>1, FS_Subset, FS_CardinalityType

\* Steps in which nobody passes the check and no participant is added but the owner.
LEMMA NoNewPlace ==
    ASSUME TypeOK, PlacesTaken, peak' = peak, Passed' \subseteq Passed,
           members' \ {Admin} \subseteq members \ {Admin}
    PROVE  PlacesTaken'
  <1>1. Cardinality(Passed') <= Cardinality(Passed)
    BY PassedFinite, FS_Subset
  <1>2. /\ Cardinality(members' \ {Admin}) <= Cardinality(members \ {Admin})
        /\ Cardinality(members' \ {Admin}) \in Nat
    BY RosterFinite, FS_Subset, FS_CardinalityType
  <1>3. /\ Cardinality(Passed) \in Nat /\ Cardinality(Passed') \in Nat
        /\ Cardinality(members \ {Admin}) \in Nat /\ MaxUsers \in Nat /\ peak \in Nat
    BY PassedFinite, RosterFinite, RegistrationAssumption DEF TypeOK
  <1> DEFINE places == Cardinality(Passed)
             placesNext == Cardinality(Passed')
             roster == Cardinality(members \ {Admin})
             rosterNext == Cardinality(members' \ {Admin})
  <1>4. /\ places <= peak /\ 1 <= peak /\ roster + places <= MaxUsers - 1 + peak
    BY DEF PlacesTaken
  <1>5. /\ placesNext <= places /\ rosterNext <= roster
        /\ places \in Nat /\ placesNext \in Nat /\ roster \in Nat /\ rosterNext \in Nat
    BY <1>1, <1>2, <1>3
  <1> HIDE DEF places, placesNext, roster, rosterNext
  <1>6. placesNext <= peak /\ rosterNext + placesNext <= MaxUsers - 1 + peak
    BY <1>3, <1>4, <1>5
  <1> QED BY <1>4, <1>6 DEF PlacesTaken, placesNext, rosterNext

LEMMA CountUsersPlaces ==
    ASSUME IInv, PlacesTaken, NEW p \in Updates, CountUsers(p)
    PROVE  PlacesTaken'
  <1>1. CASE Finish(p)
    <2>1. Passed' \subseteq Passed
      BY <1>1, FinishLocals DEF Passed, IInv
    <2>2. peak' = peak
      <3>1. Cardinality(Passed') <= Cardinality(Passed)
        BY <2>1, PassedFinite, FS_Subset
      <3>2. Cardinality(Passed') <= peak
        BY <3>1, PassedFinite DEF PlacesTaken, IInv, TypeOK
      <3> QED BY <3>2, PassedFinite DEF CountUsers, IInv, TypeOK
    <2> QED BY <2>1, <2>2, NoNewPlace DEF CountUsers, tables, IInv
  <1>2. CASE Cardinality(members) < MaxUsers
    <2> DEFINE placesNext == Cardinality(Passed')
               all == Cardinality(members)
               roster == Cardinality(members \ {Admin})
    <2>1. /\ placesNext \in Nat /\ all \in Nat /\ roster \in Nat /\ roster <= all
          /\ all < MaxUsers /\ MaxUsers \in Nat /\ peak \in Nat /\ 1 <= peak
      BY <1>2, PassedFinite, RosterFinite, RegistrationAssumption
      DEF IInv, TypeOK, PlacesTaken
    <2>2. /\ peak' = IF placesNext > peak THEN placesNext ELSE peak
          /\ members' = members
      BY DEF CountUsers, tables
    <2> HIDE DEF placesNext, all, roster
    <2>3. placesNext <= peak' /\ 1 <= peak' /\ roster + placesNext <= MaxUsers - 1 + peak'
      BY <2>1, <2>2
    <2> QED BY <2>2, <2>3 DEF PlacesTaken, placesNext, roster
  <1>3. Cardinality(members) \in Nat /\ MaxUsers \in Nat
    BY RosterFinite, RegistrationAssumption DEF IInv
  <1> QED BY <1>1, <1>2, <1>3 DEF CountUsers

\* The place of the joiner becomes the place of the participant.
LEMMA CommitPlaces ==
    ASSUME IInv, PlacesTaken, NEW p \in Updates, Commit(p)
    PROVE  PlacesTaken'
  <1>1. /\ p \in Passed /\ Passed' \subseteq Passed \ {p} /\ peak' = peak
    BY FinishLocals DEF Passed, Commit, IInv
  <1>2. CASE who[p] \in members
    BY <1>1, <1>2, NoNewPlace DEF Commit, IInv
  <1>3. CASE who[p] \notin members
    <2>1. members' \ {Admin} = (members \ {Admin}) \cup {who[p]} /\ who[p] # Admin
      BY <1>3 DEF Commit, IInv, LocalsKnown
    <2> DEFINE places == Cardinality(Passed)
               placesNext == Cardinality(Passed')
               roster == Cardinality(members \ {Admin})
               rosterNext == Cardinality(members' \ {Admin})
    <2>2. rosterNext = roster + 1
      BY <1>3, <2>1, RosterFinite, FS_AddElement DEF IInv
    <2>3. placesNext <= places - 1
      <3>1. Cardinality(Passed \ {p}) = Cardinality(Passed) - 1
        BY <1>1, PassedFinite, FS_RemoveElement
      <3>2. IsFiniteSet(Passed \ {p})
        BY PassedFinite, FS_Subset
      <3>3. Cardinality(Passed') <= Cardinality(Passed \ {p})
        BY <1>1, <3>2, FS_Subset
      <3> QED BY <3>1, <3>3
    <2>4. /\ places \in Nat /\ placesNext \in Nat /\ roster \in Nat
          /\ MaxUsers \in Nat /\ peak \in Nat
      BY PassedFinite, RosterFinite, RegistrationAssumption DEF IInv, TypeOK
    <2>5. places <= peak /\ 1 <= peak /\ roster + places <= MaxUsers - 1 + peak
      BY DEF PlacesTaken
    <2> HIDE DEF places, placesNext, roster, rosterNext
    <2>6. placesNext <= peak /\ rosterNext + placesNext <= MaxUsers - 1 + peak
      BY <2>2, <2>3, <2>4, <2>5
    <2> QED BY <1>1, <2>5, <2>6 DEF PlacesTaken, placesNext, rosterNext
  <1> QED BY <1>2, <1>3

LEMMA StepPlaces == IInv /\ PlacesTaken /\ [Next]_vars => PlacesTaken'
  <1> SUFFICES ASSUME IInv, PlacesTaken, [Next]_vars PROVE PlacesTaken'
    OBVIOUS
  <1>t. TypeOK
    BY DEF IInv
  <1>1. ASSUME NEW p \in Updates,
               Acquire(p) \/ Auth(p) \/ Adopt(p) \/ ReadInvite(p) \/ Flush(p)
        PROVE  PlacesTaken'
    <2>1. /\ peak' = peak
          /\ members' \ {Admin} \subseteq members \ {Admin}
      BY <1>1 DEF Acquire, Auth, Adopt, ReadInvite, Flush, tables, history
    <2>2. Passed' \subseteq Passed
      BY <1>1, <1>t
      DEF Acquire, Auth, Adopt, ReadInvite, Flush, Finish, GoTo, Passed, TypeOK
    <2> QED BY <1>t, <2>1, <2>2, NoNewPlace
  <1>2. ASSUME NEW p \in Updates, Work(p) \/ Busy(p) \/ DeleteMe(p)
                 \/ \E c \in Codes, n \in 0 .. MaxUses : CreateInvite(p, c, n)
        PROVE  PlacesTaken'
    <2>1. /\ peak' = peak /\ Finish(p)
          /\ members' \ {Admin} \subseteq members \ {Admin}
      BY <1>2 DEF Work, Busy, DeleteMe, CreateInvite, tables, history
    <2>2. Passed' \subseteq Passed
      BY <1>t, <2>1, FinishLocals DEF Passed
    <2> QED BY <1>t, <2>1, <2>2, NoNewPlace
  <1>3. ASSUME NEW p \in Updates, NEW u \in People, Arrive(p, u) PROVE PlacesTaken'
    <2>1. peak' = peak /\ members' = members
      BY <1>3 DEF Arrive, tables, history
    <2>2. Passed' \subseteq Passed
      BY <1>3, <1>t DEF Arrive, GoTo, Passed, TypeOK
    <2> QED BY <1>t, <2>1, <2>2, NoNewPlace
  <1>4. CASE CleanupRead \/ CleanupPrune \/ Crash
    <2>1. peak' = peak /\ members' = members
      BY <1>4 DEF CleanupRead, CleanupPrune, Crash, tables, history
    <2>2. Passed' \subseteq Passed
      BY <1>4, <1>t DEF CleanupRead, CleanupPrune, Crash, Passed, TypeOK
    <2> QED BY <1>t, <2>1, <2>2, NoNewPlace
  <1>5. CASE UNCHANGED vars
    <2>1. peak' = peak /\ members' = members /\ pc' = pc
      BY <1>5 DEF vars
    <2>2. Passed' = Passed
      BY <2>1 DEF Passed
    <2> QED BY <1>t, <2>1, <2>2, NoNewPlace
  <1> QED BY <1>1, <1>2, <1>3, <1>4, <1>5, CountUsersPlaces, CommitPlaces DEF Next, Handle

LEMMA InitPlaces == Init => PlacesTaken
  <1> SUFFICES ASSUME Init PROVE PlacesTaken
    OBVIOUS
  <1>1. Passed = {} /\ members \ {Admin} = {} /\ peak = 1
    BY DEF Init, Passed
  <1>2. Cardinality(Passed) = 0 /\ Cardinality(members \ {Admin}) = 0
    BY <1>1, FS_EmptySet
  <1> QED BY <1>1, <1>2, RegistrationAssumption DEF PlacesTaken

\* The cap on registrations is exceeded by no more than the joiners who were past the
\* check at the same time, and the owner: one too many needs a race.
THEOREM RosterIsBounded == Spec => []RosterBounded
  <1>1. IInv /\ PlacesTaken => RosterBounded
    <2> SUFFICES ASSUME IInv, PlacesTaken PROVE RosterBounded
      OBVIOUS
    <2> DEFINE places == Cardinality(Passed)
               roster == Cardinality(members \ {Admin})
    <2>1. /\ places \in Nat /\ roster \in Nat /\ MaxUsers \in Nat /\ peak \in Nat
          /\ roster + places <= MaxUsers - 1 + peak
      BY PassedFinite, RosterFinite, RegistrationAssumption DEF IInv, TypeOK, PlacesTaken
    <2> HIDE DEF places, roster
    <2>2. roster <= MaxUsers - 1 + peak
      BY <2>1
    <2> QED BY <2>2 DEF RosterBounded, roster
  <1> QED BY InitIInv, InitPlaces, StepKeeps, StepPlaces, <1>1, PTL DEF Spec
=============================================================================
