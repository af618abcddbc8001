---------------------------- MODULE Registration ----------------------------
(***************************************************************************)
(* Who takes part: AuthMiddleware and cmd_start (bot/middleware.py,        *)
(* handlers/system.py) admit people by invite code up to max_users, the    *)
(* owner is adopted on first contact, /invite and /delete_me change the    *)
(* tables, and cleanup_stray_fsm_entries prunes aiogram's lock table.      *)
(*                                                                         *)
(* Every update is a coroutine.  Updates of one person queue on a lock     *)
(* (SimpleEventIsolation); updates of different people interleave at every *)
(* await.  SQLite lets anybody read and one connection write: the write    *)
(* transaction opens with the first UPDATE or INSERT and ends with the     *)
(* commit, but what it writes was computed from what was read before.      *)
(***************************************************************************)
EXTENDS Naturals, FiniteSets

CONSTANTS People,       \* Telegram users
          Admin,        \* settings.admin_user_id
          Codes,        \* invite codes the generator may draw
          MaxUpdate,    \* updates are numbered 1..MaxUpdate, as Telegram numbers them
          MaxUsers,     \* settings.max_users
          MaxUses,      \* bound on an invite's max_uses
          MaxCleanups,  \* bound on runs of the cleanup job
          MaxCrashes    \* bound on restarts

ASSUME RegistrationAssumption ==
    /\ Admin \in People
    /\ IsFiniteSet(People) /\ MaxUpdate \in Nat
    /\ MaxUsers \in Nat \ {0} /\ MaxUses \in Nat
    /\ MaxCleanups \in Nat /\ MaxCrashes \in Nat

Updates  == 1 .. MaxUpdate
NoUpdate == 0
Nobody   == "nobody"     \* neither a person nor a code
ASSUME NobodyAssumption == Nobody \notin People \cup Codes

VARIABLES members,   \* table users
          maxUses,   \* table invites; 0 = no such row
          used,      \* table invites, used_count
          writer,    \* the update whose transaction is open, or NoUpdate
          pc, who, code, seen,   \* each update: step, sender, code, used_count read
          lockOf,    \* the lock object an update took from the table
          lock,      \* the lock object the table holds for a person
          snapshot,  \* what a running cleanup read of users, or {Nobody}
          crashes,
          \* history
          admitted,  \* people a code has let in
          peak       \* most updates ever past the roster check at one time

tables  == <<members, maxUses, used>>
history == <<admitted, peak>>
local   == <<who, code, seen, lockOf>>
vars    == <<members, maxUses, used, writer, pc, who, code, seen, lockOf, lock,
             snapshot, crashes, admitted, peak>>

Steps   == {"new", "waiting", "auth", "adopt", "count", "redeem", "flush",
            "commit", "work", "done"}
Running == Steps \ {"new", "waiting", "done"}
\* Past the roster check, not yet a user.
Passed  == {p \in Updates : pc[p] \in {"redeem", "flush", "commit"}}

\* A deployment at rest: the owner has been in touch or not, or has left again; codes
\* may have been handed out.
Init ==
    /\ members \in {{}, {Admin}}
    /\ maxUses \in [Codes -> 0 .. MaxUses] /\ used = [c \in Codes |-> 0]
    /\ writer = NoUpdate
    /\ pc = [p \in Updates |-> "new"]
    /\ who = [p \in Updates |-> Nobody] /\ code = [p \in Updates |-> Nobody]
    /\ seen = [p \in Updates |-> 0]
    /\ lockOf = [p \in Updates |-> 0] /\ lock = [u \in People |-> 0]
    /\ snapshot = {Nobody} /\ crashes = 0
    /\ admitted = [c \in Codes |-> 0] /\ peak = 1

GoTo(p, step) == pc' = [pc EXCEPT ![p] = step]

\* The handler returns: the lock is released and its variables are gone.
Finish(p) ==
    /\ GoTo(p, "done")
    /\ who' = [who EXCEPT ![p] = Nobody] /\ code' = [code EXCEPT ![p] = Nobody]
    /\ seen' = [seen EXCEPT ![p] = 0] /\ lockOf' = [lockOf EXCEPT ![p] = 0]

-----------------------------------------------------------------------------
\* aiogram takes the updates in order and starts a task for each, which looks up
\* the sender's lock.
Arrive(p, u) ==
    /\ pc[p] = "new" /\ \A q \in 1 .. p - 1 : pc[q] # "new"
    /\ GoTo(p, "waiting")
    /\ who' = [who EXCEPT ![p] = u]
    /\ lockOf' = [lockOf EXCEPT ![p] = lock[u]]
    /\ UNCHANGED <<tables, writer, code, seen, lock, snapshot, crashes, history>>

Acquire(p) ==
    /\ pc[p] = "waiting"
    /\ \A q \in Updates : who[q] = who[p] /\ lockOf[q] = lockOf[p] => pc[q] \notin Running
    /\ GoTo(p, "auth")
    /\ UNCHANGED <<tables, writer, local, lock, snapshot, crashes, history>>

\* AuthMiddleware: reads the sender's row and decides which way the update goes.
\* A stranger gets through with /start only; cmd_start then wants a code.
Auth(p) ==
    /\ pc[p] = "auth"
    /\ \/ who[p] \in members /\ GoTo(p, "work") /\ UNCHANGED local
       \/ who[p] \notin members /\ who[p] = Admin /\ GoTo(p, "adopt") /\ UNCHANGED local
       \/ who[p] \notin members /\ who[p] # Admin /\ Finish(p)
       \/ /\ who[p] \notin members /\ who[p] # Admin
          /\ \E c \in Codes : code' = [code EXCEPT ![p] = c]
          /\ GoTo(p, "count")
          /\ UNCHANGED <<who, seen, lockOf>>
    /\ UNCHANGED <<tables, writer, lock, snapshot, crashes, history>>

\* AuthMiddleware: the owner's row; a second INSERT of it fails on the primary key.
Adopt(p) ==
    /\ pc[p] = "adopt" /\ writer = NoUpdate
    /\ IF Admin \in members
       THEN Finish(p) /\ UNCHANGED members
       ELSE GoTo(p, "work") /\ members' = members \cup {Admin} /\ UNCHANGED local
    /\ UNCHANGED <<maxUses, used, writer, lock, snapshot, crashes, history>>

\* Variant of CountUsers: nobody is turned away.
CountUsersUnchecked(p) ==
    /\ pc[p] = "count"
    /\ GoTo(p, "redeem")
    /\ UNCHANGED <<local, tables, writer, lock, snapshot, crashes, admitted, peak>>

\* cmd_start: count_users(session) >= settings.max_users
CountUsers(p) ==
    /\ pc[p] = "count"
    /\ IF Cardinality(members) >= MaxUsers
       THEN Finish(p)
       ELSE GoTo(p, "redeem") /\ UNCHANGED local
    /\ peak' = IF Cardinality(Passed') > peak THEN Cardinality(Passed') ELSE peak
    /\ UNCHANGED <<tables, writer, lock, snapshot, crashes, admitted>>

\* Variant of ReadInvite: > for >=.
ReadInviteOffByOne(p) ==
    /\ pc[p] = "redeem"
    /\ IF used[code[p]] > maxUses[code[p]]
       THEN Finish(p)
       ELSE /\ GoTo(p, "flush")
            /\ seen' = [seen EXCEPT ![p] = used[code[p]]]
            /\ UNCHANGED <<who, code, lockOf>>
    /\ UNCHANGED <<tables, writer, lock, snapshot, crashes, history>>

\* redeem_invite: the row is read and compared ...
ReadInvite(p) ==
    /\ pc[p] = "redeem"
    /\ IF used[code[p]] >= maxUses[code[p]]
       THEN Finish(p)
       ELSE /\ GoTo(p, "flush")
            /\ seen' = [seen EXCEPT ![p] = used[code[p]]]
            /\ UNCHANGED <<who, code, lockOf>>
    /\ UNCHANGED <<tables, writer, lock, snapshot, crashes, history>>

\* ... and flushed: the UPDATE opens the transaction, once nobody else writes.
Flush(p) ==
    /\ pc[p] = "flush" /\ writer = NoUpdate
    /\ writer' = p
    /\ GoTo(p, "commit")
    /\ UNCHANGED <<tables, local, lock, snapshot, crashes, history>>

\* SQLite gives up waiting for the other writer; the handler ends in an error.
Busy(p) ==
    /\ pc[p] \in {"flush", "adopt", "work"} /\ writer # NoUpdate
    /\ Finish(p)
    /\ UNCHANGED <<tables, writer, lock, snapshot, crashes, history>>

\* Variant of Commit: the transaction is left open.
CommitLeftOpen(p) ==
    /\ pc[p] = "commit"
    /\ Finish(p)
    /\ UNCHANGED <<tables, writer, lock, snapshot, crashes, history>>

\* create_user and commit: the use and the user become visible together, or, when
\* the user exists already, neither.
Commit(p) ==
    /\ pc[p] = "commit"
    /\ writer' = NoUpdate
    /\ Finish(p)
    /\ IF who[p] \in members
       THEN UNCHANGED <<members, used, admitted>>
       ELSE /\ members' = members \cup {who[p]}
            /\ used' = [used EXCEPT ![code[p]] = seen[p] + 1]
            /\ admitted' = [admitted EXCEPT ![code[p]] = @ + 1]
    /\ UNCHANGED <<maxUses, lock, snapshot, crashes, peak>>

-----------------------------------------------------------------------------
\* Handlers of participants.  What is not named here leaves these tables alone.
Work(p) ==
    /\ pc[p] = "work"
    /\ Finish(p)
    /\ UNCHANGED <<tables, writer, lock, snapshot, crashes, history>>

\* cmd_invite: max(1, max_uses) uses, a code that is not in use
CreateInvite(p, c, n) ==
    /\ pc[p] = "work" /\ who[p] = Admin /\ writer = NoUpdate
    /\ maxUses[c] = 0
    /\ maxUses' = [maxUses EXCEPT ![c] = IF n = 0 THEN 1 ELSE n]
    /\ Finish(p)
    /\ UNCHANGED <<members, used, writer, lock, snapshot, crashes, history>>

\* Variant of DeleteMe: the use is given back, to every code.
DeleteMeRefunds(p) ==
    /\ pc[p] = "work" /\ writer = NoUpdate
    /\ members' = members \ {who[p]}
    /\ used' = [c \in Codes |-> used[c] - 1]
    /\ Finish(p)
    /\ UNCHANGED <<maxUses, writer, lock, snapshot, crashes, history>>

\* handle_delete_confirmation: the participant goes, the use is not given back.
DeleteMe(p) ==
    /\ pc[p] = "work" /\ writer = NoUpdate
    /\ members' = members \ {who[p]}
    /\ Finish(p)
    /\ UNCHANGED <<maxUses, used, writer, lock, snapshot, crashes, history>>

-----------------------------------------------------------------------------
\* cleanup_stray_fsm_entries: reads the participants, then, the session closed,
\* drops every lock that belongs to nobody it read.
CleanupRead ==
    /\ snapshot = {Nobody} /\ \A u \in People : lock[u] < MaxCleanups
    /\ snapshot' = members
    /\ UNCHANGED <<tables, writer, pc, local, lock, crashes, history>>

CleanupPrune ==
    /\ snapshot # {Nobody}
    /\ lock' = [u \in People |-> IF u \in snapshot THEN lock[u] ELSE lock[u] + 1]
    /\ snapshot' = {Nobody}
    /\ UNCHANGED <<tables, writer, pc, local, lockOf, crashes, history>>

\* The process dies: open transactions roll back, locks and coroutines are gone;
\* updates Telegram has not seen confirmed are delivered again.
Crash ==
    /\ crashes < MaxCrashes
    /\ crashes' = crashes + 1
    /\ writer' = NoUpdate
    /\ \E again \in SUBSET {p \in Updates : pc[p] \in Running \cup {"waiting"}} :
           pc' = [p \in Updates |-> IF pc[p] = "new" \/ p \in again THEN "new" ELSE "done"]
    /\ who' = [p \in Updates |-> Nobody] /\ code' = [p \in Updates |-> Nobody]
    /\ seen' = [p \in Updates |-> 0] /\ lockOf' = [p \in Updates |-> 0]
    /\ snapshot' = {Nobody}
    /\ UNCHANGED <<tables, lock, history>>

Handle(p) ==
    \/ Acquire(p) \/ Auth(p) \/ Adopt(p) \/ CountUsers(p)
    \/ ReadInvite(p) \/ Flush(p) \/ Commit(p) \/ Work(p)

Next ==
    \/ \E p \in Updates :
          \/ Handle(p) \/ Busy(p) \/ DeleteMe(p)
          \/ \E u \in People : Arrive(p, u)
          \/ \E c \in Codes, n \in 0 .. MaxUses : CreateInvite(p, c, n)
    \/ CleanupRead \/ CleanupPrune
    \/ Crash

\* The event loop runs every coroutine that can go on; asyncio.Lock wakes its waiters
\* in turn.  Nobody makes people write, the owner invite, or the process crash.
Spec == Init /\ [][Next]_vars /\ \A p \in Updates : WF_vars(Handle(p))

-----------------------------------------------------------------------------
TypeOK ==
    /\ members \subseteq People
    /\ maxUses \in [Codes -> Nat] /\ used \in [Codes -> Nat]
    /\ writer \in Updates \cup {NoUpdate}
    /\ pc \in [Updates -> Steps]
    /\ who \in [Updates -> People \cup {Nobody}]
    /\ code \in [Updates -> Codes \cup {Nobody}]
    /\ seen \in [Updates -> Nat]
    /\ lockOf \in [Updates -> Nat] /\ lock \in [People -> Nat]
    /\ snapshot \subseteq People \cup {Nobody}
    /\ crashes \in Nat
    /\ admitted \in [Codes -> Nat] /\ peak \in Nat

\* No use without an admission: whatever fails or crashes on the way, and however
\* updates interleave, a code never shows more uses than people it let in, nor
\* more than it allows.
NoPhantomUse ==
    \A c \in Codes : used[c] <= admitted[c] /\ used[c] <= maxUses[c]

\* max_users as the code keeps it: the roster exceeds the cap only by joiners that were
\* past the check at the same time, and by the owner, who is never checked.
RosterBounded == Cardinality(members \ {Admin}) <= MaxUsers - 1 + peak

\* README: "single-use join links".  A code lets in no more people than its max_uses.
InviteUsesBounded == \A c \in Codes : admitted[c] <= maxUses[c]

\* Every update that is taken up is finished: neither the per-person locks nor the
\* write lock of the database can block for good.
UpdatesFinish == \A p \in Updates : pc[p] = "waiting" ~> pc[p] \in {"done", "new"}

=============================================================================
