------------------------------ MODULE Storage ------------------------------
(***************************************************************************)
(* The database file over the life of the process: the start that brings   *)
(* it to the schema of the release with Alembic, or falls back on          *)
(* create_all; crashes between two statements; new releases; the nightly   *)
(* copy with its pruning; an operator who puts a copy back.  SQLite        *)
(* commits a statement that changes the schema at once; the rows a         *)
(* revision updates are committed together with its version number.        *)
(***************************************************************************)
EXTENDS Naturals, FiniteSets

CONSTANTS Keep,        \* BACKUP_KEEP
          MaxDay,      \* bound on the dates
          MaxTrouble   \* bound on crashes, errors, starts without alembic.ini and restores

ASSUME StorageAssumption ==
    /\ Keep \in Nat \ {0} /\ MaxDay \in Nat \ {0}
    /\ MaxTrouble \in Nat

VARIABLES db,       \* the database file
          release,  \* the deployed release: the number of revisions it brings
          up,       \* "down", "migrating" or "running"
          at,       \* the next statement of the revision that runs
          day,      \* today's date in settings.tz
          ran,      \* date of the last nightly copy
          copying,  \* date in the name of the copy being made, 0 without one
          files,    \* backups/frbot-<date>.db
          \* history
          fallback, \* why the process came up through create_all, or "no"
          newest,   \* date of the last copy that was completed, 0 before
          missed,   \* copies begun since the last complete pruning
          trouble   \* counts towards MaxTrouble

process == <<release, up, at, fallback>>
backups == <<day, ran, copying, files, newest, missed>>
vars    == <<db, release, up, at, day, ran, copying, files,
             fallback, newest, missed, trouble>>

-----------------------------------------------------------------------------
(* The statements of alembic/versions.  What a statement adds are columns and *)
(* indexes, as pairs of table and name; an index "needs" its column.         *)

CreateTable(t, columns) ==
    [creates |-> TRUE,  table |-> t, adds |-> {t} \X columns, needs |-> {}]
AddColumn(t, c) ==
    [creates |-> FALSE, table |-> t, adds |-> {<<t, c>>}, needs |-> {}]
CreateIndex(name, t, c) ==
    [creates |-> FALSE, table |-> t, adds |-> {<<t, name>>}, needs |-> {<<t, c>>}]

Initial == <<
    CreateTable("cards", {"id", "text", "lemma", "kind", "enrichment", "error_meta", "fsrs",
                          "due", "state", "created_at", "suspended"}),
    CreateIndex("ix_cards_lemma", "cards", "lemma"),
    CreateIndex("ix_cards_due", "cards", "due"),
    CreateTable("reviews", {"id", "card_id", "rating", "reviewed_at", "elapsed_days"}),
    CreateIndex("ix_reviews_card_id", "reviews", "card_id"),
    CreateIndex("ix_reviews_reviewed_at", "reviews", "reviewed_at"),
    CreateTable("writings", {"id", "prompt", "answer", "corrections", "created_at"}),
    CreateTable("drill_topics", {"id", "slug", "title_fr", "position", "active_week"}),
    CreateTable("app_settings", {"key", "value"}) >>

Multiuser == <<
    CreateTable("users", {"id", "username", "first_name", "chat_id", "level", "invite_code",
                          "is_admin", "active", "reminder_time", "writing_time",
                          "daily_new_limit", "session_max", "created_at"}),
    CreateTable("invites", {"code", "created_by", "max_uses", "used_count", "created_at"}),
    AddColumn("cards", "user_id"),
    CreateIndex("ix_cards_user_id", "cards", "user_id"),
    AddColumn("reviews", "user_id"),
    CreateIndex("ix_reviews_user_id", "reviews", "user_id"),
    AddColumn("writings", "user_id"),
    CreateIndex("ix_writings_user_id", "writings", "user_id") >>

UserTimezone == << AddColumn("users", "tz") >>
UserTrack    == << AddColumn("users", "track") >>

\* Variant of Script: 0004 is there to be applied, but its upgrade() does nothing.
ScriptForgets == <<Initial, Multiuser, UserTimezone, << >> >>

Script == <<Initial, Multiuser, UserTimezone, UserTrack>>

Releases == DOMAIN Script
Adds(r) == UNION {Script[r][i].adds : i \in DOMAIN Script[r]}
Brought == [v \in 0 .. 4 |-> UNION {Adds(q) : q \in 1 .. v}]   \* by the revisions up to v

-----------------------------------------------------------------------------
(* db/models.py: the columns and the indexes the queries of the code name.   *)

Models == [
    cards        |-> {"id", "user_id", "text", "lemma", "kind", "enrichment", "error_meta",
                      "fsrs", "due", "state", "created_at", "suspended",
                      "ix_cards_user_id", "ix_cards_lemma", "ix_cards_due"},
    reviews      |-> {"id", "user_id", "card_id", "rating", "reviewed_at", "elapsed_days",
                      "ix_reviews_user_id", "ix_reviews_card_id", "ix_reviews_reviewed_at"},
    writings     |-> {"id", "user_id", "prompt", "answer", "corrections", "created_at",
                      "ix_writings_user_id"},
    drill_topics |-> {"id", "slug", "title_fr", "position", "active_week"},
    users        |-> {"id", "username", "first_name", "chat_id", "level", "invite_code",
                      "is_admin", "active", "tz", "track", "reminder_time", "writing_time",
                      "daily_new_limit", "session_max", "created_at"},
    invites      |-> {"code", "created_by", "max_uses", "used_count", "created_at"},
    app_settings |-> {"key", "value"}]

\* The release whose models were the first to name a column, as the titles of the
\* revisions say: "users, invites, ownership columns", "per-user timezone", "exam track
\* per user".
Owned == {"user_id", "ix_cards_user_id", "ix_reviews_user_id", "ix_writings_user_id"}
Since(t, c) == IF c = "track" THEN 4
               ELSE IF c = "tz" THEN 3
               ELSE IF t \in {"users", "invites"} \/ c \in Owned THEN 2
               ELSE 1

Named == UNION {{t} \X Models[t] : t \in DOMAIN Models}
Required == [r \in 1 .. 4 |-> {e \in Named : Since(e[1], e[2]) <= r}]

-----------------------------------------------------------------------------
Columns == Brought[4] \cup Named
Tables(schema) == {c[1] : c \in schema}

\* schema; version: alembic_version, 0 without one; rows: participants' rows are
\* "none", "loose" (no user_id) or "owned"; marks: history, what left the schema
\* of this file between two versions
Database == [schema : SUBSET Columns, version : Releases \cup {0},
             rows : {"none", "loose", "owned"}, marks : SUBSET {"cut", "created"}]
EmptyDb  == [schema |-> {}, version |-> 0, rows |-> "none", marks |-> {}]
File     == [kind : {"none", "broken"}] \cup [kind : {"whole"}, db : Database]

-----------------------------------------------------------------------------
Init ==
    /\ db = EmptyDb /\ release \in Releases
    /\ up = "down" /\ at = 1 /\ fallback = "no"
    /\ day = 1 /\ ran = 0 /\ copying = 0
    /\ files = [d \in 1 .. MaxDay |-> [kind |-> "none"]]
    /\ newest = 0 /\ missed = 0 /\ trouble = 0

\* A failure, or an operator's intervention.
Trouble == trouble < MaxTrouble /\ trouble' = trouble + 1

\* What a start that has run some statements of a revision leaves behind.
CutMark == IF at > 1 THEN {"cut"} ELSE {}

\* Base.metadata.create_all: tables that are missing, with all columns of the release
CreateAll(why) ==
    LET new == {c \in Required[release] : c[1] \notin Tables(db.schema)}
    IN  /\ db' = [db EXCEPT !.schema = @ \cup new,
                            !.marks = @ \cup CutMark
                                        \cup (IF new = {} THEN {} ELSE {"created"})]
        /\ up' = "running" /\ at' = 1 /\ fallback' = why
        /\ UNCHANGED <<release, backups>>

\* run_migrations, when alembic.ini is there
Start ==
    /\ up = "down"
    /\ up' = "migrating" /\ at' = 1 /\ fallback' = "no"
    /\ UNCHANGED <<db, release, backups, trouble>>

\* _alembic_upgrade returns False
StartWithoutIni ==
    /\ up = "down" /\ Trouble
    /\ CreateAll("no_ini")

Revision == Script[db.version + 1]
Pending  == up = "migrating" /\ db.version < release

\* What is created is there already, or what it is created on is not.
Clashes(s) ==
    \/ s.adds \cap db.schema # {}
    \/ IF s.creates THEN s.table \in Tables(db.schema)
                    ELSE s.table \notin Tables(db.schema) \/ ~(s.needs \subseteq db.schema)

\* one statement of upgrade(), committed by itself
Statement ==
    /\ Pending /\ at \in DOMAIN Revision
    /\ ~Clashes(Revision[at])
    /\ db' = [db EXCEPT !.schema = @ \cup Revision[at].adds]
    /\ at' = at + 1
    /\ UNCHANGED <<release, up, fallback, backups, trouble>>

\* Variant of Stamp: the version is written when the revision begins.
StampFirst ==
    /\ Pending /\ at = 1
    /\ db' = [db EXCEPT !.version = @ + 1]
    /\ UNCHANGED <<release, up, at, fallback, backups, trouble>>

\* The end of a revision: 0002 gives the rows of the single-user time to the owner, in
\* the transaction that writes alembic_version.
Stamp ==
    /\ Pending /\ at \notin DOMAIN Revision
    /\ db' = [db EXCEPT !.version = @ + 1,
                        !.rows = IF db.version + 1 = 2 /\ @ = "loose" THEN "owned" ELSE @]
    /\ at' = 1
    /\ UNCHANGED <<release, up, fallback, backups, trouble>>

\* upgrade head has nothing left to do
Upgraded ==
    /\ up = "migrating" /\ ~Pending
    /\ up' = "running"
    /\ UNCHANGED <<db, release, at, fallback, backups, trouble>>

\* upgrade raises: the statement clashes
FallBack ==
    /\ Pending /\ at \in DOMAIN Revision /\ Clashes(Revision[at])
    /\ CreateAll("clash") /\ UNCHANGED trouble

\* upgrade raises for any other reason: a locked file, a full disk
UpgradeError ==
    /\ up = "migrating" /\ Trouble
    /\ CreateAll("error")

\* Variant of Crash: the copy goes on.
CrashMidCopy ==
    /\ up # "down" /\ Trouble
    /\ up' = "down" /\ at' = 1
    /\ db' = [db EXCEPT !.marks = @ \cup CutMark]
    /\ UNCHANGED <<release, fallback, backups>>

\* The process dies; the worker thread that copies dies with it.
Crash ==
    /\ up # "down" /\ Trouble
    /\ up' = "down" /\ at' = 1 /\ copying' = 0
    /\ db' = [db EXCEPT !.marks = @ \cup CutMark]
    /\ UNCHANGED <<release, fallback, day, ran, files, newest, missed>>

\* The service is stopped to deploy a later release.
Deploy ==
    /\ up = "running" /\ copying = 0
    /\ \E r \in Releases : r > release /\ release' = r
    /\ up' = "down"
    /\ UNCHANGED <<db, at, fallback, backups, trouble>>

\* A participant's card is stored; release 1 has no participants.
StoreRow ==
    /\ up = "running" /\ Required[release] \subseteq db.schema
    /\ db' = [db EXCEPT !.rows = IF release = 1 THEN "loose"
                                 ELSE IF @ = "none" THEN "owned" ELSE @]
    /\ UNCHANGED <<process, backups, trouble>>

-----------------------------------------------------------------------------
(* jobs/reminders.py: backup_database                                       *)

Present(f) == {d \in DOMAIN f : f[d].kind # "none"}

\* Variant of Stale: all but the first ones of sorted(glob).
StaleNewest(f) == {d \in Present(f) : Cardinality({e \in Present(f) : e < d}) >= Keep}

\* Variant of Stale: one file more is kept.
StaleLate(f) == {d \in Present(f) : Cardinality({e \in Present(f) : e > d}) > Keep}

\* sorted(glob("frbot-*.db"))[:-BACKUP_KEEP]
Stale(f) == {d \in Present(f) : Cardinality({e \in Present(f) : e > d}) >= Keep}

NextDay ==
    /\ day < MaxDay
    /\ day' = day + 1
    /\ UNCHANGED <<db, process, ran, copying, files, newest, missed, trouble>>

\* _copy_and_prune connects to the new file; until the copy ends it is no database
StartCopy ==
    /\ up = "running" /\ copying = 0 /\ ran < day
    /\ ran' = day /\ copying' = day /\ missed' = missed + 1
    /\ files' = [files EXCEPT ![day] = [kind |-> "broken"]]
    /\ UNCHANGED <<db, process, day, newest, trouble>>

\* Connection.backup raises
CopyFails ==
    /\ copying # 0 /\ Trouble
    /\ copying' = 0
    /\ UNCHANGED <<db, process, day, ran, files, newest, missed>>

\* The copy is complete; the oldest files are unlinked one after the other, and an
\* unlink that raises (or the death of the process) leaves the rest.
FinishCopy ==
    LET copied == [files EXCEPT ![copying] = [kind |-> "whole", db |-> db]]
    IN  /\ copying # 0
        /\ newest' = copying /\ copying' = 0
        /\ \E gone \in SUBSET Stale(copied) :
              /\ \A d \in gone, e \in Stale(copied) \ gone : d < e
              /\ files' = [d \in DOMAIN files |->
                              IF d \in gone THEN [kind |-> "none"] ELSE copied[d]]
              /\ IF gone = Stale(copied) THEN missed' = 0 /\ UNCHANGED trouble
                                         ELSE UNCHANGED missed /\ Trouble
        /\ UNCHANGED <<db, process, day, ran>>

\* The operator puts a copy in the place of the database.
Restore ==
    /\ up = "down" /\ Trouble
    /\ \E d \in DOMAIN files : files[d].kind = "whole" /\ db' = files[d].db
    /\ UNCHANGED <<process, backups>>

Next ==
    \/ Start \/ StartWithoutIni \/ Statement \/ Stamp \/ Upgraded
    \/ FallBack \/ UpgradeError \/ Crash \/ Deploy \/ StoreRow
    \/ NextDay \/ StartCopy \/ CopyFails \/ FinishCopy \/ Restore

Spec == Init /\ [][Next]_vars

-----------------------------------------------------------------------------
TypeOK ==
    /\ db \in Database /\ release \in Releases
    /\ up \in {"down", "migrating", "running"} /\ at \in Nat \ {0}
    /\ day \in Nat /\ ran \in Nat /\ copying \in 0 .. MaxDay
    /\ files \in [1 .. MaxDay -> File]
    /\ fallback \in {"no", "no_ini", "clash", "error"}
    /\ newest \in 0 .. MaxDay /\ missed \in Nat /\ trouble \in Nat
    /\ copying # 0 => up = "running" /\ files[copying].kind = "broken"

\* What a database says of itself is true: the columns of its version and of those
\* below are there, and from 0002 on no row is without a participant.
Honest(f) == /\ Brought[f.version] \subseteq f.schema
             /\ f.version >= 2 => f.rows # "loose"

\* However starts are cut, errors are met, releases and restored copies follow one
\* another: the version in the file, and in every whole copy of it, is honest.
VersionHonest ==
    Honest(db) /\ \A d \in DOMAIN files : files[d].kind = "whole" => Honest(files[d].db)

\* The revisions bring what the models name.  A process that came up without trouble has
\* every column and index of its release, whatever release the database came from --
\* unless a crash or an error once cut a revision of this file in two or create_all made
\* tables in it: then the statements clash for good, and __main__'s "schema ensured" is
\* not so.
UpgradesWork ==
    up = "running" /\ db.marks = {} /\ fallback \in {"no", "clash"}
        => Required[release] \subseteq db.schema

\* docs: "last 14 kept".  The last complete copy is there at every moment: no failed,
\* cut or partly pruned run ever takes it.
NewestCopyKept == newest # 0 => files[newest].kind = "whole"

\* Copies do not pile up: Keep, and one for every run whose pruning did not end.
CopiesBounded == Cardinality(Present(files)) <= Keep + missed
=============================================================================
