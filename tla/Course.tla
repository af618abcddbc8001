------------------------------- MODULE Course -------------------------------
(***************************************************************************)
(* The grammar topic of the week: the rotation by ISO week in the order of *)
(* a learner's track (tracks.py, db/repo.py), the Sunday job that          *)
(* announces next week's topic to everybody (jobs/reminders.py), /track    *)
(* and /drill.  Days are dates in settings.tz; day 0 is a Monday.  main    *)
(* seeds drill_topics before anything else runs, and nothing changes its   *)
(* rows but for active_week.                                               *)
(***************************************************************************)
EXTENDS Naturals, Sequences, FiniteSets, SequencesExt

CONSTANTS Users,
          Tracks, General,  \* General is not an exam
          SeedTopics,       \* the slugs of drill_topics in order of position
          DrillPriority,    \* for each track a sequence of slugs
          FirstWeek,        \* ISO number of the week that begins on day 0
          LastWeek,         \* ISO number of the last week of that year
          MaxDay,           \* bound on the date
          MaxChoices        \* bound on choices of a track and on leaving

Gone   == "gone"
Nobody == "nobody"

ASSUME CourseAssumption ==
    /\ Gone \notin Tracks /\ Nobody \notin Users
    /\ General \in Tracks /\ DrillPriority[General] = <<>>
    /\ \A tr \in Tracks : DrillPriority[tr] \in Seq(ToSet(DrillPriority[tr]))
    /\ SeedTopics \in Seq(ToSet(SeedTopics)) /\ SeedTopics # <<>>
    /\ MaxDay \in Nat /\ MaxChoices \in Nat
    /\ LastWeek \in {52, 53} /\ FirstWeek \in 1 .. LastWeek

VARIABLES day,      \* today in settings.tz
          active,   \* active_week of each topic; 0 stands for NULL
          track,    \* users.track; Gone stands for a missing row
          fired,    \* the last day the weekly trigger fired
          job,      \* send_weekly_summary: what it has read and what is left
          choices,  \* counts towards MaxChoices
          \* history
          told,     \* what the job last announced to a user
          drilled   \* what the user last drilled

courseVars == <<day, active, track, fired, job, choices, told, drilled>>

Nothing == [week |-> 0]
NoJob   == [todo |-> {}, who |-> Nobody]
Members == {u \in Users : track[u] # Gone}

Week(d)    == d \div 7 + 1                           \* counted through
IsoWeek(d) == LET w == FirstWeek + d \div 7          \* isocalendar().week
              IN  IF w <= LastWeek THEN w ELSE w - LastWeek

\* The elements of s that are in S, in their order.
Kept(s, S) ==
    LET Prefix[i \in 0 .. Len(s)] ==
            IF i = 0 THEN <<>>
            ELSE IF s[i] \in S THEN Append(Prefix[i - 1], s[i]) ELSE Prefix[i - 1]
    IN  Prefix[Len(s)]

\* The topics of the track's exam first; a slug that is no topic is passed over.
OrderedTopicSlugs(tr, all) ==
    LET priority == Kept(DrillPriority[tr], ToSet(all))
    IN  priority \o Kept(all, ToSet(all) \ ToSet(priority))

\* get_topic_for_week: the seeded topics in the order of each track, and the one of a week
Ordered == [tr \in Tracks |-> OrderedTopicSlugs(tr, SeedTopics)]

TopicInWeek(tr, iso) ==
    LET ordered == Ordered[tr] IN ordered[(iso % Len(ordered)) + 1]

CourseInit ==
    /\ day = 0 /\ fired = 0 /\ choices = 0
    /\ active = [t \in ToSet(SeedTopics) |-> 0]
    /\ track = [u \in Users |-> General]
    /\ job = NoJob
    /\ told = [u \in Users |-> Nothing] /\ drilled = [u \in Users |-> Nothing]

\* The cron trigger fires on Sunday.  The coming week's topic of the general track is
\* marked; the participants are read once, and these rows are used to the end.
StartSummary ==
    /\ day % 7 = 6 /\ fired # day /\ job = NoJob
    /\ fired' = day
    /\ active' = [active EXCEPT ![TopicInWeek(General, IsoWeek(day + 1))] = Week(day + 1)]
    /\ job' = IF Members = {} THEN NoJob
              ELSE [todo |-> Members, who |-> Nobody, next |-> day + 1, track |-> track]
    /\ UNCHANGED <<day, track, choices, told, drilled>>

\* The first message to the next one on the list: their statistics.
SendStats(u) ==
    /\ u \in job.todo /\ job.who = Nobody
    /\ job' = [job EXCEPT !.who = u]
    /\ UNCHANGED <<day, fired, active, track, choices, told, drilled>>

\* Variant of Served: nobody takes over the turn.
ServedInTurn(u) == IF job.todo = {u} THEN NoJob ELSE [job EXCEPT !.todo = @ \ {u}]

Served(u) == IF job.todo = {u} THEN NoJob ELSE [job EXCEPT !.todo = @ \ {u}, !.who = Nobody]

\* Variant of TopicToTell: the number of this week and one.
TopicToTellNextNumber(u) == TopicInWeek(job.track[u], IsoWeek(job.next - 1) + 1)

TopicToTell(u) == TopicInWeek(job.track[u], IsoWeek(job.next))

\* The second message: the topic of the week that contains `next_week`.
SendTopic(u) ==
    /\ job.who = u
    /\ told' = [told EXCEPT ![u] = [week |-> Week(job.next), track |-> job.track[u],
                                    topic |-> TopicToTell(u)]]
    /\ job' = Served(u)
    /\ UNCHANGED <<day, fired, active, track, choices, drilled>>

\* Variant of SendFails: the messages are tried again until they arrive.
SendFailsAgain(u) ==
    /\ u \in job.todo /\ job.who \in {Nobody, u}
    /\ job' = [job EXCEPT !.who = Nobody]
    /\ UNCHANGED <<day, fired, active, track, choices, told, drilled>>

\* Either message raises: logged, and on to the next participant.
SendFails(u) ==
    /\ u \in job.todo /\ job.who \in {Nobody, u}
    /\ job' = Served(u)
    /\ UNCHANGED <<day, fired, active, track, choices, told, drilled>>

\* on_track_chosen
ChooseTrack(u) ==
    /\ u \in Members /\ choices < MaxChoices
    /\ \E t \in Tracks : track' = [track EXCEPT ![u] = t]
    /\ choices' = choices + 1
    /\ UNCHANGED <<day, fired, active, job, told, drilled>>

\* /delete_me, while the job may still have the row
Leave(u) ==
    /\ u \in Members /\ choices < MaxChoices
    /\ track' = [track EXCEPT ![u] = Gone]
    /\ choices' = choices + 1
    /\ UNCHANGED <<day, fired, active, job, told, drilled>>

\* cmd_drill up to the call of the model
Drill(u) ==
    /\ u \in Members
    /\ drilled' = [drilled EXCEPT ![u] =
                     [week |-> Week(day), track |-> track[u],
                      topic |-> TopicInWeek(track[u], IsoWeek(day))]]
    /\ UNCHANGED <<day, fired, active, track, job, choices, told>>

\* The process stops and starts again: the rest of the job is lost.
Restart ==
    /\ job # NoJob /\ job' = NoJob
    /\ UNCHANGED <<day, fired, active, track, choices, told, drilled>>

NextDay ==
    /\ day < MaxDay /\ day' = day + 1
    /\ UNCHANGED <<fired, active, track, job, choices, told, drilled>>

Serve == \E u \in Users : SendStats(u) \/ SendTopic(u) \/ SendFails(u)

CourseNext ==
    \/ NextDay \/ StartSummary \/ Serve \/ Restart
    \/ \E u \in Users : ChooseTrack(u) \/ Leave(u) \/ Drill(u)

CourseSpec == CourseInit /\ [][CourseNext]_courseVars /\ WF_courseVars(Serve)

-----------------------------------------------------------------------------
Slugs == ToSet(SeedTopics)
Lesson == [week : Nat \ {0}, track : Tracks, topic : Slugs]

CourseTypeOK ==
    /\ day \in 0 .. MaxDay /\ fired \in Nat /\ choices \in 0 .. MaxChoices
    /\ active \in [Slugs -> Nat]
    /\ track \in [Users -> Tracks \cup {Gone}]
    /\ told \in [Users -> Lesson \cup {Nothing}]
    /\ drilled \in [Users -> Lesson \cup {Nothing}]
    /\ \/ job = NoJob
       \/ /\ job.todo \subseteq Users /\ job.todo # {}
          /\ job.who \in job.todo \cup {Nobody}
          /\ \A u \in job.todo : job.track[u] \in Tracks

\* The job announces "the topic this learner will actually be drilled on": who keeps
\* the track the job read drills that topic all week -- across the end of a year,
\* when the job runs past midnight, and in whatever order people joined or chose.
AnnouncedIsDrilled ==
    \A u \in Users :
        LET t == told[u]
            d == drilled[u]
        IN  t # Nothing /\ d # Nothing /\ t.week = d.week /\ t.track = d.track
                => t.topic = d.topic

\* Everybody the job has read gets an attempt, whoever cannot be reached: nobody stays
\* on the list, unless by a restart that drops it.
SummaryReachesAll == \A u \in Users : u \in job.todo ~> u \notin job.todo
=============================================================================
