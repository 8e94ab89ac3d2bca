-------------------------------- MODULE Planner --------------------------------
(***************************************************************************)
(* The planner of one workspace: the daily rules that write to-dos by      *)
(* themselves, what the user does to those to-dos meanwhile, and the two   *)
(* screens that count them, the week strip and the weekly statistics.      *)
(*                                                                         *)
(* Celery beat starts the sweep once a day.  It is one transaction that    *)
(* reads (BeginSweep) and inserts (CommitSweep) and locks nothing, and a   *)
(* redelivered message runs it twice at once.  What the user does is one   *)
(* step here; the races between the user's own requests are the subject of *)
(* ApplicationTracker.                                                     *)
(*                                                                         *)
(* Time is counted in ticks, DayTicks to a local day of settings.timezone. *)
(*                                                                         *)
(* An operator whose name ends in Mutant is the faulty variant of the one  *)
(* below it: with it in place, the property it stands against must fail.   *)
(***************************************************************************)
EXTENDS Naturals, Sequences, FiniteSets, SequencesExt

CONSTANTS
  Apps,                                   \* job_applications.id
  Global,                                 \* application_id NULL
  Sweeps,                                 \* worker processes that can run the sweep
  Idle,
  RestChoices,                            \* sets of weekdays to rest on
  FollowUpDays, CheckInDays, ApplyDays,   \* the thresholds of PlannerSettings
  WeeklyTarget,                           \* weekly_target.apply
  DayTicks, WeekDays,                     \* bound: the code has 24 hours, 7 days
  BeatTick,                               \* the tick of the day the beat fires at
  Targets,                                \* bound: the statuses that requests ask for
  Ahead,                                  \* bound: how far off an interview is logged
  MaxSweep, LastTick, MaxOps, MaxTodos    \* bounds

Closed   == {"rejected"}                             \* bound: one of three
Statuses == {"planned", "applied", "interviewing", "gone"} \cup Closed

ASSUME AppsAreFinite == IsFiniteSet(Apps)
ASSUME GlobalIsNoApp == Global \notin Apps
ASSUME CalendarIsOne ==
  /\ DayTicks \in Nat \ {0} /\ WeekDays \in Nat \ {0}
  /\ BeatTick \in 0 .. DayTicks - 1
  /\ RestChoices \subseteq SUBSET (0 .. WeekDays - 1)
ASSUME TargetsAreStatuses == Targets \subseteq Statuses \ {"gone"}
ASSUME NumbersAreNumbers ==
  {FollowUpDays, CheckInDays, ApplyDays, WeeklyTarget, MaxSweep, LastTick, MaxOps, MaxTodos} \cup Ahead
  \subseteq Nat

VARIABLES
  now,         \* the clock
  rest,        \* settings.rest_days
  app,         \* status, created_at, applied_at and the events logged before it
  event,       \* each application's timeline, in order of created_at
  todo,        \* application_actions, in order of created_at
  sweep,       \* what each sweep in flight will insert
  begun,       \* this beat's sweep has begun
  swept,       \* beats whose sweep has committed
  overlapped,  \* two sweeps have been in flight at once
  ops          \* what the user has done so far

user  == <<app, event>>
beat  == <<sweep, begun, swept, overlapped>>
vars  == <<now, rest, user, todo, beat, ops>>

-----------------------------------------------------------------------------
(* The calendar: one definition of today *)

Never == LastTick + 1
Day(t) == t \div DayTicks
Today == Day(now)
Weekday(d) == d % WeekDays
WeekOf(d) == d \div WeekDays
Resting == Weekday(Today) \in rest

\* The first working day on or after d, or d when every day is a rest day.
NextWorkingDay(d) ==
  LET working == {e \in d .. d + WeekDays : Weekday(e) \notin rest} IN
  IF working = {} THEN d ELSE CHOOSE e \in working : \A f \in working : e <= f

-----------------------------------------------------------------------------
(* Rows *)

Types    == {"follow_up", "thank_you", "prep", "apply", "global", "networking"}
Undated  == LastTick + WeekDays + 2     \* later than any day of a week reached

Tracked == {a \in Apps : app[a].status # "gone"}
Rows    == {x \in DOMAIN todo : todo[x].status # "gone"}
RowsOf(a) == {x \in DOMAIN todo : todo[x].app = a /\ todo[x].status # "gone"}
Interviews(a) == {n \in DOMAIN event[a] : event[a][n].kind = "interview"}

Row(type, a, due, auto) ==
  [type |-> type, app |-> a, due |-> due, auto |-> auto, status |-> "pending",
   created |-> now, completed |-> Never, undone |-> FALSE]

-----------------------------------------------------------------------------
(* The rules *)

StandIns == {"apply", "follow_up"}

\* _suppressed: an open row of the type, the user's own only where it means the
\* same work, or a suggestion of the engine's that the user dismissed.
SuppressedMutant(a, type) ==
  \E x \in RowsOf(a) : todo[x].type = type /\ todo[x].status = "pending"
SuppressedOpenMutant(a, type) ==
  \E x \in RowsOf(a) :
    /\ todo[x].type = type
    /\ \/ type \in StandIns /\ todo[x].status = "pending"
       \/ todo[x].auto /\ todo[x].status = "dismissed"
Suppressed(a, type) ==
  \E x \in RowsOf(a) :
    /\ todo[x].type = type
    /\ \/ type \in StandIns /\ todo[x].status = "pending"
       \/ todo[x].auto /\ todo[x].status \in {"pending", "dismissed"}

FollowUp(a) ==
  /\ app[a].status = "applied" /\ app[a].applied # Never
  /\ Today - Day(app[a].applied) >= FollowUpDays
  /\ \A n \in Interviews(a) : n <= app[a].mark
  /\ \A x \in RowsOf(a) : todo[x].type = "follow_up" => todo[x].completed = Never
  /\ ~ Suppressed(a, "follow_up")

Recent(a) ==
  {event[a][n].at : n \in {m \in Interviews(a) : /\ event[a][m].at <= now
                                                /\ now - event[a][m].at <= DayTicks}}
ThankYou(a) == ~ Suppressed(a, "thank_you") /\ Recent(a) # {}
ThankYouDue(a) ==
  LET at == CHOOSE t \in Recent(a) : \A u \in Recent(a) : u <= t
  IN  NextWorkingDay(Day(at) + 1)

\* Its rows have the type "prep".  The last interview is the first of those with the latest time.
CheckIn(a) ==
  /\ ~ Suppressed(a, "prep")
  /\ \E n \in Interviews(a) :
       /\ \A m \in Interviews(a) \ {n} :
            \/ event[a][m].at < event[a][n].at
            \/ event[a][m].at = event[a][n].at /\ n < m
       /\ event[a][n].at <= now /\ Today - Day(event[a][n].at) >= CheckInDays
       /\ \A m \in DOMAIN event[a] : m > n => event[a][m].kind = "retracted"

ApplyOrDrop(a) ==
  /\ app[a].status = "planned"
  /\ Today - Day(app[a].created) >= ApplyDays
  /\ ~ Suppressed(a, "apply")

QueueRefill ==
  /\ Cardinality({a \in Tracked : app[a].status = "planned"}) < WeeklyTarget
  /\ \A x \in RowsOf(Global) : todo[x].type = "global" =>
       /\ todo[x].status # "pending"
       /\ todo[x].status = "dismissed" => WeekOf(Day(todo[x].created)) # WeekOf(Today)

\* A rest day silences the rules whose trigger persists.
AwakeMutant(type) == ~ Resting
Awake(type) == type = "thank_you" \/ ~ Resting

Fires(type, a) ==
  /\ Awake(type)
  /\ \/ type = "global" /\ a = Global /\ QueueRefill
     \/ /\ a \in Tracked
        /\ \/ type = "thank_you" /\ ThankYou(a)
           \/ type = "follow_up" /\ FollowUp(a)
           \/ type = "prep" /\ CheckIn(a)
           \/ type = "apply" /\ ApplyOrDrop(a)

\* generate_actions.
Generated ==
  {Row(f[1], f[2], IF f[1] = "thank_you" THEN ThankYouDue(f[2]) ELSE Today, TRUE) :
     f \in {g \in Types \X (Apps \cup {Global}) : Fires(g[1], g[2])}}

-----------------------------------------------------------------------------
(* The beat *)

Beats == {t \in 0 .. LastTick : \E d \in 0 .. LastTick : t = d * DayTicks + BeatTick}

\* run_daily_rules reads every application, event and to-do; a workspace
\* without applications is not visited.
BeginSweep(s) ==
  /\ now \in Beats
  /\ Tracked # {}
  /\ sweep[s] = Idle
  /\ sweep' = [sweep EXCEPT ![s] = [at |-> now, rows |-> Generated]]
  /\ begun' = TRUE
  /\ overlapped' = (overlapped \/ \E t \in Sweeps : sweep[t] # Idle)
  /\ UNCHANGED <<now, rest, user, todo, swept, ops>>

CommitSweep(s) ==
  /\ sweep[s] # Idle
  /\ \A r \in sweep[s].rows : r.app \in Tracked \cup {Global}
  /\ Len(todo) + Cardinality(sweep[s].rows) <= MaxTodos
  /\ todo' = todo \o SetToSeq(sweep[s].rows)
  /\ swept' = swept \cup {sweep[s].at}
  /\ sweep' = [sweep EXCEPT ![s] = Idle]
  /\ UNCHANGED <<now, rest, user, begun, overlapped, ops>>

\* An application deleted since the read: its to-do has no parent, and the
\* transaction of every workspace rolls back.
AbortSweep(s) ==
  /\ sweep[s] # Idle
  /\ \E r \in sweep[s].rows : r.app \notin Tracked \cup {Global}
  /\ sweep' = [sweep EXCEPT ![s] = Idle]
  /\ UNCHANGED <<now, rest, user, todo, begun, swept, overlapped, ops>>

\* Time passes; the beat fires on time while there is anything to sweep, and a
\* sweep takes at most MaxSweep ticks.
Tick ==
  /\ now < LastTick
  /\ \A s \in Sweeps : sweep[s] # Idle => now < sweep[s].at + MaxSweep
  /\ now \in Beats /\ Tracked # {} => begun
  /\ now' = now + 1
  /\ begun' = FALSE
  /\ UNCHANGED <<rest, user, todo, sweep, swept, overlapped, ops>>

-----------------------------------------------------------------------------
(* The user *)

Acts == ops < MaxOps /\ ops' = ops + 1 /\ UNCHANGED <<now, rest, beat>>

Logged(a, kind, at, x) ==
  event' = [event EXCEPT ![a] = 
             Append(@, [kind |-> kind, at |-> at, logged |-> now, todo |-> x])]

\* transition_status: the first "applied" stamps applied_at, a closing status
\* retires the pending to-dos, and the timeline records the change.
Transition(a, status) ==
  /\ Acts
  /\ a \in Tracked /\ status # app[a].status
  /\ LET first == status = "applied" /\ app[a].applied = Never IN
     app' = [app EXCEPT ![a].status = status,
                        ![a].applied = IF first THEN now ELSE @,
                        ![a].mark = IF first THEN Len(event[a]) ELSE @]
  /\ todo' = [x \in DOMAIN todo |->
                IF status \in Closed /\ x \in RowsOf(a) /\ todo[x].status = "pending"
                THEN [todo[x] EXCEPT !.status = "cancelled"] ELSE todo[x]]
  /\ Logged(a, "status", now, 0)

\* add_application_event: an interview that was or will be.
Interview(a, at) ==
  /\ Acts
  /\ a \in Tracked
  /\ Logged(a, "interview", at, 0)
  /\ UNCHANGED <<app, todo>>

\* delete_planned, with its to-dos and timeline.
Delete(a) ==
  /\ Acts
  /\ a \in Tracked /\ app[a].status = "planned"
  /\ app' = [app EXCEPT ![a].status = "gone"]
  /\ event' = [event EXCEPT ![a] = <<>>]
  /\ todo' = [x \in DOMAIN todo |-> IF x \in RowsOf(a) THEN [todo[x] EXCEPT !.status = "gone"]
                                    ELSE todo[x]]

\* create_action: the user's own to-do.
Write(a, type, due) ==
  /\ Acts
  /\ Len(todo) < MaxTodos
  /\ a \in Tracked \cup {Global}
  /\ todo' = Append(todo, Row(type, a, due, FALSE))
  /\ UNCHANGED user

Complete(x) ==
  /\ Acts
  /\ todo[x].status = "pending"
  /\ todo' = [todo EXCEPT ![x].status = "done", ![x].completed = now]
  /\ IF todo[x].app = Global THEN UNCHANGED event ELSE Logged(todo[x].app, "completed", now, x)
  /\ UNCHANGED app

\* reopen, of what was completed today: back to pending, and the entry goes;
\* its place in the timeline stays, so that later entries keep theirs.
Reopen(x) ==
  /\ Acts
  /\ todo[x].status = "done" /\ Day(todo[x].completed) = Today
  /\ todo' = [todo EXCEPT ![x].status = "pending", ![x].completed = Never, ![x].undone = TRUE]
  /\ event' = [a \in Apps |-> [n \in DOMAIN event[a] |->
                 IF event[a][n].todo = x THEN [event[a][n] EXCEPT !.kind = "retracted"]
                 ELSE event[a][n]]]
  /\ UNCHANGED app

Dismiss(x) ==
  /\ Acts
  /\ todo[x].status = "pending"
  /\ todo' = [todo EXCEPT ![x].status = "dismissed"]
  /\ UNCHANGED user

\* snooze: to the day asked for, or a number of days on from the due date.
NextWeek == (WeekOf(Today) + 1) * WeekDays
Postponed(due) == {Today + 1, NextWeek, (IF due = Undated THEN Today ELSE due) + 1}
Snooze(x) ==
  /\ Acts
  /\ todo[x].status = "pending"
  /\ \E due \in Postponed(todo[x].due) :
       /\ due < Undated                           \* bound
       /\ todo' = [todo EXCEPT ![x].due = due]
  /\ UNCHANGED user

-----------------------------------------------------------------------------
(* What the screens count *)

Owed == {x \in DOMAIN todo : todo[x].status = "pending"}

\* due_query_start_utc: overdue work is owed today, so the days of today's week
\* before today report nothing.
DueFromMutant(w) == w * WeekDays
DueFrom(w) == IF w = WeekOf(Today) THEN Today ELSE w * WeekDays

\* build_week: what the strip of week w shows on day d.
OnDay(w, d) ==
  {x \in Owed : \/ todo[x].due = d /\ d >= DueFrom(w)
                \/ d = Today /\ (todo[x].due < Today \/ todo[x].due = Undated)}

InWeek(t, w) == t # Never /\ WeekOf(Day(t)) = w

DoneIn(rows, type, w) ==
  Cardinality({x \in rows : /\ todo[x].status = "done" /\ todo[x].type = type
                            /\ InWeek(todo[x].completed, w)})

\* get_planner_stats: counted by the database.
StatsDone(type, w) == DoneIn(Rows, type, w)

\* build_weekly_stats: counted over the views of the applications and over the
\* standalone to-dos.
ViewsMutant == Tracked
Views == Tracked \cup {Global}
ReviewDone(type, w) == DoneIn({x \in Rows : todo[x].app \in Views}, type, w)

-----------------------------------------------------------------------------
(* The system *)

Init ==
  /\ now = 0 /\ rest \in RestChoices
  /\ app = [a \in Apps |-> [status |-> "planned", created |-> 0, applied |-> Never, mark |-> 0]]
  /\ event = [a \in Apps |-> <<>>]
  /\ todo = <<>>
  /\ sweep = [s \in Sweeps |-> Idle]
  /\ begun = FALSE /\ swept = {} /\ overlapped = FALSE
  /\ ops = 0

Next ==
  \/ \E s \in Sweeps : BeginSweep(s) \/ CommitSweep(s) \/ AbortSweep(s)
  \/ \E a \in Apps :
       \/ \E status \in Targets : Transition(a, status)
       \/ \E ahead \in Ahead : Interview(a, now + ahead)
       \/ Delete(a)
  \/ \E a \in Apps : Write(a, "apply", Today)
  \/ Write(Global, "networking", Undated)
  \/ \E x \in DOMAIN todo : Complete(x) \/ Reopen(x) \/ Dismiss(x) \/ Snooze(x)
  \/ Tick

Spec == Init /\ [][Next]_vars

-----------------------------------------------------------------------------
(* Properties *)

\* Two suggestions of the engine's for the same work, the first the older.
Repeats(x, y) ==
  /\ x < y /\ {x, y} \subseteq Rows
  /\ todo[x].auto /\ todo[y].auto
  /\ todo[x].app = todo[y].app /\ todo[x].type = todo[y].type

\* As long as no two sweeps overlap, the engine never opens a second to-do for
\* work it has an open one for, whatever the user did between a sweep's read and
\* its commit (the daily beat "produces no duplicates").  Only a completion that
\* is undone after the beat replaced it leaves two.
NoDoubleNag ==
  ~ overlapped => \A x, y \in DOMAIN todo :
    todo[x].status = "pending" /\ Repeats(x, y) => todo[x].undone

\* As long as no two sweeps overlap, what the user settled stays settled: a
\* dismissed suggestion of an application never returns, a dismissed refill not
\* in its week, and a follow-up is made once in an application's life.
SettledIsSettled ==
  ~ overlapped => \A x, y \in DOMAIN todo :
    Repeats(x, y) =>
      /\ todo[x].status = "dismissed" =>
           \/ todo[x].undone
           \/ /\ todo[x].type = "global"
              /\ WeekOf(Day(todo[x].created)) # WeekOf(Day(todo[y].created))
      /\ ~ (todo[x].type = "follow_up" /\ todo[x].status = "done")

NextBeat(t) == CHOOSE b \in Beats : t <= b /\ \A c \in Beats : t <= c => b <= c

\* No interview that was logged ahead of its time goes unthanked: once the first
\* beat after it has been swept, its application has a thank-you to-do that was
\* not completed before it, on rest days as on others (the window is 24 hours, so
\* no later beat would make one).  One logged afterwards can be too late for it.
ThankYouIsOwed ==
  \A a \in Tracked : \A n \in Interviews(a) :
    LET e == event[a][n] IN
    /\ e.logged < e.at
    /\ \E b \in Beats : e.at <= b
    /\ NextBeat(e.at) \in swept
    => \E x \in RowsOf(a) : todo[x].auto /\ todo[x].type = "thank_you"
                            /\ todo[x].completed >= e.at

\* The week strip counts every open to-do on one day at most, and those of the
\* current week that are due by its end, overdue or undated on exactly one.
StripCountsOnce ==
  LET w == WeekOf(Today)
      strip == [d \in w * WeekDays .. w * WeekDays + WeekDays - 1 |-> OnDay(w, d)]
  IN  \A x \in Owed :
        Cardinality({d \in DOMAIN strip : x \in strip[d]}) =
          IF todo[x].due = Undated \/ todo[x].due < (w + 1) * WeekDays THEN 1 ELSE 0

\* The weekly review counts the outreach and the follow-ups that the Plan view
\* shows for the week, the standalone ones among them.
ReviewAgreesWithStats ==
  \A type \in {"networking", "follow_up"}, w \in 0 .. WeekOf(Today) :
    ReviewDone(type, w) = StatsDone(type, w)

=============================================================================
