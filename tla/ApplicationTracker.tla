--------------------------- MODULE ApplicationTracker ---------------------------
(***************************************************************************)
(* The application tracker: the applications of a workspace, their to-dos, *)
(* their timeline, and the totals that closing a day or reviewing a week   *)
(* stores.  No query crosses workspaces, so one workspace is modelled.     *)
(*                                                                         *)
(* A handler is one READ COMMITTED transaction without row locks: it reads *)
(* (an action named Begin...), other requests may commit, and it writes    *)
(* what it derived from the rows it read (Commit...).  SQLAlchemy writes   *)
(* only the columns whose value changed since they were read, see Merge.   *)
(* A handler whose reads do not bear on its writes is one action.  The     *)
(* bulk deletes of delete_planned count as one statement.                  *)
(*                                                                         *)
(* An operator whose name ends in Mutant is the faulty variant of the one  *)
(* below it: with it in place, the property it stands against must fail.   *)
(***************************************************************************)
EXTENDS Naturals, FiniteSets

CONSTANTS
  Apps,         \* job_applications.id, never reused
  Jobs,         \* jobs.id
  Todos,        \* application_actions.id, never reused
  Clients,      \* requests in flight, and the weekly beat
  NoApp,        \* application_id NULL: a standalone to-do
  NoRow, Gone,  \* a row not yet inserted, a row deleted
  Idle, NoDay,
  Targets,      \* bound: the statuses that requests ask for
  LastDay,      \* bound: local days, counted from 0
  MaxRequests   \* bound: requests

VARIABLES
  app,       \* job_applications: status, job, applied (applied_at is set)
  todo,      \* application_actions: status, app, completed (the day, or NoDay)
  event,     \* application_events, ordered by n (created_at)
  today,     \* the workspace's local day
  closed,    \* days whose planner_day_logs.done_est is stored
  reviewed,  \* days of weeks that have a planner_reviews row
  frozen,    \* to-dos that a stored total counted
  req,       \* what each request in flight is doing and has read
  born,      \* when it began: its transaction's now()
  requests,  \* how many have begun
  stale,     \* those during which another request committed
  raced      \* a stale request has committed

rows  == <<app, todo, event>>
plan  == <<today, closed, reviewed, frozen>>
calls == <<req, born, requests, stale, raced>>
vars  == <<rows, plan, calls>>

-----------------------------------------------------------------------------
(* The status machine: transitions.py *)

Closing  == {"rejected", "withdrawn", "ghosted"}
Live     == {"planned", "applied", "in_review", "interviewing", "offer"}
Statuses == Live \cup Closing

ASSUME NoAppIsNoApp == NoApp \notin Apps
ASSUME NoDayIsNoDay == NoDay \notin Nat
ASSUME TargetsAreStatuses == Targets \subseteq Statuses
ASSUME BoundsAreNumbers == LastDay \in Nat /\ MaxRequests \in Nat

Forward ==
  [planned      |-> {"applied", "in_review", "interviewing", "offer"},
   applied      |-> {"in_review", "interviewing", "offer"},
   in_review    |-> {"interviewing", "offer"},
   interviewing |-> {"offer"},
   offer        |-> {}]

\* assert_transition: force skips the funnel's rules.
Legal(old, new, force) ==
  \/ force
  \/ old \in Live /\ new \in Forward[old] \cup Closing

-----------------------------------------------------------------------------
(* Rows *)

Days == 0 .. LastDay

AppRows == [status : Statuses, job : Jobs, applied : BOOLEAN]
TodoStatuses == {"pending", "done", "dismissed", "cancelled"}
TodoRows == [status : TodoStatuses, app : Apps \cup {NoApp}, completed : Days \cup {NoDay}]

ASSUME RowsAreRows == NoRow # Gone /\ {NoRow, Gone} \cap (AppRows \cup TodoRows) = {}

Tracked == {a \in Apps : app[a] \notin {NoRow, Gone}}
Listed  == {x \in Todos : todo[x] \notin {NoRow, Gone}}
TodosOf(a) == {x \in Listed : todo[x].app = a}

\* uq_job_applications_workspace_job.
JobFree(j) == \A a \in Tracked : app[a].job # j

\* The UPDATE of a row that was read as seen and is to become new.
MergeMutant(current, seen, new) == new
Merge(current, seen, new) ==
  [f \in DOMAIN current |-> IF new[f] # seen[f] THEN new[f] ELSE current[f]]

StatusEvents(a) == {e \in event : e.app = a /\ e.kind = "status_changed"}
Completions(x) == {e \in event : e.kind = "action_completed" /\ e.todo = x}

-----------------------------------------------------------------------------
(* Requests *)

Doing(c, op) == req[c] # Idle /\ req[c].op = op

Arrive(c) ==
  /\ req[c] = Idle
  /\ requests < MaxRequests
  /\ requests' = requests + 1
  /\ born' = [born EXCEPT ![c] = requests + 1]
  /\ UNCHANGED <<rows, plan, stale, raced>>

\* What the request has read and will write is r.
Begin(c, r) == Arrive(c) /\ req' = [req EXCEPT ![c] = r]

Leave(c) ==
  /\ req' = [req EXCEPT ![c] = Idle]
  /\ born' = [born EXCEPT ![c] = 0]
  /\ UNCHANGED requests

Commit(c) ==
  /\ Leave(c)
  /\ stale' = {d \in Clients \ {c} : req[d] # Idle}
  /\ raced' = (raced \/ c \in stale)

\* The rollback, which changes nothing, of a request whose application or
\* to-do was deleted (no row matches the UPDATE; the event has no parent) or
\* whose insert breaks a unique constraint (of an application, a day log or a
\* review that another request inserted since it looked).
Rollback(c) ==
  /\ \/ Doing(c, "create") /\ ~ JobFree(req[c].new.job)
     \/ /\ req[c] # Idle
        /\ req[c].op \in {"update", "delete", "transition"}
        /\ req[c].app \notin Tracked
     \/ /\ req[c] # Idle
        /\ req[c].op \in {"complete", "reopen", "edit"}
        /\ req[c].todo \notin Listed
     \/ Doing(c, "close") /\ req[c].first /\ req[c].day \in closed
     \/ Doing(c, "review") /\ req[c].first /\ req[c].day \in reviewed
  /\ Leave(c)
  /\ stale' = stale \ {c}
  /\ UNCHANGED <<rows, plan, raced>>

\* A handler without reads that matter, in one step.
AtOnce ==
  /\ requests < MaxRequests
  /\ requests' = requests + 1
  /\ stale' = {d \in Clients : req[d] # Idle}
  /\ UNCHANGED <<req, born, raced>>

-----------------------------------------------------------------------------
(* Applications *)

\* create_application: its check for the job, then the insert; "applied"
\* stamps applied_at.
BeginCreate(c, j, status, dated) ==
  /\ status \in {"planned", "applied"}
  /\ JobFree(j)
  /\ Arrive(c)
  /\ req' = [req EXCEPT ![c] =
       [op |-> "create", new |-> [status |-> status, job |-> j,
                                  applied |-> dated \/ status = "applied"]]]

CommitCreate(c, a) ==
  /\ Doing(c, "create")
  /\ app[a] = NoRow
  /\ JobFree(req[c].new.job)
  /\ app' = [app EXCEPT ![a] = req[c].new]
  /\ Commit(c)
  /\ UNCHANGED <<todo, event, plan>>

\* update_application: PATCH may set or clear applied_at; the other fields
\* bear on nothing here.
BeginUpdate(c, a, dated) ==
  /\ a \in Tracked
  /\ Begin(c, [op |-> "update", app |-> a, row |-> app[a],
               new |-> [app[a] EXCEPT !.applied = dated]])

CommitUpdate(c) ==
  /\ Doing(c, "update")
  /\ req[c].app \in Tracked
  /\ app' = [app EXCEPT ![req[c].app] = Merge(@, req[c].row, req[c].new)]
  /\ Commit(c)
  /\ UNCHANGED <<todo, event, plan>>

\* delete_application and delete_planned.
BeginDelete(c, a) ==
  /\ a \in Tracked
  /\ app[a].status = "planned"
  /\ Arrive(c)
  /\ req' = [req EXCEPT ![c] = [op |-> "delete", app |-> a]]

CommitDeleteMutant(c) ==
  LET a == req[c].app IN
  /\ Doing(c, "delete")
  /\ a \in Tracked
  /\ app' = [app EXCEPT ![a] = Gone]
  /\ event' = {e \in event : e.app # a}
  /\ Commit(c)
  /\ UNCHANGED <<todo, plan>>
CommitDelete(c) ==
  LET a == req[c].app IN
  /\ Doing(c, "delete")
  /\ a \in Tracked
  /\ app' = [app EXCEPT ![a] = Gone]
  /\ todo' = [x \in Todos |-> IF x \in TodosOf(a) THEN Gone ELSE todo[x]]
  /\ event' = {e \in event : e.app # a}
  /\ Commit(c)
  /\ UNCHANGED plan

\* transition_application and transition_status: a closing status retires the
\* application's pending to-dos; the event records the status that was read.
BeginTransition(c, a, status, force) ==
  /\ a \in Tracked
  /\ Legal(app[a].status, status, force)
  /\ Begin(c, [op |-> "transition", app |-> a, row |-> app[a], force |-> force,
               new |-> [app[a] EXCEPT !.status = status,
                                      !.applied = @ \/ status = "applied"],
               retire |-> IF status \in Closing
                          THEN {x \in TodosOf(a) : todo[x].status = "pending"}
                          ELSE {}])

StatusChangedMutant(c) ==
  [n |-> born[c], app |-> req[c].app, kind |-> "status_changed",
   from |-> req[c].new.status, to |-> req[c].new.status, forced |-> req[c].force]
StatusChanged(c) ==
  [n |-> born[c], app |-> req[c].app, kind |-> "status_changed",
   from |-> req[c].row.status, to |-> req[c].new.status, forced |-> req[c].force]

CommitTransition(c) ==
  /\ Doing(c, "transition")
  /\ req[c].app \in Tracked
  /\ app' = [app EXCEPT ![req[c].app] = Merge(@, req[c].row, req[c].new)]
  /\ todo' = [x \in Todos |-> IF x \in req[c].retire
                              THEN [todo[x] EXCEPT !.status = "cancelled"]
                              ELSE todo[x]]
  /\ event' = event \cup {StatusChanged(c)}
  /\ Commit(c)
  /\ UNCHANGED plan

\* add_application_event: a note or an interview.
AddEvent(a) ==
  /\ a \in Tracked
  /\ event' = event \cup {[n |-> requests + 1, app |-> a, kind |-> "added"]}
  /\ AtOnce
  /\ UNCHANGED <<app, todo, plan>>

-----------------------------------------------------------------------------
(* To-dos *)

\* create_action: for an application of any status, or for none.
CreateTodo(x, a) ==
  /\ todo[x] = NoRow
  /\ a \in Tracked \cup {NoApp}
  /\ todo' = [todo EXCEPT ![x] = [status |-> "pending", app |-> a, completed |-> NoDay]]
  /\ AtOnce
  /\ UNCHANGED <<app, event, plan>>

\* update_action, op complete: completing a done to-do changes nothing, and
\* _ACTIONABLE_FROM refuses the others.
BeginComplete(c, x) ==
  /\ x \in Listed
  /\ todo[x].status = "pending"
  /\ Begin(c, [op |-> "complete", todo |-> x, row |-> todo[x],
               new |-> [todo[x] EXCEPT !.status = "done", !.completed = today]])

CommitCompleteMutant(c) ==
  LET x == req[c].todo IN
  /\ Doing(c, "complete")
  /\ x \in Listed
  /\ todo' = [todo EXCEPT ![x] = Merge(@, req[c].row, req[c].new)]
  /\ Commit(c)
  /\ UNCHANGED <<app, event, plan>>
CommitComplete(c) ==
  LET x == req[c].todo IN
  /\ Doing(c, "complete")
  /\ x \in Listed
  /\ todo' = [todo EXCEPT ![x] = Merge(@, req[c].row, req[c].new)]
  /\ event' = IF todo[x].app = NoApp THEN event
              ELSE event \cup {[n |-> born[c], app |-> todo[x].app,
                                kind |-> "action_completed", todo |-> x]}
  /\ Commit(c)
  /\ UNCHANGED <<app, plan>>

\* _assert_within_undo_window: completed today, and no stored total has
\* counted today.
UndoableMutant(x) == todo[x].completed = today
Undoable(x) ==
  /\ todo[x].completed = today
  /\ today \notin closed
  /\ today \notin reviewed

\* op reopen; a to-do that is not done is left as it is.
ReopenedMutant(row) == [row EXCEPT !.status = "pending"]
Reopened(row) == [row EXCEPT !.status = "pending", !.completed = NoDay]

BeginReopen(c, x) ==
  /\ x \in Listed
  /\ todo[x].status = "done"
  /\ Undoable(x)
  /\ Begin(c, [op |-> "reopen", todo |-> x, row |-> todo[x],
               new |-> Reopened(todo[x]), events |-> Completions(x)])

Retracted(c) == req[c].events

CommitReopen(c) ==
  LET x == req[c].todo IN
  /\ Doing(c, "reopen")
  /\ x \in Listed
  /\ todo' = [todo EXCEPT ![x] = Merge(@, req[c].row, req[c].new)]
  /\ event' = event \ Retracted(c)
  /\ Commit(c)
  /\ UNCHANGED <<app, plan>>

\* ops snooze (writes "pending" and a later due date) and dismiss.
Editable(row, status) == row.status \in {"pending", status}

BeginEdit(c, x, status) ==
  /\ x \in Listed
  /\ status \in {"pending", "dismissed"}
  /\ Editable(todo[x], status)
  /\ Begin(c, [op |-> "edit", todo |-> x, row |-> todo[x],
               new |-> [todo[x] EXCEPT !.status = status]])

CommitEdit(c) ==
  LET x == req[c].todo IN
  /\ Doing(c, "edit")
  /\ x \in Listed
  /\ todo' = [todo EXCEPT ![x] = Merge(@, req[c].row, req[c].new)]
  /\ Commit(c)
  /\ UNCHANGED <<app, event, plan>>

-----------------------------------------------------------------------------
(* Totals that do not recompute *)

Counted(from, to) ==
  {x \in Listed : todo[x].status = "done" /\ todo[x].completed \in from .. to}

\* Today, or yesterday for a session that runs past midnight.
Closable == {d \in Days : d = today \/ d + 1 = today}

\* close_planner_day: done_est sums what was completed on the day.  The row
\* may be there already, from the morning's commitment.
BeginCloseDay(c, d) ==
  /\ d \in Closable
  /\ Begin(c, [op |-> "close", day |-> d, first |-> d \notin closed,
               counted |-> Counted(d, d)])

CommitCloseDay(c) ==
  /\ Doing(c, "close")
  /\ closed' = closed \cup {req[c].day}
  /\ frozen' = frozen \cup req[c].counted
  /\ Commit(c)
  /\ UNCHANGED <<rows, today, reviewed>>

\* generate_weekly_review, on the week's last local day or the day after:
\* statistics, then the model's narrative, which takes its time, then the row.
BeginReview(c, d) ==
  /\ d \in Closable
  /\ Begin(c, [op |-> "review", day |-> d, first |-> d \notin reviewed,
               counted |-> Counted(0, d)])

CommitReview(c) ==
  /\ Doing(c, "review")
  /\ ~ (req[c].first /\ req[c].day \in reviewed)
  /\ reviewed' = reviewed \cup 0 .. req[c].day
  /\ frozen' = frozen \cup req[c].counted
  /\ Commit(c)
  /\ UNCHANGED <<rows, today, closed>>

Midnight ==
  /\ today < LastDay
  /\ today' = today + 1
  /\ UNCHANGED <<rows, closed, reviewed, frozen, calls>>

-----------------------------------------------------------------------------
(* The system *)

Init ==
  /\ app = [a \in Apps |-> NoRow]
  /\ todo = [x \in Todos |-> NoRow]
  /\ event = {}
  /\ today = 0 /\ closed = {} /\ reviewed = {} /\ frozen = {}
  /\ req = [c \in Clients |-> Idle]
  /\ born = [c \in Clients |-> 0]
  /\ requests = 0 /\ stale = {} /\ raced = FALSE

Next ==
  \/ \E c \in Clients :
       \/ \E j \in Jobs, s \in Targets, dated \in BOOLEAN : BeginCreate(c, j, s, dated)
       \/ \E a \in Apps : CommitCreate(c, a)
       \/ \E a \in Apps, dated \in BOOLEAN : BeginUpdate(c, a, dated)
       \/ CommitUpdate(c)
       \/ \E a \in Apps : BeginDelete(c, a)
       \/ CommitDelete(c)
       \/ \E a \in Apps, s \in Targets, force \in BOOLEAN : BeginTransition(c, a, s, force)
       \/ CommitTransition(c)
       \/ \E x \in Todos : BeginComplete(c, x) \/ BeginReopen(c, x)
       \/ \E x \in Todos, s \in TodoStatuses : BeginEdit(c, x, s)
       \/ CommitComplete(c) \/ CommitReopen(c) \/ CommitEdit(c)
       \/ \E d \in Days : BeginCloseDay(c, d) \/ BeginReview(c, d)
       \/ CommitCloseDay(c) \/ CommitReview(c)
       \/ Rollback(c)
  \/ \E a \in Apps : AddEvent(a)
  \/ \E x \in Todos, a \in Apps \cup {NoApp} : CreateTodo(x, a)
  \/ Midnight

Spec == Init /\ [][Next]_vars

-----------------------------------------------------------------------------
(* Properties.  "Serially" means: as long as no request committed over what  *)
(* another committed since it read.                                          *)

\* Every variable holds a value its table or its request can hold, and every
\* to-do and every timeline entry names an application that exists.
TypeOK ==
  /\ app \in [Apps -> AppRows \cup {NoRow, Gone}]
  /\ todo \in [Todos -> TodoRows \cup {NoRow, Gone}]
  /\ \A x \in Listed : todo[x].app \in Tracked \cup {NoApp}
  /\ \A e \in event : e.n \in 1 .. MaxRequests /\ e.app \in Tracked
  /\ today \in Days /\ closed \subseteq Days /\ reviewed \subseteq Days
  /\ frozen \subseteq Todos
  /\ born \in [Clients -> 0 .. MaxRequests]
  /\ requests \in 0 .. MaxRequests
  /\ stale \subseteq Clients /\ raced \in BOOLEAN

\* However requests interleave, a pending to-do has no completed_at and a done
\* one has (complete, reopen, snooze and retirement write both columns or
\* only status).
CompletionAgrees ==
  \A x \in Listed :
    /\ todo[x].status = "pending" => todo[x].completed = NoDay
    /\ todo[x].status = "done" => todo[x].completed # NoDay

\* However requests interleave, a done to-do of an application is on its
\* timeline: reopen never deletes the entry of a later completion.
DoneIsOnTimeline ==
  \A x \in Listed :
    todo[x].status = "done" /\ todo[x].app # NoApp => Completions(x) # {}

\* Serially, the status changes on a timeline, in the order it lists them,
\* form a chain that ends in the application's status.
TimelineIsChain ==
  ~ raced => \A a \in Tracked : \A e \in StatusEvents(a) :
    LET later == {f \in StatusEvents(a) : f.n > e.n} IN
    IF later = {} THEN app[a].status = e.to
    ELSE LET next == CHOOSE f \in later : \A g \in later : f.n <= g.n
         IN  next.from = e.to

\* However requests interleave, only undoing a completion can make a retired
\* to-do pending: a snooze that read it earlier writes no status.
OnlyUndoRevives ==
  [][\A x \in Listed \cap Listed' :
       todo[x].status = "cancelled" /\ todo'[x].status = "pending"
       => \E c \in Clients : Doing(c, "reopen") /\ req[c].todo = x]_vars

\* Serially, a to-do that a closed day or a weekly review counted as done is
\* still done, or deleted with its application.
FrozenTotalsStand ==
  ~ raced => \A x \in frozen \cap Listed : todo[x].status = "done"

=============================================================================
