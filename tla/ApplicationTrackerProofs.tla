------------------------ MODULE ApplicationTrackerProofs ------------------------
(***************************************************************************)
(* Theorems about ApplicationTracker, for any number of applications,      *)
(* to-dos and concurrent requests.  Inv is the inductive invariant: the    *)
(* properties, and what a request in flight remembers (RequestOK).  Serial *)
(* is that of the properties with "serially": what a request has read that *)
(* nothing was committed over is still so (StillSo).                       *)
(***************************************************************************)
EXTENDS ApplicationTracker, WellFoundedInduction, TLAPS

\* What a request read and will write.  A to-do that is being retired belongs
\* to the application for as long as that is not deleted.
RequestOK(r) ==
  /\ r.op \in {"create", "update", "delete", "transition",
               "complete", "reopen", "edit", "close", "review"}
  /\ r.op = "create" => r.new \in AppRows
  /\ r.op \in {"update", "transition"} => r.row \in AppRows /\ r.new \in AppRows
  /\ r.op \in {"update", "delete", "transition"} => r.app \in Apps /\ app[r.app] # NoRow
  /\ r.op = "transition" =>
       /\ r.force \in BOOLEAN
       /\ r.retire \subseteq Todos
       /\ r.app \in Tracked => \A x \in r.retire : x \in Listed /\ todo[x].app = r.app
  /\ r.op \in {"complete", "reopen", "edit"} =>
       r.todo \in Todos /\ r.row \in TodoRows /\ r.new \in TodoRows /\ r.new.app = r.row.app
  /\ r.op = "complete" =>
       /\ r.row.status = "pending" /\ r.row.completed = NoDay
       /\ r.new.status = "done" /\ r.new.completed \in Days
  /\ r.op = "reopen" =>
       /\ r.row.status = "done" /\ r.row.completed # NoDay
       /\ r.new.status = "pending" /\ r.new.completed = NoDay
       /\ \A e \in r.events : e.kind = "action_completed" /\ e.todo = r.todo
  /\ r.op = "edit" =>
       /\ r.new.completed = r.row.completed
       /\ \/ r.new.status = "dismissed"
          \/ r.new.status = "pending" /\ r.row.status = "pending"
  /\ r.op \in {"close", "review"} => r.day \in Days /\ r.counted \subseteq Todos

RowsInv ==
  /\ app \in [Apps -> AppRows \cup {NoRow, Gone}]
  /\ todo \in [Todos -> TodoRows \cup {NoRow, Gone}]
  /\ \A x \in Listed : todo[x].app \in Tracked \cup {NoApp}
  /\ \A e \in event : e.n \in 1 .. MaxRequests /\ e.app \in Tracked

PlanInv ==
  /\ today \in Days /\ closed \subseteq Days /\ reviewed \subseteq Days
  /\ frozen \subseteq Todos

CallsInv ==
  /\ born \in [Clients -> 0 .. MaxRequests]
  /\ requests \in 0 .. MaxRequests
  /\ stale \subseteq Clients /\ raced \in BOOLEAN
  /\ req = [c \in Clients |-> req[c]]
  /\ \A c \in Clients : req[c] # Idle => RequestOK(req[c]) /\ born[c] \in 1 .. MaxRequests

\* A completion on a timeline is that of a to-do of the same application.
CompletionsOwned ==
  \A e \in event : e.kind = "action_completed" =>
    /\ e.todo \in Todos /\ todo[e.todo] # NoRow
    /\ e.todo \in Listed => e.app = todo[e.todo].app

Inv ==
  /\ RowsInv /\ PlanInv /\ CallsInv
  /\ CompletionAgrees /\ DoneIsOnTimeline /\ CompletionsOwned

-----------------------------------------------------------------------------
(* Lemmas *)

\* Merge writes a to-do row column by column.
LEMMA MergeTodo ==
  ASSUME NEW current \in TodoRows, NEW seen \in TodoRows, NEW new \in TodoRows
  PROVE  LET m == Merge(current, seen, new) IN
         /\ m \in TodoRows
         /\ m.status = IF new.status # seen.status THEN new.status ELSE current.status
         /\ m.app = IF new.app # seen.app THEN new.app ELSE current.app
         /\ m.completed = IF new.completed # seen.completed
                          THEN new.completed ELSE current.completed
BY DEF Merge, TodoRows

LEMMA MergeApp ==
  ASSUME NEW current \in AppRows, NEW seen \in AppRows, NEW new \in AppRows
  PROVE  Merge(current, seen, new) \in AppRows
BY DEF Merge, AppRows

\* A row that is neither missing nor deleted is a record.
LEMMA ListedRows ==
  ASSUME RowsInv
  PROVE  /\ \A x \in Listed : x \in Todos /\ todo[x] \in TodoRows
         /\ \A a \in Tracked : a \in Apps /\ app[a] \in AppRows
BY DEF RowsInv, Listed, Tracked

\* Rows stay: an inserted application stays inserted, and a to-do keeps its
\* application until that is deleted.
RowsStay ==
  /\ \A a \in Apps : app[a] # NoRow => app'[a] # NoRow
  /\ \A a \in Apps : a \in Tracked' => a \in Tracked \/ app[a] = NoRow
  /\ \A x \in Listed : (todo[x].app \in Tracked') => x \in Listed' /\ todo'[x].app = todo[x].app

LEMMA RequestStays ==
  ASSUME NEW r, RequestOK(r), RowsStay
  PROVE  RequestOK(r)'
<1>1. r.op \in {"update", "delete", "transition"} => app'[r.app] # NoRow
  BY DEF RequestOK, RowsStay
<1>2. ASSUME r.op = "transition", r.app \in Tracked', NEW x \in r.retire
      PROVE  x \in Listed' /\ todo'[x].app = r.app
  <2>1. r.app \in Tracked
    BY <1>2 DEF RequestOK, RowsStay
  <2>2. x \in Listed /\ todo[x].app = r.app
    BY <1>2, <2>1 DEF RequestOK
  <2> QED
    BY <1>2, <2>2 DEF RowsStay
<1> QED
  BY <1>1, <1>2 DEF RequestOK

\* A request begins.
LEMMA BeginKeepsInv ==
  ASSUME Inv, NEW c \in Clients, NEW r, RequestOK(r), Begin(c, r)
  PROVE  Inv'
<1>1. UNCHANGED <<app, todo, event, today, closed, reviewed, frozen, stale, raced>>
  BY DEF Begin, Arrive, rows, plan
<1>2. requests' = requests + 1 /\ requests' \in 1 .. MaxRequests
  BY BoundsAreNumbers DEF Begin, Arrive, Inv, CallsInv
<1>3. /\ RowsInv' /\ PlanInv'
      /\ CompletionAgrees' /\ DoneIsOnTimeline' /\ CompletionsOwned'
  BY <1>1 DEF Inv, RowsInv, PlanInv, CompletionAgrees, DoneIsOnTimeline, CompletionsOwned,
              Listed, Tracked, Completions
<1>4. req' = [req EXCEPT ![c] = r] /\ born' = [born EXCEPT ![c] = requests']
  BY <1>2 DEF Begin, Arrive
<1>5. \A q : RequestOK(q) => RequestOK(q)'
  BY <1>1 DEF RequestOK, Tracked, Listed
<1>6. ASSUME NEW d \in Clients, req'[d] # Idle
      PROVE  RequestOK(req[d])' /\ born'[d] \in 1 .. MaxRequests
  <2>1. PICK q : q = req'[d]
    OBVIOUS
  <2>2. RequestOK(q) /\ born'[d] \in 1 .. MaxRequests
    BY <2>1, <1>2, <1>4, <1>6 DEF Inv, CallsInv
  <2>3. RequestOK(q)'
    BY <2>2, <1>5
  <2> QED
    BY <2>1, <2>2, <2>3 DEF RequestOK
<1>7. CallsInv'
  BY <1>1, <1>2, <1>4, <1>6 DEF Inv, CallsInv
<1> QED
  BY <1>3, <1>7 DEF Inv

\* A request ends, with or without a commit.
LEMMA LeaveKeepsCalls ==
  ASSUME Inv, RowsStay, NEW c \in Clients, Leave(c),
         stale' \subseteq Clients, raced' \in BOOLEAN
  PROVE  CallsInv'
<1>1. /\ req' = [req EXCEPT ![c] = Idle] /\ born' = [born EXCEPT ![c] = 0]
      /\ requests' = requests
  BY DEF Leave
<1>2. ASSUME NEW d \in Clients, req'[d] # Idle
      PROVE  RequestOK(req[d])' /\ born'[d] \in 1 .. MaxRequests
  <2>1. PICK q : q = req'[d]
    OBVIOUS
  <2>2. q = req[d] /\ born'[d] = born[d]
    BY <1>1, <1>2, <2>1 DEF Inv, CallsInv
  <2>3. RequestOK(q) /\ born[d] \in 1 .. MaxRequests
    BY <1>2, <2>1, <2>2 DEF Inv, CallsInv
  <2>4. RequestOK(q)'
    BY <2>3, RequestStays
  <2> QED
    BY <2>1, <2>2, <2>3, <2>4 DEF RequestOK
<1> QED
  BY <1>1, <1>2, BoundsAreNumbers DEF Inv, CallsInv

LEMMA CommitKeepsCalls ==
  ASSUME Inv, RowsStay, NEW c \in Clients, Commit(c)
  PROVE  CallsInv'
<1>1. stale' \subseteq Clients /\ raced' \in BOOLEAN
  BY DEF Commit, Inv, CallsInv
<1> QED
  BY <1>1, LeaveKeepsCalls DEF Commit

\* A handler in one step.
LEMMA AtOnceKeepsCalls ==
  ASSUME Inv, RowsStay, AtOnce
  PROVE  CallsInv'
<1>1. /\ requests' \in 0 .. MaxRequests /\ stale' \subseteq Clients
      /\ UNCHANGED <<req, born, raced>>
  BY BoundsAreNumbers DEF AtOnce, Inv, CallsInv
<1>2. ASSUME NEW d \in Clients, req'[d] # Idle
      PROVE  RequestOK(req[d])' /\ born'[d] \in 1 .. MaxRequests
  <2>1. PICK q : q = req'[d]
    OBVIOUS
  <2>2. RequestOK(q) /\ born'[d] \in 1 .. MaxRequests
    BY <1>1, <1>2, <2>1 DEF Inv, CallsInv
  <2>3. RequestOK(q)'
    BY <2>2, RequestStays
  <2> QED
    BY <2>1, <2>2, <2>3 DEF RequestOK
<1> QED
  BY <1>1, <1>2 DEF Inv, CallsInv

Saved(x, m) == todo' = [todo EXCEPT ![x] = m]

\* Saving a to-do's row by Merge keeps every row a row and every reference.
LEMMA SaveTodo ==
  ASSUME Inv, NEW x \in Listed, NEW seen \in TodoRows, NEW new \in TodoRows,
         new.app = seen.app, NEW m, m = Merge(todo[x], seen, new),
         Saved(x, m), app' = app
  PROVE  /\ RowsStay
         /\ Tracked' = Tracked /\ Listed' = Listed
         /\ todo' \in [Todos -> TodoRows \cup {NoRow, Gone}]
         /\ \A y \in Listed : todo'[y].app = todo[y].app
         /\ \A y \in Listed \ {x} : todo'[y] = todo[y]
         /\ new.status # seen.status => todo'[x].status = new.status
         /\ new.status = seen.status => todo'[x].status = todo[x].status
         /\ new.completed # seen.completed => todo'[x].completed = new.completed
         /\ new.completed = seen.completed => todo'[x].completed = todo[x].completed
<1>1. x \in Todos /\ todo[x] \in TodoRows
  BY ListedRows DEF Inv
<1>3. /\ m \in TodoRows /\ m.app = todo[x].app
      /\ m.status = IF new.status # seen.status THEN new.status ELSE todo[x].status
      /\ m.completed = IF new.completed # seen.completed THEN new.completed ELSE todo[x].completed
  BY <1>1, MergeTodo
<1>4. todo \in [Todos -> TodoRows \cup {NoRow, Gone}]
  BY DEF Inv, RowsInv
<1>6. todo'[x] = m /\ \A y \in Todos \ {x} : todo'[y] = todo[y]
  BY <1>1, <1>4 DEF Saved
<1>7. todo' \in [Todos -> TodoRows \cup {NoRow, Gone}]
  BY <1>1, <1>3, <1>4 DEF Saved
<1>8. m \notin {NoRow, Gone}
  BY <1>3, RowsAreRows
<1>9. Listed' = Listed
  BY <1>1, <1>6, <1>8 DEF Listed
<1>10. Tracked' = Tracked
  BY DEF Tracked
<1>11. \A y \in Listed : todo'[y].app = todo[y].app
  BY <1>3, <1>6 DEF Listed
<1>12. RowsStay
  BY <1>9, <1>10, <1>11 DEF RowsStay
<1> QED
  BY <1>3, <1>6, <1>7, <1>9, <1>10, <1>11, <1>12 DEF Listed

\* Saving an application's row that keeps it in the table.
LEMMA SaveApp ==
  ASSUME Inv, NEW a \in Apps, app[a] # Gone, NEW row \in AppRows,
         app' = [app EXCEPT ![a] = row]
  PROVE  /\ app' \in [Apps -> AppRows \cup {NoRow, Gone}]
         /\ Tracked' = Tracked \cup {a}
         /\ \A b \in Apps : app[b] # NoRow => app'[b] # NoRow
         /\ \A b \in Apps : b \in Tracked' => b \in Tracked \/ app[b] = NoRow
<1>1. row \notin {NoRow, Gone}
  BY RowsAreRows
<1>2. app \in [Apps -> AppRows \cup {NoRow, Gone}]
  BY DEF Inv, RowsInv
<1> QED
  BY <1>1, <1>2 DEF Tracked

-----------------------------------------------------------------------------
(* One lemma per group of actions *)

LEMMA BeginsKeepInv ==
  ASSUME Inv, NEW c \in Clients,
         \/ \E j \in Jobs, s \in Targets, dated \in BOOLEAN : BeginCreate(c, j, s, dated)
         \/ \E a \in Apps, dated \in BOOLEAN : BeginUpdate(c, a, dated)
         \/ \E a \in Apps : BeginDelete(c, a)
         \/ \E a \in Apps, s \in Targets, force \in BOOLEAN : BeginTransition(c, a, s, force)
         \/ \E x \in Todos : BeginComplete(c, x) \/ BeginReopen(c, x)
         \/ \E x \in Todos, s \in TodoStatuses : BeginEdit(c, x, s)
         \/ \E d \in Days : BeginCloseDay(c, d) \/ BeginReview(c, d)
  PROVE  Inv'
<1> USE ListedRows DEF Inv
<1>1. ASSUME NEW j \in Jobs, NEW s \in Targets, NEW dated \in BOOLEAN, BeginCreate(c, j, s, dated)
      PROVE  Inv'
  <2>1. PICK q : q = [op |-> "create",
                      new |-> [status |-> s, job |-> j, applied |-> dated \/ s = "applied"]]
    OBVIOUS
  <2>2. (dated \/ s = "applied") \in BOOLEAN /\ s \in Statuses
    BY TargetsAreStatuses
  <2>3. RequestOK(q)
    BY <2>1, <2>2 DEF RequestOK, AppRows
  <2> QED
    BY <1>1, <2>1, <2>3, BeginKeepsInv DEF BeginCreate, Begin
<1>2. ASSUME NEW a \in Apps, NEW dated \in BOOLEAN, BeginUpdate(c, a, dated)
      PROVE  Inv'
  <2>1. PICK q : q = [op |-> "update", app |-> a, row |-> app[a],
                      new |-> [app[a] EXCEPT !.applied = dated]]
    OBVIOUS
  <2>2. app[a] \in AppRows /\ app[a] # NoRow
    BY <1>2, RowsAreRows DEF BeginUpdate
  <2>3. RequestOK(q)
    BY <2>1, <2>2 DEF RequestOK, AppRows
  <2> QED
    BY <1>2, <2>1, <2>3, BeginKeepsInv DEF BeginUpdate
<1>3. ASSUME NEW a \in Apps, BeginDelete(c, a)
      PROVE  Inv'
  <2>1. PICK q : q = [op |-> "delete", app |-> a]
    OBVIOUS
  <2>2. RequestOK(q)
    BY <1>3, <2>1 DEF RequestOK, BeginDelete, Tracked
  <2> QED
    BY <1>3, <2>1, <2>2, BeginKeepsInv DEF BeginDelete, Begin
<1>4. ASSUME NEW a \in Apps, NEW s \in Targets, NEW force \in BOOLEAN, BeginTransition(c, a, s, force)
      PROVE  Inv'
  <2> DEFINE pending == IF s \in Closing THEN {x \in TodosOf(a) : todo[x].status = "pending"} ELSE {}
  <2>1. PICK q : q = [op |-> "transition", app |-> a, row |-> app[a], force |-> force,
                      new |-> [app[a] EXCEPT !.status = s,
                                             !.applied = @ \/ s = "applied"],
                      retire |-> pending]
    OBVIOUS
  <2>2. app[a] \in AppRows /\ app[a] # NoRow /\ s \in Statuses
    BY <1>4, RowsAreRows, TargetsAreStatuses DEF BeginTransition
  <2>3. q.new \in AppRows
    <3>1. (app[a].applied \/ s = "applied") \in BOOLEAN
      OBVIOUS
    <3> QED
      BY <2>1, <2>2, <3>1 DEF AppRows
  <2>4. q.retire \subseteq Todos /\ \A x \in q.retire : x \in Listed /\ todo[x].app = a
    BY <2>1 DEF TodosOf, Listed
  <2>5. RequestOK(q)
    BY <2>1, <2>2, <2>3, <2>4 DEF RequestOK
  <2>6. Begin(c, q)
    BY <1>4, <2>1 DEF BeginTransition
  <2> QED
    BY <2>5, <2>6, BeginKeepsInv
<1>5. ASSUME NEW x \in Todos, BeginComplete(c, x)
      PROVE  Inv'
  <2>1. PICK q : q = [op |-> "complete", todo |-> x, row |-> todo[x],
                      new |-> [todo[x] EXCEPT !.status = "done", !.completed = today]]
    OBVIOUS
  <2>2. todo[x] \in TodoRows /\ todo[x].completed = NoDay /\ today \in Days
    BY <1>5 DEF BeginComplete, CompletionAgrees, PlanInv
  <2>3. RequestOK(q)
    BY <1>5, <2>1, <2>2 DEF RequestOK, BeginComplete, TodoRows, TodoStatuses
  <2> QED
    BY <1>5, <2>1, <2>3, BeginKeepsInv DEF BeginComplete
<1>6. ASSUME NEW x \in Todos, BeginReopen(c, x)
      PROVE  Inv'
  <2>1. PICK q : q = [op |-> "reopen", todo |-> x, row |-> todo[x],
                      new |-> Reopened(todo[x]), events |-> Completions(x)]
    OBVIOUS
  <2>2. todo[x] \in TodoRows /\ todo[x].completed # NoDay
    BY <1>6 DEF BeginReopen, CompletionAgrees
  <2>3. RequestOK(q)
    BY <1>6, <2>1, <2>2 DEF RequestOK, BeginReopen, Reopened, TodoRows, TodoStatuses, Completions
  <2> QED
    BY <1>6, <2>1, <2>3, BeginKeepsInv DEF BeginReopen
<1>7. ASSUME NEW x \in Todos, NEW s \in TodoStatuses, BeginEdit(c, x, s)
      PROVE  Inv'
  <2>1. PICK q : q = [op |-> "edit", todo |-> x, row |-> todo[x],
                      new |-> [todo[x] EXCEPT !.status = s]]
    OBVIOUS
  <2>2. todo[x] \in TodoRows
    BY <1>7 DEF BeginEdit
  <2>3. RequestOK(q)
    BY <1>7, <2>1, <2>2 DEF RequestOK, BeginEdit, Editable, TodoRows, TodoStatuses
  <2> QED
    BY <1>7, <2>1, <2>3, BeginKeepsInv DEF BeginEdit
<1>8. ASSUME NEW d \in Days, BeginCloseDay(c, d)
      PROVE  Inv'
  <2>1. PICK q : q = [op |-> "close", day |-> d, first |-> d \notin closed,
                      counted |-> Counted(d, d)]
    OBVIOUS
  <2>2. RequestOK(q)
    BY <2>1 DEF RequestOK, Counted, Listed
  <2> QED
    BY <1>8, <2>1, <2>2, BeginKeepsInv DEF BeginCloseDay
<1>9. ASSUME NEW d \in Days, BeginReview(c, d)
      PROVE  Inv'
  <2>1. PICK q : q = [op |-> "review", day |-> d, first |-> d \notin reviewed,
                      counted |-> Counted(0, d)]
    OBVIOUS
  <2>2. RequestOK(q)
    BY <2>1 DEF RequestOK, Counted, Listed
  <2> QED
    BY <1>9, <2>1, <2>2, BeginKeepsInv DEF BeginReview
<1> QED
  BY <1>1, <1>2, <1>3, <1>4, <1>5, <1>6, <1>7, <1>8, <1>9

\* The commits that insert, save or delete rows of applications.
LEMMA AppCommitsKeepInv ==
  ASSUME Inv, NEW c \in Clients,
         \/ \E a \in Apps : CommitCreate(c, a)
         \/ CommitUpdate(c)
         \/ CommitDelete(c)
         \/ CommitTransition(c)
  PROVE  Inv'
<1> USE ListedRows DEF Inv
<1>1. PICK q : q = req[c]
  OBVIOUS
<1>2. q # Idle => RequestOK(q) /\ born[c] \in 1 .. MaxRequests
  BY <1>1 DEF CallsInv
<1>3. ASSUME NEW a \in Apps, CommitCreate(c, a)
      PROVE  Inv'
  <2>1. /\ app[a] = NoRow /\ app' = [app EXCEPT ![a] = q.new]
        /\ UNCHANGED <<todo, event, today, closed, reviewed, frozen>> /\ Commit(c)
        /\ q.new \in AppRows
    BY <1>1, <1>2, <1>3 DEF CommitCreate, Doing, plan, RequestOK
  <2>2. app[a] # Gone
    BY <2>1, RowsAreRows
  <2>3. /\ app' \in [Apps -> AppRows \cup {NoRow, Gone}]
        /\ Tracked' = Tracked \cup {a}
        /\ \A b \in Apps : app[b] # NoRow => app'[b] # NoRow
        /\ \A b \in Apps : b \in Tracked' => b \in Tracked \/ app[b] = NoRow
    BY <2>1, <2>2, SaveApp
  <2>4. RowsStay /\ Listed' = Listed
    BY <2>1, <2>3 DEF RowsStay, Listed
  <2>5. CallsInv'
    BY <2>1, <2>4, CommitKeepsCalls
  <2>6. RowsInv' /\ PlanInv'
    BY <2>1, <2>3, <2>4 DEF RowsInv, PlanInv
  <2>7. CompletionAgrees' /\ DoneIsOnTimeline' /\ CompletionsOwned'
    BY <2>1, <2>4 DEF CompletionAgrees, DoneIsOnTimeline, CompletionsOwned, Completions
  <2> QED
    BY <2>5, <2>6, <2>7
<1>4. CASE CommitUpdate(c)
  <2>1. /\ q.app \in Tracked /\ q.row \in AppRows /\ q.new \in AppRows
        /\ app' = [app EXCEPT ![q.app] = Merge(@, q.row, q.new)]
        /\ UNCHANGED <<todo, event, today, closed, reviewed, frozen>> /\ Commit(c)
    BY <1>1, <1>2, <1>4 DEF CommitUpdate, Doing, plan, RequestOK
  <2>2. Merge(app[q.app], q.row, q.new) \in AppRows
    BY <2>1, MergeApp
  <2>3. app[q.app] # Gone /\ q.app \in Apps
    BY <2>1 DEF Tracked
  <2>4. PICK row \in AppRows : row = Merge(app[q.app], q.row, q.new)
    BY <2>2
  <2>5. app' = [app EXCEPT ![q.app] = row]
    BY <2>1, <2>4
  <2>6. /\ app' \in [Apps -> AppRows \cup {NoRow, Gone}]
        /\ Tracked' = Tracked
        /\ \A b \in Apps : app[b] # NoRow => app'[b] # NoRow
        /\ \A b \in Apps : b \in Tracked' => b \in Tracked \/ app[b] = NoRow
    <3>1. PICK a \in Apps : a = q.app
      BY <2>3
    <3>2. app' = [app EXCEPT ![a] = row] /\ app[a] # Gone /\ a \in Tracked
      BY <2>1, <2>3, <2>5, <3>1
    <3> HIDE DEF Inv
    <3>3. /\ app' \in [Apps -> AppRows \cup {NoRow, Gone}]
          /\ Tracked' = Tracked \cup {a}
          /\ \A b \in Apps : app[b] # NoRow => app'[b] # NoRow
          /\ \A b \in Apps : b \in Tracked' => b \in Tracked \/ app[b] = NoRow
      BY <3>2, SaveApp
    <3> QED
      BY <3>2, <3>3
  <2>7. RowsStay /\ Listed' = Listed
    BY <2>1, <2>6 DEF RowsStay, Listed
  <2>8. CallsInv'
    BY <2>1, <2>7, CommitKeepsCalls
  <2>9. RowsInv' /\ PlanInv'
    BY <2>1, <2>6, <2>7 DEF RowsInv, PlanInv
  <2>10. CompletionAgrees' /\ DoneIsOnTimeline' /\ CompletionsOwned'
    BY <2>1, <2>7 DEF CompletionAgrees, DoneIsOnTimeline, CompletionsOwned, Completions
  <2> QED
    BY <2>8, <2>9, <2>10
<1>5. CASE CommitDelete(c)
  <2>1. /\ q.app \in Tracked /\ q.app \in Apps
        /\ app' = [app EXCEPT ![q.app] = Gone]
        /\ todo' = [x \in Todos |-> IF x \in TodosOf(q.app) THEN Gone ELSE todo[x]]
        /\ event' = {e \in event : e.app # q.app}
        /\ UNCHANGED <<today, closed, reviewed, frozen>> /\ Commit(c)
    BY <1>1, <1>5 DEF CommitDelete, plan
  <2>2. /\ app' \in [Apps -> AppRows \cup {NoRow, Gone}]
        /\ todo' \in [Todos -> TodoRows \cup {NoRow, Gone}]
    BY <2>1 DEF RowsInv
  <2>3. Tracked' = Tracked \ {q.app}
    BY <2>1 DEF RowsInv, Tracked
  <2>4. /\ Listed' = {x \in Listed : todo[x].app # q.app}
        /\ \A x \in Listed' : todo'[x] = todo[x]
    BY <2>1 DEF RowsInv, Listed, TodosOf
  <2>5. \A b \in Apps : app[b] # NoRow => app'[b] # NoRow
    BY <2>1, RowsAreRows DEF RowsInv
  <2>6. RowsStay
    BY <2>3, <2>4, <2>5 DEF RowsStay
  <2>7. CallsInv'
    BY <2>1, <2>6, CommitKeepsCalls
  <2>8. RowsInv' /\ PlanInv'
    BY <2>1, <2>2, <2>3, <2>4 DEF RowsInv, PlanInv
  <2>9. CompletionAgrees'
    BY <2>4 DEF CompletionAgrees
  <2>10. DoneIsOnTimeline'
    <3>1. SUFFICES ASSUME NEW x \in Listed', todo'[x].status = "done", todo'[x].app # NoApp
                   PROVE  Completions(x)' # {}
      BY DEF DoneIsOnTimeline
    <3>2. x \in Listed /\ todo[x] = todo'[x] /\ todo[x].app # q.app
      BY <2>4, <3>1
    <3>3. PICK e \in event : e.kind = "action_completed" /\ e.todo = x
      BY <3>1, <3>2 DEF DoneIsOnTimeline, Completions
    <3>4. e.app = todo[x].app
      BY <3>2, <3>3 DEF CompletionsOwned
    <3>5. e \in event'
      BY <2>1, <3>2, <3>4
    <3> QED
      BY <3>3, <3>5 DEF Completions
  <2>11. CompletionsOwned'
    <3>1. \A x \in Todos : todo[x] # NoRow => todo'[x] # NoRow
      BY <2>1, RowsAreRows
    <3> QED
      BY <2>1, <2>4, <3>1 DEF CompletionsOwned
  <2> QED
    BY <2>7, <2>8, <2>9, <2>10, <2>11
<1>6. CASE CommitTransition(c)
  <2>1. /\ q.app \in Tracked /\ q.row \in AppRows /\ q.new \in AppRows
        /\ q.retire \subseteq Todos
        /\ \A x \in q.retire : x \in Listed /\ todo[x].app = q.app
        /\ born[c] \in 1 .. MaxRequests
        /\ app' = [app EXCEPT ![q.app] = Merge(@, q.row, q.new)]
        /\ todo' = [x \in Todos |-> IF x \in q.retire
                                    THEN [todo[x] EXCEPT !.status = "cancelled"]
                                    ELSE todo[x]]
        /\ UNCHANGED <<today, closed, reviewed, frozen>> /\ Commit(c)
    BY <1>1, <1>2, <1>6 DEF CommitTransition, Doing, plan, RequestOK
  <2>2. PICK s : /\ s.n = born[c] /\ s.app = q.app /\ s.kind = "status_changed"
                 /\ event' = event \cup {s}
    BY <1>1, <1>6 DEF CommitTransition, StatusChanged
  <2>3. Merge(app[q.app], q.row, q.new) \in AppRows
    BY <2>1, MergeApp
  <2>4. PICK row \in AppRows : row = Merge(app[q.app], q.row, q.new)
    BY <2>3
  <2>5. app' = [app EXCEPT ![q.app] = row] /\ app[q.app] # Gone /\ q.app \in Apps
    BY <2>1, <2>4 DEF Tracked
  <2>6. /\ app' \in [Apps -> AppRows \cup {NoRow, Gone}]
        /\ Tracked' = Tracked
        /\ \A b \in Apps : app[b] # NoRow => app'[b] # NoRow
        /\ \A b \in Apps : b \in Tracked' => b \in Tracked \/ app[b] = NoRow
    <3>1. PICK a \in Apps : a = q.app
      BY <2>5
    <3>2. app' = [app EXCEPT ![a] = row] /\ app[a] # Gone /\ a \in Tracked
      BY <2>1, <2>5, <3>1
    <3> HIDE DEF Inv
    <3>3. /\ app' \in [Apps -> AppRows \cup {NoRow, Gone}]
          /\ Tracked' = Tracked \cup {a}
          /\ \A b \in Apps : app[b] # NoRow => app'[b] # NoRow
          /\ \A b \in Apps : b \in Tracked' => b \in Tracked \/ app[b] = NoRow
      BY <3>2, SaveApp
    <3> QED
      BY <3>2, <3>3
  <2>7. \A x \in q.retire : /\ todo'[x] \in TodoRows /\ todo'[x].app = todo[x].app
                            /\ todo'[x].status = "cancelled"
    BY <2>1 DEF TodoRows, TodoStatuses
  <2>8. \A x \in Todos \ q.retire : todo'[x] = todo[x]
    BY <2>1
  <2>9. todo' \in [Todos -> TodoRows \cup {NoRow, Gone}]
    BY <2>1, <2>7, <2>8 DEF RowsInv
  <2>10. Listed' = Listed
    BY <2>1, <2>7, <2>8, RowsAreRows DEF Listed
  <2>11. \A x \in Listed : todo'[x].app = todo[x].app
    BY <2>7, <2>8
  <2>12. RowsStay
    BY <2>6, <2>10, <2>11 DEF RowsStay
  <2>13. CallsInv'
    BY <2>1, <2>12, CommitKeepsCalls
  <2>14. RowsInv' /\ PlanInv'
    BY <2>1, <2>2, <2>6, <2>9, <2>10, <2>11 DEF RowsInv, PlanInv
  <2>15. CompletionAgrees'
    BY <2>7, <2>8, <2>10 DEF CompletionAgrees
  <2>16. DoneIsOnTimeline'
    BY <2>2, <2>7, <2>8, <2>10 DEF DoneIsOnTimeline, Completions
  <2>17. CompletionsOwned'
    <3>1. \A x \in Todos : todo[x] # NoRow => todo'[x] # NoRow
      BY <2>7, <2>8, RowsAreRows
    <3> QED
      BY <2>2, <2>10, <2>11, <3>1 DEF CompletionsOwned
  <2> QED
    BY <2>13, <2>14, <2>15, <2>16, <2>17
<1> QED
  BY <1>3, <1>4, <1>5, <1>6

\* The commits that save a to-do's row and write or retract its completion.
LEMMA TodoCommitsKeepInv ==
  ASSUME Inv, NEW c \in Clients,
         CommitComplete(c) \/ CommitReopen(c) \/ CommitEdit(c)
  PROVE  Inv'
<1> USE ListedRows DEF Inv
<1>1. PICK q : q = req[c]
  OBVIOUS
<1>2. /\ RequestOK(q) /\ born[c] \in 1 .. MaxRequests
      /\ q.op \in {"complete", "reopen", "edit"} /\ q.todo \in Listed
      /\ app' = app /\ todo' = [todo EXCEPT ![q.todo] = Merge(@, q.row, q.new)]
      /\ UNCHANGED <<today, closed, reviewed, frozen>> /\ Commit(c)
  BY <1>1 DEF CommitComplete, CommitReopen, CommitEdit, Doing, plan, CallsInv
<1>3. PICK x \in Listed : x = q.todo
  BY <1>2
<1>4. PICK seen \in TodoRows, new \in TodoRows : seen = q.row /\ new = q.new
  BY <1>2 DEF RequestOK
<1>5. new.app = seen.app
  BY <1>2, <1>4 DEF RequestOK
<1>13. PICK m : m = Merge(todo[x], seen, new)
  OBVIOUS
<1>14. Saved(x, m)
  BY <1>2, <1>3, <1>4, <1>13 DEF Saved
<1>6. /\ RowsStay
      /\ Tracked' = Tracked /\ Listed' = Listed
      /\ todo' \in [Todos -> TodoRows \cup {NoRow, Gone}]
      /\ \A y \in Listed : todo'[y].app = todo[y].app
      /\ \A y \in Listed \ {x} : todo'[y] = todo[y]
      /\ new.status # seen.status => todo'[x].status = new.status
      /\ new.status = seen.status => todo'[x].status = todo[x].status
      /\ new.completed # seen.completed => todo'[x].completed = new.completed
      /\ new.completed = seen.completed => todo'[x].completed = todo[x].completed
  <2> HIDE DEF Inv
  <2> QED
    BY <1>2, <1>5, <1>13, <1>14, SaveTodo
<1>7. CallsInv'
  BY <1>2, <1>6, CommitKeepsCalls
<1>8. PlanInv'
  BY <1>2 DEF PlanInv
<1>9. \A y \in Todos : todo[y] # NoRow => todo'[y] # NoRow
  BY <1>2, <1>5, <1>6 DEF Listed, RowsInv
<1>10. CASE CommitComplete(c)
  <2>1. /\ new.status = "done" /\ new.completed \in Days
        /\ seen.status = "pending" /\ seen.completed = NoDay
    BY <1>1, <1>2, <1>4, <1>10 DEF CommitComplete, Doing, RequestOK
  <2>2. todo'[x].status = "done" /\ todo'[x].completed # NoDay
    BY <1>6, <2>1, NoDayIsNoDay DEF Days
  <2>3. event' = IF todo[x].app = NoApp THEN event
                 ELSE event \cup {[n |-> born[c], app |-> todo[x].app,
                                   kind |-> "action_completed", todo |-> x]}
    BY <1>1, <1>3, <1>10 DEF CommitComplete
  <2>4. RowsInv'
    BY <1>2, <1>6, <2>3 DEF RowsInv
  <2>5. CompletionAgrees'
    BY <1>6, <2>2 DEF CompletionAgrees
  <2>6. DoneIsOnTimeline'
    <3>1. SUFFICES ASSUME NEW y \in Listed, todo'[y].status = "done", todo[y].app # NoApp
                   PROVE  \E e \in event' : e.kind = "action_completed" /\ e.todo = y
      BY <1>6 DEF DoneIsOnTimeline, Completions
    <3>2. CASE y = x
      <4> DEFINE e == [n |-> born[c], app |-> todo[x].app, kind |-> "action_completed", todo |-> x]
      <4>1. e \in event'
        BY <2>3, <3>1, <3>2
      <4>2. e.kind = "action_completed" /\ e.todo = y
        BY <3>2
      <4> HIDE DEF e
      <4> QED
        BY <4>1, <4>2
    <3>3. CASE y # x
      BY <1>6, <2>3, <3>1, <3>3 DEF DoneIsOnTimeline, Completions
    <3> QED
      BY <3>2, <3>3
  <2>7. CompletionsOwned'
    BY <1>6, <1>9, <2>3 DEF CompletionsOwned, Listed
  <2> QED
    BY <1>7, <1>8, <2>4, <2>5, <2>6, <2>7
<1>11. CASE CommitReopen(c)
  <2>1. /\ new.status = "pending" /\ new.completed = NoDay
        /\ seen.status = "done" /\ seen.completed # NoDay
        /\ \A e \in q.events : e.kind = "action_completed" /\ e.todo = x
    BY <1>1, <1>2, <1>3, <1>4, <1>11 DEF CommitReopen, Doing, RequestOK
  <2>2. todo'[x].status = "pending" /\ todo'[x].completed = NoDay
    BY <1>6, <2>1
  <2>3. event' = event \ q.events
    BY <1>1, <1>11 DEF CommitReopen, Retracted
  <2>4. RowsInv'
    BY <1>2, <1>6, <2>3 DEF RowsInv
  <2>5. CompletionAgrees'
    BY <1>6, <2>2 DEF CompletionAgrees
  <2>6. DoneIsOnTimeline'
    BY <1>6, <2>1, <2>2, <2>3 DEF DoneIsOnTimeline, Completions
  <2>7. CompletionsOwned'
    BY <1>6, <1>9, <2>3 DEF CompletionsOwned
  <2> QED
    BY <1>7, <1>8, <2>4, <2>5, <2>6, <2>7
<1>12. CASE CommitEdit(c)
  <2>1. /\ new.completed = seen.completed
        /\ new.status = "dismissed" \/ new.status = seen.status
    BY <1>1, <1>2, <1>4, <1>12 DEF CommitEdit, Doing, RequestOK
  <2>2. /\ todo'[x].completed = todo[x].completed
        /\ todo'[x].status \in {"dismissed", todo[x].status}
    BY <1>6, <2>1
  <2>3. event' = event
    BY <1>12 DEF CommitEdit
  <2>4. RowsInv'
    BY <1>2, <1>6, <2>3 DEF RowsInv
  <2>5. CompletionAgrees'
    BY <1>6, <2>2 DEF CompletionAgrees
  <2>6. DoneIsOnTimeline'
    BY <1>6, <2>2, <2>3 DEF DoneIsOnTimeline, Completions
  <2>7. CompletionsOwned'
    BY <1>6, <1>9, <2>3 DEF CompletionsOwned
  <2> QED
    BY <1>7, <1>8, <2>4, <2>5, <2>6, <2>7
<1> QED
  BY <1>2, <1>10, <1>11, <1>12

\* The steps that leave applications alone and insert at most one to-do or one
\* timeline entry.
LEMMA OtherStepsKeepInv ==
  ASSUME Inv,
         \/ \E c \in Clients : CommitCloseDay(c) \/ CommitReview(c) \/ Rollback(c)
         \/ \E a \in Apps : AddEvent(a)
         \/ \E x \in Todos, a \in Apps \cup {NoApp} : CreateTodo(x, a)
         \/ Midnight
         \/ UNCHANGED vars
  PROVE  Inv'
<1> USE DEF Inv
<1>1. ASSUME UNCHANGED rows
      PROVE  /\ RowsStay /\ RowsInv'
             /\ CompletionAgrees' /\ DoneIsOnTimeline' /\ CompletionsOwned'
  BY <1>1 DEF rows, RowsStay, RowsInv, CompletionAgrees, DoneIsOnTimeline, CompletionsOwned,
              Listed, Tracked, Completions
<1>2. ASSUME NEW c \in Clients, CommitCloseDay(c) \/ CommitReview(c)
      PROVE  Inv'
  <2>1. PICK q : q = req[c]
    OBVIOUS
  <2>2. q.day \in Days /\ q.counted \subseteq Todos
    BY <1>2, <2>1 DEF CommitCloseDay, CommitReview, Doing, CallsInv, RequestOK
  <2>3. 0 .. q.day \subseteq Days
    BY <2>2, BoundsAreNumbers DEF Days
  <2>4. PlanInv'
    BY <1>2, <2>1, <2>2, <2>3 DEF CommitCloseDay, CommitReview, PlanInv
  <2>5. UNCHANGED rows /\ Commit(c)
    BY <1>2 DEF CommitCloseDay, CommitReview
  <2> QED
    BY <1>1, <2>4, <2>5, CommitKeepsCalls
<1>3. ASSUME NEW c \in Clients, Rollback(c)
      PROVE  Inv'
  <2>1. /\ UNCHANGED <<rows, plan>> /\ Leave(c)
        /\ stale' \subseteq Clients /\ raced' \in BOOLEAN
    BY <1>3 DEF Rollback, CallsInv
  <2>2. PlanInv'
    BY <2>1 DEF plan, PlanInv
  <2> QED
    BY <1>1, <2>1, <2>2, LeaveKeepsCalls
<1>4. ASSUME NEW a \in Apps, AddEvent(a)
      PROVE  Inv'
  <2>1. /\ a \in Tracked /\ AtOnce /\ UNCHANGED <<app, todo, plan>>
        /\ event' = event \cup {[n |-> requests + 1, app |-> a, kind |-> "added"]}
        /\ requests + 1 \in 1 .. MaxRequests
    BY <1>4, BoundsAreNumbers DEF AddEvent, AtOnce, CallsInv
  <2>2. RowsStay /\ PlanInv' /\ RowsInv' /\ CompletionAgrees'
    BY <2>1 DEF plan, PlanInv, RowsStay, RowsInv, CompletionAgrees, Listed, Tracked
  <2>3. DoneIsOnTimeline' /\ CompletionsOwned'
    BY <2>1 DEF DoneIsOnTimeline, CompletionsOwned, Listed, Completions
  <2> QED
    BY <2>1, <2>2, <2>3, AtOnceKeepsCalls
<1>5. ASSUME NEW x \in Todos, NEW a \in Apps \cup {NoApp}, CreateTodo(x, a)
      PROVE  Inv'
  <2> DEFINE row == [status |-> "pending", app |-> a, completed |-> NoDay]
  <2>1. /\ todo[x] = NoRow /\ a \in Tracked \cup {NoApp}
        /\ todo' = [todo EXCEPT ![x] = row]
        /\ AtOnce /\ UNCHANGED <<app, event, plan>>
    BY <1>5 DEF CreateTodo
  <2>2. row \in TodoRows /\ row \notin {NoRow, Gone}
    BY RowsAreRows DEF TodoRows, TodoStatuses
  <2>3. /\ row.status = "pending" /\ row.completed = NoDay /\ row.app = a
    OBVIOUS
  <2> HIDE DEF row
  <2>4. /\ todo' \in [Todos -> TodoRows \cup {NoRow, Gone}]
        /\ todo'[x] = row /\ \A y \in Todos \ {x} : todo'[y] = todo[y]
    BY <2>1, <2>2 DEF RowsInv
  <2>5. Listed' = Listed \cup {x} /\ x \notin Listed /\ Tracked' = Tracked
    BY <2>1, <2>2, <2>4 DEF Listed, Tracked
  <2>6. RowsStay
    BY <2>1, <2>4, <2>5 DEF RowsStay, Listed
  <2>7. RowsInv' /\ PlanInv'
    BY <2>1, <2>3, <2>4, <2>5 DEF RowsInv, PlanInv, plan, Listed
  <2>8. CompletionAgrees'
    BY <2>3, <2>4, <2>5 DEF CompletionAgrees, Listed
  <2>9. DoneIsOnTimeline'
    BY <2>1, <2>3, <2>4, <2>5 DEF DoneIsOnTimeline, Completions, Listed
  <2>10. CompletionsOwned'
    BY <2>1, <2>2, <2>4, <2>5 DEF CompletionsOwned, Listed
  <2> QED
    BY <2>1, <2>6, <2>7, <2>8, <2>9, <2>10, AtOnceKeepsCalls
<1>6. CASE Midnight \/ UNCHANGED vars
  <2>1. UNCHANGED <<rows, calls, closed, reviewed, frozen>> /\ today' \in {today, today + 1}
    BY <1>6 DEF Midnight, vars, plan
  <2>3. today' \in Days
    BY <1>6, BoundsAreNumbers DEF Midnight, vars, plan, PlanInv, Days
  <2>4. PlanInv'
    BY <2>1, <2>3 DEF PlanInv
  <2>2. CallsInv'
    <3>1. UNCHANGED <<app, todo, event, req, born, requests, stale, raced>>
      BY <2>1 DEF rows, calls
    <3> QED
      BY <3>1 DEF CallsInv, RequestOK, Tracked, Listed
  <2> QED
    BY <1>1, <2>1, <2>2, <2>4
<1> QED
  BY <1>2, <1>3, <1>4, <1>5, <1>6

\* The steps that write the row of a to-do that exists.
LEMMA TodoWriters ==
  ASSUME Inv, [Next]_vars, NEW x \in Todos, todo[x] # NoRow, todo'[x] # todo[x]
  PROVE  \E c \in Clients : \/ CommitDelete(c) \/ CommitTransition(c)
                            \/ CommitComplete(c) \/ CommitReopen(c) \/ CommitEdit(c)
<1>1. todo' # todo
  OBVIOUS
<1>2. ASSUME NEW c \in Clients, NEW r PROVE ~ Begin(c, r)
  BY <1>1 DEF Begin, Arrive, rows
<1>3. ASSUME NEW c \in Clients
      PROVE  /\ \A j \in Jobs, s \in Targets, dated \in BOOLEAN : ~ BeginCreate(c, j, s, dated)
             /\ \A a \in Apps, dated \in BOOLEAN : ~ BeginUpdate(c, a, dated)
             /\ \A a \in Apps : ~ BeginDelete(c, a)
             /\ \A a \in Apps, s \in Targets, force \in BOOLEAN : ~ BeginTransition(c, a, s, force)
             /\ \A y \in Todos : ~ BeginComplete(c, y) /\ ~ BeginReopen(c, y)
             /\ \A y \in Todos, s \in TodoStatuses : ~ BeginEdit(c, y, s)
             /\ \A d \in Days : ~ BeginCloseDay(c, d) /\ ~ BeginReview(c, d)
  BY <1>2 DEF Begin, BeginCreate, BeginUpdate, BeginDelete, BeginTransition, BeginComplete,
              BeginReopen, BeginEdit, BeginCloseDay, BeginReview
<1>4. ASSUME NEW c \in Clients
      PROVE  /\ \A a \in Apps : ~ CommitCreate(c, a)
             /\ ~ CommitUpdate(c) /\ ~ CommitCloseDay(c) /\ ~ CommitReview(c) /\ ~ Rollback(c)
  BY <1>1 DEF CommitCreate, CommitUpdate, CommitCloseDay, CommitReview, Rollback, rows
<1>5. /\ \A a \in Apps : ~ AddEvent(a)
      /\ ~ Midnight /\ ~ UNCHANGED vars
  BY <1>1 DEF AddEvent, Midnight, vars, rows
<1>6. \A y \in Todos, a \in Apps \cup {NoApp} : ~ CreateTodo(y, a)
  BY DEF CreateTodo, Inv, RowsInv
<1> QED
  BY <1>3, <1>4, <1>5, <1>6 DEF Next

LEMMA InitInv == Init => Inv
<1> SUFFICES ASSUME Init PROVE Inv
  OBVIOUS
<1>1. Listed = {} /\ Tracked = {}
  BY DEF Init, Listed, Tracked
<1>2. RowsInv /\ CompletionAgrees /\ DoneIsOnTimeline /\ CompletionsOwned
  BY <1>1 DEF Init, RowsInv, CompletionAgrees, DoneIsOnTimeline, CompletionsOwned
<1>3. PlanInv
  BY BoundsAreNumbers DEF Init, PlanInv, Days
<1>4. CallsInv
  <2>1. /\ req = [c \in Clients |-> Idle] /\ born = [c \in Clients |-> 0]
        /\ requests = 0 /\ stale = {} /\ raced = FALSE
    BY DEF Init
  <2>2. \A c \in Clients : req[c] = Idle
    BY <2>1
  <2>3. req = [c \in Clients |-> req[c]]
    <3>1. [c \in Clients |-> req[c]] = [c \in Clients |-> Idle]
      BY <2>2
    <3> QED
      BY <2>1, <3>1
  <2>4. born \in [Clients -> 0 .. MaxRequests] /\ requests \in 0 .. MaxRequests
    BY <2>1, BoundsAreNumbers
  <2> QED
    BY <2>1, <2>2, <2>3, <2>4 DEF CallsInv
<1> QED
  BY <1>2, <1>3, <1>4 DEF Inv

LEMMA StepInv == Inv /\ [Next]_vars => Inv'
<1> SUFFICES ASSUME Inv, [Next]_vars PROVE Inv'
  OBVIOUS
<1> QED
  BY BeginsKeepInv, AppCommitsKeepInv, TodoCommitsKeepInv, OtherStepsKeepInv DEF Next

LEMMA AlwaysInv == Spec => []Inv
BY InitInv, StepInv, PTL DEF Spec

-----------------------------------------------------------------------------
(* The theorems *)

\* However requests interleave, every row stays well formed, and every to-do and
\* timeline entry belongs to an application that exists.
THEOREM TypeOKHolds == Spec => []TypeOK
<1>1. Inv => TypeOK
  BY DEF Inv, RowsInv, PlanInv, CallsInv, TypeOK
<1> QED
  BY <1>1, AlwaysInv, PTL

\* However complete, reopen, snooze, dismiss and retirement interleave, a pending
\* to-do has no completed_at and a done one has.
THEOREM CompletionAgreesHolds == Spec => []CompletionAgrees
BY AlwaysInv, PTL DEF Inv

\* However they interleave, a done to-do has its completion on the timeline of
\* its application.
THEOREM DoneIsOnTimelineHolds == Spec => []DoneIsOnTimeline
BY AlwaysInv, PTL DEF Inv

\* Only an undo brings a retired to-do back, however stale the other requests.
THEOREM OnlyUndoRevivesHolds == Spec => OnlyUndoRevives
<1>1. ASSUME Inv, [Next]_vars, NEW x \in Listed \cap Listed',
             todo[x].status = "cancelled", todo'[x].status = "pending"
      PROVE  \E c \in Clients : Doing(c, "reopen") /\ req[c].todo = x
  <2> USE ListedRows DEF Inv
  <2>1. todo'[x] # todo[x] /\ todo[x] # NoRow
    BY <1>1 DEF Listed
  <2>13. todo'[x].status # todo[x].status
    BY <1>1
  <2>2. PICK c \in Clients : \/ CommitDelete(c) \/ CommitTransition(c)
                             \/ CommitComplete(c) \/ CommitReopen(c) \/ CommitEdit(c)
    BY <1>1, <2>1, TodoWriters
  <2>3. PICK q : q = req[c]
    OBVIOUS
  <2>4. RequestOK(q)
    <3>1. q # Idle => RequestOK(q)
      BY <1>1, <2>3 DEF CallsInv
    <3>2. q # Idle
      BY <2>2, <2>3 DEF CommitDelete, CommitTransition, CommitComplete, CommitReopen,
                        CommitEdit, Doing
    <3> QED
      BY <3>1, <3>2
  <2>5. ~ CommitDelete(c)
    BY <1>1, <2>1 DEF CommitDelete, Listed
  <2>6. ~ CommitTransition(c)
    BY <1>1, <2>1 DEF CommitTransition, TodoRows, Listed
  <2>7. /\ q.todo \in Listed /\ q.op \in {"complete", "reopen", "edit"}
        /\ app' = app /\ todo' = [todo EXCEPT ![q.todo] = Merge(@, q.row, q.new)]
    BY <2>2, <2>3, <2>5, <2>6 DEF CommitComplete, CommitReopen, CommitEdit, Doing
  <2>8. q.todo = x
    BY <2>1, <2>7 DEF RowsInv, Listed
  <2>9. PICK seen \in TodoRows, new \in TodoRows : seen = q.row /\ new = q.new
    BY <2>4, <2>7 DEF RequestOK
  <2>10. /\ new.status = seen.status => todo'[x].status = todo[x].status
         /\ new.status # seen.status => todo'[x].status = new.status
    <3>1. PICK m : m = Merge(todo[x], seen, new)
      OBVIOUS
    <3>2. Saved(x, m) /\ new.app = seen.app /\ app' = app /\ x \in Listed
      BY <2>4, <2>7, <2>8, <2>9, <3>1 DEF RequestOK, Saved
    <3> HIDE DEF Inv
    <3> QED
      BY <1>1, <3>1, <3>2, SaveTodo
  <2>11. new.status # seen.status /\ new.status = "pending"
    BY <1>1, <2>10, <2>13
  <2>12. q.op = "reopen"
    BY <2>4, <2>7, <2>9, <2>11 DEF RequestOK
  <2> QED
    BY <2>2, <2>3, <2>5, <2>6, <2>8, <2>12 DEF Doing, CommitComplete, CommitReopen, CommitEdit
<1>2. Inv /\ [Next]_vars =>
        [\A x \in Listed \cap Listed' :
           todo[x].status = "cancelled" /\ todo'[x].status = "pending"
           => \E c \in Clients : Doing(c, "reopen") /\ req[c].todo = x]_vars
  BY <1>1
<1> QED
  BY <1>2, AlwaysInv, PTL DEF Spec, OnlyUndoRevives

-----------------------------------------------------------------------------
(* As long as every commit was of what is still so *)

\* The status changes of an application, with what comes last and what follows.
LastOn(a, e) == \A f \in StatusEvents(a) : f.n <= e.n
Follows(a, e, f) == e.n < f.n /\ \A g \in StatusEvents(a) : e.n < g.n => f.n <= g.n

Chain ==
  \A a \in Tracked : \A e \in StatusEvents(a) :
    /\ LastOn(a, e) => app[a].status = e.to
    /\ \A f \in StatusEvents(a) : Follows(a, e, f) => f.from = e.to

EventsInOrder ==
  /\ \A e \in event : e.n <= requests
  /\ \A e, f \in event : e.n = f.n => e = f

\* A total is of to-dos done on days that are stored.
Totals ==
  \A x \in frozen :
    /\ todo[x] # NoRow
    /\ x \in Listed => todo[x].status = "done" /\ todo[x].completed \in closed \cup reviewed

\* What request r, the b-th to begin, has read is still so.
StillSo(r, b) ==
  /\ \A e \in event : e.n < b
  /\ r.op \in {"update", "transition"} => r.app \in Tracked /\ app[r.app] = r.row
  /\ r.op = "update" => r.new.status = r.row.status
  /\ r.op = "transition" => \A x \in r.retire : todo[x].status = "pending"
  /\ r.op \in {"complete", "reopen", "edit"} => r.todo \in Listed /\ todo[r.todo] = r.row
  /\ r.op = "edit" => r.row.status # "done"
  /\ r.op = "reopen" => r.todo \notin frozen
  /\ r.op \in {"close", "review"} => \A x \in r.counted :
       /\ x \in Listed /\ todo[x].status = "done"
       /\ todo[x].completed \in (IF r.op = "close" THEN r.day ELSE 0) .. r.day

SerialRows == Chain /\ EventsInOrder /\ Totals

Serial ==
  /\ \A c \in Clients : req[c] # Idle => born[c] <= requests
  /\ ~ raced =>
       /\ SerialRows
       /\ \A c \in Clients : req[c] # Idle /\ c \notin stale => StillSo(req[c], born[c])

LEMMA SerialBegin ==
  ASSUME Inv, Serial, NEW c \in Clients, NEW r, Begin(c, r), ~ raced => StillSo(r, requests + 1)
  PROVE  Serial'
<1>1. UNCHANGED <<app, todo, event, today, closed, reviewed, frozen, stale, raced>>
  BY DEF Begin, Arrive, rows, plan
<1>2. /\ requests \in Nat /\ requests' = requests + 1
      /\ req' = [req EXCEPT ![c] = r] /\ born' = [born EXCEPT ![c] = requests + 1]
  BY BoundsAreNumbers DEF Begin, Arrive, Inv, CallsInv
<1>3. /\ req'[c] = r /\ born'[c] = requests + 1
      /\ \A d \in Clients \ {c} : req'[d] = req[d] /\ born'[d] = born[d]
  BY <1>2 DEF Inv, CallsInv
<1>4. \A d \in Clients : req'[d] # Idle => born'[d] <= requests'
  <2>1. \A d \in Clients : born[d] \in Nat
    BY BoundsAreNumbers DEF Inv, CallsInv
  <2> QED
    BY <1>2, <1>3, <2>1 DEF Serial
<1>5. ASSUME ~ raced
      PROVE  SerialRows'
  <2>1. Chain' /\ Totals'
    BY <1>1, <1>5 DEF Serial, SerialRows, Chain, LastOn, Follows, StatusEvents, Totals,
       Tracked, Listed
  <2>2. \A e \in event : e.n \in Nat
    BY DEF Inv, RowsInv
  <2>3. EventsInOrder'
    BY <1>1, <1>2, <1>5, <2>2 DEF Serial, SerialRows, EventsInOrder
  <2> QED
    BY <2>1, <2>3 DEF SerialRows
<1>6. ASSUME ~ raced, NEW d \in Clients, req'[d] # Idle, d \notin stale
      PROVE  StillSo(req[d], born[d])'
  <2>1. PICK q, b : q = req'[d] /\ b = born'[d]
    OBVIOUS
  <2>2. StillSo(q, b)
    BY <1>3, <1>6, <2>1 DEF Serial
  <2>3. StillSo(q, b)'
    BY <1>1, <2>2 DEF StillSo, Tracked, Listed
  <2> QED
    BY <2>1, <2>3 DEF StillSo
<1> QED
  BY <1>1, <1>4, <1>5, <1>6 DEF Serial

\* A commit leaves no other request that reads what is so.
LEMMA SerialCommit ==
  ASSUME Inv, Serial, NEW c \in Clients, Commit(c), ~ raced' => SerialRows'
  PROVE  Serial'
<1>1. /\ req'[c] = Idle /\ requests' = requests
      /\ \A d \in Clients \ {c} : req'[d] = req[d] /\ born'[d] = born[d]
      /\ stale' = {d \in Clients \ {c} : req[d] # Idle}
  BY DEF Commit, Leave, Inv, CallsInv
<1>2. \A d \in Clients : req'[d] # Idle => d \in stale' /\ born'[d] <= requests'
  BY <1>1 DEF Serial
<1> QED
  BY <1>2 DEF Serial

LEMMA SerialAtOnce ==
  ASSUME Inv, Serial, AtOnce, ~ raced' => SerialRows'
  PROVE  Serial'
<1>1. /\ req' = req /\ born' = born /\ requests' = requests + 1
      /\ stale' = {d \in Clients : req[d] # Idle}
  BY DEF AtOnce
<1>2. requests \in Nat /\ \A d \in Clients : born[d] \in Nat
  BY BoundsAreNumbers DEF Inv, CallsInv
<1>3. \A d \in Clients : req'[d] # Idle => d \in stale' /\ born'[d] <= requests'
  BY <1>1, <1>2 DEF Serial
<1> QED
  BY <1>3 DEF Serial

\* A step that changes no row and no total.
LEMMA SerialQuiet ==
  ASSUME Inv, Serial, UNCHANGED <<app, todo, event, closed, reviewed, frozen, requests, raced>>,
         \A d \in Clients : req'[d] # Idle => req'[d] = req[d] /\ born'[d] = born[d],
         \A d \in Clients : req'[d] # Idle /\ d \notin stale' => d \notin stale
  PROVE  Serial'
<1>1. ~ raced => SerialRows'
  BY DEF Serial, SerialRows, Chain, LastOn, Follows, StatusEvents, EventsInOrder, Totals,
     Tracked, Listed
<1>2. ASSUME ~ raced, NEW d \in Clients, req'[d] # Idle, d \notin stale'
      PROVE  StillSo(req[d], born[d])'
  <2>1. PICK q, b : q = req'[d] /\ b = born'[d]
    OBVIOUS
  <2>2. StillSo(q, b)
    BY <1>2, <2>1 DEF Serial
  <2>3. StillSo(q, b)'
    BY <2>2 DEF StillSo, Tracked, Listed
  <2> QED
    BY <2>1, <2>3 DEF StillSo
<1> QED
  BY <1>1, <1>2 DEF Serial

LEMMA SerialRollback ==
  ASSUME Inv, Serial, NEW c \in Clients, Rollback(c)
  PROVE  Serial'
<1>1. /\ UNCHANGED <<app, todo, event, closed, reviewed, frozen, requests, raced>>
      /\ req'[c] = Idle /\ stale' = stale \ {c}
      /\ \A d \in Clients \ {c} : req'[d] = req[d] /\ born'[d] = born[d]
  BY DEF Rollback, Leave, rows, plan, Inv, CallsInv
<1> QED
  BY <1>1, SerialQuiet

LEMMA SerialMidnight ==
  ASSUME Inv, Serial, Midnight \/ UNCHANGED vars
  PROVE  Serial'
<1>1. /\ UNCHANGED <<app, todo, event, closed, reviewed, frozen, requests, raced>>
      /\ UNCHANGED <<req, born, stale>>
  BY DEF Midnight, vars, rows, plan, calls
<1> QED
  BY <1>1, SerialQuiet

LEMMA SerialBegins ==
  ASSUME Inv, Serial, NEW c \in Clients,
         \/ \E j \in Jobs, s \in Targets, dated \in BOOLEAN : BeginCreate(c, j, s, dated)
         \/ \E a \in Apps, dated \in BOOLEAN : BeginUpdate(c, a, dated)
         \/ \E a \in Apps : BeginDelete(c, a)
         \/ \E a \in Apps, s \in Targets, force \in BOOLEAN : BeginTransition(c, a, s, force)
         \/ \E x \in Todos : BeginComplete(c, x) \/ BeginReopen(c, x)
         \/ \E x \in Todos, s \in TodoStatuses : BeginEdit(c, x, s)
         \/ \E d \in Days : BeginCloseDay(c, d) \/ BeginReview(c, d)
  PROVE  Serial'
<1>1. ~ raced => \A e \in event : e.n < requests + 1
  <2>1. \A e \in event : e.n \in Nat
    BY DEF Inv, RowsInv
  <2>2. requests \in Nat
    BY BoundsAreNumbers DEF Inv, CallsInv
  <2> QED
    BY <2>1, <2>2 DEF Serial, SerialRows, EventsInOrder
<1>2. ASSUME NEW j \in Jobs, NEW s \in Targets, NEW dated \in BOOLEAN, BeginCreate(c, j, s, dated)
      PROVE  Serial'
  <2>1. PICK q : q = [op |-> "create",
                      new |-> [status |-> s, job |-> j, applied |-> dated \/ s = "applied"]]
    OBVIOUS
  <2>2. ~ raced => StillSo(q, requests + 1)
    BY <1>1, <2>1 DEF StillSo
  <2> QED
    BY <1>2, <2>1, <2>2, SerialBegin DEF BeginCreate, Begin
<1>3. ASSUME NEW a \in Apps, NEW dated \in BOOLEAN, BeginUpdate(c, a, dated)
      PROVE  Serial'
  <2>1. PICK q : q = [op |-> "update", app |-> a, row |-> app[a],
                      new |-> [app[a] EXCEPT !.applied = dated]]
    OBVIOUS
  <2>2. app[a] \in AppRows /\ a \in Tracked
    BY <1>3, ListedRows DEF BeginUpdate, Inv
  <2>3. q.new.status = app[a].status
    BY <2>1, <2>2 DEF AppRows
  <2>4. ~ raced => StillSo(q, requests + 1)
    BY <1>1, <2>1, <2>2, <2>3 DEF StillSo
  <2> QED
    BY <1>3, <2>1, <2>4, SerialBegin DEF BeginUpdate
<1>4. ASSUME NEW a \in Apps, BeginDelete(c, a)
      PROVE  Serial'
  <2>1. PICK q : q = [op |-> "delete", app |-> a]
    OBVIOUS
  <2>2. ~ raced => StillSo(q, requests + 1)
    BY <1>1, <2>1 DEF StillSo
  <2> QED
    BY <1>4, <2>1, <2>2, SerialBegin DEF BeginDelete, Begin
<1>5. ASSUME NEW a \in Apps, NEW s \in Targets, NEW force \in BOOLEAN, BeginTransition(c, a, s, force)
      PROVE  Serial'
  <2> DEFINE pending == IF s \in Closing THEN {x \in TodosOf(a) : todo[x].status = "pending"} ELSE {}
             row == [app[a] EXCEPT !.status = s, !.applied = @ \/ s = "applied"]
  <2>1. PICK new, retire : new = row /\ retire = pending
    OBVIOUS
  <2>2. PICK q : q = [op |-> "transition", app |-> a, row |-> app[a], force |-> force,
                      new |-> new, retire |-> retire]
    OBVIOUS
  <2>3. Begin(c, q) /\ a \in Tracked
    BY <1>5, <2>1, <2>2 DEF BeginTransition
  <2>4. \A x \in retire : todo[x].status = "pending"
    BY <2>1
  <2>5. ~ raced => StillSo(q, requests + 1)
    BY <1>1, <2>2, <2>3, <2>4 DEF StillSo
  <2> QED
    BY <2>3, <2>5, SerialBegin
<1>6. ASSUME NEW x \in Todos, BeginComplete(c, x)
      PROVE  Serial'
  <2>1. PICK new : new = [todo[x] EXCEPT !.status = "done", !.completed = today]
    OBVIOUS
  <2>2. PICK q : q = [op |-> "complete", todo |-> x, row |-> todo[x], new |-> new]
    OBVIOUS
  <2>3. Begin(c, q) /\ x \in Listed
    BY <1>6, <2>1, <2>2 DEF BeginComplete
  <2>4. ~ raced => StillSo(q, requests + 1)
    BY <1>1, <2>2, <2>3 DEF StillSo
  <2> QED
    BY <2>3, <2>4, SerialBegin
<1>7. ASSUME NEW x \in Todos, BeginReopen(c, x)
      PROVE  Serial'
  <2>1. PICK new, events : new = Reopened(todo[x]) /\ events = Completions(x)
    OBVIOUS
  <2>2. PICK q : q = [op |-> "reopen", todo |-> x, row |-> todo[x], new |-> new,
                      events |-> events]
    OBVIOUS
  <2>3. Begin(c, q) /\ x \in Listed /\ todo[x].completed \notin closed \cup reviewed
    BY <1>7, <2>1, <2>2 DEF BeginReopen, Undoable
  <2>4. ~ raced => x \notin frozen
    BY <2>3 DEF Serial, SerialRows, Totals
  <2>5. ~ raced => StillSo(q, requests + 1)
    BY <1>1, <2>2, <2>3, <2>4 DEF StillSo
  <2> QED
    BY <2>3, <2>5, SerialBegin
<1>8. ASSUME NEW x \in Todos, NEW s \in TodoStatuses, BeginEdit(c, x, s)
      PROVE  Serial'
  <2>1. PICK new : new = [todo[x] EXCEPT !.status = s]
    OBVIOUS
  <2>2. PICK q : q = [op |-> "edit", todo |-> x, row |-> todo[x], new |-> new]
    OBVIOUS
  <2>3. Begin(c, q) /\ x \in Listed /\ todo[x].status # "done"
    BY <1>8, <2>1, <2>2 DEF BeginEdit, Editable
  <2>4. ~ raced => StillSo(q, requests + 1)
    BY <1>1, <2>2, <2>3 DEF StillSo
  <2> QED
    BY <2>3, <2>4, SerialBegin
<1>9. ASSUME NEW d \in Days, BeginCloseDay(c, d)
      PROVE  Serial'
  <2>1. PICK first, counted : first = (d \notin closed) /\ counted = Counted(d, d)
    OBVIOUS
  <2>2. PICK q : q = [op |-> "close", day |-> d, first |-> first, counted |-> counted]
    OBVIOUS
  <2>3. Begin(c, q)
    BY <1>9, <2>1, <2>2 DEF BeginCloseDay
  <2>4. \A x \in counted : x \in Listed /\ todo[x].status = "done" /\ todo[x].completed \in d .. d
    BY <2>1 DEF Counted
  <2>5. ~ raced => StillSo(q, requests + 1)
    BY <1>1, <2>2, <2>4 DEF StillSo
  <2> QED
    BY <2>3, <2>5, SerialBegin
<1>10. ASSUME NEW d \in Days, BeginReview(c, d)
       PROVE  Serial'
  <2>1. PICK first, counted : first = (d \notin reviewed) /\ counted = Counted(0, d)
    OBVIOUS
  <2>2. PICK q : q = [op |-> "review", day |-> d, first |-> first, counted |-> counted]
    OBVIOUS
  <2>3. Begin(c, q)
    BY <1>10, <2>1, <2>2 DEF BeginReview
  <2>4. \A x \in counted : x \in Listed /\ todo[x].status = "done" /\ todo[x].completed \in 0 .. d
    BY <2>1 DEF Counted
  <2>5. ~ raced => StillSo(q, requests + 1)
    BY <1>1, <2>2, <2>4 DEF StillSo
  <2> QED
    BY <2>3, <2>5, SerialBegin
<1> QED
  BY <1>2, <1>3, <1>4, <1>5, <1>6, <1>7, <1>8, <1>9, <1>10

\* The timelines of the applications that a step leaves alone.
LEMMA ChainQuiet ==
  ASSUME Chain,
         \A a \in Tracked' :
           \/ StatusEvents(a)' = {}
           \/ /\ a \in Tracked /\ StatusEvents(a)' = StatusEvents(a)
              /\ app'[a].status = app[a].status
  PROVE  Chain'
BY DEF Chain, LastOn, Follows

\* A timeline that gets a last entry, from the status the application had.
LEMMA ChainExtended ==
  ASSUME Inv, Chain, NEW a \in Tracked, NEW s, \A e \in event : e.n < s.n, s.n \in Nat,
         StatusEvents(a)' = StatusEvents(a) \cup {s}, s.from = app[a].status,
         app'[a].status = s.to
  PROVE  \A e \in StatusEvents(a)' :
           /\ LastOn(a, e)' => app'[a].status = e.to
           /\ \A f \in StatusEvents(a)' : Follows(a, e, f)' => f.from = e.to
<1>1. \A e \in StatusEvents(a) : e.n \in Nat /\ e.n < s.n
  BY DEF Inv, RowsInv, StatusEvents
<1>2. ASSUME NEW e \in StatusEvents(a)', LastOn(a, e)'
      PROVE  app'[a].status = e.to
  <2>1. s.n <= e.n
    BY <1>2 DEF LastOn
  <2>2. e = s
    BY <1>1, <2>1
  <2> QED
    BY <2>2
<1>3. ASSUME NEW e \in StatusEvents(a)', NEW f \in StatusEvents(a)', Follows(a, e, f)'
      PROVE  f.from = e.to
  <2>1. e.n < f.n /\ \A g \in StatusEvents(a) : e.n < g.n => f.n <= g.n
    BY <1>3 DEF Follows
  <2>2. e \in StatusEvents(a)
    BY <1>1, <2>1
  <2>3. CASE f = s
    <3>1. \A g \in StatusEvents(a) : ~ (e.n < g.n)
      BY <1>1, <2>1, <2>3
    <3>2. \A g \in StatusEvents(a) : g.n <= e.n
      BY <1>1, <2>2, <3>1
    <3>3. LastOn(a, e)
      BY <3>2 DEF LastOn
    <3> QED
      BY <2>2, <2>3, <3>3 DEF Chain
  <2>4. CASE f \in StatusEvents(a)
    BY <2>1, <2>2, <2>4 DEF Chain, Follows
  <2> QED
    BY <2>3, <2>4
<1> QED
  BY <1>2, <1>3

\* Events that are inserted last, or deleted.
LEMMA InOrderStays ==
  ASSUME Inv, EventsInOrder, NEW s, s.n \in Nat, \A e \in event : e.n < s.n,
         s.n <= requests', requests \in Nat, requests' \in Nat, requests <= requests',
         event' \subseteq event \cup {s}
  PROVE  EventsInOrder'
<1>1. \A e \in event : e.n \in Nat
  BY DEF Inv, RowsInv
<1>2. \A e \in event' : e.n <= requests'
  BY <1>1 DEF EventsInOrder
<1>3. \A e, f \in event' : e.n = f.n => e = f
  BY <1>1 DEF EventsInOrder
<1> QED
  BY <1>2, <1>3 DEF EventsInOrder

LEMMA InOrderLess ==
  ASSUME Inv, EventsInOrder, requests' \in {requests, requests + 1}, event' \subseteq event
  PROVE  EventsInOrder'
<1>1. requests \in Nat /\ \A e \in event : e.n \in Nat
  BY BoundsAreNumbers DEF Inv, RowsInv, CallsInv
<1> QED
  BY <1>1 DEF EventsInOrder

\* What is counted is left alone.
LEMMA TotalsQuiet ==
  ASSUME Totals, UNCHANGED <<closed, reviewed, frozen>>,
         \A x \in frozen : todo[x] # NoRow => todo'[x] # NoRow,
         \A x \in frozen : x \in Listed' => x \in Listed /\ todo'[x] = todo[x]
  PROVE  Totals'
BY DEF Totals

\* What a request that commits serially has read is so.
LEMMA CommitReads ==
  ASSUME Inv, Serial, NEW c \in Clients, req[c] # Idle, Commit(c), ~ raced',
         NEW q, NEW b, q = req[c], b = born[c]
  PROVE  /\ SerialRows /\ StillSo(q, b) /\ RequestOK(q)
         /\ b \in Nat /\ b <= requests /\ requests \in Nat /\ requests' = requests
<1>1. ~ raced /\ c \notin stale /\ requests' = requests
  BY DEF Commit, Leave, Inv, CallsInv
<1>2. RequestOK(q) /\ b \in Nat /\ requests \in Nat
  BY BoundsAreNumbers DEF Inv, CallsInv
<1> QED
  BY <1>1, <1>2 DEF Serial

LEMMA SerialAppCommits ==
  ASSUME Inv, Serial, NEW c \in Clients,
         (\E a \in Apps : CommitCreate(c, a)) \/ CommitUpdate(c) \/ CommitDelete(c)
  PROVE  Serial'
<1> USE DEF Inv
<1>1. PICK q, b : q = req[c] /\ b = born[c]
  OBVIOUS
<1>2. Commit(c) /\ q # Idle /\ UNCHANGED <<closed, reviewed, frozen>>
  BY <1>1 DEF CommitCreate, CommitUpdate, CommitDelete, Doing, plan
<1>3. ASSUME ~ raced'
      PROVE  SerialRows'
  <2>1. /\ Chain /\ EventsInOrder /\ Totals /\ StillSo(q, b) /\ RequestOK(q)
        /\ requests' = requests
    BY <1>1, <1>2, <1>3, CommitReads DEF SerialRows
  <2>2. CASE \E a \in Apps : CommitCreate(c, a)
    <3>1. PICK a \in Apps : app[a] = NoRow /\ app' = [app EXCEPT ![a] = q.new]
      BY <1>1, <2>2 DEF CommitCreate
    <3>2. UNCHANGED <<todo, event>>
      BY <2>2 DEF CommitCreate
    <3>3. \A d \in Apps \ {a} : app'[d] = app[d]
      BY <3>1 DEF RowsInv
    <3>4. a \notin Tracked /\ StatusEvents(a)' = {}
      BY <3>1, <3>2 DEF Tracked, StatusEvents, RowsInv
    <3>5. \A d \in Tracked' \ {a} : d \in Tracked /\ StatusEvents(d)' = StatusEvents(d)
                                    /\ app'[d].status = app[d].status
      BY <3>2, <3>3 DEF Tracked, StatusEvents
    <3>6. Chain'
      BY <2>1, <3>4, <3>5, ChainQuiet
    <3>7. Totals'
      BY <1>2, <2>1, <3>2, TotalsQuiet DEF Listed
    <3>8. EventsInOrder'
      BY <2>1, <3>2, InOrderLess
    <3> QED
      BY <3>6, <3>7, <3>8 DEF SerialRows
  <2>3. CASE CommitUpdate(c)
    <3>1. /\ q.op = "update" /\ UNCHANGED <<todo, event>>
          /\ app' = [app EXCEPT ![q.app] = Merge(@, q.row, q.new)]
      BY <1>1, <2>3 DEF CommitUpdate, Doing
    <3>2. /\ q.app \in Tracked /\ q.app \in Apps /\ app[q.app] = q.row
          /\ q.new.status = q.row.status
      BY <2>1, <3>1 DEF StillSo, RequestOK
    <3>3. PICK row \in AppRows, new \in AppRows : row = q.row /\ new = q.new
      BY <2>1, <3>1 DEF RequestOK
    <3>4. PICK a, m : a = q.app /\ m = Merge(app[a], row, new)
      OBVIOUS
    <3>5. m \in AppRows /\ m.status = row.status
      BY <3>2, <3>3, <3>4, MergeApp DEF Merge, AppRows
    <3>6. app'[a] = m /\ \A d \in Apps \ {a} : app'[d] = app[d]
      BY <3>1, <3>2, <3>3, <3>4 DEF RowsInv
    <3>7. \A d \in Tracked' : d \in Tracked /\ StatusEvents(d)' = StatusEvents(d)
                              /\ app'[d].status = app[d].status
      BY <3>1, <3>2, <3>3, <3>5, <3>6 DEF Tracked, StatusEvents
    <3>8. Chain'
      BY <2>1, <3>7, ChainQuiet
    <3>9. Totals'
      BY <1>2, <2>1, <3>1, TotalsQuiet DEF Listed
    <3>10. EventsInOrder'
      BY <2>1, <3>1, InOrderLess
    <3> QED
      BY <3>8, <3>9, <3>10 DEF SerialRows
  <2>4. CASE CommitDelete(c)
    <3>1. PICK a : a = q.app
      OBVIOUS
    <3>2. /\ a \in Tracked
          /\ app' = [app EXCEPT ![a] = Gone]
          /\ todo' = [x \in Todos |-> IF x \in TodosOf(a) THEN Gone ELSE todo[x]]
          /\ event' = {e \in event : e.app # a}
      BY <1>1, <2>4, <3>1 DEF CommitDelete
    <3>3. \A d \in Tracked' : d \in Tracked /\ d # a /\ app'[d] = app[d]
      BY <3>2 DEF Tracked, RowsInv
    <3>4. \A d \in Tracked' : StatusEvents(d)' = StatusEvents(d)
      BY <3>2, <3>3 DEF StatusEvents
    <3>5. Chain'
      BY <2>1, <3>3, <3>4, ChainQuiet
    <3>6. frozen \subseteq Todos
      BY DEF PlanInv
    <3>7. Totals'
      <4>1. \A x \in frozen : todo[x] # NoRow => todo'[x] # NoRow
        BY <3>2, <3>6, RowsAreRows
      <4>2. \A x \in frozen : x \in Listed' => x \in Listed /\ todo'[x] = todo[x]
        BY <3>2, <3>6 DEF Listed
      <4> QED
        BY <1>2, <2>1, <4>1, <4>2, TotalsQuiet
    <3>8. EventsInOrder'
      BY <2>1, <3>2, InOrderLess
    <3> QED
      BY <3>5, <3>7, <3>8 DEF SerialRows
  <2> QED
    BY <2>2, <2>3, <2>4
<1> HIDE DEF Inv
<1> QED
  BY <1>2, <1>3, SerialCommit

LEMMA SerialTransition ==
  ASSUME Inv, Serial, NEW c \in Clients, CommitTransition(c)
  PROVE  Serial'
<1> USE DEF Inv
<1>1. PICK q, b : q = req[c] /\ b = born[c]
  OBVIOUS
<1>2. /\ Commit(c) /\ q # Idle /\ q.op = "transition" /\ UNCHANGED <<closed, reviewed, frozen>>
      /\ app' = [app EXCEPT ![q.app] = Merge(@, q.row, q.new)]
      /\ todo' = [x \in Todos |-> IF x \in q.retire THEN [todo[x] EXCEPT !.status = "cancelled"]
                                  ELSE todo[x]]
  BY <1>1 DEF CommitTransition, Doing, plan
<1>3. ASSUME ~ raced'
      PROVE  SerialRows'
  <2>1. /\ Chain /\ EventsInOrder /\ Totals /\ StillSo(q, b) /\ RequestOK(q)
        /\ b \in Nat /\ b <= requests /\ requests \in Nat /\ requests' = requests
    BY <1>1, <1>2, <1>3, CommitReads DEF SerialRows
  <2>2. PICK row \in AppRows, new \in AppRows : row = q.row /\ new = q.new
    BY <1>2, <2>1 DEF RequestOK
  <2>3. PICK a, m : a = q.app /\ m = Merge(app[a], row, new)
    OBVIOUS
  <2>4. a \in Tracked /\ a \in Apps /\ app[a] = row
    BY <1>2, <2>1, <2>2, <2>3 DEF StillSo, RequestOK
  <2>5. m \in AppRows /\ m.status = new.status
    BY <2>2, <2>3, <2>4, MergeApp DEF Merge, AppRows
  <2>6. app'[a] = m /\ \A d \in Apps \ {a} : app'[d] = app[d]
    BY <1>2, <2>2, <2>3, <2>4 DEF RowsInv
  <2>7. PICK s : /\ s.n = b /\ s.app = a /\ s.kind = "status_changed"
                 /\ s.from = row.status /\ s.to = new.status
                 /\ event' = event \cup {s}
    BY <1>1, <2>2, <2>3 DEF CommitTransition, StatusChanged
  <2>8. \A e \in event : e.n < s.n
    BY <2>1, <2>7 DEF StillSo
  <2>9. Tracked' = Tracked
    BY <2>4, <2>5, <2>6, RowsAreRows DEF Tracked
  <2>10. StatusEvents(a)' = StatusEvents(a) \cup {s}
    BY <2>7 DEF StatusEvents
  <2>11. \A d \in Tracked \ {a} : StatusEvents(d)' = StatusEvents(d)
                                  /\ app'[d].status = app[d].status
    BY <2>6, <2>7 DEF StatusEvents, Tracked
  <2>12. \A e \in StatusEvents(a)' :
           /\ LastOn(a, e)' => app'[a].status = e.to
           /\ \A f \in StatusEvents(a)' : Follows(a, e, f)' => f.from = e.to
    <3> HIDE DEF Inv
    <3> QED
      BY <2>1, <2>4, <2>5, <2>6, <2>7, <2>8, <2>10, ChainExtended
  <2>13. Chain'
    BY <2>1, <2>9, <2>11, <2>12 DEF Chain, LastOn, Follows
  <2>14. EventsInOrder'
    BY <2>1, <2>7, <2>8, InOrderStays
  <2>15. \A x \in frozen : x \in Todos /\ x \notin q.retire /\ todo'[x] = todo[x]
    <3>1. ASSUME NEW x \in frozen, x \in q.retire
          PROVE  FALSE
      <4>1. x \in Listed /\ todo[x].status = "pending"
        BY <1>2, <2>1, <2>3, <2>4, <3>1 DEF StillSo, RequestOK
      <4> QED
        BY <2>1, <3>1, <4>1 DEF Totals
    <3> QED
      BY <1>2, <3>1 DEF PlanInv
  <2>16. Totals'
    BY <1>2, <2>1, <2>15, TotalsQuiet DEF Listed
  <2> QED
    BY <2>13, <2>14, <2>16 DEF SerialRows
<1> HIDE DEF Inv
<1> QED
  BY <1>2, <1>3, SerialCommit

LEMMA SerialTodoCommits ==
  ASSUME Inv, Serial, NEW c \in Clients,
         CommitComplete(c) \/ CommitReopen(c) \/ CommitEdit(c)
  PROVE  Serial'
<1> USE DEF Inv
<1>1. PICK q, b : q = req[c] /\ b = born[c]
  OBVIOUS
<1>2. /\ Commit(c) /\ q # Idle /\ q.op \in {"complete", "reopen", "edit"}
      /\ UNCHANGED <<app, closed, reviewed, frozen>>
      /\ todo' = [todo EXCEPT ![q.todo] = Merge(@, q.row, q.new)]
  BY <1>1 DEF CommitComplete, CommitReopen, CommitEdit, Doing, plan
<1>3. ASSUME ~ raced'
      PROVE  SerialRows'
  <2>1. /\ Chain /\ EventsInOrder /\ Totals /\ StillSo(q, b) /\ RequestOK(q)
        /\ b \in Nat /\ b <= requests /\ requests \in Nat /\ requests' = requests
    BY <1>1, <1>2, <1>3, CommitReads DEF SerialRows
  <2>2. PICK x, m : x = q.todo /\ m = Merge(todo[x], q.row, q.new)
    OBVIOUS
  <2>3. x \in Listed /\ todo[x] = q.row
    BY <1>2, <2>1, <2>2 DEF StillSo
  <2>4. x \notin frozen
    <3>1. CASE q.op = "complete"
      BY <2>1, <2>3, <3>1 DEF RequestOK, Totals
    <3>2. CASE q.op = "reopen"
      BY <2>1, <2>2, <3>2 DEF StillSo
    <3>3. CASE q.op = "edit"
      BY <2>1, <2>3, <3>3 DEF StillSo, Totals
    <3> QED
      BY <1>2, <3>1, <3>2, <3>3
  <2>5. \A y \in frozen : y \in Todos /\ todo'[y] = todo[y]
    BY <1>2, <2>2, <2>4 DEF PlanInv, RowsInv
  <2>6. Totals'
    BY <1>2, <2>1, <2>5, TotalsQuiet DEF Listed
  <2>7. Chain' /\ EventsInOrder'
    <3>1. Tracked' = Tracked
      BY <1>2 DEF Tracked
    <3>2. CASE CommitEdit(c)
      <4>1. event' = event
        BY <3>2 DEF CommitEdit
      <4> QED
        BY <1>2, <2>1, <3>1, <4>1, ChainQuiet, InOrderLess DEF StatusEvents
    <3>3. CASE CommitReopen(c)
      <4>1. event' = event \ q.events /\ q.op = "reopen"
        BY <1>1, <3>3 DEF CommitReopen, Retracted, Doing
      <4>2. \A e \in q.events : e.kind = "action_completed"
        BY <2>1, <4>1 DEF RequestOK
      <4>3. "action_completed" # "status_changed"
        OBVIOUS
      <4>4. \A a : StatusEvents(a)' = StatusEvents(a)
        BY <4>1, <4>2, <4>3 DEF StatusEvents
      <4>5. Chain'
        BY <1>2, <2>1, <3>1, <4>4, ChainQuiet
      <4> QED
        BY <2>1, <4>1, <4>5, InOrderLess
    <3>4. CASE CommitComplete(c)
      <4>1. PICK s : /\ s.n = b /\ s.kind = "action_completed"
                     /\ event' \in {event, event \cup {s}}
        <5>1. PICK s : s = [n |-> b, app |-> todo[x].app, kind |-> "action_completed", todo |-> x]
          OBVIOUS
        <5>2. event' \in {event, event \cup {s}}
          BY <1>1, <2>2, <3>4, <5>1 DEF CommitComplete
        <5> QED
          BY <5>1, <5>2
      <4>2. \A e \in event : e.n < s.n
        BY <2>1, <4>1 DEF StillSo
      <4>3. "action_completed" # "status_changed"
        OBVIOUS
      <4>4. \A a : StatusEvents(a)' = StatusEvents(a)
        BY <4>1, <4>3 DEF StatusEvents
      <4>5. Chain'
        BY <1>2, <2>1, <3>1, <4>4, ChainQuiet
      <4>6. event' \subseteq event \cup {s}
        BY <4>1
      <4> QED
        BY <2>1, <4>1, <4>2, <4>5, <4>6, InOrderStays
    <3> QED
      BY <3>2, <3>3, <3>4
  <2> QED
    BY <2>6, <2>7 DEF SerialRows
<1> HIDE DEF Inv
<1> QED
  BY <1>2, <1>3, SerialCommit

LEMMA SerialPlanCommits ==
  ASSUME Inv, Serial, NEW c \in Clients, CommitCloseDay(c) \/ CommitReview(c)
  PROVE  Serial'
<1> USE DEF Inv
<1>1. PICK q, b : q = req[c] /\ b = born[c]
  OBVIOUS
<1>2. /\ Commit(c) /\ q # Idle /\ q.op \in {"close", "review"}
      /\ UNCHANGED <<app, todo, event>>
      /\ frozen' = frozen \cup q.counted
      /\ closed \subseteq closed' /\ reviewed \subseteq reviewed'
      /\ q.op = "close" => q.day \in closed'
      /\ q.op = "review" => 0 .. q.day \subseteq reviewed'
  BY <1>1 DEF CommitCloseDay, CommitReview, Doing, rows
<1>3. ASSUME ~ raced'
      PROVE  SerialRows'
  <2>1. /\ Chain /\ EventsInOrder /\ Totals /\ StillSo(q, b) /\ RequestOK(q)
        /\ requests' = requests
    BY <1>1, <1>2, <1>3, CommitReads DEF SerialRows
  <2>2. Chain' /\ EventsInOrder'
    BY <1>2, <2>1, ChainQuiet, InOrderLess DEF StatusEvents, Tracked
  <2>3. ASSUME NEW x \in q.counted
        PROVE  /\ todo[x] # NoRow /\ todo[x].status = "done"
               /\ todo[x].completed \in closed' \cup reviewed'
    <3>1. /\ x \in Listed /\ todo[x].status = "done"
          /\ todo[x].completed \in (IF q.op = "close" THEN q.day ELSE 0) .. q.day
      BY <1>2, <2>1, <2>3 DEF StillSo
    <3>2. todo[x] # NoRow
      BY <3>1 DEF Listed
    <3>3. q.day \in Nat
      BY <1>2, <2>1, BoundsAreNumbers DEF RequestOK, Days
    <3>4. CASE q.op = "close"
      <4>1. todo[x].completed = q.day
        BY <3>1, <3>3, <3>4
      <4> QED
        BY <1>2, <3>1, <3>2, <3>4, <4>1
    <3>5. CASE q.op = "review"
      BY <1>2, <3>1, <3>2, <3>5
    <3> QED
      BY <1>2, <3>4, <3>5
  <2>4. Totals'
    BY <1>2, <2>1, <2>3 DEF Totals, Listed
  <2> QED
    BY <2>2, <2>4 DEF SerialRows
<1> HIDE DEF Inv
<1> QED
  BY <1>2, <1>3, SerialCommit

LEMMA SerialInserts ==
  ASSUME Inv, Serial,
         \/ \E a \in Apps : AddEvent(a)
         \/ \E x \in Todos, a \in Apps \cup {NoApp} : CreateTodo(x, a)
  PROVE  Serial'
<1> USE DEF Inv
<1>1. ASSUME NEW a \in Apps, AddEvent(a)
      PROVE  Serial'
  <2>1. /\ AtOnce /\ raced' = raced /\ requests' = requests + 1 /\ requests \in Nat
        /\ UNCHANGED <<app, todo, closed, reviewed, frozen>>
    BY <1>1, BoundsAreNumbers DEF AddEvent, AtOnce, plan, CallsInv
  <2>2. PICK s : /\ s.n = requests + 1 /\ s.kind = "added"
                 /\ event' = event \cup {s}
    BY <1>1 DEF AddEvent
  <2>3. ASSUME ~ raced
        PROVE  SerialRows'
    <3>1. Chain /\ EventsInOrder /\ Totals
      BY <2>3 DEF Serial, SerialRows
    <3>2. \A e \in event : e.n < s.n
      <4>1. \A e \in event : e.n \in Nat /\ e.n <= requests
        BY <3>1 DEF EventsInOrder, RowsInv
      <4> QED
        BY <2>1, <2>2, <4>1
    <3>3. "added" # "status_changed"
      OBVIOUS
    <3>4. \A d : StatusEvents(d)' = StatusEvents(d)
      BY <2>2, <3>3 DEF StatusEvents
    <3>5. Chain'
      BY <2>1, <3>1, <3>4, ChainQuiet DEF Tracked
    <3>6. Totals'
      BY <2>1, <3>1, TotalsQuiet DEF Listed
    <3>7. EventsInOrder'
      BY <2>1, <2>2, <3>1, <3>2, InOrderStays
    <3> QED
      BY <3>5, <3>6, <3>7 DEF SerialRows
  <2> HIDE DEF Inv
  <2> QED
    BY <2>1, <2>3, SerialAtOnce
<1>2. ASSUME NEW x \in Todos, NEW a \in Apps \cup {NoApp}, CreateTodo(x, a)
      PROVE  Serial'
  <2>1. /\ AtOnce /\ raced' = raced /\ requests' = requests + 1 /\ requests \in Nat
        /\ UNCHANGED <<app, event, closed, reviewed, frozen>>
        /\ todo[x] = NoRow /\ \A y \in Todos \ {x} : todo'[y] = todo[y]
    BY <1>2, BoundsAreNumbers DEF CreateTodo, AtOnce, plan, CallsInv, RowsInv
  <2>2. ASSUME ~ raced
        PROVE  SerialRows'
    <3>1. Chain /\ EventsInOrder /\ Totals
      BY <2>2 DEF Serial, SerialRows
    <3>2. \A y \in frozen : y \in Todos /\ y # x
      BY <2>1, <3>1 DEF Totals, PlanInv
    <3>3. Chain'
      BY <2>1, <3>1, ChainQuiet DEF Tracked, StatusEvents
    <3>4. Totals'
      BY <2>1, <3>1, <3>2, TotalsQuiet DEF Listed
    <3>5. EventsInOrder'
      BY <2>1, <3>1, InOrderLess
    <3> QED
      BY <3>3, <3>4, <3>5 DEF SerialRows
  <2> HIDE DEF Inv
  <2> QED
    BY <2>1, <2>2, SerialAtOnce
<1> QED
  BY <1>1, <1>2

LEMMA SerialStep ==
  ASSUME Inv, Serial, [Next]_vars
  PROVE  Serial'
BY SerialBegins, SerialRollback, SerialMidnight, SerialAppCommits, SerialTransition,
   SerialTodoCommits, SerialPlanCommits, SerialInserts DEF Next

LEMMA SerialInit ==
  ASSUME Init
  PROVE  Serial
<1>1. Tracked = {} /\ frozen = {} /\ event = {} /\ \A c \in Clients : req[c] = Idle
  BY DEF Init, Tracked
<1> QED
  BY <1>1 DEF Serial, SerialRows, Chain, EventsInOrder, Totals

\* A timeline entry that is not the last has a next one.
LEMMA HasNext ==
  ASSUME Inv, NEW a, NEW e \in StatusEvents(a),
         {f \in StatusEvents(a) : f.n > e.n} # {}
  PROVE  \E f \in StatusEvents(a) : f.n > e.n /\ \A g \in StatusEvents(a) : g.n > e.n => f.n <= g.n
<1> DEFINE later == {f \in StatusEvents(a) : f.n > e.n}
           Times == {f.n : f \in later}
           Less == {p \in Nat \X Nat : p[1] < p[2]}
<1>1. Times \subseteq Nat /\ Times # {}
  <2>1. \A f \in StatusEvents(a) : f.n \in Nat
    BY DEF Inv, RowsInv, StatusEvents
  <2> QED
    BY <2>1
<1>2. PICK m \in Times : \A k \in Times : <<k, m>> \notin Less
  <2>1. OpToRel(<, Nat) = Less
    BY Zenon DEF OpToRel
  <2> HIDE DEF Less, Times
  <2>2. IsWellFoundedOn(Less, Nat)
    BY <2>1, NatLessThanWellFounded, Zenon
  <2> QED
    BY <1>1, <2>2, WFMin, Zenon
<1>3. PICK f \in later : m = f.n
  BY <1>2
<1>4. ASSUME NEW g \in later
      PROVE  f.n <= g.n
  <2>1. g.n \in Nat /\ f.n \in Nat /\ ~ (g.n < f.n)
    BY <1>1, <1>2, <1>3
  <2> QED
    BY <2>1
<1> QED
  BY <1>4

\* As long as no request commits over what another committed since it read, a
\* timeline is a chain of status changes that ends in the application's status.
THEOREM TimelineIsChainHolds == Spec => []TimelineIsChain
<1>1. ASSUME Inv, Serial, ~ raced, NEW a \in Tracked, NEW e \in StatusEvents(a)
      PROVE  LET later == {f \in StatusEvents(a) : f.n > e.n} IN
             IF later = {} THEN app[a].status = e.to
             ELSE LET next == CHOOSE f \in later : \A g \in later : f.n <= g.n
                  IN  next.from = e.to
  <2> DEFINE later == {f \in StatusEvents(a) : f.n > e.n}
             next == CHOOSE f \in later : \A g \in later : f.n <= g.n
  <2>1. Chain /\ \A f \in StatusEvents(a) : f.n \in Nat
    BY <1>1 DEF Serial, SerialRows, Inv, RowsInv, StatusEvents
  <2>2. CASE later = {}
    <3>1. LastOn(a, e)
      <4>1. \A f \in StatusEvents(a) : ~ (f.n > e.n)
        BY <2>2
      <4> QED
        BY <2>1, <4>1 DEF LastOn
    <3> QED
      BY <2>1, <2>2, <3>1 DEF Chain
  <2>3. CASE later # {}
    <3>1. \E f \in later : \A g \in later : f.n <= g.n
      BY <1>1, <2>3, HasNext
    <3>2. next \in later /\ \A g \in later : next.n <= g.n
      BY <3>1
    <3>3. next \in StatusEvents(a) /\ Follows(a, e, next)
      BY <2>1, <3>2 DEF Follows
    <3>4. next.from = e.to
      BY <2>1, <3>3 DEF Chain
    <3> QED
      BY <2>3, <3>4
  <2> QED
    BY <2>2, <2>3
<1>2. Inv /\ Serial => TimelineIsChain
  BY <1>1 DEF TimelineIsChain
<1> QED
  BY <1>2, AlwaysInv, SerialInit, SerialStep, PTL DEF Spec

\* As long as no request does, what a stored total counted as done stays done.
THEOREM FrozenTotalsStandHolds == Spec => []FrozenTotalsStand
<1>1. Serial => FrozenTotalsStand
  BY DEF Serial, SerialRows, Totals, FrozenTotalsStand
<1> QED
  BY <1>1, AlwaysInv, SerialInit, SerialStep, PTL DEF Spec
=============================================================================
