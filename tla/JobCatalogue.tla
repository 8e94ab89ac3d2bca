----------------------------- MODULE JobCatalogue -----------------------------
(***************************************************************************)
(* The table of jobs, global to all workspaces, and everyone who writes    *)
(* it: imports by URL and by pasted text, the sync of company boards that  *)
(* a search begins with, the search's own candidates, the registration of  *)
(* boards it ends with, research that fills in a description, and users    *)
(* who archive.  Beside it the URLs known dead and the company boards.     *)
(*                                                                         *)
(* A handler is cut where it commits and where it waits for the network;   *)
(* requests, searches and research run beside each other, and a process    *)
(* may die between two commits.  The inside of a search is in SearchRun;   *)
(* what a page's answers amount to is in PageFetch.                        *)
(*                                                                         *)
(* An operator whose name ends in Mutant is the faulty variant of the one  *)
(* below it: with it in place, the property it stands against must fail.   *)
(***************************************************************************)
EXTENDS PageFetch

CONSTANTS
  Workspaces,
  Pages,        \* postings on the web: each has one company and title
  Params,       \* query parameters of a link
  Tracking,     \* those the strip list names
  Embedded,     \* Pages whose link carries a gh_jid
  Boards, NoBoard,
  BoardOf,      \* [Pages -> Boards \cup {NoBoard}]
  Pastes,       \* pasted descriptions
  Requests, Searches, Researches,
  Owner,        \* the workspace of each of these
  Nobody,
  MaxArchives,  \* bound: requests to archive
  MaxCrashes    \* bound: processes that die

VARIABLES
  jobs,      \* jobs: status, whose text jd_text is, discovered_run_id
  dead,      \* dead_urls
  taken,     \* pasted texts whose idempotency key is in tasks
  boards,    \* company_sources: status
  run,       \* the manual_import runs
  request,   \* what a request is at, what it is about, what it answered
  search, research,
  walled,    \* for a property: imports that stored the reader's text after a 403
  archives, crashes

tables == <<jobs, dead, taken, boards>>
past   == <<walled, archives, crashes>>
vars   == <<tables, run, request, search, research, past>>

ASSUME TrackingIsParams == Tracking \subseteq Params
ASSUME EmbeddedArePages == Embedded \subseteq Pages
ASSUME BoardOfIsBoard == BoardOf \in [Pages -> Boards \cup {NoBoard}] /\ NoBoard \notin Boards
ASSUME OwnerIsOwner == Owner \in [Requests \cup Searches \cup Researches -> Workspaces]
ASSUME ImportsAreApart == Requests \cap (Searches \cup Researches \cup {Nobody}) = {}
ASSUME BoundsAreNumbers == MaxArchives \in Nat /\ MaxCrashes \in Nat

-----------------------------------------------------------------------------
(* Addresses and rows *)

Links == [page : Pages, params : SUBSET Params]

\* normalize_job_url strips what it knows to be tracking and keeps the rest, so
\* two links of one posting may stay two jobs; it never merges two postings.
Canonical(link) == [link EXCEPT !.params = @ \ Tracking]
Urls == {Canonical(link) : link \in Links}

\* manual://<workspace>/<hash>
Manual(w, text) == [page |-> text, params |-> {w}]
Manuals == {Manual(w, text) : w \in Workspaces, text \in Pastes}

Known(j) == jobs[j].status # "none"
Row(jd, by) == [status |-> IF jd = "none" THEN "discovered" ELSE "reportable", jd |-> jd, by |-> by]

\* A row another run found belongs to that run's workspace.
Belongs(j, w) == Owner[jobs[j].by] = w

AnswersAbout(u) ==
  {a \in Answers : /\ a.embedded = (u.page \in Embedded)
                   /\ BoardOf[u.page] = NoBoard => a.board = "none"}
ImportEndings == [u \in Urls |-> UNION {Endings(a) : a \in AnswersAbout(u)}]
SearchEndings == [u \in Urls |-> UNION {Candidacies(a) : a \in AnswersAbout(u)}]

-----------------------------------------------------------------------------
(* Imports *)

Reply(r, answer) ==
  request' = [request EXCEPT ![r].step = "over", ![r].answer = answer, ![r].knew = {}]

\* Scheme, blocked domain, neither or both of link and text, text unusable.
Refuse(r) ==
  /\ request[r].step = "new"
  /\ Reply(r, "refused")
  /\ UNCHANGED <<tables, run, search, research, past>>

AnswerKnown(r, j) ==
  /\ request[r].step = "new" /\ Known(j)
  /\ Reply(r, IF Belongs(j, Owner[r]) THEN "existing" ELSE "conflict")
  /\ UNCHANGED <<tables, run, search, research, past>>

\* An import remembers whether its URL was on record as dead when it began.
Begin(r, step, j) ==
  request' = [request EXCEPT ![r].step = step, ![r].about = {j}, ![r].knew = dead \cap {j}]

\* Run and task are committed before anything is fetched.
BeginUrl(r, link) ==
  /\ request[r].step = "new" /\ ~ Known(Canonical(link))
  /\ run' = [run EXCEPT ![r] = "queued"]
  /\ Begin(r, "fetching", Canonical(link))
  /\ UNCHANGED <<tables, search, research, past>>

\* The key of a pasted import's task is unique in all the text's imports.
BeginPaste(r, text) ==
  LET j == Manual(Owner[r], text) IN
  /\ request[r].step = "new" /\ ~ Known(j)
  /\ IF j \in taken
     THEN Reply(r, "error") /\ UNCHANGED <<run, taken>>
     ELSE /\ run' = [run EXCEPT ![r] = "queued"]
          /\ taken' = taken \cup {j}
          /\ Begin(r, "extracting", j)
  /\ UNCHANGED <<jobs, dead, boards, search, research, past>>

\* Job, task and run are committed together.  If the row is there by now, the
\* unique constraint turns the answer into a 500 and the run stays queued.
CreateMutant(r, j, jd) ==
  /\ jobs' = IF Known(j) THEN jobs ELSE [jobs EXCEPT ![j] = Row(jd, r)]
  /\ run' = [run EXCEPT ![r] = "succeeded"]
  /\ Reply(r, "created")
Create(r, j, jd) ==
  IF Known(j)
  THEN Reply(r, "error") /\ UNCHANGED <<jobs, run>>
  ELSE /\ jobs' = [jobs EXCEPT ![j] = Row(jd, r)]
       /\ run' = [run EXCEPT ![r] = "succeeded"]
       /\ Reply(r, "created")

\* DeadUrlRepository.record looks the URL up and inserts it: an import that looks
\* before another writer commits the same URL conflicts with it, and its run stays
\* queued.  Here that writer has come already, since this import began.
RecordDead(r, u) ==
  \/ /\ dead' = dead \cup {u}
     /\ run' = [run EXCEPT ![r] = "succeeded"]
     /\ Reply(r, "gone") /\ jobs' = jobs
  \/ /\ u \in dead \ request[r].knew
     /\ Reply(r, "error") /\ UNCHANGED <<jobs, dead, run>>

FinishUrl(r, u) ==
  /\ request[r].step = "fetching" /\ u \in request[r].about
  /\ \E o \in ImportEndings[u] :
       /\ \/ o.end = "job" /\ Create(r, u, o.jd) /\ dead' = dead
          \/ o.end = "dead" /\ RecordDead(r, u)
          \/ /\ o.end = "refused"
             /\ run' = [run EXCEPT ![r] = "failed"]
             /\ Reply(r, "refused") /\ UNCHANGED <<jobs, dead>>
       /\ walled' = IF o.walled /\ ~ Known(u) THEN walled \cup {r} ELSE walled
  /\ UNCHANGED <<taken, boards, search, research, archives, crashes>>

FinishPaste(r, j) ==
  /\ request[r].step = "extracting" /\ j \in request[r].about
  /\ Create(r, j, "own")
  /\ UNCHANGED <<dead, taken, boards, search, research, past>>

Crash(r) ==
  /\ request[r].step \in {"fetching", "extracting"} /\ crashes < MaxCrashes
  /\ Reply(r, "lost")
  /\ crashes' = crashes + 1
  /\ UNCHANGED <<tables, run, search, research, walled, archives>>

-----------------------------------------------------------------------------
(* A search: sync of the boards, candidates, registration of boards *)

\* What a search holds when it is neither syncing nor registering.
Holding(step, new) ==
  [step |-> step, was |-> [b \in Boards |-> "none"], todo |-> {}, board |-> {}, listed |-> {}, new |-> new]

\* The statuses are read once, for all boards.
ListBoards(s) ==
  /\ search[s].step = "new"
  /\ search' = [search EXCEPT ![s].step = "syncing", ![s].was = boards,
                  ![s].todo = {b \in Boards : boards[b] \in {"verified", "active"}}]
  /\ UNCHANGED <<tables, run, request, research, past>>

SkipBoard(s, b) ==
  /\ search[s].step = "syncing" /\ b \in search[s].todo
  /\ search' = [search EXCEPT ![s].todo = @ \ {b}]
  /\ UNCHANGED <<tables, run, request, research, past>>

\* What the board's API can list: of the entries it returns, those with a link.
Listings(b) == SUBSET {u \in Urls : BoardOf[u.page] = b}

\* The board's answer, and which of its postings are no jobs yet.
FetchBoard(s, b, listed) ==
  /\ search[s].step = "syncing" /\ b \in search[s].todo
  /\ search' = [search EXCEPT ![s].step = "storing", ![s].board = {b}, ![s].listed = listed,
                  ![s].new = {u \in listed : ~ Known(u)}]
  /\ UNCHANGED <<tables, run, request, research, past>>

\* One row that another process stored meanwhile ends the whole sync.
CommitBoardMutant(s) ==
  /\ search[s].step = "storing"
  /\ \E jd \in [search[s].listed -> {"none", "own"}] :
       jobs' = [u \in DOMAIN jobs |-> IF u \in search[s].listed THEN Row(jd[u], s) ELSE jobs[u]]
  /\ search' = [search EXCEPT ![s].step = "marking"]
  /\ UNCHANGED <<dead, taken, boards, run, request, research, past>>
CommitBoard(s) ==
  /\ search[s].step = "storing"
  /\ IF \E u \in search[s].new : Known(u)
     THEN search' = [search EXCEPT ![s] = Holding("searching", {})] /\ jobs' = jobs
     ELSE /\ search' = [search EXCEPT ![s].step = "marking", ![s].new = {}]
          /\ \E jd \in [search[s].new -> {"none", "own"}] :
               jobs' = [u \in DOMAIN jobs |-> IF u \in search[s].new THEN Row(jd[u], s) ELSE jobs[u]]
  /\ UNCHANGED <<dead, taken, boards, run, request, research, past>>

\* A second commit; a board that lists nothing keeps the status it had.
MarkBoardMutant(s) ==
  /\ search[s].step = "marking"
  /\ boards' = [b \in Boards |-> IF b \in search[s].board THEN "active" ELSE boards[b]]
  /\ search' = [search EXCEPT ![s].step = "syncing", ![s].todo = @ \ search[s].board,
                  ![s].board = {}, ![s].listed = {}]
  /\ UNCHANGED <<jobs, dead, taken, run, request, research, past>>
MarkBoard(s) ==
  /\ search[s].step = "marking"
  /\ boards' = [b \in Boards |->
                  IF b \notin search[s].board THEN boards[b]
                  ELSE IF search[s].listed = {} THEN search[s].was[b] ELSE "active"]
  /\ search' = [search EXCEPT ![s].step = "syncing", ![s].todo = @ \ search[s].board,
                  ![s].board = {}, ![s].listed = {}]
  /\ UNCHANGED <<jobs, dead, taken, run, request, research, past>>

EndSync(s) ==
  /\ search[s].step = "syncing" /\ search[s].todo = {}
  /\ search' = [search EXCEPT ![s] = Holding("searching", {})]
  /\ UNCHANGED <<tables, run, request, research, past>>

\* The candidates pass the gate or not; known jobs and known dead URLs stay.
StoreCandidate(s, u) ==
  /\ search[s].step = "searching"
  /\ search' = [search EXCEPT ![s] =
                  Holding("registering", IF u \in dead /\ ~ Known(u) THEN {} ELSE {u})]
  /\ \E o \in SearchEndings[u] :
       /\ jobs' = IF Known(u) \/ u \in dead \/ o.end = "dead" THEN jobs
                  ELSE [jobs EXCEPT ![u] = Row(o.jd, s)]
       /\ dead' = IF ~ Known(u) /\ o.end = "dead" THEN dead \cup {u} ELSE dead
  /\ UNCHANGED <<taken, boards, run, request, research, past>>

\* The agent's word for a source decides whether a job counts as a board's:
\* normalize_source_type knows some words, and takes any other as it stands.
Attributions(found) == SUBSET found

\* Boards of the run's jobs that are not registered are probed ...
ProbeBoards(s) ==
  /\ search[s].step = "registering"
  /\ \E attributed \in Attributions(search[s].new) :
       search' = [search EXCEPT ![s].step = "probed",
                    ![s].board = {b \in Boards : /\ boards[b] = "none"
                                                 /\ \E u \in attributed : Known(u) /\ BoardOf[u.page] = b}]
  /\ UNCHANGED <<tables, run, request, research, past>>

\* ... and inserted together: one that was registered meanwhile undoes them all.
RegisterBoards(s) ==
  /\ search[s].step = "probed"
  /\ search' = [search EXCEPT ![s] = Holding("over", {})]
  /\ IF \E b \in search[s].board : boards[b] # "none" THEN boards' = boards
     ELSE \E status \in [search[s].board -> {"discovered", "verified"}] :
            boards' = [b \in Boards |-> IF b \in search[s].board THEN status[b] ELSE boards[b]]
  /\ UNCHANGED <<jobs, dead, taken, run, request, research, past>>

\* The worker dies, or the search ends without candidates.
EndSearch(s) ==
  /\ search[s].step \notin {"new", "over"}
  /\ search[s].step = "searching" \/ crashes < MaxCrashes
  /\ search' = [search EXCEPT ![s] = Holding("over", {})]
  /\ crashes' = IF search[s].step = "searching" THEN crashes ELSE crashes + 1
  /\ UNCHANGED <<tables, run, request, research, walled, archives>>

-----------------------------------------------------------------------------
(* Research, and the user *)

BeginResearch(x, j) ==
  /\ research[x] = "new" /\ Known(j)
  /\ research' = [research EXCEPT ![x] = "agent"]
  /\ UNCHANGED <<tables, run, request, search, past>>

\* Agent failed, manifest missing, gate failed; or no usable text in it.
EndResearch(x) ==
  /\ research[x] = "agent"
  /\ \E outcome \in {"needs_review", "succeeded"} : research' = [research EXCEPT ![x] = outcome]
  /\ UNCHANGED <<tables, run, request, search, past>>

\* Another job with the company and title of this one.
HasCollision(j) == \E i \in DOMAIN jobs : i # j /\ Known(i) /\ i.page = j.page

\* The job is the one the agent's manifest names: no validator compares it with
\* the job that was asked for.
Backfill(x, j, jd) ==
  /\ research[x] = "agent"
  /\ IF ~ Known(j)
     THEN research' = [research EXCEPT ![x] = "failed"] /\ jobs' = jobs
     ELSE /\ research' = [research EXCEPT ![x] = "succeeded"]
          /\ jobs' = [jobs EXCEPT ![j].jd = jd,
                                  ![j].status = IF HasCollision(j) THEN @ ELSE "reportable"]
  /\ UNCHANGED <<dead, taken, boards, run, request, search, past>>

\* Of the jobs named, those of the workspace; one, or a batch.
Archive(w, chosen) ==
  /\ archives < MaxArchives /\ chosen # {} /\ \A j \in chosen : Known(j)
  /\ archives' = archives + 1
  /\ jobs' = [j \in DOMAIN jobs |-> IF j \in chosen /\ Belongs(j, w)
                                    THEN [jobs[j] EXCEPT !.status = "archived"] ELSE jobs[j]]
  /\ UNCHANGED <<dead, taken, boards, run, request, search, research, walled, crashes>>

\* The script that imports configs/company_boards.yaml, by the entry's status.
MigrateBoard(b) ==
  /\ boards[b] = "none"
  /\ \E status \in {"verified", "discovered", "blocked"} : boards' = [boards EXCEPT ![b] = status]
  /\ UNCHANGED <<jobs, dead, taken, run, request, search, research, past>>

-----------------------------------------------------------------------------
(* The system *)

Init ==
  /\ jobs = [j \in Urls \cup Manuals |-> [status |-> "none", jd |-> "none", by |-> Nobody]]
  /\ dead = {} /\ taken = {}
  /\ boards = [b \in Boards |-> "none"]
  /\ run = [r \in Requests |-> "none"]
  /\ request = [r \in Requests |-> [step |-> "new", about |-> {}, answer |-> "none", knew |-> {}]]
  /\ search = [s \in Searches |-> Holding("new", {})]
  /\ research = [x \in Researches |-> "new"]
  /\ walled = {} /\ archives = 0 /\ crashes = 0

Import(r) ==
  \/ Refuse(r)
  \/ \E u \in Urls : AnswerKnown(r, u)
  \/ \E text \in Pastes : AnswerKnown(r, Manual(Owner[r], text))
  \/ \E link \in Links : BeginUrl(r, link)
  \/ \E text \in Pastes : BeginPaste(r, text)
  \/ \E u \in Urls : FinishUrl(r, u)
  \/ \E j \in Manuals : FinishPaste(r, j)
  \/ Crash(r)

Search(s) ==
  \/ ListBoards(s) \/ EndSync(s)
  \/ \E b \in Boards : SkipBoard(s, b) \/ \E listed \in Listings(b) : FetchBoard(s, b, listed)
  \/ CommitBoard(s) \/ MarkBoard(s)
  \/ \E u \in Urls : StoreCandidate(s, u)
  \/ ProbeBoards(s) \/ RegisterBoards(s) \/ EndSearch(s)

Research(x) ==
  \/ EndResearch(x)
  \/ \E j \in Urls \cup Manuals :
       BeginResearch(x, j) \/ \E jd \in {"own", "mirror"} : Backfill(x, j, jd)

Next ==
  \/ \E r \in Requests : Import(r)
  \/ \E s \in Searches : Search(s)
  \/ \E x \in Researches : Research(x)
  \/ \E w \in Workspaces, chosen \in SUBSET {j \in DOMAIN jobs : Known(j)} : Archive(w, chosen)
  \/ \E b \in Boards : MigrateBoard(b)

Spec == Init /\ [][Next]_vars

-----------------------------------------------------------------------------
(* Properties *)

\* However imports, syncs, searches and deaths interleave, an import's run tells
\* what came of it: it succeeded exactly when its own row or the record of a dead
\* URL is stored, and only then was the user told so.
RunTellsImport ==
  \A r \in Requests :
    /\ run[r] = "succeeded" <=> request[r].answer \in {"created", "gone"}
    /\ \A j \in request[r].about :
         /\ request[r].answer = "created" <=> jobs[j].by = r
         /\ request[r].answer = "gone" => j \in dead

\* Nothing that discovers a posting touches the row it finds: a stored job keeps
\* its finder, so its workspace, and only research replaces its description.
StoredJobsKeep ==
  [][\A j \in DOMAIN jobs : Known(j) =>
       /\ jobs'[j].by = jobs[j].by
       /\ jobs'[j].jd # jobs[j].jd => research' # research]_vars

\* A board is marked active only when postings of it are stored: the commit of
\* the jobs comes first, and a worker that dies between the two, or a sync that
\* is undone, leaves no board that claims a sync it did not have.
ActiveBoardIsIngested ==
  \A b \in Boards : boards[b] = "active" => \E u \in Urls : BoardOf[u.page] = b /\ Known(u)

\* The prose around an embed is stored as the posting for one reason only: the
\* site answered 403, and fetch_jd_from_url takes what the Jina reader makes of
\* the page before it comes to the tiers for embeds.  An import that could load
\* the page itself never stores its prose, through no channel: it has the posting
\* from its board or its schema.org record, or refuses.
EmbeddedProseIsWalled ==
  \A u \in Urls : \A r \in Requests :
    u.page \in Embedded /\ jobs[u].by = r /\ jobs[u].jd = "prose" => r \in walled

=============================================================================
