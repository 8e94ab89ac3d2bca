-------------------------- MODULE JobCatalogueProofs --------------------------
(***************************************************************************)
(* The properties of the table of jobs for any number of postings, boards, *)
(* imports, searches and deaths.                                           *)
(*                                                                         *)
(* What a step may do to the table is the same for everyone (GrowsBy): it  *)
(* fills rows nobody filled, in its own name.  From this, one account for  *)
(* each import (ImportAsTold) and for each search (SyncAsStored) follows   *)
(* the rows through whatever the others do meanwhile.  The tiers of        *)
(* PageFetch are decided by ProseOfEmbedIsWalled: for a posting behind an  *)
(* embed a tier before the page's own text always applies, and of those    *)
(* only the reader of a page that answered 403 can give prose.             *)
(***************************************************************************)
EXTENDS JobCatalogue, TLAPS

Descriptions == {"none", "own", "prose", "mirror"}
Postings     == Urls \cup Manuals
Writers      == Requests \cup Searches \cup {Nobody}
Phases       == {"new", "agent", "needs_review", "succeeded", "failed"}
Standings    == {"none", "discovered", "verified", "active", "blocked"}

\* What an import and a search can be at.
Files ==
  [step : {"new", "fetching", "extracting", "over"}, about : SUBSET Postings,
   answer : {"none", "refused", "existing", "conflict", "error", "created", "gone", "lost"},
   knew : SUBSET Postings]
Sightings ==
  [step : {"new", "syncing", "storing", "marking", "searching", "registering", "probed", "over"},
   was : [Boards -> Standings], todo : SUBSET Boards, board : SUBSET Boards,
   listed : SUBSET Urls, new : SUBSET Urls]

-----------------------------------------------------------------------------
(* The tiers *)

\* A tier that applies exists, and the first one is the least.
LEMMA LeastIsLeast ==
  ASSUME NEW S \in SUBSET (1 .. 11), NEW n \in S
  PROVE  Min(S) \in S /\ Min(S) <= n
<1>1. ASSUME \A m \in S : \E k \in S : ~ m <= k
      PROVE  FALSE
  <2>1. \A k \in 1 .. 3 : k \notin S
    BY <1>1
  <2>2. \A k \in 4 .. 6 : k \notin S
    BY <1>1, <2>1
  <2>3. \A k \in 7 .. 9 : k \notin S
    BY <1>1, <2>1, <2>2
  <2> QED BY <1>1, <2>1, <2>2, <2>3
<1> QED BY <1>1 DEF Min

\* A text that passes the checks is the posting or prose.
LEMMA UsableIsClean ==
  ASSUME NEW text \in Texts, Usable(text)
  PROVE  text \in {"posting", "prose"}
  BY DEF Usable, Validate, Texts

\* What the tiers give when they apply; of the first eight, only the second can
\* give prose.
LEMMA TiersGive ==
  ASSUME NEW a \in Answers, NEW i \in 1 .. 11, Tiers(a)[i].when
  PROVE  LET found == Tiers(a)[i].gives IN
         /\ found.text \in {"none", "posting", "prose"}
         /\ i <= 8 /\ found.text = "prose" => a.site = "forbidden" /\ found.channel = "reader"
<1>1. a.text \in Texts /\ a.rendered \in Texts
  BY DEF Answers
<1>2. CASE i \in {1, 6, 7}
  <2>1. Tiers(a)[i].gives = Found("posting", "record")
    BY <1>2 DEF Tiers, ByBoard, ByEmbed, ByJsonLd
  <2> QED BY <2>1 DEF Found
<1>3. CASE i \in {2, 10}
  <2>0. ASSUME NEW guard, Provided(guard, Rendered(a)).when
        PROVE  guard /\ Usable(a.rendered)
    BY <2>0 DEF Provided, Rendered
  <2>1. /\ Tiers(a)[i].gives = Found(a.rendered, "reader") /\ Usable(a.rendered)
        /\ i = 2 => a.site = "forbidden"
    <3>1. CASE i = 2
      <4>1. Tiers(a)[2] = Provided(a.site = "forbidden", Rendered(a))
        BY DEF Tiers
      <4>2. Usable(a.rendered) /\ a.site = "forbidden"
        BY <2>0, <3>1, <4>1
      <4>3. Tiers(a)[2].gives = Found(a.rendered, "reader")
        BY <4>1 DEF Provided, Rendered
      <4> QED BY <3>1, <4>2, <4>3
    <3>2. CASE i = 10
      <4>1. Tiers(a)[10] = Provided(Validate(a.text) = "too_short", Rendered(a))
        BY DEF Tiers
      <4>2. Usable(a.rendered)
        BY <2>0, <3>2, <4>1
      <4>3. Tiers(a)[10].gives = Found(a.rendered, "reader")
        BY <4>1 DEF Provided, Rendered
      <4> QED BY <3>2, <4>2, <4>3
    <3> QED BY <1>3, <3>1, <3>2
  <2>2. a.rendered \in {"posting", "prose"}
    BY <1>1, <2>1, UsableIsClean
  <2> QED BY <1>3, <2>1, <2>2 DEF Found
<1>4. CASE i \in {3, 4, 5, 8, 11}
  <2>1. \E status : Tiers(a)[i].gives = Failed(status)
    BY <1>4 DEF Tiers, Gone, EmbedLost, Otherwise
  <2> QED BY <2>1 DEF Failed
<1>5. CASE i = 9
  <2>1. Tiers(a)[i].gives = Found(a.text, "page") /\ Usable(a.text)
    BY <1>5 DEF Tiers, Scraped
  <2>2. a.text \in {"posting", "prose"}
    BY <1>1, <2>1, UsableIsClean
  <2> QED BY <1>5, <2>1, <2>2 DEF Found
<1>6. i \in {1, 6, 7} \/ i \in {2, 10} \/ i \in {3, 4, 5, 8, 11} \/ i = 9
  OBVIOUS
<1> QED BY <1>2, <1>3, <1>4, <1>5, <1>6

\* Whatever the network answers, some tier decides, and for a posting embedded
\* in a page one before the page's own text.
LEMMA ProseOfEmbedIsWalled ==
  ASSUME NEW a \in Answers
  PROVE  LET found == FetchJdFromUrl(a) IN
         /\ found.text \in {"none", "posting", "prose"}
         /\ a.embedded /\ found.text = "prose" => a.site = "forbidden" /\ found.channel = "reader"
<1> DEFINE S == {i \in DOMAIN Tiers(a) : Tiers(a)[i].when}
<1>1. DOMAIN Tiers(a) = 1 .. 11
  BY DEF Tiers
<1>2. Tiers(a)[11].when /\ (a.embedded => Tiers(a)[8].when)
  BY DEF Tiers, Otherwise, EmbedLost
<1>3. S \in SUBSET (1 .. 11) /\ 11 \in S /\ (a.embedded => 8 \in S)
  BY <1>1, <1>2
<1>4. Min(S) \in S /\ (a.embedded => Min(S) <= 8)
  <2> HIDE DEF S
  <2> QED BY <1>3, LeastIsLeast
<1>5. Min(S) \in 1 .. 11 /\ Tiers(a)[Min(S)].when
  BY <1>3, <1>4
<1>6. FetchJdFromUrl(a) = Tiers(a)[Min(S)].gives
  BY DEF FetchJdFromUrl
<1> HIDE DEF S
<1> QED BY <1>4, <1>5, <1>6, TiersGive

\* What an import may store as the text of a posting behind an embed.
LEMMA ImportEndingsAreRead ==
  ASSUME NEW u \in Urls, NEW o \in ImportEndings[u]
  PROVE  /\ o.end = "job" => o.jd \in Descriptions
         /\ u.page \in Embedded /\ o.jd = "prose" => o.walled
<1>1. PICK a \in AnswersAbout(u) : o \in Endings(a)
  BY DEF ImportEndings
<1>2. a \in Answers /\ a.embedded = (u.page \in Embedded)
  BY DEF AnswersAbout
<1> DEFINE f == FetchJdFromUrl(a)
           w == a.site = "forbidden" /\ f.channel = "reader"
<1>3. f.text \in {"none", "posting", "prose"} /\ (a.embedded /\ f.text = "prose" => w)
  BY <1>2, ProseOfEmbedIsWalled
<1>4. Whose(f) \in Descriptions /\ (Whose(f) = "prose" => f.text = "prose")
  BY <1>3 DEF Whose, Descriptions
<1>5. o \in {[end |-> "dead", jd |-> "none", walled |-> FALSE],
             [end |-> "job", jd |-> Whose(f), walled |-> w],
             [end |-> "refused", jd |-> "none", walled |-> FALSE]}
  BY <1>1 DEF Endings
<1>6. /\ o.end = "job" => o.jd = Whose(f)
      /\ o.jd = "none" \/ (o.jd = Whose(f) /\ o.walled = w)
  <2> HIDE DEF f, w
  <2> QED BY <1>5
<1> HIDE DEF f, w
<1> QED BY <1>2, <1>3, <1>4, <1>6

LEMMA SearchEndingsAreRead ==
  ASSUME NEW u \in Urls, NEW o \in SearchEndings[u]
  PROVE  o.end = "job" => o.jd \in Descriptions
<1>1. PICK a \in AnswersAbout(u) : o \in Candidacies(a)
  BY DEF SearchEndings
<1>2. a \in Answers
  BY <1>1 DEF AnswersAbout
<1>3. PICK saved \in Texts :
        o = IF ResolveJd(a, saved).status = "doa" THEN [end |-> "dead", jd |-> "none"]
            ELSE [end |-> "job", jd |-> Whose(ResolveJd(a, saved))]
  <2>1. PICK f \in {ResolveJd(a, saved) : saved \in Texts} :
          o = IF f.status = "doa" THEN [end |-> "dead", jd |-> "none"]
              ELSE [end |-> "job", jd |-> Whose(f)]
    BY <1>1, Zenon DEF Candidacies
  <2>2. PICK saved \in Texts : f = ResolveJd(a, saved)
    BY <2>1
  <2> QED BY <2>1, <2>2
<1>4. ResolveJd(a, saved).text \in {"none", "posting", "prose"}
  <2>1. CASE Usable(saved)
    BY <2>1, UsableIsClean DEF ResolveJd, Found
  <2>2. CASE ~ Usable(saved)
    BY <2>2, <1>2, ProseOfEmbedIsWalled DEF ResolveJd
  <2> QED BY <2>1, <2>2
<1>5. Whose(ResolveJd(a, saved)) \in Descriptions
  BY <1>4 DEF Whose, Descriptions
<1> QED BY <1>3, <1>5

-----------------------------------------------------------------------------
(* The table of jobs *)

JobTable ==
  [Postings -> [status : {"none", "discovered", "reportable", "archived"}, jd : Descriptions, by : Writers]]

\* What a step of a writer in S may do to the table: fill rows that nobody
\* filled, in its own name, and take no row from its finder.
GrowsBy(S) ==
  /\ jobs' \in JobTable
  /\ \A j \in Postings :
       /\ Known(j) => Known(j)' /\ jobs'[j].by = jobs[j].by
       /\ ~ Known(j) => jobs'[j] = jobs[j] \/ (Known(j)' /\ jobs'[j].by \in S)
       /\ jobs'[j].jd = "prose" => jobs[j].jd = "prose" \/ jobs'[j].by \in S
       /\ Known(j) => jobs'[j].jd = jobs[j].jd \/ research' # research

LEMMA StoringGrows ==
  ASSUME jobs \in JobTable, NEW w \in Writers, NEW j \in Postings, ~ Known(j),
         NEW jd \in Descriptions, jobs' = [jobs EXCEPT ![j] = Row(jd, w)]
  PROVE  GrowsBy({w})
<1>1. /\ Row(jd, w) \in [status : {"none", "discovered", "reportable", "archived"}, jd : Descriptions, by : Writers]
      /\ Row(jd, w).status # "none" /\ Row(jd, w).by = w
  BY DEF Row
<1> QED BY <1>1 DEF GrowsBy, JobTable, Known

LEMMA StandingGrows ==
  ASSUME jobs \in JobTable, jobs' = jobs, NEW S
  PROVE  GrowsBy(S)
  BY DEF GrowsBy, JobTable, Known

LEMMA ImportGrows ==
  ASSUME jobs \in JobTable, request \in [Requests -> Files], NEW r \in Requests, Import(r)
  PROVE  GrowsBy({r})
<1> r \in Writers
  BY DEF Writers
<1>1. CASE jobs' = jobs
  BY <1>1, StandingGrows
<1>2. ASSUME NEW u \in Urls, FinishUrl(r, u), jobs' # jobs
      PROVE  GrowsBy({r})
  <2>1. PICK o \in ImportEndings[u] : o.end = "job" /\ Create(r, u, o.jd)
    BY <1>2 DEF FinishUrl, RecordDead
  <2>2. o.jd \in Descriptions
    BY <2>1, ImportEndingsAreRead
  <2>3. ~ Known(u) /\ jobs' = [jobs EXCEPT ![u] = Row(o.jd, r)]
    BY <1>2, <2>1 DEF Create
  <2> QED BY <2>2, <2>3, StoringGrows DEF Postings
<1>3. ASSUME NEW j \in Manuals, FinishPaste(r, j), jobs' # jobs
      PROVE  GrowsBy({r})
  <2>1. ~ Known(j) /\ jobs' = [jobs EXCEPT ![j] = Row("own", r)]
    BY <1>3 DEF FinishPaste, Create
  <2>2. "own" \in Descriptions /\ j \in Postings
    BY DEF Descriptions, Postings
  <2> QED BY <2>1, <2>2, StoringGrows
<1> QED
  BY <1>1, <1>2, <1>3
     DEF Import, Refuse, AnswerKnown, BeginUrl, BeginPaste, Crash, tables

LEMMA SearchGrows ==
  ASSUME jobs \in JobTable, search \in [Searches -> Sightings], NEW s \in Searches, Search(s)
  PROVE  GrowsBy({s})
<1> s \in Writers
  BY DEF Writers
<1>1. CASE jobs' = jobs
  BY <1>1, StandingGrows
<1>2. ASSUME NEW u \in Urls, StoreCandidate(s, u), jobs' # jobs
      PROVE  GrowsBy({s})
  <2>1. PICK o \in SearchEndings[u] :
          jobs' = IF Known(u) \/ u \in dead \/ o.end = "dead" THEN jobs
                  ELSE [jobs EXCEPT ![u] = Row(o.jd, s)]
    BY <1>2 DEF StoreCandidate
  <2>2. o.end = "dead" \/ o.end = "job"
    BY DEF SearchEndings, Candidacies
  <2>3. o.jd \in Descriptions /\ ~ Known(u) /\ jobs' = [jobs EXCEPT ![u] = Row(o.jd, s)]
    BY <1>2, <2>1, <2>2, SearchEndingsAreRead
  <2> QED BY <2>3, StoringGrows DEF Postings
<1>3. ASSUME CommitBoard(s), jobs' # jobs
      PROVE  GrowsBy({s})
  <2> DEFINE new == search[s].new
  <2>1. PICK jd \in [new -> {"none", "own"}] :
          jobs' = [u \in DOMAIN jobs |-> IF u \in new THEN Row(jd[u], s) ELSE jobs[u]]
    BY <1>3 DEF CommitBoard
  <2>2. \A u \in new : ~ Known(u)
    BY <1>3 DEF CommitBoard
  <2>3. \A u \in new :
          /\ Row(jd[u], s) \in [status : {"none", "discovered", "reportable", "archived"},
                                 jd : Descriptions, by : Writers]
          /\ Row(jd[u], s).status # "none" /\ Row(jd[u], s).by = s
    <3>1. ASSUME NEW d \in {"none", "own"}
          PROVE  /\ Row(d, s) \in [status : {"none", "discovered", "reportable", "archived"},
                                    jd : Descriptions, by : Writers]
                 /\ Row(d, s).status # "none" /\ Row(d, s).by = s
      <4>1. d \in Descriptions
        BY DEF Descriptions
      <4> QED BY <4>1 DEF Row
    <3>2. \A u \in new : jd[u] \in {"none", "own"}
      BY <2>1
    <3> HIDE DEF new
    <3> QED BY <3>1, <3>2
  <2> HIDE DEF new
  <2> QED BY <2>1, <2>2, <2>3 DEF GrowsBy, JobTable, Known
<1> QED
  BY <1>1, <1>2, <1>3
     DEF Search, ListBoards, EndSync, SkipBoard, FetchBoard, CommitBoard, MarkBoard, ProbeBoards,
         RegisterBoards, EndSearch, tables

LEMMA ResearchGrows ==
  ASSUME jobs \in JobTable, research \in [Researches -> Phases], NEW x \in Researches, Research(x)
  PROVE  GrowsBy({})
<1>1. CASE jobs' = jobs
  BY <1>1, StandingGrows
<1>2. ASSUME NEW j \in Postings, NEW jd \in {"own", "mirror"}, Backfill(x, j, jd), jobs' # jobs
      PROVE  GrowsBy({})
  <2>1. PICK status \in {jobs[j].status, "reportable"} :
          jobs' = [jobs EXCEPT ![j].jd = jd, ![j].status = status]
    BY <1>2 DEF Backfill
  <2>2. Known(j) /\ research[x] = "agent" /\ research' = [research EXCEPT ![x] = "succeeded"]
    BY <1>2 DEF Backfill
  <2>3. research' # research
    BY <2>2
  <2>4. status \in {"discovered", "reportable", "archived"} /\ jd \in Descriptions /\ jd # "prose"
    BY <2>1, <2>2 DEF Known, JobTable, Descriptions
  <2>5. /\ jobs' = [jobs EXCEPT ![j] = jobs'[j]]
        /\ jobs'[j] = [jobs[j] EXCEPT !.jd = jd, !.status = status]
    BY <2>1 DEF JobTable
  <2>6. /\ jobs'[j] \in [status : {"none", "discovered", "reportable", "archived"}, jd : Descriptions, by : Writers]
        /\ jobs'[j].by = jobs[j].by /\ jobs'[j].jd = jd /\ jobs'[j].status = status
    <3>1. jobs[j] \in [status : {"none", "discovered", "reportable", "archived"}, jd : Descriptions, by : Writers]
      BY DEF JobTable
    <3> HIDE DEF Descriptions
    <3> QED BY <2>4, <2>5, <3>1
  <2> QED BY <2>2, <2>3, <2>4, <2>5, <2>6 DEF GrowsBy, JobTable, Known
<1> QED
  BY <1>1, <1>2 DEF Research, BeginResearch, EndResearch, tables, Postings

LEMMA ArchiveGrows ==
  ASSUME jobs \in JobTable, NEW w \in Workspaces, NEW chosen, Archive(w, chosen)
  PROVE  GrowsBy({})
<1>1. \A j \in Postings : j \in chosen => Known(j)
  BY DEF Archive
<1>2. jobs' = [j \in DOMAIN jobs |-> IF j \in chosen /\ Belongs(j, w)
                                    THEN [jobs[j] EXCEPT !.status = "archived"] ELSE jobs[j]]
  BY DEF Archive
<1>3. \A j \in Postings :
        /\ [jobs[j] EXCEPT !.status = "archived"]
              \in [status : {"none", "discovered", "reportable", "archived"}, jd : Descriptions, by : Writers]
        /\ [jobs[j] EXCEPT !.status = "archived"].by = jobs[j].by
        /\ [jobs[j] EXCEPT !.status = "archived"].jd = jobs[j].jd
        /\ [jobs[j] EXCEPT !.status = "archived"].status = "archived"
  BY DEF JobTable
<1> QED BY <1>1, <1>2, <1>3 DEF GrowsBy, JobTable, Known

-----------------------------------------------------------------------------
(* The invariant *)

Shapes ==
  /\ jobs \in JobTable
  /\ request \in [Requests -> Files]
  /\ run \in [Requests -> {"none", "queued", "succeeded", "failed"}]
  /\ search \in [Searches -> Sightings]
  /\ research \in [Researches -> Phases]
  /\ boards \in [Boards -> Standings]

UnknownIsNobodys == \A j \in Postings : Known(j) \/ jobs[j].by = Nobody

\* An import in flight has one posting in mind and has stored nothing; only one
\* that was told "created" has a row.
ImportAsTold(r) ==
  /\ request[r].step = "new" => request[r].about = {} /\ request[r].answer = "none" /\ run[r] = "none"
  /\ request[r].step \in {"fetching", "extracting"} =>
       /\ request[r].answer = "none" /\ run[r] = "queued"
       /\ \A i, j \in request[r].about : i = j
  /\ run[r] = "succeeded" <=> request[r].answer \in {"created", "gone"}
  /\ request[r].answer = "created" => \A j \in request[r].about : jobs[j].by = r
  /\ request[r].answer = "gone" => request[r].about \subseteq dead
  /\ request[r].answer # "created" => \A j \in Postings : jobs[j].by # r

Ingested(b) == \E u \in Urls : BoardOf[u.page] = b /\ Known(u)

\* A search remembers only boards that are ingested as active, and what it is
\* about to mark has been stored.
SyncAsStored(s) ==
  /\ \A b \in Boards : search[s].was[b] = "active" => Ingested(b)
  /\ search[s].step \in {"storing", "marking"} =>
       \A u \in search[s].listed : /\ \A b \in search[s].board : BoardOf[u.page] = b
                                   /\ Known(u) \/ (search[s].step = "storing" /\ u \in search[s].new)

Inv ==
  /\ Shapes
  /\ UnknownIsNobodys
  /\ \A r \in Requests : ImportAsTold(r)
  /\ \A s \in Searches : SyncAsStored(s)
  /\ ActiveBoardIsIngested
  /\ EmbeddedProseIsWalled

LEMMA ActiveMeansIngested == ActiveBoardIsIngested <=> \A b \in Boards : boards[b] = "active" => Ingested(b)
  BY DEF ActiveBoardIsIngested, Ingested

\* Rows of somebody else leave an import's account as it is.
LEMMA OthersLeaveImports ==
  ASSUME Shapes, UnknownIsNobodys, NEW r \in Requests, ImportAsTold(r),
         NEW S, r \notin S, GrowsBy(S), dead \subseteq dead',
         request'[r] = request[r], run'[r] = run[r]
  PROVE  ImportAsTold(r)'
<1>1. r # Nobody
  BY ImportsAreApart
<1>2. \A j \in Postings : jobs'[j].by = r <=> jobs[j].by = r
  BY <1>1 DEF GrowsBy, UnknownIsNobodys
<1>3. request[r].about \subseteq Postings
  BY DEF Shapes, Files
<1> QED BY <1>2, <1>3 DEF ImportAsTold

LEMMA GrowthKeepsRows ==
  ASSUME UnknownIsNobodys, NEW S, GrowsBy(S)
  PROVE  UnknownIsNobodys' /\ \A b : Ingested(b) => Ingested(b)'
<1>1. UnknownIsNobodys'
  BY DEF UnknownIsNobodys, GrowsBy
<1>2. \A b : Ingested(b) => Ingested(b)'
  BY DEF Ingested, GrowsBy, Postings
<1> QED BY <1>1, <1>2

LEMMA GrowthKeepsProse ==
  ASSUME EmbeddedProseIsWalled, NEW S, S \cap Requests = {}, GrowsBy(S), walled' = walled
  PROVE  EmbeddedProseIsWalled'
<1> SUFFICES ASSUME NEW u \in Urls, NEW r \in Requests,
                    u.page \in Embedded, jobs'[u].by = r, jobs'[u].jd = "prose"
             PROVE  r \in walled
  BY DEF EmbeddedProseIsWalled
<1>1. u \in Postings
  BY DEF Postings
<1>2. jobs[u].jd = "prose" /\ jobs'[u].by \notin S
  BY <1>1 DEF GrowsBy
<1>3. jobs'[u].by = jobs[u].by
  BY <1>1, <1>2 DEF GrowsBy
<1> QED BY <1>2, <1>3 DEF EmbeddedProseIsWalled

LEMMA GrowthKeepsSyncs ==
  ASSUME Shapes, NEW s \in Searches, SyncAsStored(s), NEW S, GrowsBy(S), UnknownIsNobodys,
         search'[s] = search[s]
  PROVE  SyncAsStored(s)'
<1>1. \A u \in search[s].listed : u \in Postings
  BY DEF Shapes, Sightings, Postings
<1>2. \A u \in search[s].listed : Known(u) => Known(u)'
  BY <1>1 DEF GrowsBy
<1> QED BY <1>2, GrowthKeepsRows DEF SyncAsStored

-----------------------------------------------------------------------------
(* The steps *)

\* The states an import can leave itself in: refused or told of a row, begun,
\* finished with a row or without, or dead.
LEMMA ImportKeepsAccount ==
  ASSUME Inv, NEW r \in Requests, Import(r)
  PROVE  ImportAsTold(r)' /\ request'[r] \in Files /\ run'[r] \in {"none", "queued", "succeeded", "failed"}
<1> USE DEF Inv
<1>1. /\ request[r] \in Files /\ request \in [Requests -> Files]
      /\ run \in [Requests -> {"none", "queued", "succeeded", "failed"}] /\ ImportAsTold(r)
  BY DEF Shapes
<1>2. ASSUME NEW answer \in {"refused", "existing", "conflict", "error"},
             request[r].step = "new", Reply(r, answer), UNCHANGED <<jobs, dead, run>>
      PROVE  ImportAsTold(r)' /\ request'[r] \in Files /\ run'[r] \in {"none", "queued", "succeeded", "failed"}
  <2>1. request'[r] = [request[r] EXCEPT !.step = "over", !.answer = answer, !.knew = {}]
    BY <1>1, <1>2 DEF Reply
  <2>2. /\ request'[r].step = "over" /\ request'[r].answer = answer /\ request'[r].about = {}
        /\ request'[r] \in Files
    BY <1>1, <1>2, <2>1 DEF Files, ImportAsTold
  <2> QED BY <1>1, <1>2, <2>2 DEF ImportAsTold
<1>3. ASSUME NEW j \in Postings, NEW step \in {"fetching", "extracting"}, request[r].step = "new",
             Begin(r, step, j),
             run' = [run EXCEPT ![r] = "queued"], UNCHANGED <<jobs, dead>>
      PROVE  ImportAsTold(r)' /\ request'[r] \in Files /\ run'[r] \in {"none", "queued", "succeeded", "failed"}
  <2>1. request'[r] = [request[r] EXCEPT !.step = step, !.about = {j}, !.knew = dead \cap {j}]
    BY <1>1, <1>3 DEF Begin
  <2>0. request[r].answer = "none" /\ {j} \subseteq Postings /\ dead \cap {j} \subseteq Postings
    BY <1>3 DEF ImportAsTold
  <2>2. /\ request'[r].step = step /\ request'[r].answer = "none" /\ request'[r].about = {j}
        /\ request'[r] \in Files
    <3>1. PICK known \in SUBSET Postings : known = dead \cap {j}
      BY <2>0
    <3>2. PICK about \in SUBSET Postings : about = {j}
      BY <2>0
    <3>3. request'[r] = [request[r] EXCEPT !.step = step, !.about = about, !.knew = known]
      BY <2>1, <3>1, <3>2
    <3> QED BY <1>1, <1>3, <2>0, <3>2, <3>3 DEF Files
  <2>3. run'[r] = "queued"
    BY <1>1, <1>3
  <2> QED BY <1>1, <1>3, <2>2, <2>3 DEF ImportAsTold
<1>4. ASSUME NEW j \in request[r].about, request[r].step \in {"fetching", "extracting"},
             NEW answer \in {"created", "gone", "refused", "error", "lost"},
             Reply(r, answer),
             run'[r] \in {"queued", "succeeded", "failed"},
             run'[r] = "succeeded" <=> answer \in {"created", "gone"},
             answer = "created" => jobs'[j].by = r,
             answer # "created" => jobs' = jobs,
             answer = "gone" => j \in dead'
      PROVE  ImportAsTold(r)' /\ request'[r] \in Files /\ run'[r] \in {"none", "queued", "succeeded", "failed"}
  <2>1. request'[r] = [request[r] EXCEPT !.step = "over", !.answer = answer, !.knew = {}]
    BY <1>1, <1>4 DEF Reply
  <2>2. /\ request'[r].step = "over" /\ request'[r].answer = answer /\ request'[r].about = request[r].about
        /\ request'[r] \in Files
    BY <1>1, <2>1 DEF Files
  <2>3. \A i \in request[r].about : i = j
    BY <1>1, <1>4 DEF ImportAsTold
  <2>4. answer # "created" => \A i \in Postings : jobs'[i].by # r
    BY <1>1, <1>4 DEF ImportAsTold
  <2> QED BY <1>4, <2>2, <2>3, <2>4 DEF ImportAsTold
<1>5. CASE Refuse(r)
  BY <1>5, <1>2 DEF Refuse, tables
<1>6. CASE \E j \in Postings : AnswerKnown(r, j)
  BY <1>6, <1>2 DEF AnswerKnown, tables
<1>7. ASSUME NEW link \in Links, BeginUrl(r, link)
      PROVE  ImportAsTold(r)' /\ request'[r] \in Files /\ run'[r] \in {"none", "queued", "succeeded", "failed"}
  <2>1. Canonical(link) \in Postings
    BY DEF Urls, Postings
  <2> QED BY <1>7, <1>3, <2>1 DEF BeginUrl, tables
<1>8. ASSUME NEW text \in Pastes, BeginPaste(r, text)
      PROVE  ImportAsTold(r)' /\ request'[r] \in Files /\ run'[r] \in {"none", "queued", "succeeded", "failed"}
  <2>1. Manual(Owner[r], text) \in Postings
    BY OwnerIsOwner DEF Manuals, Postings
  <2> QED BY <1>8, <1>2, <1>3, <2>1 DEF BeginPaste
<1>9. CASE Crash(r)
  <2>1. PICK j : j \in request[r].about \/ request[r].about = {}
    OBVIOUS
  <2>2. /\ request'[r] = [request[r] EXCEPT !.step = "over", !.answer = "lost", !.knew = {}]
        /\ UNCHANGED <<jobs, dead, run>> /\ request[r].step \in {"fetching", "extracting"}
    BY <1>1, <1>9 DEF Crash, Reply, tables
  <2>3. /\ request'[r].step = "over" /\ request'[r].answer = "lost" /\ request'[r] \in Files
    BY <1>1, <2>2 DEF Files
  <2> QED BY <1>1, <2>2, <2>3 DEF ImportAsTold
<1>10. ASSUME NEW j \in request[r].about, request[r].step \in {"fetching", "extracting"},
              NEW jd, Create(r, j, jd)
       PROVE  ImportAsTold(r)' /\ request'[r] \in Files /\ run'[r] \in {"none", "queued", "succeeded", "failed"}
  <2>1. run[r] = "queued" /\ j \in Postings
    BY <1>1, <1>10 DEF ImportAsTold, Files
  <2>2. CASE Known(j)
    BY <1>4, <1>10, <2>1, <2>2 DEF Create
  <2>3. CASE ~ Known(j)
    <3>1. jobs'[j].by = r
      BY <1>10, <2>1, <2>3 DEF Create, Row, Shapes, JobTable
    <3>2. run'[r] = "succeeded"
      BY <1>1, <1>10, <2>3 DEF Create
    <3> QED BY <1>4, <1>10, <2>3, <3>1, <3>2 DEF Create
  <2> QED BY <2>2, <2>3
<1>11. ASSUME NEW u \in Urls, FinishUrl(r, u)
       PROVE  ImportAsTold(r)' /\ request'[r] \in Files /\ run'[r] \in {"none", "queued", "succeeded", "failed"}
  <2>1. request[r].step = "fetching" /\ u \in request[r].about
    BY <1>11 DEF FinishUrl
  <2>2. CASE \E jd : Create(r, u, jd)
    BY <1>10, <2>1, <2>2
  <2>3. CASE /\ dead' = dead \cup {u} /\ run' = [run EXCEPT ![r] = "succeeded"]
             /\ Reply(r, "gone") /\ jobs' = jobs
    <3>1. run'[r] = "succeeded"
      BY <1>1, <2>3
    <3> QED BY <1>4, <2>1, <2>3, <3>1
  <2>5. CASE Reply(r, "error") /\ UNCHANGED <<jobs, dead, run>>
    <3>1. run'[r] = "queued"
      BY <1>1, <2>1, <2>5 DEF ImportAsTold
    <3> QED BY <1>4, <2>1, <2>5, <3>1
  <2>4. CASE run' = [run EXCEPT ![r] = "failed"] /\ Reply(r, "refused") /\ UNCHANGED <<jobs, dead>>
    <3>1. run'[r] = "failed"
      BY <1>1, <2>4
    <3> QED BY <1>4, <2>1, <2>4, <3>1
  <2> QED BY <1>11, <2>2, <2>3, <2>4, <2>5 DEF FinishUrl, RecordDead
<1>12. ASSUME NEW j \in Manuals, FinishPaste(r, j)
       PROVE  ImportAsTold(r)' /\ request'[r] \in Files /\ run'[r] \in {"none", "queued", "succeeded", "failed"}
  BY <1>10, <1>12 DEF FinishPaste
<1>13. \A text \in Pastes : Manual(Owner[r], text) \in Postings
  BY OwnerIsOwner DEF Manuals, Postings
<1> QED
  BY <1>5, <1>6, <1>7, <1>8, <1>9, <1>11, <1>12, <1>13 DEF Import, Postings

LEMMA ImportKeepsProse ==
  ASSUME Inv, NEW r \in Requests, Import(r)
  PROVE  EmbeddedProseIsWalled'
<1> USE DEF Inv
<1>0. walled \subseteq walled'
  BY DEF Import, Refuse, AnswerKnown, BeginUrl, BeginPaste, FinishUrl, FinishPaste, Crash, past
<1>1. CASE jobs' = jobs
  BY <1>0, <1>1 DEF EmbeddedProseIsWalled
<1>2. ASSUME NEW j \in Postings, NEW jd,
             j \in Urls /\ j.page \in Embedded /\ jd = "prose" => r \in walled',
             jobs' = [jobs EXCEPT ![j] = Row(jd, r)]
      PROVE  EmbeddedProseIsWalled'
  <2>1. \A u \in Urls : u = j => jobs'[u].jd = jd /\ jobs'[u].by = r
    BY <1>2 DEF Shapes, JobTable, Row
  <2>2. \A u \in Urls : u # j => jobs'[u] = jobs[u]
    BY <1>2 DEF Shapes, JobTable, Postings
  <2> QED BY <1>0, <1>2, <2>1, <2>2 DEF EmbeddedProseIsWalled
<1>3. ASSUME NEW u \in Urls, FinishUrl(r, u), jobs' # jobs
      PROVE  EmbeddedProseIsWalled'
  <2>1. PICK o \in ImportEndings[u] : /\ jobs' = [jobs EXCEPT ![u] = Row(o.jd, r)]
                                      /\ o.walled => r \in walled'
    BY <1>3 DEF FinishUrl, Create, RecordDead
  <2>2. u.page \in Embedded /\ o.jd = "prose" => o.walled
    BY ImportEndingsAreRead
  <2> QED BY <1>2, <2>1, <2>2 DEF Postings
<1>4. ASSUME NEW j \in Manuals, FinishPaste(r, j), jobs' # jobs
      PROVE  EmbeddedProseIsWalled'
  BY <1>2, <1>4 DEF FinishPaste, Create, Postings
<1> QED
  BY <1>1, <1>3, <1>4 DEF Import, Refuse, AnswerKnown, BeginUrl, BeginPaste, Crash, tables

LEMMA ImportKeepsInv ==
  ASSUME Inv, NEW r \in Requests, Import(r)
  PROVE  Inv'
<1>1. GrowsBy({r})
  BY ImportGrows DEF Inv, Shapes
<1>2. UNCHANGED <<search, research, boards>> /\ dead \subseteq dead'
  BY DEF Import, Refuse, AnswerKnown, BeginUrl, BeginPaste, FinishUrl, RecordDead, FinishPaste, Crash,
         tables, past
<1>3. /\ request' = [request EXCEPT ![r] = request'[r]]
      /\ run' = [run EXCEPT ![r] = run'[r]]
  BY DEF Inv, Shapes, Import, Refuse, AnswerKnown, BeginUrl, BeginPaste, FinishUrl, FinishPaste, Crash,
         Create, Reply, Begin, RecordDead
<1>4. ImportAsTold(r)' /\ request'[r] \in Files /\ run'[r] \in {"none", "queued", "succeeded", "failed"}
  BY ImportKeepsAccount
<1>5. Shapes'
  BY <1>1, <1>2, <1>3, <1>4 DEF Inv, Shapes, GrowsBy
<1>6. \A q \in Requests : ImportAsTold(q)'
  <2> SUFFICES ASSUME NEW q \in Requests, q # r PROVE ImportAsTold(q)'
    BY <1>4
  <2>1. request'[q] = request[q] /\ run'[q] = run[q]
    BY <1>3 DEF Inv, Shapes
  <2> QED BY <1>1, <1>2, <2>1, OthersLeaveImports DEF Inv
<1>7. \A s \in Searches : SyncAsStored(s)'
  BY <1>1, <1>2, GrowthKeepsSyncs DEF Inv
<1>8. UnknownIsNobodys' /\ ActiveBoardIsIngested'
  <2>1. ActiveBoardIsIngested' <=> \A b \in Boards : boards'[b] = "active" => Ingested(b)'
    BY DEF ActiveBoardIsIngested, Ingested
  <2> QED BY <1>1, <1>2, <2>1, ActiveMeansIngested, GrowthKeepsRows DEF Inv
<1> QED BY <1>5, <1>6, <1>7, <1>8, ImportKeepsProse DEF Inv

LEMMA HoldingIsSighting ==
  ASSUME NEW step \in {"new", "searching", "registering", "over"}, NEW new \in SUBSET Urls
  PROVE  /\ Holding(step, new) \in Sightings
         /\ Holding(step, new).step = step /\ \A b \in Boards : Holding(step, new).was[b] = "none"
  BY DEF Holding, Sightings, Standings

\* What a search remembers after each of its steps.
LEMMA SearchKeepsSync ==
  ASSUME Inv, NEW s \in Searches, Search(s)
  PROVE  search'[s] \in Sightings /\ SyncAsStored(s)'
<1> USE DEF Inv
<1>1. GrowsBy({s}) /\ \A b : Ingested(b) => Ingested(b)'
  BY SearchGrows, GrowthKeepsRows DEF Shapes
<1>2. /\ search \in [Searches -> Sightings] /\ search[s] \in Sightings
      /\ SyncAsStored(s) /\ boards \in [Boards -> Standings]
  BY DEF Shapes
<1>3. ASSUME NEW step \in {"searching", "registering", "over"}, NEW new \in SUBSET Urls,
             search' = [search EXCEPT ![s] = Holding(step, new)]
      PROVE  search'[s] \in Sightings /\ SyncAsStored(s)'
  BY <1>2, <1>3, HoldingIsSighting DEF SyncAsStored
<1>4. CASE ListBoards(s)
  <2>1. PICK T \in SUBSET Boards :
          search'[s] = [search[s] EXCEPT !.step = "syncing", !.was = boards, !.todo = T]
    BY <1>2, <1>4 DEF ListBoards
  <2>2. search'[s] \in Sightings /\ search'[s].was = boards /\ search'[s].step = "syncing"
    BY <1>2, <2>1 DEF Sightings
  <2> QED BY <1>1, <2>2, ActiveMeansIngested DEF SyncAsStored
<1>5. ASSUME NEW b \in Boards, SkipBoard(s, b)
      PROVE  search'[s] \in Sightings /\ SyncAsStored(s)'
  <2>1. search'[s] = [search[s] EXCEPT !.todo = @ \ {b}] /\ search[s].step = "syncing"
    BY <1>2, <1>5 DEF SkipBoard
  <2>2. search'[s] \in Sightings /\ search'[s].was = search[s].was /\ search'[s].step = "syncing"
    BY <1>2, <2>1 DEF Sightings
  <2> QED BY <1>1, <1>2, <2>2 DEF SyncAsStored
<1>6. ASSUME NEW b \in Boards, NEW listed \in Listings(b), FetchBoard(s, b, listed)
      PROVE  search'[s] \in Sightings /\ SyncAsStored(s)'
  <2>1. listed \in SUBSET Urls /\ \A u \in listed : BoardOf[u.page] = b
    BY DEF Listings
  <2>2. PICK N \in SUBSET Urls, B \in SUBSET Boards :
          /\ N = {u \in listed : ~ Known(u)} /\ B = {b}
          /\ search'[s] = [search[s] EXCEPT !.step = "storing", !.board = B, !.listed = listed, !.new = N]
    <3>1. {u \in listed : ~ Known(u)} \in SUBSET Urls /\ {b} \in SUBSET Boards
      BY <2>1
    <3>2. search'[s] = [search[s] EXCEPT !.step = "storing", !.board = {b}, !.listed = listed,
                          !.new = {u \in listed : ~ Known(u)}]
      BY <1>2, <1>6 DEF FetchBoard
    <3> QED BY <3>1, <3>2
  <2>3. /\ search'[s] \in Sightings /\ search'[s].was = search[s].was /\ search'[s].step = "storing"
        /\ search'[s].board = B /\ search'[s].listed = listed /\ search'[s].new = N
    BY <1>2, <2>1, <2>2 DEF Sightings
  <2>4. jobs' = jobs
    BY <1>6 DEF FetchBoard, tables
  <2> QED BY <1>1, <1>2, <2>1, <2>2, <2>3, <2>4 DEF SyncAsStored, Known
<1>7. CASE CommitBoard(s)
  <2>1. CASE \E u \in search[s].new : Known(u)
    BY <1>3, <1>7, <2>1 DEF CommitBoard
  <2>2. CASE ~ \E u \in search[s].new : Known(u)
    <3>1. /\ search'[s] = [search[s] EXCEPT !.step = "marking", !.new = {}]
          /\ search[s].step = "storing"
      BY <1>2, <1>7, <2>2 DEF CommitBoard
    <3>2. /\ search'[s] \in Sightings /\ search'[s].was = search[s].was /\ search'[s].step = "marking"
          /\ search'[s].board = search[s].board /\ search'[s].listed = search[s].listed
      BY <1>2, <3>1 DEF Sightings
    <3>3. \A u \in search[s].listed : u \in Postings
      BY <1>2 DEF Sightings, Postings
    <3>4. \A u \in search[s].listed : u \in search[s].new => Known(u)'
      <4>1. PICK jd \in [search[s].new -> {"none", "own"}] :
              jobs' = [u \in DOMAIN jobs |-> IF u \in search[s].new THEN Row(jd[u], s) ELSE jobs[u]]
        BY <1>7, <2>2 DEF CommitBoard
      <4> QED BY <3>3, <4>1 DEF Shapes, JobTable, Row, Known
    <3>5. \A u \in search[s].listed : Known(u) => Known(u)'
      BY <1>1, <3>3 DEF GrowsBy
    <3> QED BY <1>1, <1>2, <3>1, <3>2, <3>4, <3>5 DEF SyncAsStored
  <2> QED BY <2>1, <2>2
<1>8. CASE MarkBoard(s)
  <2>1. PICK T \in SUBSET Boards :
          search'[s] = [search[s] EXCEPT !.step = "syncing", !.todo = T, !.board = {}, !.listed = {}]
    <3>1. search[s].todo \ search[s].board \in SUBSET Boards
      BY <1>2 DEF Sightings
    <3> QED BY <1>2, <1>8, <3>1 DEF MarkBoard
  <2>2. search'[s] \in Sightings /\ search'[s].was = search[s].was /\ search'[s].step = "syncing"
    BY <1>2, <2>1 DEF Sightings
  <2> QED BY <1>1, <1>2, <2>2 DEF SyncAsStored
<1>9. CASE EndSync(s) \/ RegisterBoards(s) \/ EndSearch(s) \/ \E u \in Urls : StoreCandidate(s, u)
  <2>1. CASE EndSync(s)
    BY <1>3, <2>1 DEF EndSync
  <2>2. CASE RegisterBoards(s)
    <3>1. search' = [search EXCEPT ![s] = Holding("over", {})]
      BY <2>2 DEF RegisterBoards
    <3>2. PICK new \in SUBSET Urls : search' = [search EXCEPT ![s] = Holding("over", new)]
      BY <3>1
    <3> QED BY <1>3, <3>2
  <2>3. CASE EndSearch(s)
    <3>1. search' = [search EXCEPT ![s] = Holding("over", {})]
      BY <2>3 DEF EndSearch
    <3>2. PICK new \in SUBSET Urls : search' = [search EXCEPT ![s] = Holding("over", new)]
      BY <3>1
    <3> QED BY <1>3, <3>2
  <2>4. ASSUME NEW u \in Urls, StoreCandidate(s, u)
        PROVE  search'[s] \in Sightings /\ SyncAsStored(s)'
    <3>1. PICK new \in SUBSET Urls : search' = [search EXCEPT ![s] = Holding("registering", new)]
      BY <2>4 DEF StoreCandidate
    <3> QED BY <1>3, <3>1
  <2> QED BY <1>9, <2>1, <2>2, <2>3, <2>4
<1>10. CASE ProbeBoards(s)
  <2>1. PICK B \in SUBSET Boards : search'[s] = [search[s] EXCEPT !.step = "probed", !.board = B]
    BY <1>2, <1>10 DEF ProbeBoards
  <2>2. search'[s] \in Sightings /\ search'[s].was = search[s].was /\ search'[s].step = "probed"
    BY <1>2, <2>1 DEF Sightings
  <2> QED BY <1>1, <1>2, <2>2 DEF SyncAsStored
<1> QED BY <1>4, <1>5, <1>6, <1>7, <1>8, <1>9, <1>10 DEF Search

LEMMA SearchKeepsBoards ==
  ASSUME Inv, NEW s \in Searches, Search(s)
  PROVE  boards' \in [Boards -> Standings] /\ ActiveBoardIsIngested'
<1> USE DEF Inv
<1>1. GrowsBy({s}) /\ \A b : Ingested(b) => Ingested(b)'
  BY SearchGrows, GrowthKeepsRows DEF Shapes
<1>2. search[s] \in Sightings /\ SyncAsStored(s) /\ boards \in [Boards -> Standings]
  BY DEF Shapes
<1>3. SUFFICES boards' \in [Boards -> Standings] /\ \A b \in Boards : boards'[b] = "active" => Ingested(b)'
  <2>1. ActiveBoardIsIngested' <=> \A b \in Boards : boards'[b] = "active" => Ingested(b)'
    BY DEF ActiveBoardIsIngested, Ingested
  <2> QED BY <2>1
<1>4. CASE boards' = boards
  BY <1>1, <1>2, <1>4, ActiveMeansIngested
<1>5. CASE MarkBoard(s)
  <2>1. /\ search[s].step = "marking" /\ jobs' = jobs
        /\ boards' = [b \in Boards |-> IF b \notin search[s].board THEN boards[b]
                        ELSE IF search[s].listed = {} THEN search[s].was[b] ELSE "active"]
    BY <1>5 DEF MarkBoard
  <2>2. boards' \in [Boards -> Standings]
    BY <1>2, <2>1 DEF Sightings, Standings
  <2>3. ASSUME NEW b \in Boards, boards'[b] = "active"
        PROVE  Ingested(b)
    <3>1. CASE b \in search[s].board /\ search[s].listed # {}
      <4>1. PICK u \in search[s].listed : BoardOf[u.page] = b /\ Known(u)
        BY <1>2, <2>1, <3>1 DEF SyncAsStored
      <4> QED BY <1>2, <4>1 DEF Ingested, Sightings
    <3>2. CASE b \in search[s].board /\ search[s].listed = {}
      BY <1>2, <2>1, <2>3, <3>2 DEF SyncAsStored
    <3>3. CASE b \notin search[s].board
      BY <1>2, <2>1, <2>3, <3>3, ActiveMeansIngested
    <3> QED BY <3>1, <3>2, <3>3
  <2> QED BY <1>1, <2>2, <2>3
<1>6. ASSUME RegisterBoards(s), boards' # boards
      PROVE  boards' \in [Boards -> Standings] /\ \A b \in Boards : boards'[b] = "active" => Ingested(b)'
  <2>1. PICK status \in [search[s].board -> {"discovered", "verified"}] :
          boards' = [b \in Boards |-> IF b \in search[s].board THEN status[b] ELSE boards[b]]
    BY <1>6 DEF RegisterBoards
  <2> QED BY <1>1, <1>2, <2>1, ActiveMeansIngested DEF Standings
<1> QED
  BY <1>4, <1>5, <1>6
     DEF Search, ListBoards, EndSync, SkipBoard, FetchBoard, CommitBoard, StoreCandidate, ProbeBoards,
         EndSearch, tables

LEMMA SearchKeepsInv ==
  ASSUME Inv, NEW s \in Searches, Search(s)
  PROVE  Inv'
<1>1. GrowsBy({s}) /\ {s} \cap Requests = {}
  BY SearchGrows, ImportsAreApart DEF Inv, Shapes
<1>2. UNCHANGED <<run, request, research, walled>> /\ dead \subseteq dead'
  BY DEF Search, ListBoards, EndSync, SkipBoard, FetchBoard, CommitBoard, MarkBoard, StoreCandidate,
         ProbeBoards, RegisterBoards, EndSearch, tables, past
<1>3. search' = [search EXCEPT ![s] = search'[s]]
  BY DEF Inv, Shapes, Search, ListBoards, EndSync, SkipBoard, FetchBoard, CommitBoard, MarkBoard,
         StoreCandidate, ProbeBoards, RegisterBoards, EndSearch
<1>4. search'[s] \in Sightings /\ SyncAsStored(s)' /\ boards' \in [Boards -> Standings] /\ ActiveBoardIsIngested'
  BY SearchKeepsSync, SearchKeepsBoards
<1>5. Shapes'
  BY <1>1, <1>2, <1>3, <1>4 DEF Inv, Shapes, GrowsBy
<1>6. \A r \in Requests : ImportAsTold(r)'
  BY <1>1, <1>2, OthersLeaveImports DEF Inv
<1>7. \A t \in Searches : SyncAsStored(t)'
  <2> SUFFICES ASSUME NEW t \in Searches, t # s PROVE SyncAsStored(t)'
    BY <1>4
  <2>1. search'[t] = search[t]
    BY <1>3 DEF Inv, Shapes
  <2> QED BY <1>1, <2>1, GrowthKeepsSyncs DEF Inv
<1>8. UnknownIsNobodys' /\ EmbeddedProseIsWalled'
  BY <1>1, <1>2, GrowthKeepsRows, GrowthKeepsProse DEF Inv
<1> QED BY <1>4, <1>5, <1>6, <1>7, <1>8 DEF Inv

\* Research, archiving and the script have no rows of their own.
LEMMA OthersKeepInv ==
  ASSUME Inv, GrowsBy({}), UNCHANGED <<run, request, search, dead, walled>>,
         research' \in [Researches -> Phases], boards' \in [Boards -> Standings],
         \A b \in Boards : boards'[b] = "active" => boards[b] = "active"
  PROVE  Inv'
<1>1. Shapes'
  BY DEF Inv, Shapes, GrowsBy
<1>2. UnknownIsNobodys' /\ EmbeddedProseIsWalled' /\ \A b : Ingested(b) => Ingested(b)'
  BY GrowthKeepsRows, GrowthKeepsProse DEF Inv
<1>3. \A r \in Requests : ImportAsTold(r)'
  BY OthersLeaveImports DEF Inv
<1>4. \A s \in Searches : SyncAsStored(s)'
  BY GrowthKeepsSyncs DEF Inv
<1>5. ActiveBoardIsIngested'
  <2>1. ActiveBoardIsIngested' <=> \A b \in Boards : boards'[b] = "active" => Ingested(b)'
    BY DEF ActiveBoardIsIngested, Ingested
  <2> QED BY <1>2, <2>1, ActiveMeansIngested DEF Inv
<1> QED BY <1>1, <1>2, <1>3, <1>4, <1>5 DEF Inv

-----------------------------------------------------------------------------
(* The theorems *)

LEMMA NextKeepsInv ==
  ASSUME Inv, Next
  PROVE  Inv' /\ \E S : GrowsBy(S)
<1>1. ASSUME NEW r \in Requests, Import(r)
      PROVE  Inv' /\ \E S : GrowsBy(S)
  BY <1>1, ImportKeepsInv, ImportGrows DEF Inv, Shapes
<1>2. ASSUME NEW s \in Searches, Search(s)
      PROVE  Inv' /\ \E S : GrowsBy(S)
  BY <1>2, SearchKeepsInv, SearchGrows DEF Inv, Shapes
<1>3. ASSUME NEW x \in Researches, Research(x)
      PROVE  Inv' /\ \E S : GrowsBy(S)
  <2>1. GrowsBy({})
    BY <1>3, ResearchGrows DEF Inv, Shapes
  <2>2. UNCHANGED <<run, request, search, dead, walled, boards>> /\ research' \in [Researches -> Phases]
    BY <1>3 DEF Inv, Shapes, Research, BeginResearch, EndResearch, Backfill, tables, past, Phases
  <2> QED BY <2>1, <2>2, OthersKeepInv DEF Inv, Shapes
<1>4. ASSUME NEW w \in Workspaces, NEW chosen, Archive(w, chosen)
      PROVE  Inv' /\ \E S : GrowsBy(S)
  <2>1. GrowsBy({})
    BY <1>4, ArchiveGrows DEF Inv, Shapes
  <2> QED BY <1>4, <2>1, OthersKeepInv DEF Inv, Shapes, Archive
<1>5. ASSUME NEW b \in Boards, MigrateBoard(b)
      PROVE  Inv' /\ \E S : GrowsBy(S)
  <2>1. GrowsBy({})
    BY <1>5, StandingGrows DEF Inv, Shapes, MigrateBoard
  <2>2. /\ boards' \in [Boards -> Standings]
        /\ \A c \in Boards : boards'[c] = "active" => boards[c] = "active"
    BY <1>5 DEF Inv, Shapes, MigrateBoard, Standings
  <2> QED BY <1>5, <2>1, <2>2, OthersKeepInv DEF Inv, Shapes, MigrateBoard, past
<1> QED BY <1>1, <1>2, <1>3, <1>4, <1>5 DEF Next

\* What every import and every search remembers agrees with the rows.
THEOREM InvHolds == Spec => []Inv
<1>1. Init => Inv
  <2> SUFFICES ASSUME Init PROVE Inv
    OBVIOUS
  <2>1. /\ jobs \in JobTable
        /\ \A j \in Postings : jobs[j].by = Nobody /\ jobs[j].jd = "none" /\ ~ Known(j)
    BY DEF Init, JobTable, Postings, Descriptions, Writers, Known
  <2>2. search \in [Searches -> Sightings] /\ \A s \in Searches : SyncAsStored(s)
    BY HoldingIsSighting DEF Init, SyncAsStored
  <2>3. /\ request \in [Requests -> Files] /\ run \in [Requests -> {"none", "queued", "succeeded", "failed"}]
        /\ research \in [Researches -> Phases] /\ boards \in [Boards -> Standings]
    BY DEF Init, Files, Phases, Standings
  <2>4. \A r \in Requests : ImportAsTold(r)
    BY <2>1, ImportsAreApart DEF Init, ImportAsTold
  <2>5. ActiveBoardIsIngested /\ EmbeddedProseIsWalled
    BY <2>1 DEF Init, ActiveBoardIsIngested, EmbeddedProseIsWalled, Postings
  <2> QED BY <2>1, <2>2, <2>3, <2>4, <2>5 DEF Inv, Shapes, UnknownIsNobodys
<1>2. Inv /\ [Next]_vars => Inv'
  <2>1. ASSUME Inv, UNCHANGED vars PROVE Inv'
    BY <2>1 DEF vars, tables, past, Inv, Shapes, UnknownIsNobodys, ImportAsTold, SyncAsStored,
                Ingested, ActiveBoardIsIngested, EmbeddedProseIsWalled, Known
  <2> QED BY <2>1, NextKeepsInv
<1> QED BY <1>1, <1>2, PTL DEF Spec

\* An import's run, its answer and the rows agree (import_job_by_url,
\* import_job_from_text).
THEOREM RunTellsImportHolds == Spec => []RunTellsImport
<1>1. Inv => RunTellsImport
  <2> SUFFICES ASSUME Inv, NEW r \in Requests
               PROVE  /\ run[r] = "succeeded" <=> request[r].answer \in {"created", "gone"}
                      /\ \A j \in request[r].about :
                           /\ request[r].answer = "created" <=> jobs[j].by = r
                           /\ request[r].answer = "gone" => j \in dead
    BY DEF RunTellsImport
  <2>1. ImportAsTold(r) /\ request[r].about \subseteq Postings
    BY DEF Inv, Shapes, Files
  <2> QED BY <2>1 DEF ImportAsTold
<1> QED BY <1>1, InvHolds, PTL

\* A board is active only when postings of it are stored (_sync_company_boards).
THEOREM ActiveBoardIsIngestedHolds == Spec => []ActiveBoardIsIngested
<1>1. Inv => ActiveBoardIsIngested
  BY DEF Inv
<1> QED BY <1>1, InvHolds, PTL

\* An import takes the prose around an embed for the posting only from the reader
\* of a page that answered 403 (fetch_jd_from_url).
THEOREM EmbeddedProseIsWalledHolds == Spec => []EmbeddedProseIsWalled
<1>1. Inv => EmbeddedProseIsWalled
  BY DEF Inv
<1> QED BY <1>1, InvHolds, PTL

\* A stored job keeps its finder, and its description but for research
\* (JobRepository.create, _backfill_job_jd_text).
THEOREM StoredJobsKeepHolds == Spec => StoredJobsKeep
<1> DEFINE Keeps == \A j \in DOMAIN jobs : Known(j) =>
                      /\ jobs'[j].by = jobs[j].by
                      /\ jobs'[j].jd # jobs[j].jd => research' # research
<1>1. Inv /\ [Next]_vars => [Keeps]_vars
  <2>1. ASSUME Inv, Next PROVE Keeps
    <3>1. DOMAIN jobs = Postings
      BY <2>1 DEF Inv, Shapes, JobTable
    <3> QED BY <2>1, <3>1, NextKeepsInv DEF GrowsBy
  <2> QED BY <2>1
<1> QED BY <1>1, InvHolds, PTL DEF Spec, StoredJobsKeep
===============================================================================
