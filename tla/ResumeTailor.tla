----------------------------- MODULE ResumeTailor -----------------------------
(***************************************************************************)
(* One resume_tailor run: nine steps that each ask a model and then repair *)
(* what it said with deterministic rules, a document assembled from the    *)
(* bullets the model rewrote, an audit, and at most one repair pass.       *)
(*                                                                         *)
(* The model is the adversary: every step takes any answer of a set given  *)
(* as a constant, wrong citations, misquoted bullets, missing sections and *)
(* contradictory strategies included, and any step may raise.  The run's   *)
(* and the task's rows are in RunExecution.                                *)
(*                                                                         *)
(* Two bullets have the same text or no text in common, and no revision    *)
(* holds a bullet's text (bound): a text is never part of another's line.  *)
(*                                                                         *)
(* An operator whose name ends in Mutant is the faulty variant of the one  *)
(* below it: with it in place, the property it stands against must fail.   *)
(***************************************************************************)
EXTENDS Naturals, Sequences, FiniteSets, SequencesExt

CONSTANTS
  Experiences,     \* indices into structured_resume.experiences
  Bullets,         \* the texts of each experience's bullets
  Document,        \* structured_resume.markdown, as the texts of its bullets
  MultiLine,       \* texts with a line break inside
  Capabilities, Breadth, None,
  Requirements,    \* bound: capability sets the workstream analysis yields
  FactSets,        \* bound: the experience of each fact atom
  Matches,         \* bound: what evidence matching finds for each capability
  Strategies,      \* bound: decisions and budgets the strategy step returns
  Plans,           \* bound: section plans the planning step returns
  Verdicts,        \* bound: what the auditing model says by itself
  MaxRepeats,      \* bound: entries of a strategy that repeat another one
  MaxBullets       \* bound: bullets the writing step returns for one plan

Decisions == {"foreground", "bridge", "minimal_mention", "omit_honest_gap", "ask_candidate"}
Strengths == {"supporting", "adjacent", "direct"}
FixSteps == {"workstream", "fact_extraction", "evidence_matching", "strategy", "bullet_planning", "writing"}
Texts == UNION {Bullets[e] : e \in Experiences}

ASSUME ResumeIsWhole ==
  /\ Document \in Seq(Texts)
  /\ Bullets \in [Experiences -> SUBSET Texts]
  /\ ToSet(Document) = Texts
  /\ MultiLine \subseteq Texts
ASSUME RequirementsAreSets == Requirements \subseteq SUBSET Capabilities
ASSUME MatchesAreMatches == Matches \subseteq [Capabilities -> Strengths \cup {"weak", "gap", None}]
ASSUME FactsAreFacts == FactSets \subseteq Seq(Experiences)
ASSUME VerdictsAreVerdicts ==
  \A v \in Verdicts : v.passed \in BOOLEAN /\ v.fixes \subseteq FixSteps
ASSUME PlansArePlans ==
  \A p \in Plans : /\ p \in Seq(Range(p))
                   /\ \A s \in Range(p) : s \in [exp : Nat, bullets : Seq(Range(s.bullets))]
ASSUME StrategiesAreStrategies ==
  \A s \in Strategies : /\ s.decided \subseteq Capabilities \X Decisions
                        /\ s.budget \in Nat

VARIABLES
  step,           \* what the worker does next
  threads,        \* the two parallel steps: out, back or raised
  required,       \* evidence_requirements
  facts,          \* fact_atoms, by experience
  matches,        \* evidence_matches
  strategy,       \* resume_strategy
  plans,          \* section_plans
  written,        \* how many bullets the model wrote for each plan
  left,           \* the experiences whose sections are still to be assembled
  section,        \* the one being assembled: its next pair, and whether one failed
  document,       \* revised_markdown, bullet by bullet
  unresolved,     \* bullets whose original text was not found
  failures,       \* auxiliary: the experiences whose sections quote them
  audit,
  repaired        \* the repair pass has been taken

evidence == <<required, facts, matches>>
assembly == <<written, left, section, failures>>
draft    == <<plans, document, unresolved, audit>>
tailorVars == <<step, threads, evidence, strategy, assembly, draft, repaired>>

-----------------------------------------------------------------------------
(* What a step does to the model's answer *)

\* Every requirement gets a decision, and only requirements have one.
Sanitized(s, reqs) ==
  LET known == {d \in s.decided : d[1] \in reqs} IN
  [s EXCEPT !.decided = known \cup
     {<<c, "omit_honest_gap">> : c \in {c \in reqs : \A d \in known : d[1] # c}}]

\* More entries put a capability forward than bullets are budgeted; the list
\* may repeat an entry.
PutForward == {"foreground", "bridge"}
Overflows(s, repeats) ==
  LET forward == {d \in s.decided : d[2] \in PutForward} IN
  forward # {} /\ Cardinality(forward) + repeats > s.budget

\* A citation of no fact, or of another experience's, is stripped; a bullet
\* that loses them all rests on its original text alone.
Cited(b) ==
  LET valid == {i \in b.cites : i \in DOMAIN facts /\ facts[i] = b.exp} IN
  [b EXCEPT !.cites = valid,
            !.strength = IF valid # b.cites /\ valid = {} THEN "supporting" ELSE @]

\* No bullet claims more than evidence matching found for its capability.
Rank(s) == CASE s = "direct" -> 2 [] s = "adjacent" -> 1 [] OTHER -> 0
Found(b) == IF b.serves \in Capabilities THEN matches[b.serves] ELSE None
Capped(b) ==
  IF Found(b) # None /\ Rank(b.strength) > Rank(Found(b))
  THEN [b EXCEPT !.strength = IF Found(b) \in Strengths THEN Found(b) ELSE "supporting"]
  ELSE b

Planned(answer) ==
  [i \in DOMAIN answer |->
     [answer[i] EXCEPT !.bullets = [j \in DOMAIN @ |-> Capped(Cited(@[j]))]]]

-----------------------------------------------------------------------------
(* Assembling the document *)

\* A document is the places of the original that are still there, and those
\* of them that hold a revision.
Original == [kept |-> DOMAIN Document, new |-> {}]
Shows(doc, text) == \E i \in doc.kept : Document[i] = text

\* Where the text still stands as it was.
Standing(doc, text) == {i \in doc.kept \ doc.new : Document[i] = text}
First(S) == CHOOSE i \in S : \A j \in S : i <= j

\* Every line that holds the text goes; a text of several lines is in none.
RemoveLines(doc, gone) ==
  [doc EXCEPT !.kept = {i \in @ : i \in doc.new \/ Document[i] \notin gone \ MultiLine}]

\* The dictionary of revised sections: an experience has the place of its
\* first plan, and the bullets the model wrote for its last.
Touched == {plans[i].exp : i \in DOMAIN plans}
PlansOf(e) == {i \in DOMAIN plans : plans[i].exp = e}
PlanOf(e) == CHOOSE i \in PlansOf(e) : \A j \in PlansOf(e) : j <= i
Pairs(e) == 1 .. written[PlanOf(e)]
Quoted(e, j) == plans[PlanOf(e)].bullets[j].text
Covered(e) == {Quoted(e, j) : j \in Pairs(e)}

-----------------------------------------------------------------------------
(* The audit *)

AllBullets(ps) == UNION {ToSet(ps[i].bullets) : i \in DOMAIN ps}
Served(ps)     == {b.serves : b \in AllBullets(ps)} \ {Breadth}
Decided(ds)    == {d[1] : d \in {d \in strategy.decided : d[2] \in ds}}
Withheld       == Decided({"omit_honest_gap", "ask_candidate"})

\* A bullet that claims what the strategy does not know or withholds, or a
\* capability put forward that no bullet claims.
UntraceableMutant(ps) ==
  \/ Served(ps) \cap Withheld # {}
  \/ ~(Decided(PutForward) \subseteq Served(ps) \ Withheld)
Untraceable(ps) ==
  \/ Served(ps) \cap Withheld # {}
  \/ ~(Served(ps) \subseteq Decided(Decisions))
  \/ ~(Decided(PutForward) \subseteq Served(ps) \ Withheld)

\* What the model found by itself, and the critical issues of the code's own
\* two checks.
Audited(verdict, ps, lost) ==
  IF Untraceable(ps) \/ lost # <<>>
  THEN [passed |-> FALSE, fixes |-> verdict.fixes \cup {"bullet_planning"}]
  ELSE verdict

-----------------------------------------------------------------------------
(* The steps *)

TailorInit ==
  /\ step = "loading" /\ threads = [t \in {"inference", "stories"} |-> "out"]
  /\ required = {} /\ facts = <<>> /\ matches = [c \in Capabilities |-> None]
  /\ strategy = None
  /\ written = <<>> /\ left = {} /\ section = None /\ failures = {}
  /\ plans = <<>> /\ document = Original /\ unresolved = <<>> /\ audit = None
  /\ repaired = FALSE

\* The input, the job, the profile, its resume and the job's report must be there.
Load ==
  /\ step = "loading"
  /\ \E missing \in {"nothing", "INVALID_INPUT", "JOB_NOT_FOUND", "MISSING_PROFILE",
                     "MISSING_STRUCTURED_RESUME", "MISSING_JOB_REPORT"} :
       step' = IF missing = "nothing" THEN "parallel" ELSE "failed"
  /\ UNCHANGED <<threads, evidence, strategy, assembly, draft, repaired>>

\* Capability inference and story reconstruction run side by side.
Return(t) ==
  /\ step = "parallel" /\ threads[t] = "out"
  /\ \E end \in {"back", "raised"} : threads' = [threads EXCEPT ![t] = end]
  /\ UNCHANGED <<step, evidence, strategy, assembly, draft, repaired>>

\* The pool is left when both are back, and only then does an error surface.
Join ==
  /\ step = "parallel" /\ \A t \in DOMAIN threads : threads[t] # "out"
  /\ step' = IF "raised" \in Range(threads) THEN "failed" ELSE "workstream"
  /\ UNCHANGED <<threads, evidence, strategy, assembly, draft, repaired>>

\* Requirements that repeat a capability are merged into one.
AnalyseWorkstreams ==
  /\ step = "workstream"
  /\ required' \in Requirements
  /\ step' = "facts"
  /\ UNCHANGED <<threads, facts, matches, strategy, assembly, draft, repaired>>

ExtractFacts ==
  /\ step = "facts"
  /\ facts' \in FactSets
  /\ step' = "matching"
  /\ UNCHANGED <<threads, required, matches, strategy, assembly, draft, repaired>>

\* The model may judge capabilities nobody asked for and leave others out; of
\* several verdicts on one the last counts.
Match ==
  /\ step = "matching"
  /\ matches' \in Matches
  /\ step' = "strategy"
  /\ UNCHANGED <<threads, required, facts, strategy, assembly, draft, repaired>>

\* A strategy that overflows its budget is asked for once more, and then taken
\* as it is.
Strategise ==
  /\ step = "strategy"
  /\ \E first \in Strategies, repeats \in 0 .. MaxRepeats :
       IF Overflows(Sanitized(first, required), repeats)
       THEN \E retried \in Strategies : strategy' = Sanitized(retried, required)
       ELSE strategy' = Sanitized(first, required)
  /\ step' = "planning"
  /\ UNCHANGED <<threads, evidence, assembly, draft, repaired>>

Plan ==
  /\ step = "planning"
  /\ \E answer \in Plans : plans' = Planned(answer)
  /\ step' = "writing"
  /\ UNCHANGED <<threads, evidence, strategy, assembly, document, unresolved, audit, repaired>>

\* One call per section plan; it may come back with fewer bullets than planned.
Write ==
  /\ step = "writing"
  /\ written' \in [DOMAIN plans -> 0 .. MaxBullets]
  /\ \A i \in DOMAIN plans : written'[i] <= Len(plans[i].bullets)
  /\ left' = Touched /\ document' = Original /\ unresolved' = <<>> /\ failures' = {}
  /\ step' = "assembling"
  /\ UNCHANGED <<threads, evidence, strategy, section, plans, audit, repaired>>

\* The next section of the dictionary; an index out of range is skipped.
Open(e) ==
  /\ step = "assembling" /\ section = None
  /\ e \in left /\ \A f \in left : First(PlansOf(e)) <= First(PlansOf(f))
  /\ left' = left \ {e}
  /\ section' = IF e \in Experiences THEN [exp |-> e, next |-> 1, failed |-> FALSE] ELSE None
  /\ UNCHANGED <<step, threads, evidence, strategy, written, failures, draft, repaired>>

\* The first place that still reads as the plan quotes it takes the revision.
Replace ==
  /\ step = "assembling" /\ section # None
  /\ section.next \in Pairs(section.exp)
  /\ LET text == Quoted(section.exp, section.next)
         here == Standing(document, text) IN
     IF here = {}
     THEN /\ unresolved' = Append(unresolved, text)
          /\ section' = [section EXCEPT !.next = @ + 1, !.failed = TRUE]
          /\ failures' = failures \cup {section.exp}
          /\ UNCHANGED document
     ELSE /\ document' = [document EXCEPT !.new = @ \cup {First(here)}]
          /\ section' = [section EXCEPT !.next = @ + 1]
          /\ UNCHANGED <<unresolved, failures>>
  /\ UNCHANGED <<step, threads, evidence, strategy, written, left, plans, audit, repaired>>

\* The section's bullets that no pair covers are deleted, unless one of its
\* pairs was not found.
CleanedMutant(doc, s) == RemoveLines(doc, Bullets[s.exp] \ Covered(s.exp))
Cleaned(doc, s) ==
  IF s.failed THEN doc ELSE RemoveLines(doc, Bullets[s.exp] \ Covered(s.exp))
Close ==
  /\ step = "assembling" /\ section # None
  /\ section.next \notin Pairs(section.exp)
  /\ document' = Cleaned(document, section)
  /\ section' = None
  /\ UNCHANGED <<step, threads, evidence, strategy, written, left, failures, plans, unresolved, audit, repaired>>

Assembled ==
  /\ step = "assembling" /\ section = None /\ left = {}
  /\ step' = "auditing"
  /\ UNCHANGED <<threads, evidence, strategy, assembly, draft, repaired>>

Audit ==
  /\ step = "auditing"
  /\ \E verdict \in Verdicts : audit' = Audited(verdict, plans, unresolved)
  /\ step' = "audited"
  /\ UNCHANGED <<threads, evidence, strategy, assembly, plans, document, unresolved, repaired>>

\* One repair pass, from the earlier of the two steps it can go back to.
Repairable == ~audit.passed /\ audit.fixes \cap {"bullet_planning", "writing"} # {}
Repair ==
  /\ step = "audited" /\ ~repaired /\ Repairable
  /\ step' = IF "bullet_planning" \in audit.fixes THEN "planning" ELSE "writing"
  /\ repaired' = TRUE
  /\ UNCHANGED <<threads, evidence, strategy, assembly, draft>>

\* The draft is stored and the run succeeds, whatever the audit says.
Finish ==
  /\ step = "audited" /\ (repaired \/ ~Repairable)
  /\ step' = "done"
  /\ UNCHANGED <<threads, evidence, strategy, assembly, draft, repaired>>

\* A model call that fails ends the run; a draft being repaired goes with it.
Raise ==
  /\ step \notin {"loading", "parallel", "assembling", "done", "failed"}
  /\ step' = "failed"
  /\ UNCHANGED <<threads, evidence, strategy, assembly, draft, repaired>>

TailorNext ==
  \/ Load \/ (\E t \in DOMAIN threads : Return(t)) \/ Join
  \/ AnalyseWorkstreams \/ ExtractFacts \/ Match \/ Strategise
  \/ Plan \/ Write \/ (\E e \in left : Open(e)) \/ Replace \/ Close \/ Assembled
  \/ Audit \/ Repair \/ Finish \/ Raise

TailorSpec == TailorInit /\ [][TailorNext]_tailorVars

-----------------------------------------------------------------------------
(* Properties *)

\* A draft whose audit says it passed, repaired or not, decides on every
\* requirement, claims every capability its strategy puts forward and none it
\* withholds or never heard of, and has no revision that found no place.
AuditHonest ==
  step = "done" /\ audit.passed =>
    /\ required \subseteq Decided(Decisions)
    /\ Decided(PutForward) \subseteq Served(plans)
    /\ Served(plans) \subseteq required \ Withheld
    /\ unresolved = <<>>

\* An experience keeps every bullet when one its section quotes was not found,
\* being misquoted or replaced for another section already.  It can lose a
\* text it shares with another experience, whose section found all it quotes
\* and quotes that text nowhere: bullets are deleted by text, from any place.
FailedSectionKeeps ==
  step = "done" =>
    \A e \in failures : \A t \in Bullets[e] :
      \/ Shows(document, t)
      \/ \E f \in (Touched \cap Experiences) \ failures : t \in Bullets[f] \ Covered(f)

\* A bullet a plan covers is revised, left as it was, or reported: only the
\* bullets no plan covers are deleted.
PlannedBulletsSurvive ==
  step = "done" =>
    \A i \in DOMAIN plans : \A b \in ToSet(plans[i].bullets) :
      b.text \in ToSet(unresolved) \/ b.text \notin Texts
        \/ Shows(document, b.text)
=============================================================================
