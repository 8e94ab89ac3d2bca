---------------------------- MODULE WorkspaceState ----------------------------
(***************************************************************************)
(* What one identity owns besides jobs and applications: its workspace,    *)
(* provisioned by whichever request comes first, its profiles, the planner *)
(* settings, and the search strategy that reflection runs grow.            *)
(*                                                                         *)
(* Each API request is one READ COMMITTED transaction, cut into what it    *)
(* read (Begin...) and what it commits (Commit); nothing locks a row, and  *)
(* two tabs of one user overlap freely.  A request that is refused, or     *)
(* dies, leaves nothing behind, a workspace it was provisioning included.  *)
(* A reflection run is cut the same way; its agent's session and its task  *)
(* are in RunExecution.                                                    *)
(*                                                                         *)
(* An operator whose name ends in Mutant is the faulty variant of the one  *)
(* below it: with it in place, the property it stands against must fail.   *)
(***************************************************************************)
EXTENDS Naturals, Sequences, FiniteSets, SequencesExt, Functions

CONSTANTS
  Clients,                    \* tabs of the one user
  Idle, None,
  Resumes,                    \* structured_resume_json
  Fields, Values, Bad,        \* PlannerSettings; Bad fails its validator
  DefaultSettings,            \* the defaults of the code
  Saves,                      \* bound: the patches the settings form sends
  Reflections,                \* run_reflection runs
  Items,                      \* sources, query patterns and learnings
  Categories, Levels,         \* coverage_by_role_category
  Files,                      \* bound: what the agents leave as strategy_patch
  MaxOps                      \* bound: requests and reflections together

ASSUME DefaultsAreValid == DefaultSettings \in [Fields -> Values]
ASSUME SavesAreSaves == Saves \subseteq [Fields -> Values \cup {None, Bad}]
ASSUME BadIsNoValue == Bad \notin Values /\ None \notin Values
ASSUME FilesAreFiles ==
  \A f \in Files : /\ f.form \in {"absent", "missing", "unreadable", "flat", "nested"}
                   /\ f.ops \in Seq([field : STRING, items : SUBSET Items,
                                     about : Categories \cup {None}, level : Levels \cup {None}])
ASSUME BoundIsANumber == MaxOps \in Nat

VARIABLES
  workspaces,   \* the workspaces user_identities leads to
  profiles,     \* candidate_profiles, the most recently updated last
  settings,     \* planner_settings_json over the defaults
  strategy,     \* the row of search_strategy_states, or None
  request,      \* each tab's open transaction
  reflection,   \* each reflection run: its phase and what its transaction read
  file,         \* the patch file its agent left
  ops,          \* requests and reflections so far; it also names new rows
  served,       \* workspaces an answered request worked in
  saved,        \* what the answered saves gave each setting last
  applied,      \* the strategy_patch_applied events, in order
  raced         \* documents that a stale read was written over

tables   == <<workspaces, profiles, settings, strategy>>
history  == <<served, saved, applied, raced>>
vars     == <<tables, request, reflection, file, ops, history>>

-----------------------------------------------------------------------------
(* Profiles *)

Ids == {profiles[i].id : i \in DOMAIN profiles}

\* The default profile is the one updated last.
Default == IF profiles = <<>> THEN None ELSE Last(profiles).id

Position(p) == CHOOSE i \in DOMAIN profiles : profiles[i].id = p
Row(p) == profiles[Position(p)]
Without(p) == IF p \in Ids THEN RemoveAt(profiles, Position(p)) ELSE profiles
Insert(p, resume) == profiles' = Append(profiles, [id |-> p, resume |-> resume])

\* An UPDATE sets the columns that are not as they were read.
Changed(p, resume) == IF p \in Ids /\ Row(p).resume = resume THEN None ELSE resume

\* An edit that carries no structured resume keeps the imported one; one that
\* changes no other column either writes nothing.
Update(p, resume) ==
  \/ resume = None /\ UNCHANGED profiles
  \/ profiles' = Append(Without(p),
                        [id |-> p, resume |-> IF resume = None THEN Row(p).resume ELSE resume])

\* More than one profile, or there is nothing to delete.
DeletableMutant(p) == p \in Ids
Deletable(p) == p \in Ids /\ Len(profiles) > 1

-----------------------------------------------------------------------------
(* Settings *)

\* update_planner_settings: the stored settings, the patch's fields over
\* them, and the whole validated or refused.
MergedMutant(stored, patch) ==
  [x \in Fields |-> IF patch[x] = None THEN DefaultSettings[x] ELSE patch[x]]
Merged(stored, patch) ==
  [x \in Fields |-> IF patch[x] = None THEN stored[x] ELSE patch[x]]
Valid(document) == \A x \in Fields : document[x] # Bad

-----------------------------------------------------------------------------
(* The strategy document *)

ListFields == {"effective_sources", "avoid_sources", "effective_query_patterns",
               "avoid_query_patterns", "key_learnings"}
Allowed == ListFields \cup {"coverage_by_role_category", "recommended_next_searches"}

Empty ==
  [lists |-> [x \in ListFields |-> {}], coverage |-> [c \in Categories |-> None], next |-> {}]

Documents ==
  [lists : [ListFields -> SUBSET Items], coverage : [Categories -> Levels \cup {None}],
   next : SUBSET Items]

ASSUME NoneIsNoRow == None \notin [doc : Documents, last : Reflections] \cup Files

\* validate_strategy_patch: every field is known, coverage names categories.
Sound(f) ==
  /\ f.form \in {"flat", "nested"}
  /\ \A i \in DOMAIN f.ops :
       /\ f.ops[i].field \in Allowed
       /\ f.ops[i].field = "coverage_by_role_category"
            => f.ops[i].about \in Categories /\ f.ops[i].level \in Levels

OpsOn(f, field) == {i \in DOMAIN f.ops : f.ops[i].field = field}
LastOf(S) == CHOOSE i \in S : \A j \in S : j <= i

\* normalize_strategy_patch_raw: the operations of a nested envelope add to
\* the lists, whatever action they name; the last word on a category and the
\* last set of searches count.
Flat(f) ==
  [lists    |-> [x \in ListFields |-> UNION {f.ops[i].items : i \in OpsOn(f, x)}],
   coverage |-> [c \in Categories |->
     LET those == {i \in OpsOn(f, "coverage_by_role_category") : f.ops[i].about = c} IN
     IF those = {} THEN None ELSE f.ops[LastOf(those)].level],
   next     |-> LET those == OpsOn(f, "recommended_next_searches") IN
                IF those = {} THEN {} ELSE f.ops[LastOf(those)].items]

\* Lists are united, coverage is updated, the searches are replaced unless
\* the patch has none.
ApplyMutant(base, patch) ==
  [base EXCEPT !.lists = [x \in ListFields |-> base.lists[x] \cup patch.lists[x]],
               !.coverage = patch.coverage,
               !.next = IF patch.next = {} THEN base.next ELSE patch.next]
Apply(base, patch) ==
  [lists    |-> [x \in ListFields |-> base.lists[x] \cup patch.lists[x]],
   coverage |-> [c \in Categories |->
                   IF patch.coverage[c] = None THEN base.coverage[c] ELSE patch.coverage[c]],
   next     |-> IF patch.next = {} THEN base.next ELSE patch.next]

-----------------------------------------------------------------------------
(* A request: signing in, then what its handler reads *)

\* The workspace of the caller; a caller nobody knows is provisioned one, and
\* what that request reads of the workspace is empty.
Home == IF workspaces = {} THEN ops ELSE CHOOSE w \in workspaces : TRUE

Open(c, kind, target, resume, patch) ==
  /\ request[c] = Idle /\ ops < MaxOps
  /\ request' = [request EXCEPT ![c] =
       [kind |-> kind, home |-> Home, new |-> workspaces = {}, id |-> ops,
        target |-> target, resume |-> resume, patch |-> patch, settings |-> settings, ids |-> Ids]]
  /\ ops' = ops + 1
  /\ UNCHANGED <<tables, reflection, file, history>>

NoPatch == [x \in Fields |-> None]
BeginGet(c) == Open(c, "get", Default, None, NoPatch)
BeginUpsert(c) == \E r \in Resumes \cup {None} : Open(c, "put", Default, Changed(Default, r), NoPatch)
BeginCreate(c) == \E r \in Resumes \cup {None} : Open(c, "post", None, r, NoPatch)
BeginEdit(c) == \E p \in Ids, r \in Resumes \cup {None} : Open(c, "put", p, Changed(p, r), NoPatch)
BeginDelete(c) == \E p \in Ids : Deletable(p) /\ Open(c, "delete", p, None, NoPatch)
BeginSave(c) == \E s \in Saves : Valid(Merged(settings, s)) /\ Open(c, "save", None, None, s)

-----------------------------------------------------------------------------
(* What a request commits *)

\* The unique index on (provider, provider_user_id).
IdentityFreeMutant(q) == TRUE
IdentityFree(q) == q.new => workspaces = {}

\* An UPDATE of a row that is gone matches nothing and raises; without one, the
\* answer reads the row again and raises.
Lands(q) == q.kind = "put" /\ q.target # None => q.target \in Ids

WriteProfiles(q) ==
  \/ /\ q.kind = "save" \/ (q.kind = "get" /\ q.target # None)
     /\ UNCHANGED profiles
  \/ /\ q.kind \in {"get", "put", "post"} /\ q.target = None
     /\ Insert(q.id, q.resume)
  \/ /\ q.kind = "put" /\ q.target # None
     /\ Update(q.target, q.resume)
  \/ /\ q.kind = "delete"
     /\ profiles' = Without(q.target)

\* A save that changes nothing of what it read writes nothing.
WriteSettings(q) ==
  \/ q.kind # "save" /\ UNCHANGED <<settings, saved>>
  \/ /\ q.kind = "save"
     /\ LET merged == Merged(q.settings, q.patch) IN
        settings' \in {merged} \cup (IF merged = q.settings THEN {settings} ELSE {})
     /\ saved' = [x \in Fields |-> IF q.patch[x] = None THEN saved[x] ELSE q.patch[x]]

Commit(c) ==
  /\ request[c] # Idle
  /\ LET q == request[c] IN
     /\ IdentityFree(q) /\ Lands(q)
     /\ workspaces' = workspaces \cup {q.home}
     /\ WriteProfiles(q)
     /\ WriteSettings(q)
     /\ served' = served \cup {q.home}
     /\ raced' = raced \cup (IF q.kind = "save" /\ q.settings # settings THEN {"settings"} ELSE {})
                       \cup (IF q.kind = "delete" /\ q.ids # Ids THEN {"profiles"} ELSE {})
  /\ request' = [request EXCEPT ![c] = Idle]
  /\ UNCHANGED <<strategy, reflection, file, ops, applied>>

\* The index or the missing row raises, or the process dies.
Rollback(c) ==
  /\ request[c] # Idle
  /\ request' = [request EXCEPT ![c] = Idle]
  /\ UNCHANGED <<tables, reflection, file, ops, history>>

-----------------------------------------------------------------------------
(* A reflection run *)

Keep == <<workspaces, profiles, settings, request, served, saved>>
Phase(f) == reflection[f].phase
Enter(f, phase, seen) == reflection' = [reflection EXCEPT ![f] = [phase |-> phase, seen |-> seen]]
Forget(f) == file' = [file EXCEPT ![f] = None]   \* nobody reads it again

Start(f) == Phase(f) = "queued" /\ workspaces # {} /\ ops < MaxOps /\ ops' = ops + 1

\* The agent leaves a patch file, or none, and the gate passes its manifest.
Pass(f) ==
  /\ Start(f)
  /\ Enter(f, "passed", None)
  /\ \E g \in Files : file' = [file EXCEPT ![f] = g]
  /\ UNCHANGED <<Keep, strategy, applied, raced>>

\* The input is invalid, the agent fails, runs out of time or leaves no
\* manifest, or the gate fails: somebody has to look at the run.
NeedsReview(f) ==
  /\ Start(f)
  /\ Enter(f, "needs_review", None)
  /\ UNCHANGED <<Keep, strategy, file, applied, raced>>

\* No patch, a missing file or one that does not validate: the run succeeds
\* and the document stays.
SucceedWithoutPatch(f) ==
  /\ Phase(f) = "passed" /\ ~Sound(file[f])
  /\ Enter(f, "succeeded", None) /\ Forget(f)
  /\ UNCHANGED <<Keep, strategy, ops, applied, raced>>

\* The last transaction of the run reads the document as it is now.
BeginApply(f) ==
  /\ Phase(f) = "passed" /\ Sound(file[f])
  /\ Enter(f, "applying", strategy)
  /\ UNCHANGED <<Keep, strategy, file, ops, applied, raced>>

\* What the row's UPDATE leaves there.  It sets the columns that changed: a
\* patch that adds nothing to the document it read writes no document.
Upserted(f, seen) ==
  LET new == Apply(IF seen = None THEN Empty ELSE seen.doc, Flat(file[f])) IN
  {[doc |-> new, last |-> f]}
    \cup (IF seen # None /\ new = seen.doc THEN {[doc |-> strategy.doc, last |-> f]} ELSE {})

CommitApply(f) ==
  /\ Phase(f) = "applying"
  /\ strategy' \in Upserted(f, reflection[f].seen)
  /\ applied' = Append(applied, f)
  /\ raced' = raced \cup (IF reflection[f].seen # strategy THEN {"strategy"} ELSE {})
  /\ Enter(f, "succeeded", None)
  /\ UNCHANGED <<Keep, file, ops>>

\* Two first patches insert the row at once and the unique constraint raises,
\* or the worker dies: the transaction goes, the run's success with it.
Fail(f) ==
  /\ Phase(f) \in {"passed", "applying"}
  /\ Enter(f, "failed", None) /\ Forget(f)
  /\ UNCHANGED <<Keep, strategy, ops, applied, raced>>

-----------------------------------------------------------------------------
Init ==
  /\ workspaces = {} /\ profiles = <<>> /\ settings = DefaultSettings /\ strategy = None
  /\ request = [c \in Clients |-> Idle]
  /\ reflection = [f \in Reflections |-> [phase |-> "queued", seen |-> None]]
  /\ file = [f \in Reflections |-> None]
  /\ ops = 0
  /\ served = {} /\ saved = DefaultSettings /\ applied = <<>> /\ raced = {}

Next ==
  \/ \E c \in Clients : \/ BeginGet(c) \/ BeginUpsert(c) \/ BeginCreate(c) \/ BeginEdit(c)
                        \/ BeginDelete(c) \/ BeginSave(c) \/ Commit(c) \/ Rollback(c)
  \/ \E f \in Reflections : \/ Pass(f) \/ NeedsReview(f) \/ SucceedWithoutPatch(f)
                            \/ BeginApply(f) \/ CommitApply(f) \/ Fail(f)

Spec == Init /\ [][Next]_vars

-----------------------------------------------------------------------------
(* Properties *)

\* However many first requests of a new user arrive at once, every request
\* that was answered worked in one and the same workspace
\* (get_current_user, _provision_user).
OneWorkspace == Cardinality(served) <= 1

\* "Cannot delete the last one": a workspace that has a profile keeps one,
\* unless two deletions counted the same profiles; and no edit, however stale,
\* takes an imported resume from a profile (delete_profile, update).
ProfilesKept ==
  [][/\ profiles # <<>> => profiles' # <<>> \/ "profiles" \in raced'
     /\ \A p \in Ids \cap Ids' : Row(p).resume # None => Row(p)'.resume # None]_vars

\* Each setting is what the last answered save that named it gave it, and a
\* refused save left no part of itself behind, unless a save was written over
\* one it had not read (update_planner_settings).
SettingsKept == settings = saved \/ "settings" \in raced

\* The document holds everything that the patches recorded as applied taught,
\* the later word on each category and the last searches anybody proposed,
\* unless a reflection was written over one it had not read
\* (_best_effort_apply_strategy_patch).
LearningsKept ==
  LET Taught(i) == Flat(file[applied[i]])
      Spoke(c) == {i \in DOMAIN applied : Taught(i).coverage[c] # None}
      Proposed == {i \in DOMAIN applied : Taught(i).next # {}} IN
  "strategy" \in raced \/ IF applied = <<>> THEN strategy = None ELSE
    /\ \A x \in ListFields :
         strategy.doc.lists[x] = UNION {Taught(i).lists[x] : i \in DOMAIN applied}
    /\ \A c \in Categories : strategy.doc.coverage[c] =
         IF Spoke(c) = {} THEN None ELSE Taught(LastOf(Spoke(c))).coverage[c]
    /\ strategy.doc.next = IF Proposed = {} THEN {} ELSE Taught(LastOf(Proposed)).next
===============================================================================
