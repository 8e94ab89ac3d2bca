------------------------- MODULE WorkspaceStateProofs -------------------------
(***************************************************************************)
(* OneWorkspace, SettingsKept, LearningsKept and ProfilesKept for any      *)
(* number of tabs, operations, settings, profiles, reflections and         *)
(* patches.                                                                *)
(*                                                                         *)
(* OneWorkspace rests on the unique index alone: a transaction that found  *)
(* an identity works in the workspace it led to, and one that found none   *)
(* commits only while there still is none.  SettingsKept is inductive: a   *)
(* save over what it read is a save over what the last one left.           *)
(* LearningsKept follows from what one Apply adds to a document, and from  *)
(* the runs whose patch is recorded being done: their files stay.          *)
(* ProfilesKept holds because the name of a row is never given twice, and  *)
(* a deletion that goes ahead has counted another profile (ProfileInv).    *)
(***************************************************************************)
EXTENDS WorkspaceState, SequenceTheorems, FiniteSetTheorems, WellFoundedInduction, TLAPS

\* A transaction that did not provision its workspace found it.
Found(q) == q.new \/ q.home \in workspaces

OneHome ==
  /\ DOMAIN request = Clients
  /\ \A v, w \in workspaces : v = w
  /\ served \subseteq workspaces
  /\ \A c \in Clients : request[c] # Idle => Found(request[c])

\* What every request reads when it signs in is true of it then.
LEMMA OpenKeepsOneHome ==
  ASSUME OneHome, NEW c \in Clients, NEW kind, NEW target, NEW resume, NEW patch,
         Open(c, kind, target, resume, patch)
  PROVE  OneHome'
<1> DEFINE q == [kind |-> kind, home |-> Home, new |-> workspaces = {}, id |-> ops,
                 target |-> target, resume |-> resume, patch |-> patch,
                 settings |-> settings, ids |-> Ids]
<1>1. /\ request' = [request EXCEPT ![c] = q]
      /\ workspaces' = workspaces /\ served' = served
  BY DEF Open, tables, history
<1>2. q.new = (workspaces = {}) /\ q.home = Home
  OBVIOUS
<1>3. Found(q)
  <2>1. CASE workspaces = {}
    BY <2>1, <1>2 DEF Found
  <2>2. CASE workspaces # {}
    BY <2>2, <1>2 DEF Found, Home
  <2> QED BY <2>1, <2>2
<1> QED BY <1>1, <1>3 DEF OneHome, Found

THEOREM OneHomeHolds == Spec => []OneHome
<1>1. Init => OneHome
  BY DEF Init, OneHome
<1>2. OneHome /\ [Next]_vars => OneHome'
  <2> SUFFICES ASSUME OneHome, [Next]_vars PROVE OneHome'
    OBVIOUS
  <2>1. ASSUME NEW c \in Clients,
               \/ BeginGet(c) \/ BeginUpsert(c) \/ BeginCreate(c)
               \/ BeginEdit(c) \/ BeginDelete(c) \/ BeginSave(c)
        PROVE  OneHome'
    BY <2>1, OpenKeepsOneHome
       DEF BeginGet, BeginUpsert, BeginCreate, BeginEdit, BeginDelete, BeginSave
  <2>2. ASSUME NEW c \in Clients, Commit(c) PROVE OneHome'
    <3>1. PICK q : q = request[c]
      OBVIOUS
    <3>2. /\ q # Idle /\ IdentityFree(q)
          /\ workspaces' = workspaces \cup {q.home} /\ served' = served \cup {q.home}
          /\ request' = [request EXCEPT ![c] = Idle]
      BY <2>2, <3>1 DEF Commit
    <3>3. workspaces = {} \/ q.home \in workspaces
      BY <3>1, <3>2 DEF OneHome, Found, IdentityFree
    <3>4. \A v, w \in workspaces' : v = w
      BY <3>2, <3>3 DEF OneHome
    <3>5. served' \subseteq workspaces'
      BY <3>2 DEF OneHome
    <3>6. \A d \in Clients : request'[d] # Idle => Found(request[d]) /\ request'[d] = request[d]
      BY <3>2 DEF OneHome
    <3> QED BY <3>2, <3>4, <3>5, <3>6 DEF OneHome, Found
  <2>3. ASSUME NEW c \in Clients, Rollback(c) PROVE OneHome'
    <3>1. /\ request' = [request EXCEPT ![c] = Idle]
          /\ workspaces' = workspaces /\ served' = served
      BY <2>3 DEF Rollback, tables, history
    <3>2. \A d \in Clients : request'[d] # Idle => Found(request[d]) /\ request'[d] = request[d]
      BY <3>1 DEF OneHome
    <3> QED BY <3>1, <3>2 DEF OneHome, Found
  <2>4. ASSUME NEW f \in Reflections,
               \/ Pass(f) \/ NeedsReview(f) \/ SucceedWithoutPatch(f)
               \/ BeginApply(f) \/ CommitApply(f) \/ Fail(f)
        PROVE  OneHome'
    <3>1. UNCHANGED <<workspaces, request, served>>
      BY <2>4 DEF Pass, NeedsReview, SucceedWithoutPatch, BeginApply, CommitApply, Fail, Keep
    <3> QED BY <3>1 DEF OneHome, Found
  <2>5. CASE UNCHANGED vars
    BY <2>5 DEF OneHome, Found, vars, tables, history
  <2> QED BY <2>1, <2>2, <2>3, <2>4, <2>5 DEF Next
<1> QED BY <1>1, <1>2, PTL DEF Spec

\* Every answered request of the user worked in one workspace, however many
\* first requests race (get_current_user, _provision_user).
THEOREM OneWorkspaceHolds == Spec => []OneWorkspace
<1>1. OneHome => OneWorkspace
  <2> SUFFICES ASSUME OneHome PROVE Cardinality(served) <= 1
    BY DEF OneWorkspace
  <2>1. CASE served = {}
    BY <2>1, FS_EmptySet
  <2>2. CASE served # {}
    <3>1. PICK w : served = {w}
      BY <2>2 DEF OneHome
    <3> QED BY <3>1, FS_Singleton
  <2> QED BY <2>1, <2>2
<1> QED BY <1>1, OneHomeHolds, PTL

\* The settings are what the answered saves made of them, unless one of them
\* was written over a save it had not read (update_planner_settings).
THEOREM SettingsKeptHolds == Spec => []SettingsKept
<1>1. Init => SettingsKept
  BY DEF Init, SettingsKept
<1>2. SettingsKept /\ [Next]_vars => SettingsKept'
  <2> SUFFICES ASSUME SettingsKept, [Next]_vars PROVE SettingsKept'
    OBVIOUS
  <2>1. ASSUME NEW c \in Clients, Commit(c) PROVE SettingsKept'
    <3>1. PICK q : q = request[c]
      OBVIOUS
    <3>2. /\ WriteSettings(q)
          /\ raced \subseteq raced'
          /\ q.kind = "save" /\ q.settings # settings => "settings" \in raced'
      BY <2>1, <3>1 DEF Commit
    <3>3. CASE q.kind # "save"
      BY <3>2, <3>3 DEF WriteSettings, SettingsKept
    <3>4. CASE q.kind = "save" /\ "settings" \notin raced'
      <4>1. q.settings = settings /\ settings = saved
        BY <3>2, <3>4 DEF SettingsKept
      <4>2. settings' = Merged(q.settings, q.patch)
        BY <3>2, <3>4, <4>1 DEF WriteSettings
      <4>3. saved' = Merged(saved, q.patch)
        BY <3>2, <3>4 DEF WriteSettings, Merged
      <4> QED BY <4>1, <4>2, <4>3 DEF SettingsKept
    <3> QED BY <3>3, <3>4 DEF SettingsKept
  <2>2. ASSUME NEW c \in Clients,
               \/ BeginGet(c) \/ BeginUpsert(c) \/ BeginCreate(c) \/ BeginEdit(c)
               \/ BeginDelete(c) \/ BeginSave(c) \/ Rollback(c)
        PROVE  SettingsKept'
    BY <2>2 DEF BeginGet, BeginUpsert, BeginCreate, BeginEdit, BeginDelete, BeginSave,
                Rollback, Open, tables, history, SettingsKept
  <2>3. ASSUME NEW f \in Reflections,
               \/ Pass(f) \/ NeedsReview(f) \/ SucceedWithoutPatch(f)
               \/ BeginApply(f) \/ CommitApply(f) \/ Fail(f)
        PROVE  SettingsKept'
    BY <2>3 DEF Pass, NeedsReview, SucceedWithoutPatch, BeginApply, CommitApply, Fail,
                Keep, SettingsKept
  <2>4. CASE UNCHANGED vars
    BY <2>4 DEF SettingsKept, vars, tables, history
  <2> QED BY <2>1, <2>2, <2>3, <2>4 DEF Next
<1> QED BY <1>1, <1>2, PTL DEF Spec

-----------------------------------------------------------------------------
(* The strategy document *)

\* A set of positions that is not empty has a last one.
LEMMA LastIsIn ==
  ASSUME NEW n \in Nat, NEW S \in SUBSET (1 .. n), S # {}
  PROVE  LastOf(S) \in S /\ \A j \in S : j <= LastOf(S)
<1> DEFINE Steps == {n - i : i \in S}
           Less == {p \in Nat \X Nat : p[1] < p[2]}
<1>1. Steps \subseteq Nat /\ Steps # {}
  <2>1. \A i \in S : i \in 1 .. n
    OBVIOUS
  <2>2. \A i \in S : n - i \in Nat
    BY <2>1
  <2> QED
    BY <2>2
<1>2. PICK m \in Steps : \A k \in Steps : <<k, m>> \notin Less
  <2>1. OpToRel(<, Nat) = Less
    BY Zenon DEF OpToRel
  <2> HIDE DEF Less, Steps
  <2>2. IsWellFoundedOn(Less, Nat)
    BY <2>1, NatLessThanWellFounded, Zenon
  <2> QED
    BY <1>1, <2>2, WFMin, Zenon
<1>3. PICK i \in S : m = n - i
  BY <1>2
<1>4. \A j \in S : j <= i
  <2>1. ASSUME NEW j \in S PROVE j <= i
    <3>1. n - j \in Nat /\ n - i \in Nat /\ ~ (n - j < n - i)
      BY <1>1, <1>2, <1>3
    <3> QED BY <3>1
  <2> QED BY <2>1
<1> QED
  BY <1>4 DEF LastOf

\* A patch reads as a document, and a patch over a document is one.
LEMMA PatchesAreDocuments ==
  /\ Empty \in Documents
  /\ \A g \in Files : Sound(g) => Flat(g) \in Documents
  /\ \A base, patch \in Documents : Apply(base, patch) \in Documents
<1>1. Empty \in Documents
  BY DEF Empty, Documents
<1>2. ASSUME NEW g \in Files, Sound(g)
      PROVE  Flat(g) \in Documents
  <2> DEFINE R == [field : STRING, items : SUBSET Items, about : Categories \cup {None},
                   level : Levels \cup {None}]
  <2>1. g.ops \in Seq(R)
    BY FilesAreFiles
  <2>2. \A i \in DOMAIN g.ops : g.ops[i] \in R
    <3> HIDE DEF R
    <3> QED BY <2>1
  <2>3. \A i \in DOMAIN g.ops : /\ g.ops[i].items \in SUBSET Items
                                /\ g.ops[i].level \in Levels \cup {None}
    BY <2>2
  <2>4. \A S \in SUBSET DOMAIN g.ops : S # {} => LastOf(S) \in DOMAIN g.ops
    <3>1. Len(g.ops) \in Nat /\ DOMAIN g.ops = 1 .. Len(g.ops)
      BY <2>1
    <3> QED
      BY <3>1, LastIsIn
  <2> DEFINE About(c) == {i \in OpsOn(g, "coverage_by_role_category") : g.ops[i].about = c}
             Sets == OpsOn(g, "recommended_next_searches")
  <2>5. (\A c : About(c) \in SUBSET DOMAIN g.ops) /\ Sets \in SUBSET DOMAIN g.ops
    BY DEF OpsOn
  <2>6. [x \in ListFields |-> UNION {g.ops[i].items : i \in OpsOn(g, x)}]
           \in [ListFields -> SUBSET Items]
    BY <2>3 DEF OpsOn
  <2>7. [c \in Categories |-> IF About(c) = {} THEN None ELSE g.ops[LastOf(About(c))].level]
           \in [Categories -> Levels \cup {None}]
    <3>1. \A c \in Categories :
            (IF About(c) = {} THEN None ELSE g.ops[LastOf(About(c))].level) \in Levels \cup {None}
      <4> SUFFICES ASSUME NEW c \in Categories, About(c) # {}
                   PROVE  g.ops[LastOf(About(c))].level \in Levels \cup {None}
        OBVIOUS
      <4>1. LastOf(About(c)) \in DOMAIN g.ops
        BY <2>4, <2>5
      <4> QED
        BY <2>3, <4>1
    <3> HIDE DEF About
    <3> QED
      BY <3>1
  <2>8. (IF Sets = {} THEN {} ELSE g.ops[LastOf(Sets)].items) \in SUBSET Items
    BY <2>3, <2>4, <2>5
  <2> QED
    BY <2>6, <2>7, <2>8 DEF Flat, Documents
<1>3. ASSUME NEW base \in Documents, NEW patch \in Documents
      PROVE  Apply(base, patch) \in Documents
  BY <1>3 DEF Apply, Documents
<1> QED
  BY <1>1, <1>2, <1>3

\* doc says what n patches taught, the last word on each category and the last
\* searches proposed.
Says(doc, taught, n) ==
  LET Spoke(c) == {i \in 1 .. n : taught[i].coverage[c] # None}
      Proposed == {i \in 1 .. n : taught[i].next # {}} IN
  /\ \A x \in ListFields : doc.lists[x] = UNION {taught[i].lists[x] : i \in 1 .. n}
  /\ \A c \in Categories : doc.coverage[c] =
       IF Spoke(c) = {} THEN None ELSE taught[LastOf(Spoke(c))].coverage[c]
  /\ doc.next = IF Proposed = {} THEN {} ELSE taught[LastOf(Proposed)].next

\* A document says one patch more once it is applied.
LEMMA ApplySays ==
  ASSUME NEW n \in Nat, NEW taught, NEW more, NEW doc, NEW patch,
         \A i \in 1 .. n : more[i] = taught[i], more[n + 1] = patch,
         Says(doc, taught, n)
  PROVE  Says(Apply(doc, patch), more, n + 1)
<1> DEFINE Spoke(c) == {i \in 1 .. n : taught[i].coverage[c] # None}
           Speak(c) == {i \in 1 .. n + 1 : more[i].coverage[c] # None}
           Proposed == {i \in 1 .. n : taught[i].next # {}}
           Propose == {i \in 1 .. n + 1 : more[i].next # {}}
           new == Apply(doc, patch)
<1>1. 1 .. n + 1 = (1 .. n) \cup {n + 1} /\ n + 1 \notin 1 .. n
  OBVIOUS
<1>2. ASSUME NEW S \in SUBSET (1 .. n + 1), n + 1 \in S
      PROVE  LastOf(S) = n + 1
  <2>1. n + 1 \in Nat /\ S # {}
    BY <1>2
  <2>2. LastOf(S) \in S /\ \A j \in S : j <= LastOf(S)
    BY <1>2, <2>1, LastIsIn, Zenon
  <2>3. PICK k : k = LastOf(S)
    OBVIOUS
  <2>4. k \in 1 .. n + 1 /\ n + 1 <= k
    BY <1>2, <2>2, <2>3
  <2> QED
    BY <2>3, <2>4
<1>3. ASSUME NEW x \in ListFields
      PROVE  new.lists[x] = UNION {more[i].lists[x] : i \in 1 .. n + 1}
  <2>1. new.lists[x] = doc.lists[x] \cup patch.lists[x]
    BY DEF Apply
  <2>2. doc.lists[x] = UNION {taught[i].lists[x] : i \in 1 .. n}
    BY DEF Says
  <2>3. UNION {more[i].lists[x] : i \in 1 .. n + 1}
          = (UNION {more[i].lists[x] : i \in 1 .. n}) \cup more[n + 1].lists[x]
    BY <1>1
  <2>4. UNION {more[i].lists[x] : i \in 1 .. n} = UNION {taught[i].lists[x] : i \in 1 .. n}
    OBVIOUS
  <2> QED
    BY <2>1, <2>2, <2>3, <2>4
<1>4. ASSUME NEW c \in Categories
      PROVE  new.coverage[c] = IF Speak(c) = {} THEN None ELSE more[LastOf(Speak(c))].coverage[c]
  <2>1. /\ doc.coverage[c] =
             IF Spoke(c) = {} THEN None ELSE taught[LastOf(Spoke(c))].coverage[c]
        /\ new.coverage[c] =
             IF patch.coverage[c] = None THEN doc.coverage[c] ELSE patch.coverage[c]
    BY DEF Says, Apply
  <2>2. CASE patch.coverage[c] = None
    <3>1. Speak(c) = Spoke(c)
      BY <1>1, <2>2
    <3>2. Spoke(c) # {} => LastOf(Spoke(c)) \in 1 .. n
      BY LastIsIn
    <3> QED
      BY <2>1, <2>2, <3>1, <3>2
  <2>3. CASE patch.coverage[c] # None
    <3>1. n + 1 \in Speak(c) /\ Speak(c) \subseteq 1 .. n + 1
      BY <1>1, <2>3
    <3>2. LastOf(Speak(c)) = n + 1
      BY <1>2, <3>1
    <3> QED
      BY <2>1, <2>3, <3>1, <3>2
  <2> QED
    BY <2>2, <2>3
<1>5. new.next = IF Propose = {} THEN {} ELSE more[LastOf(Propose)].next
  <2>1. /\ doc.next = IF Proposed = {} THEN {} ELSE taught[LastOf(Proposed)].next
        /\ new.next = IF patch.next = {} THEN doc.next ELSE patch.next
    BY DEF Says, Apply
  <2>2. CASE patch.next = {}
    <3>1. Propose = Proposed
      BY <1>1, <2>2
    <3>2. Proposed # {} => LastOf(Proposed) \in 1 .. n
      BY LastIsIn
    <3> QED
      BY <2>1, <2>2, <3>1, <3>2
  <2>3. CASE patch.next # {}
    <3>1. n + 1 \in Propose /\ Propose \subseteq 1 .. n + 1
      BY <1>1, <2>3
    <3>2. LastOf(Propose) = n + 1
      BY <1>2, <3>1
    <3> QED
      BY <2>1, <2>3, <3>1, <3>2
  <2> QED
    BY <2>2, <2>3
<1> QED
  BY <1>3, <1>4, <1>5, Zenon DEF Says

\* The rows of search_strategy_states, and what the runs of reflection hold:
\* one that applies its patch has a sound one, and one that applied it is done.
Rows == [doc : Documents, last : Reflections]

StrategyType ==
  /\ applied \in Seq(Reflections)
  /\ strategy \in Rows \cup {None}
  /\ file \in [Reflections -> Files \cup {None}] /\ DOMAIN reflection = Reflections
  /\ \A f \in Reflections :
       /\ Phase(f) \in {"passed", "applying"} => file[f] \in Files
       /\ Phase(f) = "applying" =>
            /\ Sound(file[f]) /\ reflection[f].seen \in Rows \cup {None}
            /\ reflection[f].seen # None => strategy # None
  /\ \A i \in DOMAIN applied : Phase(applied[i]) = "succeeded"

TaughtSoFar == [i \in DOMAIN applied |-> Flat(file[applied[i]])]

LearnInv ==
  /\ StrategyType
  /\ \/ "strategy" \in raced
     \/ /\ applied = <<>> <=> strategy = None
        /\ applied # <<>> => Says(strategy.doc, TaughtSoFar, Len(applied))

LEMMA LearnInvMeansKept == LearnInv => LearningsKept
<1> SUFFICES ASSUME LearnInv PROVE LearningsKept
  OBVIOUS
<1>1. DOMAIN applied = 1 .. Len(applied)
  BY DEF LearnInv, StrategyType
<1>2. CASE "strategy" \in raced \/ applied = <<>>
  BY <1>2 DEF LearnInv, LearningsKept
<1>3. CASE "strategy" \notin raced /\ applied # <<>>
  <2> DEFINE t == TaughtSoFar
  <2>1. Says(strategy.doc, t, Len(applied))
    BY <1>3 DEF LearnInv
  <2>2. \A i \in DOMAIN applied : t[i] = Flat(file[applied[i]])
    BY DEF TaughtSoFar
  <2> DEFINE n == Len(applied)
             Spoke(c) == {i \in 1 .. n : t[i].coverage[c] # None}
             Proposed == {i \in 1 .. n : t[i].next # {}}
             SpokeOf(c) == {i \in DOMAIN applied : Flat(file[applied[i]]).coverage[c] # None}
             ProposedOf == {i \in DOMAIN applied : Flat(file[applied[i]]).next # {}}
  <2> HIDE DEF t
  <2>3. n \in Nat
    BY DEF LearnInv, StrategyType
  <2>4. ASSUME NEW x \in ListFields
        PROVE  strategy.doc.lists[x] = UNION {Flat(file[applied[i]]).lists[x] : i \in DOMAIN applied}
    <3>1. strategy.doc.lists[x] = UNION {t[i].lists[x] : i \in 1 .. n}
      BY <2>1 DEF Says
    <3> QED
      BY <1>1, <2>2, <3>1
  <2>5. ASSUME NEW c \in Categories
        PROVE  strategy.doc.coverage[c] =
                 IF SpokeOf(c) = {} THEN None
                 ELSE Flat(file[applied[LastOf(SpokeOf(c))]]).coverage[c]
    <3>1. strategy.doc.coverage[c] = IF Spoke(c) = {} THEN None ELSE t[LastOf(Spoke(c))].coverage[c]
      BY <2>1 DEF Says
    <3>2. Spoke(c) = SpokeOf(c)
      BY <1>1, <2>2
    <3>3. Spoke(c) # {} => LastOf(Spoke(c)) \in DOMAIN applied
      BY <1>1, <2>3, LastIsIn
    <3> QED
      BY <2>2, <3>1, <3>2, <3>3
  <2>6. strategy.doc.next = IF ProposedOf = {} THEN {} ELSE Flat(file[applied[LastOf(ProposedOf)]]).next
    <3>1. strategy.doc.next = IF Proposed = {} THEN {} ELSE t[LastOf(Proposed)].next
      BY <2>1 DEF Says
    <3>2. Proposed = ProposedOf
      BY <1>1, <2>2
    <3>3. Proposed # {} => LastOf(Proposed) \in DOMAIN applied
      BY <1>1, <2>3, LastIsIn
    <3> QED
      BY <2>2, <3>1, <3>2, <3>3
  <2> QED
    BY <1>3, <2>4, <2>5, <2>6 DEF LearningsKept
<1> QED
  BY <1>2, <1>3

\* A step that applies no patch leaves what the applied ones taught.
LEMMA LearnQuiet ==
  ASSUME LearnInv, StrategyType', UNCHANGED <<applied, strategy>>, raced \subseteq raced',
         \A i \in DOMAIN applied : file'[applied[i]] = file[applied[i]]
  PROVE  LearnInv'
<1>1. TaughtSoFar' = TaughtSoFar
  BY DEF TaughtSoFar
<1> QED
  BY <1>1 DEF LearnInv

\* A run that is not done moves on, without a patch applied.
LEMMA LearnMoves ==
  ASSUME LearnInv, NEW f \in Reflections, Phase(f) # "succeeded",
         UNCHANGED <<applied, strategy, raced>>,
         NEW phase, NEW seen, Enter(f, phase, seen),
         NEW g, file' = [file EXCEPT ![f] = g],
         g \in Files \cup {None}, phase \in {"passed", "applying"} => g \in Files,
         phase = "applying" =>
           Sound(g) /\ seen \in Rows \cup {None} /\ (seen # None => strategy # None)
  PROVE  LearnInv'
<1>1. /\ Phase(f)' = phase /\ reflection'[f].seen = seen /\ file'[f] = g
      /\ \A h \in Reflections \ {f} : reflection'[h] = reflection[h] /\ file'[h] = file[h]
      /\ file' \in [Reflections -> Files \cup {None}] /\ DOMAIN reflection' = Reflections
  BY DEF Enter, Phase, LearnInv, StrategyType
<1>2. \A i \in DOMAIN applied : applied[i] \in Reflections \ {f}
  BY DEF LearnInv, StrategyType
<1>3. StrategyType'
  BY <1>1, <1>2 DEF LearnInv, StrategyType, Phase
<1>4. \A i \in DOMAIN applied : file'[applied[i]] = file[applied[i]]
  BY <1>1, <1>2
<1> QED
  BY <1>3, <1>4, LearnQuiet

LEMMA LearnCommit ==
  ASSUME LearnInv, NEW f \in Reflections, CommitApply(f)
  PROVE  LearnInv'
<1> DEFINE seen == reflection[f].seen
           patch == Flat(file[f])
           base == IF seen = None THEN Empty ELSE seen.doc
           new == Apply(base, patch)
<1>1. /\ applied' = Append(applied, f) /\ file' = file
      /\ Phase(f)' = "succeeded"
      /\ \A h \in Reflections \ {f} : reflection'[h] = reflection[h]
      /\ DOMAIN reflection' = Reflections
      /\ Phase(f) = "applying" /\ file[f] \in Files /\ Sound(file[f])
      /\ seen \in Rows \cup {None} /\ (seen # None => strategy # None)
  BY DEF CommitApply, Enter, Phase, LearnInv, StrategyType
<1>2. new \in Documents
  <2>1. base \in Documents
    BY <1>1, PatchesAreDocuments DEF Rows
  <2> QED
    BY <1>1, <2>1, PatchesAreDocuments
<1>3. /\ \/ strategy' = [doc |-> new, last |-> f]
         \/ seen # None /\ new = seen.doc /\ strategy' = [doc |-> strategy.doc, last |-> f]
      /\ raced \subseteq raced'
      /\ seen # strategy => "strategy" \in raced'
  <2>1. strategy' \in Upserted(f, seen)
    BY DEF CommitApply
  <2>2. \/ strategy' = [doc |-> new, last |-> f]
        \/ seen # None /\ new = seen.doc /\ strategy' = [doc |-> strategy.doc, last |-> f]
    BY <2>1 DEF Upserted
  <2>3. raced' = raced \cup (IF seen # strategy THEN {"strategy"} ELSE {})
    BY DEF CommitApply
  <2> QED
    BY <2>2, <2>3
<1>4. PICK n : n = Len(applied)
  OBVIOUS
<1>5. /\ n \in Nat /\ DOMAIN applied = 1 .. n /\ DOMAIN applied' = 1 .. n + 1
      /\ Len(applied') = n + 1 /\ applied' \in Seq(Reflections) /\ applied' # <<>>
      /\ applied'[n + 1] = f /\ \A i \in 1 .. n : applied'[i] = applied[i]
  BY <1>1, <1>4 DEF LearnInv, StrategyType
<1>6. \A i \in 1 .. n + 1 : reflection'[applied'[i]].phase = "succeeded"
  <2>1. ASSUME NEW i \in 1 .. n
        PROVE  reflection'[applied'[i]].phase = "succeeded"
    <3>1. applied'[i] = applied[i] /\ applied[i] \in Reflections /\ Phase(applied[i]) = "succeeded"
      BY <1>5 DEF LearnInv, StrategyType
    <3> QED
      BY <1>1, <3>1 DEF Phase
  <2> QED
    BY <1>1, <1>5, <2>1 DEF Phase
<1>7. strategy' \in Rows /\ strategy' # None
  <2>1. CASE strategy' = [doc |-> new, last |-> f]
    BY <1>2, <2>1, NoneIsNoRow DEF Rows
  <2>2. CASE seen # None /\ new = seen.doc /\ strategy' = [doc |-> strategy.doc, last |-> f]
    BY <1>1, <2>2, NoneIsNoRow DEF Rows, LearnInv, StrategyType
  <2> QED
    BY <1>3, <2>1, <2>2
<1>8. StrategyType'
  <2>1. ASSUME NEW h \in Reflections
        PROVE  /\ reflection'[h].phase \in {"passed", "applying"} => file'[h] \in Files
               /\ reflection'[h].phase = "applying" =>
                    /\ Sound(file'[h]) /\ reflection'[h].seen \in Rows \cup {None}
                    /\ reflection'[h].seen # None => strategy' # None
    <3>1. CASE h = f
      BY <1>1, <3>1 DEF Phase
    <3>2. CASE h # f
      BY <1>1, <1>7, <3>2 DEF LearnInv, StrategyType, Phase
    <3> QED
      BY <3>1, <3>2
  <2>2. \A i \in DOMAIN applied' : reflection'[applied'[i]].phase = "succeeded"
    BY <1>5, <1>6
  <2>3. file' \in [Reflections -> Files \cup {None}]
    BY <1>1 DEF LearnInv, StrategyType
  <2> QED
    BY <1>1, <1>5, <1>7, <2>1, <2>2, <2>3 DEF StrategyType, Phase
<1>9. CASE "strategy" \in raced'
  BY <1>8, <1>9 DEF LearnInv
<1>10. CASE "strategy" \notin raced'
  <2>1. seen = strategy /\ strategy' = [doc |-> new, last |-> f]
    BY <1>3, <1>10
  <2>2. PICK t, u : t = TaughtSoFar /\ u = TaughtSoFar'
    OBVIOUS
  <2>3. u[n + 1] = patch /\ \A i \in 1 .. n : u[i] = t[i]
    BY <1>1, <1>5, <2>2 DEF TaughtSoFar
  <2>4. Says(base, t, n)
    <3>1. CASE applied = <<>>
      <4>1. n = 0 /\ base = Empty
        BY <1>3, <1>4, <1>10, <2>1, <3>1 DEF LearnInv
      <4> QED
        BY <4>1 DEF Says, Empty
    <3>2. CASE applied # <<>>
      <4>1. base = strategy.doc
        BY <1>3, <1>10, <2>1, <3>2 DEF LearnInv
      <4> QED
        BY <1>3, <1>4, <1>10, <2>2, <3>2, <4>1 DEF LearnInv
    <3> QED
      BY <3>1, <3>2
  <2>5. Says(new, u, n + 1)
    <3> HIDE DEF base, patch
    <3> QED
      BY <1>5, <2>3, <2>4, ApplySays
  <2>6. Says(strategy'.doc, u, Len(applied'))
    <3>1. strategy'.doc = new
      BY <2>1
    <3> HIDE DEF new
    <3> QED
      BY <1>5, <2>5, <3>1
  <2> QED
    BY <1>5, <1>7, <1>8, <2>2, <2>6 DEF LearnInv
<1> QED
  BY <1>9, <1>10

\* The document holds what every patch recorded as applied taught, unless a
\* reflection was written over one it had not read, for any number of
\* reflections, patches and operations (_best_effort_apply_strategy_patch).
THEOREM LearningsKeptHolds == Spec => []LearningsKept
<1>1. Init => LearnInv
  BY DEF Init, LearnInv, StrategyType, Phase
<1>2. LearnInv /\ [Next]_vars => LearnInv'
  <2> SUFFICES ASSUME LearnInv, [Next]_vars PROVE LearnInv'
    OBVIOUS
  <2>1. ASSUME NEW c \in Clients,
               \/ BeginGet(c) \/ BeginUpsert(c) \/ BeginCreate(c) \/ BeginEdit(c)
               \/ BeginDelete(c) \/ BeginSave(c) \/ Commit(c) \/ Rollback(c)
        PROVE  LearnInv'
    <3>1. UNCHANGED <<applied, strategy, reflection, file>> /\ raced \subseteq raced'
      BY <2>1 DEF BeginGet, BeginUpsert, BeginCreate, BeginEdit, BeginDelete, BeginSave,
                  Commit, Rollback, Open, tables, history
    <3>2. StrategyType'
      BY <3>1 DEF LearnInv, StrategyType, Phase
    <3> QED
      BY <3>1, <3>2, LearnQuiet
  <2>2. ASSUME NEW f \in Reflections, Pass(f)
        PROVE  LearnInv'
    <3>1. PICK g \in Files : file' = [file EXCEPT ![f] = g]
      BY <2>2 DEF Pass
    <3>2. /\ Phase(f) # "succeeded" /\ Enter(f, "passed", None)
          /\ UNCHANGED <<applied, strategy, raced>>
      BY <2>2 DEF Pass, Start
    <3>3. "applying" # "passed" /\ "applying" # "needs_review" /\ "passed" # "needs_review"
      OBVIOUS
    <3> QED
      BY <3>1, <3>2, <3>3, LearnMoves, Zenon
  <2>3. ASSUME NEW f \in Reflections, NeedsReview(f)
        PROVE  LearnInv'
    <3>1. file' = [file EXCEPT ![f] = file[f]]
      BY <2>3 DEF NeedsReview, LearnInv, StrategyType
    <3>2. /\ Phase(f) # "succeeded" /\ Enter(f, "needs_review", None)
          /\ UNCHANGED <<applied, strategy, raced>> /\ file[f] \in Files \cup {None}
      BY <2>3 DEF NeedsReview, Start, LearnInv, StrategyType
    <3>3. "applying" # "passed" /\ "applying" # "needs_review" /\ "passed" # "needs_review"
      OBVIOUS
    <3> QED
      BY <3>1, <3>2, <3>3, LearnMoves, Zenon
  <2>4. ASSUME NEW f \in Reflections, SucceedWithoutPatch(f) \/ Fail(f)
        PROVE  LearnInv'
    BY <2>4, LearnMoves DEF SucceedWithoutPatch, Fail, Forget
  <2>5. ASSUME NEW f \in Reflections, BeginApply(f)
        PROVE  LearnInv'
    <3>1. file' = [file EXCEPT ![f] = file[f]]
      BY <2>5 DEF BeginApply, LearnInv, StrategyType
    <3>2. Sound(file[f]) /\ file[f] \in Files /\ strategy \in Rows \cup {None}
      BY <2>5 DEF BeginApply, LearnInv, StrategyType
    <3> QED
      BY <2>5, <3>1, <3>2, LearnMoves DEF BeginApply
  <2>6. ASSUME NEW f \in Reflections, CommitApply(f)
        PROVE  LearnInv'
    BY <2>6, LearnCommit
  <2>7. CASE UNCHANGED vars
    <3>1. UNCHANGED <<applied, strategy, reflection, file, raced>>
      BY <2>7 DEF vars, tables, history
    <3>2. StrategyType'
      BY <3>1 DEF LearnInv, StrategyType, Phase
    <3> QED
      BY <3>1, <3>2, LearnQuiet
  <2> QED
    BY <2>1, <2>2, <2>3, <2>4, <2>5, <2>6, <2>7 DEF Next
<1> QED
  BY <1>1, <1>2, LearnInvMeansKept, PTL DEF Spec
-----------------------------------------------------------------------------
(* Profiles *)

Profiles == [id : Nat, resume : Resumes \cup {None}]
OneRowEach(s) == \A i, j \in DOMAIN s : s[i].id = s[j].id => i = j

\* A row is named once: its name is older than the next operation's, and a
\* transaction that may still insert has a name of its own.
NamesInv ==
  /\ ops \in Nat /\ DOMAIN request = Clients
  /\ profiles \in Seq(Profiles) /\ OneRowEach(profiles)
  /\ \A i \in DOMAIN profiles : profiles[i].id < ops
  /\ \A c \in Clients : request[c] # Idle =>
       /\ request[c].id \in Nat /\ request[c].id < ops /\ request[c].id \notin Ids
       /\ request[c].resume \in Resumes \cup {None}
  /\ \A c, d \in Clients :
       request[c] # Idle /\ request[d] # Idle /\ request[c].id = request[d].id => c = d

\* A deletion that was not refused counted another profile.
CountedInv ==
  \A c \in Clients : request[c] # Idle /\ request[c].kind = "delete" =>
    \E p \in request[c].ids : p # request[c].target

ProfileInv == NamesInv /\ CountedInv

LEMMA NamesAreNat ==
  ASSUME ProfileInv
  PROVE  \A i \in DOMAIN profiles : profiles[i].id \in Nat
<1>1. \A i \in DOMAIN profiles : profiles[i] \in Profiles
  BY DEF ProfileInv, NamesInv
<1> QED
  BY <1>1 DEF Profiles

LEMMA PositionOf ==
  ASSUME ProfileInv, NEW p \in Ids
  PROVE  /\ Position(p) \in DOMAIN profiles /\ profiles[Position(p)].id = p
         /\ \A i \in DOMAIN profiles : profiles[i].id = p => i = Position(p)
<1>1. PICK i \in DOMAIN profiles : profiles[i].id = p
  BY DEF Ids
<1>2. Position(p) \in DOMAIN profiles /\ profiles[Position(p)].id = p
  BY <1>1 DEF Position
<1> QED
  BY <1>2 DEF ProfileInv, NamesInv, OneRowEach

\* A sequence without one of its rows.
LEMMA RemoveAtParts ==
  ASSUME NEW S, NEW s \in Seq(S), NEW i \in DOMAIN s
  PROVE  /\ RemoveAt(s, i) \in Seq(S) /\ Len(RemoveAt(s, i)) = Len(s) - 1
         /\ \A k \in 1 .. Len(s) - 1 : RemoveAt(s, i)[k] = IF k < i THEN s[k] ELSE s[k + 1]
<1>1. Len(s) \in Nat /\ i \in 1 .. Len(s)
  OBVIOUS
<1> DEFINE u == SubSeq(s, 1, i - 1)
           v == SubSeq(s, i + 1, Len(s))
<1>2. u \in Seq(S) /\ Len(u) = i - 1 /\ \A k \in 1 .. i - 1 : u[k] = s[k]
  BY <1>1
<1>3. v \in Seq(S) /\ Len(v) = Len(s) - i /\ \A k \in 1 .. Len(s) - i : v[k] = s[k + i]
  BY <1>1
<1>4. RemoveAt(s, i) = u \o v
  BY DEF RemoveAt
<1> HIDE DEF u, v
<1>5. u \o v \in Seq(S) /\ Len(u \o v) = Len(s) - 1
  BY <1>1, <1>2, <1>3
<1>6. ASSUME NEW k \in 1 .. Len(s) - 1
      PROVE  (u \o v)[k] = IF k < i THEN s[k] ELSE s[k + 1]
  <2>1. CASE k < i
    BY <1>1, <1>2, <1>3, <2>1
  <2>2. CASE ~ (k < i)
    <3>1. PICK j : j = k - (i - 1)
      OBVIOUS
    <3>2. j \in 1 .. Len(s) - i /\ j + i = k + 1 /\ j = k - Len(u)
      BY <1>1, <1>2, <2>2, <3>1
    <3>3. k \in Len(u) + 1 .. Len(u) + Len(v)
      BY <1>1, <1>2, <1>3, <2>2
    <3>4. (u \o v)[k] = v[k - Len(u)]
      <4>1. k \in 1 .. Len(u) + Len(v) /\ ~ (k <= Len(u))
        BY <1>2, <1>3, <3>3
      <4> QED
        BY <1>2, <1>3, <4>1, ConcatProperties, Zenon
    <3>5. v[j] = s[j + i]
      BY <1>3, <3>2, Zenon
    <3> QED
      BY <2>2, <3>2, <3>4, <3>5
  <2> QED
    BY <2>1, <2>2
<1> QED
  BY <1>4, <1>5, <1>6

\* Deleting a row leaves the others.
LEMMA WithoutRows ==
  ASSUME ProfileInv, NEW p
  PROVE  /\ Without(p) \in Seq(Profiles) /\ OneRowEach(Without(p))
         /\ \A k \in DOMAIN Without(p) :
              Without(p)[k].id # p /\ \E i \in DOMAIN profiles : Without(p)[k] = profiles[i]
         /\ \A i \in DOMAIN profiles :
              profiles[i].id # p => \E k \in DOMAIN Without(p) : Without(p)[k] = profiles[i]
<1>1. CASE p \notin Ids
  BY <1>1 DEF Without, Ids, ProfileInv, NamesInv
<1>2. CASE p \in Ids
  <2> DEFINE at == Position(p)
             n == Len(profiles)
             r == RemoveAt(profiles, at)
  <2>1. /\ at \in DOMAIN profiles /\ profiles[at].id = p
        /\ \A i \in DOMAIN profiles : profiles[i].id = p => i = at
    BY <1>2, PositionOf
  <2>2. profiles \in Seq(Profiles) /\ n \in Nat /\ DOMAIN profiles = 1 .. n
    BY DEF ProfileInv, NamesInv
  <2>3. /\ r \in Seq(Profiles) /\ Len(r) = n - 1
        /\ \A k \in 1 .. n - 1 : r[k] = IF k < at THEN profiles[k] ELSE profiles[k + 1]
    BY <2>1, <2>2, RemoveAtParts
  <2>4. Without(p) = r
    BY <1>2 DEF Without
  <2> HIDE DEF r, at, n
  <2>5. DOMAIN r = 1 .. n - 1 /\ at \in 1 .. n
    BY <2>1, <2>2, <2>3
  <2> DEFINE From(k) == IF k < at THEN k ELSE k + 1
  <2>6. \A k \in 1 .. n - 1 :
          From(k) \in 1 .. n /\ From(k) # at /\ r[k] = profiles[From(k)]
    BY <2>2, <2>3, <2>5
  <2>7. \A k, l \in 1 .. n - 1 : From(k) = From(l) => k = l
    BY <2>2, <2>5
  <2>8. OneRowEach(r)
    <3> SUFFICES ASSUME NEW k \in 1 .. n - 1, NEW l \in 1 .. n - 1, r[k].id = r[l].id
                 PROVE  k = l
      BY <2>5 DEF OneRowEach
    <3>1. From(k) = From(l)
      BY <2>2, <2>6 DEF ProfileInv, NamesInv, OneRowEach
    <3> HIDE DEF From
    <3> QED
      BY <2>7, <3>1
  <2>9. \A k \in DOMAIN r : r[k].id # p /\ \E i \in DOMAIN profiles : r[k] = profiles[i]
    <3> HIDE DEF From
    <3> QED
      BY <2>1, <2>2, <2>5, <2>6
  <2>10. ASSUME NEW i \in DOMAIN profiles, profiles[i].id # p
         PROVE  \E k \in DOMAIN r : r[k] = profiles[i]
    <3>1. i \in 1 .. n /\ i # at
      BY <2>1, <2>2, <2>10
    <3>2. CASE i < at
      <4>1. i \in 1 .. n - 1 /\ r[i] = profiles[i]
        BY <2>2, <2>3, <2>5, <3>1, <3>2
      <4> QED
        BY <2>5, <4>1
    <3>3. CASE ~ (i < at)
      <4>1. i - 1 \in 1 .. n - 1 /\ r[i - 1] = profiles[i]
        BY <2>2, <2>3, <2>5, <3>1, <3>3
      <4> QED
        BY <2>5, <4>1
    <3> QED
      BY <3>2, <3>3
  <2> QED
    BY <2>3, <2>4, <2>8, <2>9, <2>10
<1> QED
  BY <1>1, <1>2

\* A row at the end, under a name that no other has.
LEMMA AppendedRow ==
  ASSUME NEW s \in Seq(Profiles), OneRowEach(s), NEW e \in Profiles,
         \A i \in DOMAIN s : s[i].id # e.id
  PROVE  /\ Append(s, e) \in Seq(Profiles) /\ OneRowEach(Append(s, e))
         /\ \A i \in DOMAIN s : i \in DOMAIN Append(s, e) /\ Append(s, e)[i] = s[i]
         /\ \A i \in DOMAIN Append(s, e) :
              Append(s, e)[i] = e \/ (i \in DOMAIN s /\ Append(s, e)[i] = s[i])
         /\ \E i \in DOMAIN Append(s, e) : Append(s, e)[i] = e
<1> DEFINE n == Len(s)
           t == Append(s, e)
<1>1. /\ n \in Nat /\ DOMAIN s = 1 .. n /\ DOMAIN t = 1 .. n + 1 /\ t \in Seq(Profiles)
      /\ t[n + 1] = e /\ \A i \in 1 .. n : t[i] = s[i]
  OBVIOUS
<1> HIDE DEF n, t
<1>2. \A i \in DOMAIN t : i = n + 1 \/ i \in DOMAIN s
  BY <1>1
<1>3. OneRowEach(t)
  BY <1>1, <1>2 DEF OneRowEach
<1>4. n + 1 \in DOMAIN t /\ \A i \in DOMAIN s : i \in DOMAIN t
  BY <1>1
<1> QED
  BY <1>1, <1>2, <1>3, <1>4 DEF t
\* What a request leaves of the profiles: it names none but its own, loses none
\* of a resume, and leaves none at all only if it raced.
LEMMA CommitProfiles ==
  ASSUME ProfileInv, NEW c \in Clients, Commit(c)
  PROVE  /\ profiles' \in Seq(Profiles) /\ OneRowEach(profiles')
         /\ \A j \in DOMAIN profiles' :
              \/ profiles'[j].id = request[c].id
              \/ \E i \in DOMAIN profiles :
                   /\ profiles[i].id = profiles'[j].id
                   /\ profiles[i].resume # None => profiles'[j].resume # None
         /\ profiles # <<>> => profiles' # <<>> \/ "profiles" \in raced'
<1>1. PICK q : q = request[c]
  OBVIOUS
<1>2. /\ q # Idle /\ Lands(q) /\ WriteProfiles(q)
      /\ q.kind = "delete" /\ q.ids # Ids => "profiles" \in raced'
  BY <1>1 DEF Commit
<1>3. /\ profiles \in Seq(Profiles) /\ OneRowEach(profiles)
      /\ q.id \in Nat /\ q.id \notin Ids /\ q.resume \in Resumes \cup {None}
  BY <1>1, <1>2 DEF ProfileInv, NamesInv
<1>4. CASE UNCHANGED profiles
  BY <1>3, <1>4
<1>5. CASE Insert(q.id, q.resume)
  <2> DEFINE e == [id |-> q.id, resume |-> q.resume]
  <2>1. profiles' = Append(profiles, e)
    BY <1>5 DEF Insert
  <2>2. e \in Profiles /\ e.id = q.id
    BY <1>3 DEF Profiles
  <2>3. \A i \in DOMAIN profiles : profiles[i].id # e.id
    BY <1>3 DEF Ids
  <2> HIDE DEF e
  <2>4. /\ profiles' \in Seq(Profiles) /\ OneRowEach(profiles')
        /\ \A i \in DOMAIN profiles' :
             profiles'[i] = e \/ (i \in DOMAIN profiles /\ profiles'[i] = profiles[i])
        /\ \E i \in DOMAIN profiles' : profiles'[i] = e
    BY <1>3, <2>1, <2>2, <2>3, AppendedRow
  <2> QED
    BY <1>1, <2>2, <2>4
<1>6. CASE q.kind = "put" /\ q.target # None /\ Update(q.target, q.resume) /\ profiles' # profiles
  <2> DEFINE old == Row(q.target)
             e == [id |-> q.target, resume |-> IF q.resume = None THEN old.resume ELSE q.resume]
             s == Without(q.target)
  <2>1. profiles' = Append(s, e)
    BY <1>6 DEF Update
  <2>2. PICK at \in DOMAIN profiles : old = profiles[at] /\ old.id = q.target
    BY <1>2, <1>6, PositionOf DEF Lands, Row
  <2>3. old \in Profiles
    BY <1>3, <2>2
  <2>4. /\ s \in Seq(Profiles) /\ OneRowEach(s)
        /\ \A k \in DOMAIN s : s[k].id # q.target /\ \E i \in DOMAIN profiles : s[k] = profiles[i]
    BY WithoutRows
  <2> HIDE DEF s, old
  <2>5. e \in Profiles /\ e.id = q.target /\ (old.resume # None => e.resume # None)
    BY <1>3, <2>2, <2>3 DEF Profiles
  <2> HIDE DEF e
  <2>6. /\ profiles' \in Seq(Profiles) /\ OneRowEach(profiles')
        /\ \A i \in DOMAIN profiles' :
             profiles'[i] = e \/ (i \in DOMAIN s /\ profiles'[i] = s[i])
        /\ \E i \in DOMAIN profiles' : profiles'[i] = e
    BY <2>1, <2>4, <2>5, AppendedRow
  <2> QED
    BY <1>1, <2>2, <2>4, <2>5, <2>6
<1>7. CASE q.kind = "delete" /\ profiles' = Without(q.target)
  <2>1. \/ "profiles" \in raced'
        \/ \E p \in Ids : p # q.target
    BY <1>1, <1>2, <1>7 DEF ProfileInv, CountedInv
  <2>2. (\E p \in Ids : p # q.target) => profiles' # <<>>
    BY <1>7, WithoutRows DEF Ids
  <2> QED
    BY <1>1, <1>7, <2>1, <2>2, WithoutRows
<1> QED
  BY <1>2, <1>4, <1>5, <1>6, <1>7 DEF WriteProfiles

LEMMA OpenKeepsProfileInv ==
  ASSUME ProfileInv, NEW c \in Clients, NEW kind, NEW target, NEW resume, NEW patch,
         Open(c, kind, target, resume, patch), resume \in Resumes \cup {None},
         kind = "delete" => Deletable(target)
  PROVE  ProfileInv'
<1> DEFINE q == [kind |-> kind, home |-> Home, new |-> workspaces = {}, id |-> ops,
                 target |-> target, resume |-> resume, patch |-> patch,
                 settings |-> settings, ids |-> Ids]
<1>1. /\ request' = [request EXCEPT ![c] = q] /\ request[c] = Idle
      /\ profiles' = profiles /\ ops' = ops + 1
  BY DEF Open, tables
<1>2. q.kind = kind /\ q.id = ops /\ q.target = target /\ q.resume = resume /\ q.ids = Ids
  OBVIOUS
<1> HIDE DEF q
<1>3. Ids' = Ids
  BY <1>1 DEF Ids
<1>4. /\ ops \in Nat /\ ops' \in Nat /\ ops < ops' /\ ops \notin Ids
      /\ \A n \in Nat : n < ops => n < ops' /\ n # ops
  BY <1>1 DEF ProfileInv, NamesInv, Ids
<1>5. \A d \in Clients : (request'[d] = q /\ d = c) \/ (request'[d] = request[d] /\ d # c)
  BY <1>1 DEF ProfileInv, NamesInv
<1>6. \A i \in DOMAIN profiles : profiles[i].id \in Nat
  BY NamesAreNat
<1>7. NamesInv'
  BY <1>1, <1>2, <1>3, <1>4, <1>5, <1>6 DEF ProfileInv, NamesInv
<1>8. CountedInv'
  <2>1. ASSUME kind = "delete"
        PROVE  \E p \in Ids : p # target
    <3>1. Deletable(target) /\ profiles \in Seq(Profiles)
      BY <2>1 DEF ProfileInv, NamesInv
    <3>2. 1 \in DOMAIN profiles /\ 2 \in DOMAIN profiles
      BY <3>1 DEF Deletable
    <3>3. profiles[1].id # profiles[2].id
      BY <3>2 DEF ProfileInv, NamesInv, OneRowEach
    <3> QED
      BY <3>2, <3>3 DEF Ids
  <2> QED
    BY <1>2, <1>5, <2>1 DEF ProfileInv, CountedInv
<1> QED
  BY <1>7, <1>8 DEF ProfileInv

LEMMA ProfileInvHolds == Spec => []ProfileInv
<1>1. Init => ProfileInv
  BY DEF Init, ProfileInv, NamesInv, CountedInv, OneRowEach, Ids
<1>2. ProfileInv /\ [Next]_vars => ProfileInv'
  <2> SUFFICES ASSUME ProfileInv, [Next]_vars PROVE ProfileInv'
    OBVIOUS
  <2>1. ASSUME NEW c \in Clients,
               \/ BeginGet(c) \/ BeginUpsert(c) \/ BeginCreate(c)
               \/ BeginEdit(c) \/ BeginDelete(c) \/ BeginSave(c)
        PROVE  ProfileInv'
    BY <2>1, OpenKeepsProfileInv
       DEF BeginGet, BeginUpsert, BeginCreate, BeginEdit, BeginDelete, BeginSave, Changed
  <2>2. ASSUME NEW c \in Clients, Commit(c) PROVE ProfileInv'
    <3>1. /\ request[c] # Idle /\ request' = [request EXCEPT ![c] = Idle] /\ ops' = ops
      BY <2>2 DEF Commit
    <3>2. /\ profiles' \in Seq(Profiles) /\ OneRowEach(profiles')
          /\ \A j \in DOMAIN profiles' : profiles'[j].id = request[c].id \/ profiles'[j].id \in Ids
      BY <2>2, CommitProfiles DEF Ids
    <3>3. \A d \in Clients : request'[d] # Idle => d # c /\ request'[d] = request[d]
      BY <3>1 DEF ProfileInv, NamesInv
    <3>4. \A p \in Ids' : p = request[c].id \/ p \in Ids
      BY <3>2 DEF Ids
    <3>5. \A p \in Ids : p < ops
      BY DEF ProfileInv, NamesInv, Ids
    <3>6. NamesInv'
      BY <3>1, <3>2, <3>3, <3>4, <3>5 DEF ProfileInv, NamesInv
    <3>7. CountedInv'
      BY <3>3 DEF ProfileInv, CountedInv
    <3> QED
      BY <3>6, <3>7 DEF ProfileInv
  <2>3. ASSUME NEW c \in Clients, Rollback(c) PROVE ProfileInv'
    <3>1. request' = [request EXCEPT ![c] = Idle] /\ profiles' = profiles /\ ops' = ops
      BY <2>3 DEF Rollback, tables
    <3>2. \A d \in Clients : request'[d] # Idle => request'[d] = request[d]
      BY <3>1 DEF ProfileInv, NamesInv
    <3> QED
      BY <3>1, <3>2 DEF ProfileInv, NamesInv, CountedInv, Ids
  <2>4. ASSUME NEW f \in Reflections,
               \/ Pass(f) \/ NeedsReview(f) \/ SucceedWithoutPatch(f)
               \/ BeginApply(f) \/ CommitApply(f) \/ Fail(f)
        PROVE  ProfileInv'
    <3>1. UNCHANGED <<profiles, request>> /\ (ops' = ops \/ ops' = ops + 1)
      BY <2>4 DEF Pass, NeedsReview, SucceedWithoutPatch, BeginApply, CommitApply, Fail, Keep, Start
    <3>2. ops' \in Nat /\ \A n \in Nat : n < ops => n < ops'
      BY <3>1 DEF ProfileInv, NamesInv
    <3>3. \A i \in DOMAIN profiles : profiles[i].id \in Nat
      BY NamesAreNat
    <3> QED
      BY <3>1, <3>2, <3>3 DEF ProfileInv, NamesInv, CountedInv, Ids
  <2>5. CASE UNCHANGED vars
    <3>1. UNCHANGED <<profiles, request, ops>>
      BY <2>5 DEF vars, tables
    <3> QED
      BY <3>1 DEF ProfileInv, NamesInv, CountedInv, Ids
  <2> QED
    BY <2>1, <2>2, <2>3, <2>4, <2>5 DEF Next
<1> QED
  BY <1>1, <1>2, PTL DEF Spec

\* A workspace that has a profile keeps one, unless two deletions counted the
\* same profiles, and no edit takes an imported resume away; for any number of
\* tabs, profiles and operations (delete_profile, ProfileRepository.update).
THEOREM ProfilesKeptHolds == Spec => ProfilesKept
<1> DEFINE A == /\ profiles # <<>> => profiles' # <<>> \/ "profiles" \in raced'
                /\ \A p \in Ids \cap Ids' : Row(p).resume # None => Row(p)'.resume # None
<1>1. ProfileInv /\ [Next]_vars => [A]_vars
  <2> SUFFICES ASSUME ProfileInv, [Next]_vars PROVE A \/ UNCHANGED vars
    OBVIOUS
  <2>1. ASSUME NEW c \in Clients, Commit(c) PROVE A
    <3>1. profiles # <<>> => profiles' # <<>> \/ "profiles" \in raced'
      BY <2>1, CommitProfiles
    <3>2. ASSUME NEW p \in Ids, p \in Ids', Row(p).resume # None
          PROVE  Row(p)'.resume # None
      <4>1. PICK j : j = Position(p)'
        OBVIOUS
      <4>2. j \in DOMAIN profiles' /\ profiles'[j].id = p /\ Row(p)' = profiles'[j]
        BY <3>2, <4>1 DEF Position, Ids, Row
      <4>3. p # request[c].id
        BY <2>1 DEF ProfileInv, NamesInv, Commit
      <4>4. PICK i \in DOMAIN profiles :
              profiles[i].id = p /\ (profiles[i].resume # None => profiles'[j].resume # None)
        BY <2>1, <4>2, <4>3, CommitProfiles
      <4>5. Row(p) = profiles[i]
        BY <4>4, PositionOf DEF Row
      <4> QED
        BY <3>2, <4>2, <4>4, <4>5
    <3> QED
      BY <3>1, <3>2
  <2>2. ASSUME UNCHANGED profiles PROVE A
    <3>1. \A p : Row(p)' = Row(p)
      BY <2>2 DEF Row, Position
    <3> QED
      BY <2>2, <3>1
  <2>3. ASSUME NEW c \in Clients,
               \/ BeginGet(c) \/ BeginUpsert(c) \/ BeginCreate(c) \/ BeginEdit(c)
               \/ BeginDelete(c) \/ BeginSave(c) \/ Rollback(c)
        PROVE  UNCHANGED profiles
    BY <2>3 DEF BeginGet, BeginUpsert, BeginCreate, BeginEdit, BeginDelete, BeginSave,
                Rollback, Open, tables
  <2>4. ASSUME NEW f \in Reflections,
               \/ Pass(f) \/ NeedsReview(f) \/ SucceedWithoutPatch(f)
               \/ BeginApply(f) \/ CommitApply(f) \/ Fail(f)
        PROVE  UNCHANGED profiles
    BY <2>4 DEF Pass, NeedsReview, SucceedWithoutPatch, BeginApply, CommitApply, Fail, Keep
  <2> HIDE DEF A
  <2> QED
    BY <2>1, <2>2, <2>3, <2>4 DEF Next
<1> QED
  BY <1>1, ProfileInvHolds, PTL DEF Spec, ProfilesKept
===============================================================================
