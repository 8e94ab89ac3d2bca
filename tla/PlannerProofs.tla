----------------------------- MODULE PlannerProofs -----------------------------
(***************************************************************************)
(* The planner's five properties for any calendar, thresholds, number of   *)
(* applications, workers and to-dos, and however long it runs.             *)
(*                                                                         *)
(* A sweep decides on what it read and inserts it later, so each property  *)
(* of the stored to-dos is kept together with what it promises of the rows *)
(* a sweep still holds.  NagInv: every row the engine made, stored or held,*)
(* finds the older ones for the same work settled, and what the user does  *)
(* (Touched) never unsettles one; while no two sweeps overlap no other     *)
(* worker can slip a row in between.  OwedInv: an interview of the last    *)
(* day before a sweep has its thank-you stored, or in that sweep's hand.   *)
(***************************************************************************)
EXTENDS Planner, FiniteSetTheorems, WellFoundedInduction, TLAPS

Events ==
  [kind : {"status", "interview", "completed", "retracted"}, at : Nat, logged : Nat, todo : Nat]
Histories == [status : Statuses, created : Nat, applied : Nat, mark : Nat]
Todos ==
  [type : Types, app : Apps \cup {Global}, due : Nat, auto : BOOLEAN,
   status : {"pending", "done", "dismissed", "cancelled", "gone"},
   created : Nat, completed : Nat, undone : BOOLEAN]

TypeInv ==
  /\ now \in 0 .. LastTick /\ rest \in RestChoices
  /\ app \in [Apps -> Histories]
  /\ event \in [Apps -> Seq(Events)]
  /\ todo \in Seq(Todos)
  /\ sweep \in [Sweeps -> {Idle} \cup [at : 0 .. LastTick, rows : SUBSET Todos]]
  /\ begun \in BOOLEAN /\ swept \subseteq 0 .. LastTick /\ overlapped \in BOOLEAN
  /\ ops \in Nat

InFlight == {s \in Sweeps : sweep[s] # Idle}

\* What a sweep holds: open rows of the engine's, one for each piece of work.
SweepInv ==
  /\ swept \subseteq 0 .. now
  /\ \A s \in InFlight :
       /\ sweep[s].at <= now /\ IsFiniteSet(sweep[s].rows)
       /\ \A r \in sweep[s].rows :
            r.auto /\ r.status = "pending" /\ r.completed = Never
       /\ \A r, q \in sweep[s].rows : r.type = q.type /\ r.app = q.app => r = q

\* A to-do is done from its completion on, until it is reopened.
CompletedInv ==
  \A x \in DOMAIN todo :
    /\ todo[x].status = "done" => todo[x].completed <= LastTick
    /\ todo[x].status \in {"pending", "dismissed"} => todo[x].completed = Never

\* Deleting an application takes its to-dos with it, and no sweep brings one back.
ParentInv == \A x \in Rows : todo[x].app \in Tracked \cup {Global}

Base == TypeInv /\ SweepInv /\ CompletedInv /\ ParentInv

\* The older row o leaves the engine free to make r for the same work.
Settled(o, r) ==
  o.auto /\ o.status # "gone" /\ o.app = r.app /\ o.type = r.type =>
    /\ o.status = "pending" => o.undone
    /\ o.status = "dismissed" =>
         o.undone \/ (o.type = "global" /\ WeekOf(Day(o.created)) # WeekOf(Day(r.created)))
    /\ o.type = "follow_up" => o.status = "cancelled"

NagInv ==
  ~ overlapped =>
    /\ \A s, t \in InFlight : s = t
    /\ \A s \in InFlight : \A r \in sweep[s].rows, x \in DOMAIN todo : Settled(todo[x], r)
    /\ \A x, y \in DOMAIN todo : x < y /\ todo[y].auto => Settled(todo[x], todo[y])

Thanked(a, t) ==
  \E x \in RowsOf(a) : todo[x].auto /\ todo[x].type = "thank_you" /\ todo[x].completed >= t
Held(s, a) == \E r \in sweep[s].rows : r.app = a /\ r.type = "thank_you"
WithinADay(t, b) == t <= b /\ b <= t + DayTicks

\* What an interview at t asks of the sweeps of the day after it.
Foreseen(a, t) == \E n \in Interviews(a) : event[a][n].at = t /\ event[a][n].logged < t
SweptFor(a, t) ==
  /\ \A b \in swept : WithinADay(t, b) => Thanked(a, t)
  /\ \A s \in InFlight : WithinADay(t, sweep[s].at) => Thanked(a, t) \/ Held(s, a)

OwedInv == \A a \in Tracked, t \in Nat : Foreseen(a, t) => SweptFor(a, t)

-----------------------------------------------------------------------------
(* Days and weeks *)

\* A day, or a week, holds each of its ticks, or days, once.
LEMMA DivBounds ==
  ASSUME NEW k \in Nat \ {0}, NEW t \in Nat
  PROVE  /\ t \div k \in Nat /\ t % k \in 0 .. k - 1
         /\ (t \div k) * k <= t /\ t < (t \div k) * k + k
  OBVIOUS

LEMMA CalendarIsNat ==
  ASSUME NEW t \in Nat
  PROVE  Day(t) \in Nat /\ WeekOf(t) \in Nat /\ Weekday(t) \in Nat
  BY DivBounds, CalendarIsOne DEF Day, WeekOf, Weekday

LEMMA WeekHoldsDay ==
  ASSUME NEW d \in Nat
  PROVE  /\ WeekOf(d) * WeekDays \in Nat
         /\ WeekOf(d) * WeekDays <= d /\ d < WeekOf(d) * WeekDays + WeekDays
         /\ (WeekOf(d) + 1) * WeekDays = WeekOf(d) * WeekDays + WeekDays
<1>1. \A m, k \in Nat : m * k \in Nat /\ (m + 1) * k = m * k + k
  OBVIOUS
<1> QED BY <1>1, DivBounds, CalendarIsOne, CalendarIsNat DEF WeekOf

\* Beats are a day apart.
LEMMA BeatBefore ==
  ASSUME NEW b \in Beats, b >= DayTicks
  PROVE  b - DayTicks \in Beats
<1>1. PICK d \in 0 .. LastTick : b = d * DayTicks + BeatTick
  BY DEF Beats
<1>2. d \in Nat /\ d # 0 /\ DayTicks \in Nat /\ LastTick \in Nat /\ BeatTick \in Nat
  BY <1>1, NumbersAreNumbers, CalendarIsOne
<1>3. (d - 1) * DayTicks = d * DayTicks - DayTicks
  BY <1>2
<1>4. b - DayTicks = (d - 1) * DayTicks + BeatTick /\ b \in 0 .. LastTick
  BY <1>1, <1>2, <1>3 DEF Beats
<1> QED BY <1>2, <1>4 DEF Beats

LEMMA HasLeast ==
  ASSUME NEW S \in SUBSET Nat, S # {}
  PROVE  \E m \in S : \A k \in S : m <= k
<1> DEFINE Less == {p \in Nat \X Nat : p[1] < p[2]}
<1>1. IsWellFoundedOn(Less, Nat)
  <2>1. OpToRel(<, Nat) = Less
    BY Zenon DEF OpToRel
  <2> HIDE DEF Less
  <2> QED BY <2>1, NatLessThanWellFounded, Zenon
<1>2. PICK m \in S : \A k \in S : <<k, m>> \notin Less
  <2> HIDE DEF Less
  <2> QED BY <1>1, WFMin, Zenon
<1>3. ASSUME NEW k \in S PROVE m <= k
  <2>1. m \in Nat /\ k \in Nat /\ ~ (k < m)
    BY <1>2
  <2> QED BY <2>1
<1> QED BY <1>3

LEMMA HasGreatest ==
  ASSUME NEW n \in Nat, NEW S \in SUBSET (0 .. n), S # {}
  PROVE  \E m \in S : \A k \in S : k <= m
<1> DEFINE Below == {n - k : k \in S}
<1>1. \A k \in S : k \in Nat /\ k <= n /\ n - k \in Nat
  <2>1. \A k \in S : k \in 0 .. n
    OBVIOUS
  <2> QED BY <2>1
<1>2. Below \in SUBSET Nat /\ Below # {}
  BY <1>1
<1>3. PICK m \in Below : \A k \in Below : m <= k
  <2> HIDE DEF Below
  <2> QED BY <1>2, HasLeast
<1>4. PICK i \in S : m = n - i
  OBVIOUS
<1>5. ASSUME NEW j \in S PROVE j <= i
  <2>1. n - i <= n - j
    BY <1>3, <1>4
  <2> QED BY <1>1, <2>1
<1> QED BY <1>5

LEMMA WorkingDayIsNat ==
  ASSUME NEW d \in Nat
  PROVE  NextWorkingDay(d) \in Nat
<1> DEFINE working == {e \in d .. d + WeekDays : Weekday(e) \notin rest}
<1>1. working \in SUBSET Nat
  BY CalendarIsOne
<1>2. CASE working = {}
  BY <1>2 DEF NextWorkingDay
<1>3. CASE working # {}
  <2>1. \E e \in working : \A f \in working : e <= f
    <3> HIDE DEF working
    <3> QED BY <1>1, <1>3, HasLeast
  <2>2. NextWorkingDay(d) = CHOOSE e \in working : \A f \in working : e <= f
    BY <1>3 DEF NextWorkingDay
  <2> QED BY <1>1, <2>1, <2>2
<1> QED BY <1>2, <1>3

\* The first beat after a moment comes within a day.
LEMMA NextBeatWithinADay ==
  ASSUME NEW t \in Nat, \E b \in Beats : t <= b
  PROVE  NextBeat(t) \in Beats /\ WithinADay(t, NextBeat(t))
<1> DEFINE later == {b \in Beats : t <= b}
<1>1. later \in SUBSET Nat /\ later # {}
  BY NumbersAreNumbers DEF Beats
<1>2. PICK m \in later : \A c \in later : m <= c
  <2> HIDE DEF later
  <2> QED BY <1>1, HasLeast
<1>3. m \in Beats /\ t <= m /\ \A c \in Beats : t <= c => m <= c
  BY <1>2
<1>4. /\ NextBeat(t) \in Beats /\ t <= NextBeat(t)
      /\ \A c \in Beats : t <= c => NextBeat(t) <= c
  BY <1>3 DEF NextBeat
<1> DEFINE n == NextBeat(t)
<1>5. n \in Nat /\ DayTicks \in Nat \ {0}
  BY <1>4, CalendarIsOne DEF Beats
<1>6. ~ (n - DayTicks \in Beats /\ t <= n - DayTicks)
  <2>1. n - DayTicks \in Beats /\ t <= n - DayTicks => n <= n - DayTicks
    BY <1>4
  <2> HIDE DEF n
  <2> QED BY <1>5, <2>1
<1>7. n >= DayTicks => n - DayTicks \in Beats
  BY <1>4, BeatBefore
<1> HIDE DEF n
<1>8. n <= t + DayTicks
  BY <1>5, <1>6, <1>7
<1> QED BY <1>4, <1>8 DEF WithinADay, n

-----------------------------------------------------------------------------
(* What a sweep reads *)

LEMMA TypesAreFinite == IsFiniteSet(Types)
<1>1. IsFiniteSet(({"follow_up"} \cup {"thank_you"}) \cup ({"prep"} \cup {"apply"}))
  BY FS_Singleton, FS_Union
<1>2. IsFiniteSet({"global"} \cup {"networking"})
  BY FS_Singleton, FS_Union
<1>3. Types = (({"follow_up"} \cup {"thank_you"}) \cup ({"prep"} \cup {"apply"}))
                \cup ({"global"} \cup {"networking"})
  BY DEF Types
<1> QED BY <1>1, <1>2, <1>3, FS_Union

LEMMA TypedParts ==
  ASSUME TypeInv
  PROVE  /\ now \in Nat /\ LastTick \in Nat /\ now <= LastTick /\ Never \in Nat /\ Today \in Nat
         /\ Undated \in Nat
         /\ \A x \in DOMAIN todo : x \in Nat /\ todo[x] \in Todos
         /\ \A a \in Apps : \A n \in DOMAIN event[a] : event[a][n] \in Events
<1>1. now \in Nat /\ LastTick \in Nat /\ now <= LastTick
  BY NumbersAreNumbers DEF TypeInv
<1>2. Never \in Nat /\ Undated \in Nat
  BY <1>1, CalendarIsOne DEF Never, Undated
<1>3. Today \in Nat
  BY <1>1, CalendarIsNat DEF Today
<1>4. \A x \in DOMAIN todo : x \in Nat /\ todo[x] \in Todos
  BY DEF TypeInv
<1>5. ASSUME NEW a \in Apps, NEW n \in DOMAIN event[a]
      PROVE  event[a][n] \in Events
  <2>1. event[a] \in Seq(Events)
    BY DEF TypeInv
  <2> QED BY <2>1
<1> QED BY <1>1, <1>2, <1>3, <1>4, <1>5

LEMMA ThankYouDueIsNat ==
  ASSUME TypeInv, NEW a \in Apps, Recent(a) # {}
  PROVE  ThankYouDue(a) \in Nat
<1>1. now \in Nat /\ Recent(a) \in SUBSET (0 .. now)
  <2>1. \A m \in Interviews(a) : event[a][m].at \in Nat
    BY TypedParts DEF Interviews, Events
  <2> QED BY <2>1, TypedParts DEF Recent
<1>2. PICK m \in Recent(a) : \A k \in Recent(a) : k <= m
  BY <1>1, HasGreatest
<1> DEFINE at == CHOOSE t \in Recent(a) : \A u \in Recent(a) : u <= t
<1>3. at \in Nat
  BY <1>1, <1>2
<1>4. Day(at) + 1 \in Nat
  <2> HIDE DEF at
  <2> QED BY <1>3, CalendarIsNat
<1>5. ThankYouDue(a) = NextWorkingDay(Day(at) + 1)
  BY DEF ThankYouDue
<1> HIDE DEF at
<1> QED BY <1>4, <1>5, WorkingDayIsNat

\* The rules make open rows, one for each piece of work they fire for.
LEMMA GeneratedRows ==
  ASSUME TypeInv
  PROVE  /\ IsFiniteSet(Generated) /\ Generated \subseteq Todos
         /\ \A r \in Generated :
              /\ r.auto /\ r.status = "pending" /\ r.completed = Never /\ r.created = now
              /\ Fires(r.type, r.app)
         /\ \A r, q \in Generated : r.type = q.type /\ r.app = q.app => r = q
         /\ \A type \in Types, a \in Apps \cup {Global} :
              Fires(type, a) => \E r \in Generated : r.type = type /\ r.app = a
<1> DEFINE fired == {g \in Types \X (Apps \cup {Global}) : Fires(g[1], g[2])}
           Made(f) == Row(f[1], f[2], IF f[1] = "thank_you" THEN ThankYouDue(f[2]) ELSE Today, TRUE)
<1>1. Generated = {Made(f) : f \in fired}
  BY Zenon DEF Generated
<1>2. IsFiniteSet(fired)
  <2>1. IsFiniteSet(Apps \cup {Global})
    BY AppsAreFinite, FS_AddElement
  <2>2. IsFiniteSet(Types \X (Apps \cup {Global}))
    BY <2>1, TypesAreFinite, FS_Product
  <2> QED BY <2>2, FS_Subset
<1>3. IsFiniteSet(Generated)
  <2> DEFINE F == [f \in fired |-> Made(f)]
  <2> HIDE DEF fired, Made
  <2>1. F \in Surjection(fired, Generated)
    BY <1>1 DEF Surjection
  <2> HIDE DEF F
  <2> QED BY <1>2, <2>1, FS_Surjection
<1>4. now \in Nat /\ Today \in Nat /\ Never \in Nat
  BY TypedParts
<1>5. ASSUME NEW f \in fired
      PROVE  /\ Made(f) \in Todos
             /\ Made(f).type = f[1] /\ Made(f).app = f[2] /\ Made(f).auto
             /\ Made(f).status = "pending" /\ Made(f).completed = Never /\ Made(f).created = now
             /\ Fires(f[1], f[2])
  <2> DEFINE due == IF f[1] = "thank_you" THEN ThankYouDue(f[2]) ELSE Today
  <2>1. f[1] \in Types /\ f[2] \in Apps \cup {Global} /\ Fires(f[1], f[2])
    OBVIOUS
  <2>2. due \in Nat
    <3>1. f[1] = "thank_you" => f[2] \in Apps /\ Recent(f[2]) # {}
      BY <2>1 DEF Fires, Tracked, ThankYou
    <3> QED BY <1>4, <3>1, ThankYouDueIsNat
  <2>3. Made(f) = Row(f[1], f[2], due, TRUE)
    OBVIOUS
  <2> HIDE DEF due
  <2> QED BY <1>4, <2>1, <2>2, <2>3 DEF Row, Todos
<1>6. ASSUME NEW r \in Generated, NEW q \in Generated, r.type = q.type, r.app = q.app
      PROVE  r = q
  <2>1. PICK f \in fired, g \in fired : r = Made(f) /\ q = Made(g)
    BY <1>1
  <2>2. f[1] = g[1] /\ f[2] = g[2]
    <3> HIDE DEF Made
    <3> QED BY <1>5, <1>6, <2>1
  <2> QED BY <2>1, <2>2, Zenon
<1>7. ASSUME NEW type \in Types, NEW a \in Apps \cup {Global}, Fires(type, a)
      PROVE  \E r \in Generated : r.type = type /\ r.app = a
  <2>1. <<type, a>> \in fired
    BY <1>7
  <2> HIDE DEF fired, Made
  <2>2. Made(<<type, a>>) \in Generated
    BY <1>1, <2>1
  <2> QED BY <1>5, <2>1, <2>2
<1> HIDE DEF fired, Made
<1> QED BY <1>1, <1>3, <1>5, <1>6, <1>7

-----------------------------------------------------------------------------
(* What a sweep inserts *)

LEMMA SetToSeqOrders ==
  ASSUME NEW S, IsFiniteSet(S)
  PROVE  /\ SetToSeq(S) \in Seq(S)
         /\ \A r \in S : \E i \in DOMAIN SetToSeq(S) : SetToSeq(S)[i] = r
         /\ \A i, j \in DOMAIN SetToSeq(S) : SetToSeq(S)[i] = SetToSeq(S)[j] => i = j
<1> DEFINE n == Cardinality(S)
           D == 1 .. n
<1>1. n \in Nat /\ ExistsBijection(D, S)
  BY FS_CardinalityType
<1>2. \E f \in [D -> S] : IsInjective(f)
  <2>1. PICK f : f \in Bijection(D, S)
    BY <1>1, Zenon DEF ExistsBijection
  <2>2. f \in [D -> S] /\ \A i, j \in D : f[i] = f[j] => i = j
    BY <2>1 DEF Bijection, Injection, IsInjective
  <2>3. IsInjective(f)
    BY <2>2 DEF IsInjective
  <2> QED BY <2>2, <2>3
<1>3. SetToSeq(S) \in [D -> S] /\ IsInjective(SetToSeq(S))
  <2>1. SetToSeq(S) = CHOOSE f \in [D -> S] : IsInjective(f)
    BY DEF SetToSeq
  <2> QED BY <1>2, <2>1, Zenon
<1> DEFINE q == SetToSeq(S)
<1>4. \A i, j \in D : q[i] = q[j] => i = j
  BY <1>3 DEF IsInjective
<1>5. q \in Injection(D, S)
  BY <1>3, <1>4 DEF Injection, IsInjective
<1>6. Cardinality(D) = n
  BY <1>1, FS_Interval
<1>7. q \in Surjection(D, S)
  BY <1>5, <1>6, FS_Injection
<1> HIDE DEF q, n
<1> QED BY <1>1, <1>3, <1>4, <1>7 DEF Surjection, q

-----------------------------------------------------------------------------
(* What the user does to a to-do *)

Touched(o, p) ==
  /\ p.type = o.type /\ p.app = o.app /\ p.auto = o.auto /\ p.created = o.created
  /\ \/ p.status = o.status /\ p.completed = o.completed /\ p.undone = o.undone
     \/ /\ o.status = "pending" /\ p.undone = o.undone
        /\ \/ p.status \in {"cancelled", "dismissed"} /\ p.completed = o.completed
           \/ p.status = "done" /\ p.completed = now
     \/ o.status = "done" /\ p.status = "pending" /\ p.completed = Never /\ p.undone
     \/ p.status = "gone" /\ p.completed = o.completed

\* Every stored to-do stays, changed in one of those ways; it goes when, and
\* only when, its application does.
RowsTouched ==
  /\ todo' \in Seq(Todos) /\ DOMAIN todo \subseteq DOMAIN todo'
  /\ \A x \in DOMAIN todo : Touched(todo[x], todo'[x])
  /\ \A x \in DOMAIN todo :
       todo'[x].status = "gone" => todo[x].status = "gone" \/ todo[x].app \notin Tracked' \cup {Global}
  /\ \A x \in DOMAIN todo :
       todo'[x].status # "gone" => todo[x].status # "gone"
                                   /\ (todo[x].app \in Tracked => todo[x].app \in Tracked')

\* A new to-do of the user's own.
RowsAdded ==
  \A y \in DOMAIN todo' :
    y \notin DOMAIN todo =>
      /\ ~ todo'[y].auto /\ todo'[y].status = "pending" /\ todo'[y].completed = Never
      /\ todo'[y].app \in Tracked' \cup {Global}

\* No application comes back, and an interview that was not in the timeline
\* is logged now.
TimelinesGrow ==
  /\ app' \in [Apps -> Histories] /\ event' \in [Apps -> Seq(Events)]
  /\ Tracked' \subseteq Tracked
  /\ \A a \in Tracked' : \A n \in Interviews(a)' :
       \/ n \in Interviews(a) /\ event'[a][n] = event[a][n]
       \/ event'[a][n].logged = now

UserStep ==
  \/ \E a \in Apps :
       \/ \E status \in Targets : Transition(a, status)
       \/ \E ahead \in Ahead : Interview(a, now + ahead)
       \/ Delete(a)
  \/ \E a \in Apps : Write(a, "apply", Today)
  \/ Write(Global, "networking", Undated)
  \/ \E x \in DOMAIN todo : Complete(x) \/ Reopen(x) \/ Dismiss(x) \/ Snooze(x)

LEMMA OneRowTouched ==
  ASSUME TypeInv, NEW x \in DOMAIN todo, NEW p \in Todos,
         todo' = [todo EXCEPT ![x] = p], Touched(todo[x], p),
         todo[x].status # "gone", p.status # "gone", UNCHANGED app
  PROVE  RowsTouched /\ RowsAdded
<1>1. todo' \in Seq(Todos) /\ DOMAIN todo' = DOMAIN todo
  BY DEF TypeInv
<1>2. Tracked' = Tracked
  BY DEF Tracked
<1>3. \A y \in DOMAIN todo : y # x => todo'[y] = todo[y]
  BY DEF TypeInv
<1>4. todo'[x] = p
  BY DEF TypeInv
<1>5. \A y \in DOMAIN todo : Touched(todo[y], todo'[y])
  BY <1>3, <1>4 DEF Touched
<1> QED BY <1>1, <1>2, <1>3, <1>4, <1>5 DEF RowsTouched, RowsAdded

LEMMA SameRows ==
  ASSUME TypeInv, UNCHANGED <<app, todo>>
  PROVE  RowsTouched /\ RowsAdded
<1>1. Tracked' = Tracked
  BY DEF Tracked
<1>2. \A x \in DOMAIN todo : Touched(todo[x], todo'[x])
  BY DEF Touched
<1> QED BY <1>1, <1>2 DEF RowsTouched, RowsAdded, TypeInv

LEMMA SameTimelines ==
  ASSUME TypeInv, UNCHANGED <<app, event>>
  PROVE  TimelinesGrow
BY DEF TimelinesGrow, TypeInv, Tracked, Interviews

\* An entry is appended to the timeline of one application.
LEMMA TimelineLogged ==
  ASSUME TypeInv, NEW a, NEW kind \in {"status", "interview", "completed"}, NEW at \in Nat,
         NEW x \in Nat, Logged(a, kind, at, x),
         app' \in [Apps -> Histories], Tracked' \subseteq Tracked
  PROVE  TimelinesGrow
<1> DEFINE e == [kind |-> kind, at |-> at, logged |-> now, todo |-> x]
<1>1. e \in Events /\ e.logged = now
  BY TypedParts DEF Events
<1>2. event' = [event EXCEPT ![a] = Append(@, e)]
  BY DEF Logged
<1> HIDE DEF e
<1>3. event' \in [Apps -> Seq(Events)]
  <2>1. event \in [Apps -> Seq(Events)]
    BY DEF TypeInv
  <2>2. \A b \in Apps : Append(event[b], e) \in Seq(Events)
    BY <1>1, <2>1
  <2>3. event' = [b \in Apps |-> IF b = a THEN Append(event[b], e) ELSE event[b]]
    BY <1>2, <2>1
  <2> QED BY <2>1, <2>2, <2>3
<1>4. ASSUME NEW b \in Apps, NEW n \in DOMAIN event'[b]
      PROVE  (n \in DOMAIN event[b] /\ event'[b][n] = event[b][n]) \/ event'[b][n] = e
  <2>1. event[b] \in Seq(Events) /\ (b = a => event'[b] = Append(event[b], e))
                                 /\ (b # a => event'[b] = event[b])
    BY <1>2 DEF TypeInv
  <2> QED BY <1>1, <1>4, <2>1
<1>5. ASSUME NEW b \in Tracked', NEW n \in Interviews(b)'
      PROVE  (n \in Interviews(b) /\ event'[b][n] = event[b][n]) \/ event'[b][n].logged = now
  <2>1. b \in Apps /\ n \in DOMAIN event'[b] /\ event'[b][n].kind = "interview"
    BY DEF Tracked, Interviews
  <2> QED BY <1>1, <1>4, <2>1 DEF Interviews
<1> QED BY <1>3, <1>5 DEF TimelinesGrow

\* Whatever the user does, the to-dos and the timelines change in no other way.
LEMMA UserStepEffects ==
  ASSUME TypeInv, ParentInv, UserStep
  PROVE  /\ RowsTouched /\ RowsAdded /\ TimelinesGrow
         /\ UNCHANGED <<now, rest, beat>> /\ ops' \in Nat
<1>1. Acts
  BY DEF UserStep, Transition, Interview, Delete, Write, Complete, Reopen, Dismiss, Snooze
<1>2. UNCHANGED <<now, rest, beat>> /\ ops' \in Nat
  BY <1>1 DEF Acts, TypeInv
<1>3. ASSUME NEW a \in Apps, NEW status \in Targets, Transition(a, status)
      PROVE  RowsTouched /\ RowsAdded /\ TimelinesGrow
  <2>1. status \in Statuses \ {"gone"} /\ a \in Tracked
    BY <1>3, TargetsAreStatuses DEF Transition
  <2> DEFINE first == status = "applied" /\ app[a].applied = Never
             h == [app[a] EXCEPT !.status = status,
                                 !.applied = IF first THEN now ELSE @,
                                 !.mark = IF first THEN Len(event[a]) ELSE @]
  <2>2. app' = [app EXCEPT ![a] = h]
    BY <1>3 DEF Transition
  <2>3. h \in Histories /\ h.status = status
    <3>1. app[a] \in Histories /\ Len(event[a]) \in Nat
      BY DEF TypeInv
    <3> QED BY <2>1, <3>1, TypedParts DEF Histories
  <2> HIDE DEF h, first
  <2>4. app' \in [Apps -> Histories] /\ Tracked' = Tracked
    BY <2>1, <2>2, <2>3 DEF TypeInv, Tracked
  <2>5. TimelinesGrow
    BY <1>3, <2>4, TypedParts, TimelineLogged DEF Transition
  <2>6. todo' = [x \in DOMAIN todo |->
                   IF status \in Closed /\ x \in RowsOf(a) /\ todo[x].status = "pending"
                   THEN [todo[x] EXCEPT !.status = "cancelled"] ELSE todo[x]]
    BY <1>3 DEF Transition
  <2>7. \A x \in DOMAIN todo :
          todo'[x] \in Todos /\ Touched(todo[x], todo'[x])
          /\ (todo'[x].status = "gone" <=> todo[x].status = "gone")
    BY <2>6, TypedParts DEF Todos, Touched
  <2>8. todo' \in Seq(Todos) /\ DOMAIN todo' = DOMAIN todo
    <3>1. DOMAIN todo = 1 .. Len(todo) /\ Len(todo) \in Nat
      BY DEF TypeInv
    <3>2. todo' \in [1 .. Len(todo) -> Todos]
      BY <2>6, <2>7, <3>1
    <3> QED BY <3>1, <3>2
  <2> QED BY <2>4, <2>5, <2>7, <2>8 DEF RowsTouched, RowsAdded
<1>4. ASSUME NEW a \in Apps, NEW ahead \in Ahead, Interview(a, now + ahead)
      PROVE  RowsTouched /\ RowsAdded /\ TimelinesGrow
  <2>1. now + ahead \in Nat
    BY TypedParts, NumbersAreNumbers
  <2>2. TimelinesGrow
    BY <1>4, <2>1, TimelineLogged DEF Interview, TypeInv, Tracked
  <2> QED BY <1>4, <2>2, SameRows DEF Interview
<1>5. ASSUME NEW a \in Apps, Delete(a)
      PROVE  RowsTouched /\ RowsAdded /\ TimelinesGrow
  <2>1. /\ a \in Tracked /\ app' = [app EXCEPT ![a].status = "gone"]
        /\ event' = [event EXCEPT ![a] = <<>>]
        /\ todo' = [x \in DOMAIN todo |->
                      IF x \in RowsOf(a) THEN [todo[x] EXCEPT !.status = "gone"] ELSE todo[x]]
    BY <1>5 DEF Delete
  <2>2. app' \in [Apps -> Histories] /\ Tracked' = Tracked \ {a}
    BY <2>1 DEF TypeInv, Tracked, Histories, Statuses
  <2>3. TimelinesGrow
    BY <2>1, <2>2 DEF TimelinesGrow, TypeInv, Interviews
  <2>4. \A x \in DOMAIN todo : todo'[x] \in Todos /\ Touched(todo[x], todo'[x])
    BY <2>1, TypedParts DEF Todos, Touched
  <2>5. todo' \in Seq(Todos) /\ DOMAIN todo' = DOMAIN todo
    <3>1. DOMAIN todo = 1 .. Len(todo) /\ Len(todo) \in Nat
      BY DEF TypeInv
    <3>2. todo' \in [1 .. Len(todo) -> Todos]
      BY <2>1, <2>4, <3>1
    <3> QED BY <3>1, <3>2
  <2>6. a # Global
    BY GlobalIsNoApp
  <2>7. ASSUME NEW x \in DOMAIN todo, todo'[x].status = "gone"
        PROVE  todo[x].status = "gone" \/ todo[x].app \notin Tracked' \cup {Global}
    BY <2>1, <2>2, <2>6, <2>7 DEF RowsOf
  <2>8. ASSUME NEW x \in DOMAIN todo, todo'[x].status # "gone"
        PROVE  todo[x].status # "gone" /\ (todo[x].app \in Tracked => todo[x].app \in Tracked')
    BY <2>1, <2>2, <2>8, TypedParts DEF RowsOf, Todos
  <2> QED BY <2>3, <2>4, <2>5, <2>7, <2>8 DEF RowsTouched, RowsAdded
<1>6. ASSUME NEW a \in Apps \cup {Global}, NEW type \in {"apply", "networking"},
             NEW due \in {Today, Undated}, Write(a, type, due)
      PROVE  RowsTouched /\ RowsAdded /\ TimelinesGrow
  <2> DEFINE r == Row(type, a, due, FALSE)
  <2>1. r \in Todos /\ ~ r.auto /\ r.status = "pending" /\ r.completed = Never /\ r.app = a
    BY TypedParts DEF Row, Todos, Types
  <2>2. todo' = Append(todo, r) /\ UNCHANGED <<app, event>> /\ a \in Tracked \cup {Global}
    BY <1>6 DEF Write, user
  <2> HIDE DEF r
  <2>3. Tracked' = Tracked
    BY <2>2 DEF Tracked
  <2>4. /\ todo' \in Seq(Todos) /\ DOMAIN todo \subseteq DOMAIN todo'
        /\ \A x \in DOMAIN todo : todo'[x] = todo[x]
        /\ \A x \in DOMAIN todo' : x \notin DOMAIN todo => todo'[x] = r
    BY <2>1, <2>2 DEF TypeInv
  <2>5. RowsTouched
    BY <2>3, <2>4 DEF RowsTouched, Touched
  <2>6. RowsAdded
    BY <2>1, <2>2, <2>3, <2>4 DEF RowsAdded
  <2> QED BY <2>2, <2>5, <2>6, SameTimelines
<1>7. ASSUME NEW x \in DOMAIN todo, Complete(x) \/ Reopen(x) \/ Dismiss(x) \/ Snooze(x)
      PROVE  RowsTouched /\ RowsAdded /\ TimelinesGrow
  <2>1. todo[x] \in Todos /\ x \in Nat /\ UNCHANGED app
    BY <1>7, TypedParts DEF Complete, Reopen, Dismiss, Snooze, user
  <2>2. Tracked' \subseteq Tracked /\ app' \in [Apps -> Histories]
    BY <2>1 DEF Tracked, TypeInv
  <2>3. CASE Complete(x)
    <3> DEFINE p == [todo[x] EXCEPT !.status = "done", !.completed = now]
    <3>1. /\ p \in Todos /\ Touched(todo[x], p)
          /\ todo[x].status # "gone" /\ p.status # "gone"
      BY <2>1, <2>3, TypedParts DEF Todos, Touched, Complete
    <3>2. todo' = [todo EXCEPT ![x] = p]
      BY <2>3 DEF Complete
    <3> HIDE DEF p
    <3>3. TimelinesGrow
      <4>1. CASE todo[x].app = Global
        BY <2>1, <2>3, <4>1, SameTimelines DEF Complete
      <4>2. CASE todo[x].app # Global
        BY <2>1, <2>2, <2>3, <4>2, TypedParts, TimelineLogged DEF Complete
      <4> QED BY <4>1, <4>2
    <3> QED BY <2>1, <3>1, <3>2, <3>3, OneRowTouched
  <2>4. CASE Reopen(x)
    <3> DEFINE p == [todo[x] EXCEPT !.status = "pending", !.completed = Never, !.undone = TRUE]
    <3>1. /\ p \in Todos /\ Touched(todo[x], p)
          /\ todo[x].status # "gone" /\ p.status # "gone"
      BY <2>1, <2>4, TypedParts DEF Todos, Touched, Reopen
    <3>2. todo' = [todo EXCEPT ![x] = p]
      BY <2>4 DEF Reopen
    <3> HIDE DEF p
    <3>3. TimelinesGrow
      <4>1. event' = [a \in Apps |-> [n \in DOMAIN event[a] |->
                        IF event[a][n].todo = x THEN [event[a][n] EXCEPT !.kind = "retracted"]
                        ELSE event[a][n]]]
        BY <2>4 DEF Reopen
      <4>2. \A a \in Apps : \A n \in DOMAIN event[a] :
              event'[a][n] \in Events /\ (event'[a][n].kind = "interview" => event'[a][n] = event[a][n])
        BY <4>1, TypedParts DEF Events
      <4>3. ASSUME NEW a \in Apps
            PROVE  event'[a] \in Seq(Events) /\ DOMAIN event'[a] = DOMAIN event[a]
        <5>1. DOMAIN event[a] = 1 .. Len(event[a]) /\ Len(event[a]) \in Nat
          BY DEF TypeInv
        <5>2. event'[a] \in [1 .. Len(event[a]) -> Events]
          BY <4>1, <4>2, <5>1
        <5> QED BY <5>1, <5>2
      <4>4. event' \in [Apps -> Seq(Events)]
        BY <4>1, <4>3
      <4> QED BY <2>2, <4>2, <4>3, <4>4 DEF TimelinesGrow, Interviews, Tracked
    <3> QED BY <2>1, <3>1, <3>2, <3>3, OneRowTouched
  <2>5. CASE Dismiss(x)
    <3> DEFINE p == [todo[x] EXCEPT !.status = "dismissed"]
    <3>1. /\ p \in Todos /\ Touched(todo[x], p)
          /\ todo[x].status # "gone" /\ p.status # "gone"
      BY <2>1, <2>5, TypedParts DEF Todos, Touched, Dismiss
    <3>2. todo' = [todo EXCEPT ![x] = p] /\ UNCHANGED <<app, event>>
      BY <2>5 DEF Dismiss, user
    <3> HIDE DEF p
    <3> QED BY <2>1, <3>1, <3>2, OneRowTouched, SameTimelines
  <2>6. CASE Snooze(x)
    <3>1. PICK due \in Postponed(todo[x].due) : todo' = [todo EXCEPT ![x].due = due]
      BY <2>6 DEF Snooze
    <3>2. due \in Nat
      <4>1. NextWeek \in Nat
        <5>1. WeekOf(Today) + 1 \in Nat /\ WeekDays \in Nat
          BY TypedParts, CalendarIsNat, CalendarIsOne
        <5>2. \A m, k \in Nat : m * k \in Nat
          OBVIOUS
        <5> QED BY <5>1, <5>2 DEF NextWeek
      <4> QED BY <2>1, <3>1, <4>1, TypedParts DEF Postponed, Todos
    <3> DEFINE p == [todo[x] EXCEPT !.due = due]
    <3>3. /\ p \in Todos /\ Touched(todo[x], p)
          /\ todo[x].status # "gone" /\ p.status # "gone"
      BY <2>1, <2>6, <3>2 DEF Todos, Touched, Snooze
    <3>4. todo' = [todo EXCEPT ![x] = p] /\ UNCHANGED <<app, event>>
      BY <2>6, <3>1 DEF Snooze, user
    <3> HIDE DEF p
    <3> QED BY <2>1, <3>3, <3>4, OneRowTouched, SameTimelines
  <2> QED BY <1>7, <2>3, <2>4, <2>5, <2>6
<1>8. RowsTouched /\ RowsAdded /\ TimelinesGrow
  <2>1. CASE \E a \in Apps :
               \/ \E status \in Targets : Transition(a, status)
               \/ \E ahead \in Ahead : Interview(a, now + ahead)
               \/ Delete(a)
    BY <1>3, <1>4, <1>5, <2>1
  <2>2. CASE (\E a \in Apps : Write(a, "apply", Today)) \/ Write(Global, "networking", Undated)
    BY <1>6, <2>2
  <2>3. CASE \E x \in DOMAIN todo : Complete(x) \/ Reopen(x) \/ Dismiss(x) \/ Snooze(x)
    BY <1>7, <2>3
  <2> QED BY <2>1, <2>2, <2>3 DEF UserStep
<1> QED BY <1>2, <1>8

-----------------------------------------------------------------------------
(* What a sweep does *)

LEMMA SweepTyped ==
  ASSUME TypeInv, NEW s \in InFlight
  PROVE  /\ s \in Sweeps /\ sweep[s] \in [at : 0 .. LastTick, rows : SUBSET Todos]
         /\ sweep[s].at \in 0 .. LastTick /\ sweep[s].at \in Nat /\ sweep[s].rows \subseteq Todos
<1>1. s \in Sweeps /\ sweep[s] \in [at : 0 .. LastTick, rows : SUBSET Todos]
  BY DEF TypeInv, InFlight
<1> QED BY <1>1

\* A commit adds the rows it holds, each once, and leaves the others alone.
LEMMA CommitEffects ==
  ASSUME Base, NEW s \in Sweeps, CommitSweep(s)
  PROVE  /\ s \in InFlight /\ InFlight' = InFlight \ {s}
         /\ \A t \in InFlight \ {s} : sweep'[t] = sweep[t]
         /\ UNCHANGED <<now, rest, app, event, begun, overlapped, ops, Tracked>>
         /\ swept' = swept \cup {sweep[s].at}
         /\ todo' \in Seq(Todos) /\ DOMAIN todo \subseteq DOMAIN todo'
         /\ \A x \in DOMAIN todo : todo'[x] = todo[x]
         /\ \A y \in DOMAIN todo' : y \notin DOMAIN todo =>
              todo'[y] \in sweep[s].rows /\ todo'[y].app \in Tracked \cup {Global}
         /\ \A y, z \in DOMAIN todo' :
              y \notin DOMAIN todo /\ z \notin DOMAIN todo /\ todo'[y] = todo'[z] => y = z
         /\ \A r \in sweep[s].rows : \E y \in DOMAIN todo' : todo'[y] = r
         /\ \A x \in DOMAIN todo, y \in DOMAIN todo' : y \notin DOMAIN todo => x < y
<1> DEFINE rows == sweep[s].rows
           q == SetToSeq(rows)
<1>1. s \in InFlight
  BY DEF CommitSweep, InFlight
<1>2. IsFiniteSet(rows) /\ rows \subseteq Todos
  BY <1>1, SweepTyped DEF Base, SweepInv
<1>3. /\ q \in Seq(rows)
      /\ \A r \in rows : \E i \in DOMAIN q : q[i] = r
      /\ \A i, j \in DOMAIN q : q[i] = q[j] => i = j
  <2> HIDE DEF rows
  <2> QED BY <1>2, SetToSeqOrders
<1>4. /\ sweep' = [sweep EXCEPT ![s] = Idle] /\ swept' = swept \cup {sweep[s].at}
      /\ \A r \in rows : r.app \in Tracked \cup {Global}
      /\ todo' = todo \o q
      /\ UNCHANGED <<now, rest, app, event, begun, overlapped, ops>>
  BY DEF CommitSweep, user
<1>5. InFlight' = InFlight \ {s} /\ \A t \in InFlight \ {s} : sweep'[t] = sweep[t]
  BY <1>4 DEF Base, TypeInv, InFlight
<1>6. Tracked' = Tracked
  BY <1>4 DEF Tracked
<1> HIDE DEF q, rows
<1>7. todo \in Seq(Todos) /\ q \in Seq(Todos)
  BY <1>2, <1>3 DEF Base, TypeInv
<1>8. /\ todo' \in Seq(Todos) /\ DOMAIN todo \subseteq DOMAIN todo'
      /\ \A x \in DOMAIN todo : todo'[x] = todo[x]
      /\ \A x \in DOMAIN todo, y \in DOMAIN todo' : y \notin DOMAIN todo => x < y
  BY <1>4, <1>7
<1>9. /\ \A y \in DOMAIN todo' : y \notin DOMAIN todo =>
           y - Len(todo) \in DOMAIN q /\ todo'[y] = q[y - Len(todo)]
      /\ \A i \in DOMAIN q : i + Len(todo) \in DOMAIN todo' /\ todo'[i + Len(todo)] = q[i]
  BY <1>4, <1>7
<1>10. \A y \in DOMAIN todo' : y \notin DOMAIN todo => todo'[y] \in rows
  BY <1>3, <1>9
<1>11. ASSUME NEW y \in DOMAIN todo', NEW z \in DOMAIN todo', y \notin DOMAIN todo,
              z \notin DOMAIN todo, todo'[y] = todo'[z]
       PROVE  y = z
  <2>1. y - Len(todo) = z - Len(todo)
    BY <1>3, <1>9, <1>11
  <2>2. y \in Nat /\ z \in Nat /\ Len(todo) \in Nat
    BY <1>7, <1>8
  <2> QED BY <2>1, <2>2
<1>12. \A r \in rows : \E y \in DOMAIN todo' : todo'[y] = r
  BY <1>3, <1>9
<1> QED BY <1>1, <1>4, <1>5, <1>6, <1>8, <1>10, <1>11, <1>12 DEF rows

\* A sweep that begins holds what the rules make now.
LEMMA BeginEffects ==
  ASSUME TypeInv, NEW s \in Sweeps, BeginSweep(s)
  PROVE  /\ s \notin InFlight /\ InFlight' \subseteq InFlight \cup {s}
         /\ sweep' \in [Sweeps -> {Idle} \cup [at : 0 .. LastTick, rows : SUBSET Todos]]
         /\ \A t \in InFlight : sweep'[t] = sweep[t]
         /\ sweep'[s] = [at |-> now, rows |-> Generated]
         /\ UNCHANGED <<now, rest, app, event, todo, swept, ops>> /\ begun' = TRUE
         /\ overlapped' \in BOOLEAN /\ (~ overlapped' => ~ overlapped /\ InFlight = {})
<1>1. [at |-> now, rows |-> Generated] \in [at : 0 .. LastTick, rows : SUBSET Todos]
  BY GeneratedRows DEF TypeInv
<1>2. /\ s \notin InFlight
      /\ sweep' = [sweep EXCEPT ![s] = [at |-> now, rows |-> Generated]]
      /\ UNCHANGED <<now, rest, app, event, todo, swept, ops>> /\ begun' = TRUE
  BY DEF BeginSweep, InFlight, user
<1>3. overlapped' \in BOOLEAN /\ (~ overlapped' => ~ overlapped /\ InFlight = {})
  BY DEF BeginSweep, InFlight, TypeInv
<1> DEFINE new == [at |-> now, rows |-> Generated]
<1> HIDE DEF new
<1>4. /\ sweep' \in [Sweeps -> {Idle} \cup [at : 0 .. LastTick, rows : SUBSET Todos]]
      /\ \A t \in InFlight : sweep'[t] = sweep[t]
      /\ sweep'[s] = new /\ InFlight' \subseteq InFlight \cup {s}
  BY <1>1, <1>2 DEF TypeInv, InFlight, new
<1> QED BY <1>2, <1>3, <1>4 DEF new

LEMMA AbortEffects ==
  ASSUME TypeInv, NEW s \in Sweeps, AbortSweep(s)
  PROVE  /\ InFlight' = InFlight \ {s} /\ \A t \in InFlight' : sweep'[t] = sweep[t]
         /\ sweep' \in [Sweeps -> {Idle} \cup [at : 0 .. LastTick, rows : SUBSET Todos]]
         /\ UNCHANGED <<now, rest, app, event, todo, begun, swept, overlapped, ops>>
  BY DEF AbortSweep, TypeInv, InFlight, user

-----------------------------------------------------------------------------
(* What holds of the to-dos and of the sweeps whatever the user does *)

LEMMA UserKeepsBase ==
  ASSUME Base, UserStep
  PROVE  Base'
<1>1. /\ RowsTouched /\ RowsAdded /\ TimelinesGrow
      /\ UNCHANGED <<now, rest, beat>> /\ ops' \in Nat
  BY UserStepEffects DEF Base
<1>2. TypeInv'
  BY <1>1 DEF Base, TypeInv, RowsTouched, TimelinesGrow, beat
<1>3. SweepInv'
  BY <1>1 DEF Base, SweepInv, InFlight, beat
<1>4. CompletedInv'
  <2>1. ASSUME NEW x \in DOMAIN todo', x \in DOMAIN todo
        PROVE  /\ todo'[x].status = "done" => todo'[x].completed <= LastTick
               /\ todo'[x].status \in {"pending", "dismissed"} => todo'[x].completed = Never
    BY <1>1, <2>1, TypedParts DEF Base, CompletedInv, RowsTouched, Touched
  <2> QED BY <1>1, <2>1 DEF CompletedInv, RowsAdded
<1>5. ParentInv'
  <2>1. ASSUME NEW x \in DOMAIN todo', x \in DOMAIN todo, todo'[x].status # "gone"
        PROVE  todo'[x].app \in Tracked' \cup {Global}
    <3>1. todo[x].status # "gone" /\ todo'[x].app = todo[x].app
          /\ (todo[x].app \in Tracked => todo[x].app \in Tracked')
      BY <1>1, <2>1 DEF RowsTouched, Touched
    <3> QED BY <2>1, <3>1 DEF Base, ParentInv, Rows
  <2> QED BY <1>1, <2>1 DEF ParentInv, Rows, RowsAdded
<1> QED BY <1>2, <1>3, <1>4, <1>5 DEF Base

LEMMA CommitKeepsBase ==
  ASSUME Base, NEW s \in Sweeps, CommitSweep(s)
  PROVE  Base'
<1>1. TypeInv'
  <2>1. swept' \subseteq 0 .. LastTick
    <3>1. swept' = swept \cup {sweep[s].at} /\ s \in InFlight
      BY CommitEffects
    <3> QED BY <3>1, SweepTyped DEF Base, TypeInv
  <2>2. sweep' \in [Sweeps -> {Idle} \cup [at : 0 .. LastTick, rows : SUBSET Todos]]
    BY DEF CommitSweep, Base, TypeInv
  <2> QED BY <2>1, <2>2, CommitEffects DEF Base, TypeInv
<1>2. SweepInv'
  <2>1. swept' \subseteq 0 .. now'
    <3>1. now' = now /\ swept' = swept \cup {sweep[s].at} /\ s \in InFlight
      BY CommitEffects
    <3>2. sweep[s].at \in Nat /\ now \in Nat /\ sweep[s].at <= now
      BY <3>1, SweepTyped, TypedParts DEF Base, SweepInv
    <3>3. sweep[s].at \in 0 .. now
      BY <3>2
    <3>4. swept \subseteq 0 .. now
      BY DEF Base, SweepInv
    <3> QED BY <3>1, <3>3, <3>4
  <2>2. \A t \in InFlight' : t \in InFlight /\ sweep'[t] = sweep[t]
    BY CommitEffects
  <2> QED BY <2>1, <2>2, CommitEffects DEF Base, SweepInv
<1>3. CompletedInv'
  BY CommitEffects DEF Base, CompletedInv, SweepInv
<1>4. ParentInv'
  BY CommitEffects DEF Base, ParentInv, Rows
<1> QED BY <1>1, <1>2, <1>3, <1>4 DEF Base

LEMMA BaseHolds == Spec => []Base
<1>1. Init => Base
  <2>1. ASSUME Init PROVE Base
    <3>1. InFlight = {} /\ DOMAIN todo = {} /\ todo \in Seq(Todos)
      BY <2>1 DEF Init, InFlight
    <3>2. \A a \in Apps : <<>> \in Seq(Events)
      OBVIOUS
    <3>3. 0 \in 0 .. LastTick /\ Never \in Nat
      BY NumbersAreNumbers DEF Never
    <3>4. TypeInv
      BY <2>1, <3>1, <3>2, <3>3 DEF Init, TypeInv, Histories, Statuses
    <3> QED BY <2>1, <3>1, <3>4 DEF Init, Base, SweepInv, CompletedInv, ParentInv, Rows
  <2> QED BY <2>1
<1>2. Base /\ [Next]_vars => Base'
  <2> SUFFICES ASSUME Base, [Next]_vars PROVE Base'
    OBVIOUS
  <2>1. CASE UserStep
    BY <2>1, UserKeepsBase
  <2>2. ASSUME NEW s \in Sweeps, BeginSweep(s) PROVE Base'
    <3>1. TypeInv'
      BY <2>2, BeginEffects DEF Base, TypeInv
    <3>2. SweepInv'
      <4>1. \A t \in InFlight' : (t \in InFlight /\ sweep'[t] = sweep[t])
                                  \/ sweep'[t] = [at |-> now, rows |-> Generated]
        BY <2>2, BeginEffects DEF Base
      <4>2. now <= now /\ now' = now /\ swept' = swept
        <5>1. now' = now /\ swept' = swept
          BY <2>2, BeginEffects DEF Base
        <5>2. now \in Nat
          BY TypedParts DEF Base
        <5> QED BY <5>1, <5>2
      <4> QED BY <4>1, <4>2, GeneratedRows DEF Base, SweepInv
    <3>3. CompletedInv' /\ ParentInv'
      BY <2>2, BeginEffects DEF Base, CompletedInv, ParentInv, Rows, Tracked
    <3> QED BY <3>1, <3>2, <3>3 DEF Base
  <2>3. ASSUME NEW s \in Sweeps, CommitSweep(s) PROVE Base'
    BY <2>3, CommitKeepsBase
  <2>4. ASSUME NEW s \in Sweeps, AbortSweep(s) PROVE Base'
    BY <2>4, AbortEffects DEF Base, TypeInv, SweepInv, CompletedInv, ParentInv, Rows, Tracked
  <2>5. CASE Tick
    <3>1. now' \in 0 .. LastTick /\ now <= now'
      BY <2>5, TypedParts DEF Base, Tick
    <3>2. /\ UNCHANGED <<rest, app, event, todo, sweep, swept, overlapped, ops>>
          /\ begun' = FALSE
      BY <2>5 DEF Tick, user
    <3>3. TypeInv'
      BY <3>1, <3>2 DEF Base, TypeInv
    <3>4. SweepInv'
      <4>1. InFlight' = InFlight
        BY <3>2 DEF InFlight
      <4>2. \A n \in Nat : n <= now => n <= now'
        BY <3>1, TypedParts DEF Base
      <4>3. swept' \subseteq 0 .. now' /\ \A s \in InFlight' : sweep'[s].at <= now'
        BY <3>1, <3>2, <4>1, <4>2, SweepTyped DEF Base, SweepInv
      <4> QED BY <3>2, <4>1, <4>3 DEF Base, SweepInv
    <3>5. CompletedInv' /\ ParentInv'
      BY <3>2 DEF Base, CompletedInv, ParentInv, Rows, Tracked
    <3> QED BY <3>3, <3>4, <3>5 DEF Base
  <2>6. CASE UNCHANGED vars
    <3>1. UNCHANGED <<now, rest, app, event, todo, sweep, begun, swept, overlapped, ops>>
      BY <2>6 DEF vars, user, beat
    <3> QED BY <3>1 DEF Base, TypeInv, SweepInv, CompletedInv, ParentInv, Rows, Tracked, InFlight
  <2> QED BY <2>1, <2>2, <2>3, <2>4, <2>5, <2>6 DEF Next, UserStep
<1> QED BY <1>1, <1>2, PTL DEF Spec

-----------------------------------------------------------------------------
(* The screens *)

\* Each open to-do is on one day of today's week, or on none that the week has.
LEMMA OnOneDay ==
  ASSUME TypeInv
  PROVE  StripCountsOnce
<1> DEFINE w == WeekOf(Today)
           first == w * WeekDays
           week == first .. first + WeekDays - 1
           strip == [d \in week |-> OnDay(w, d)]
<1>1. /\ Today \in Nat /\ WeekDays \in Nat \ {0} /\ first \in Nat
      /\ first <= Today /\ Today < first + WeekDays /\ (w + 1) * WeekDays = first + WeekDays
      /\ first + WeekDays < Undated
  <2>1. /\ Today \in Nat /\ WeekDays \in Nat \ {0} /\ first \in Nat
        /\ first <= Today /\ Today < first + WeekDays /\ (w + 1) * WeekDays = first + WeekDays
    BY TypedParts, WeekHoldsDay, CalendarIsOne
  <2>2. Today <= LastTick
    <3>1. Today * DayTicks <= now /\ DayTicks \in Nat \ {0} /\ Today \in Nat
      BY TypedParts, DivBounds, CalendarIsOne DEF Today, Day
    <3>2. \A m \in Nat, k \in Nat \ {0} : m <= m * k
      OBVIOUS
    <3>3. Today <= Today * DayTicks /\ Today * DayTicks \in Nat
      BY <3>1, <3>2
    <3> QED BY <3>1, <3>3, TypedParts
  <2> QED BY <2>1, <2>2, TypedParts DEF Undated
<1>2. ASSUME NEW x \in Owed
      PROVE  Cardinality({d \in DOMAIN strip : x \in strip[d]}) =
               IF todo[x].due = Undated \/ todo[x].due < (w + 1) * WeekDays THEN 1 ELSE 0
  <2> DEFINE due == todo[x].due
             days == {d \in DOMAIN strip : x \in strip[d]}
  <2>1. due \in Nat
    BY TypedParts DEF Owed, Todos
  <2>2. \A d \in week : x \in OnDay(w, d) <=>
          \/ due = d /\ d >= Today
          \/ d = Today /\ (due < Today \/ due = Undated)
    BY DEF OnDay, DueFrom
  <2>3. days = {d \in week : (due = d /\ d >= Today)
                              \/ (d = Today /\ (due < Today \/ due = Undated))}
    BY <2>2
  <2> HIDE DEF w, first, days, due, strip
  <2>4. \A d : d \in week <=> d \in Nat /\ first <= d /\ d < first + WeekDays
    BY <1>1
  <2>5. CASE due < Today \/ due = Undated
    <3>1. days = {Today}
      BY <1>1, <2>1, <2>3, <2>4, <2>5
    <3>2. due = Undated \/ due < (w + 1) * WeekDays
      BY <1>1, <2>1, <2>5
    <3> QED BY <3>1, <3>2, FS_Singleton DEF days, due
  <2>6. CASE due >= Today /\ due # Undated /\ due < first + WeekDays
    <3>1. days = {due}
      BY <1>1, <2>1, <2>3, <2>4, <2>6
    <3>2. due < (w + 1) * WeekDays
      BY <1>1, <2>6
    <3> QED BY <3>1, <3>2, FS_Singleton DEF days, due
  <2>7. CASE due # Undated /\ due >= first + WeekDays
    <3>1. days = {}
      BY <1>1, <2>1, <2>3, <2>4, <2>7
    <3>2. ~ (due = Undated \/ due < (w + 1) * WeekDays)
      BY <1>1, <2>1, <2>7
    <3> QED BY <3>1, <3>2, FS_EmptySet DEF days, due
  <2> QED BY <1>1, <2>1, <2>5, <2>6, <2>7
<1> QED BY <1>2 DEF StripCountsOnce

\* The week strip counts every open to-do once, for weeks and days of any
\* length and whatever is overdue or undated.
THEOREM StripCountsOnceHolds == Spec => []StripCountsOnce
<1>1. Base => StripCountsOnce
  BY OnOneDay DEF Base
<1> QED BY <1>1, BaseHolds, PTL

\* The review and the Plan view count the same rows: no to-do outlives its
\* application, so what a sweep inserts late cannot be seen by one of them only.
THEOREM ReviewAgreesWithStatsHolds == Spec => []ReviewAgreesWithStats
<1>1. Base => ReviewAgreesWithStats
  <2> SUFFICES ASSUME Base PROVE ReviewAgreesWithStats
    OBVIOUS
  <2>1. {x \in Rows : todo[x].app \in Views} = Rows
    BY DEF Base, ParentInv, Views
  <2> QED BY <2>1 DEF ReviewAgreesWithStats, ReviewDone, StatsDone
<1> QED BY <1>1, BaseHolds, PTL

-----------------------------------------------------------------------------
(* Neither twice, nor again *)

\* The rules fire for work whose older rows are all settled.
LEMMA RulesFindSettled ==
  ASSUME Base, NEW x \in DOMAIN todo, NEW r \in Generated
  PROVE  Settled(todo[x], r)
<1> SUFFICES ASSUME todo[x].auto, todo[x].status # "gone",
                    todo[x].app = r.app, todo[x].type = r.type
             PROVE  /\ todo[x].status = "pending" => todo[x].undone
                    /\ todo[x].status = "dismissed" =>
                         todo[x].undone \/ (todo[x].type = "global"
                           /\ WeekOf(Day(todo[x].created)) # WeekOf(Day(r.created)))
                    /\ todo[x].type = "follow_up" => todo[x].status = "cancelled"
  BY DEF Settled
<1>1. Fires(r.type, r.app) /\ r.created = now
  BY GeneratedRows DEF Base
<1>2. x \in RowsOf(r.app)
  BY DEF RowsOf
<1>3. CASE r.type = "global"
  <2>1. QueueRefill /\ r.app = Global
    BY <1>1, <1>3 DEF Fires
  <2>2. /\ todo[x].status # "pending"
        /\ todo[x].status = "dismissed" => WeekOf(Day(todo[x].created)) # WeekOf(Today)
    BY <1>2, <1>3, <2>1 DEF QueueRefill
  <2> QED BY <1>1, <1>3, <2>2 DEF Today
<1>4. CASE r.type # "global"
  <2>1. ~ Suppressed(r.app, r.type)
    BY <1>1, <1>4 DEF Fires, ThankYou, FollowUp, CheckIn, ApplyOrDrop
  <2>2. todo[x].status \notin {"pending", "dismissed"}
    BY <1>2, <2>1 DEF Suppressed
  <2>3. ASSUME r.type = "follow_up" PROVE todo[x].status = "cancelled"
    <3>1. todo[x].completed = Never
      BY <1>1, <1>2, <2>3 DEF Fires, FollowUp
    <3>2. todo[x].status # "done"
      BY <3>1, TypedParts DEF Base, CompletedInv, Never
    <3> QED BY <2>2, <3>2, TypedParts DEF Base, Todos
  <2> QED BY <2>2, <2>3
<1> QED BY <1>3, <1>4

\* What was settled stays so, whatever the user does: a to-do is open again
\* only when its completion is undone, and a cancelled one never is.
LEMMA SettledStays ==
  ASSUME NEW o, NEW p, NEW r, Settled(o, r), Touched(o, p)
  PROVE  Settled(p, r)
<1> SUFFICES ASSUME p.auto, p.status # "gone", p.app = r.app, p.type = r.type
             PROVE  /\ p.status = "pending" => p.undone
                    /\ p.status = "dismissed" => p.undone
                         \/ (p.type = "global" /\ WeekOf(Day(p.created)) # WeekOf(Day(r.created)))
                    /\ p.type = "follow_up" => p.status = "cancelled"
  BY DEF Settled
<1>1. o.auto /\ o.app = r.app /\ o.type = r.type /\ o.created = p.created /\ o.type = p.type
  BY DEF Touched
<1>2. CASE o.status = "gone"
  BY <1>2 DEF Touched
<1>3. CASE o.status # "gone"
  BY <1>1, <1>3 DEF Settled, Touched
<1> QED BY <1>2, <1>3

\* The newer row matters for its work and its age only.
LEMMA SettledFor ==
  ASSUME NEW o, NEW r, NEW q, Settled(o, r),
         q.type = r.type, q.app = r.app, q.created = r.created
  PROVE  Settled(o, q)
BY DEF Settled

LEMMA UserKeepsNagInv ==
  ASSUME Base, NagInv, UserStep
  PROVE  NagInv'
<1>1. RowsTouched /\ RowsAdded /\ UNCHANGED <<sweep, overlapped>>
  BY UserStepEffects DEF Base, beat
<1>2. InFlight' = InFlight
  BY <1>1 DEF InFlight
<1> SUFFICES ASSUME ~ overlapped
             PROVE  /\ \A s \in InFlight : \A r \in sweep[s].rows, x \in DOMAIN todo' : Settled(todo'[x], r)
                    /\ \A x, y \in DOMAIN todo' : x < y /\ todo'[y].auto => Settled(todo'[x], todo'[y])
  BY <1>1, <1>2 DEF NagInv, Settled, Day, WeekOf
<1>3. ASSUME NEW s \in InFlight, NEW r \in sweep[s].rows, NEW x \in DOMAIN todo'
      PROVE  Settled(todo'[x], r)
  <2>1. CASE x \in DOMAIN todo
    BY <1>1, <2>1, SettledStays DEF NagInv, RowsTouched
  <2>2. CASE x \notin DOMAIN todo
    BY <1>1, <2>2 DEF RowsAdded, Settled
  <2> QED BY <2>1, <2>2
<1>4. ASSUME NEW x \in DOMAIN todo', NEW y \in DOMAIN todo', x < y, todo'[y].auto
      PROVE  Settled(todo'[x], todo'[y])
  <2>1. y \in DOMAIN todo
    BY <1>1, <1>4 DEF RowsAdded
  <2>2. x \in DOMAIN todo
    <3>1. todo \in Seq(Todos) /\ todo' \in Seq(Todos)
      BY <1>1 DEF Base, TypeInv, RowsTouched
    <3> QED BY <1>4, <2>1, <3>1
  <2>3. Touched(todo[x], todo'[x]) /\ Touched(todo[y], todo'[y])
    BY <1>1, <2>1, <2>2 DEF RowsTouched
  <2>4. Settled(todo[x], todo[y])
    BY <1>4, <2>1, <2>2, <2>3 DEF NagInv, Touched
  <2>5. Settled(todo'[x], todo[y])
    BY <2>3, <2>4, SettledStays
  <2> QED BY <2>3, <2>5, SettledFor DEF Touched
<1> QED BY <1>3, <1>4

LEMMA CommitKeepsNagInv ==
  ASSUME Base, NagInv, NEW s \in Sweeps, CommitSweep(s)
  PROVE  NagInv'
<1> SUFFICES ASSUME ~ overlapped
             PROVE  /\ \A t, u \in InFlight' : t = u
                    /\ \A t \in InFlight' : \A r \in sweep'[t].rows, x \in DOMAIN todo' : Settled(todo'[x], r)
                    /\ \A x, y \in DOMAIN todo' : x < y /\ todo'[y].auto => Settled(todo'[x], todo'[y])
  BY CommitEffects DEF NagInv, Settled, Day, WeekOf
<1>1. InFlight' = {}
  BY CommitEffects DEF NagInv
<1>2. ASSUME NEW x \in DOMAIN todo', NEW y \in DOMAIN todo', x < y, todo'[y].auto
      PROVE  Settled(todo'[x], todo'[y])
  <2>1. CASE y \in DOMAIN todo
    <3>1. x \in DOMAIN todo
      <4>1. todo \in Seq(Todos) /\ todo' \in Seq(Todos)
        BY CommitEffects DEF Base, TypeInv
      <4> QED BY <1>2, <2>1, <4>1
    <3> QED BY <1>2, <2>1, <3>1, CommitEffects DEF NagInv
  <2>2. CASE y \notin DOMAIN todo /\ x \in DOMAIN todo
    BY <2>2, CommitEffects DEF NagInv
  <2>3. CASE y \notin DOMAIN todo /\ x \notin DOMAIN todo
    <3>1. todo'[x] \in sweep[s].rows /\ todo'[y] \in sweep[s].rows
      BY <2>3, CommitEffects
    <3>2. todo'[x] # todo'[y]
      <4>1. todo' \in Seq(Todos)
        BY CommitEffects
      <4>2. x # y
        BY <1>2, <4>1
      <4> QED BY <2>3, <4>2, CommitEffects
    <3>3. ~ (todo'[x].app = todo'[y].app /\ todo'[x].type = todo'[y].type)
      BY <3>1, <3>2, CommitEffects DEF Base, SweepInv
    <3> QED BY <3>3 DEF Settled
  <2> QED BY <2>1, <2>2, <2>3
<1> QED BY <1>1, <1>2

LEMMA NagInvHolds == Spec => []NagInv
<1>1. Init => NagInv
  <2>1. ASSUME Init PROVE InFlight = {} /\ DOMAIN todo = {}
    BY <2>1 DEF Init, InFlight
  <2> QED BY <2>1 DEF NagInv
<1>2. Base /\ NagInv /\ [Next]_vars => NagInv'
  <2> SUFFICES ASSUME Base, NagInv, [Next]_vars PROVE NagInv'
    OBVIOUS
  <2>1. CASE UserStep
    BY <2>1, UserKeepsNagInv
  <2>2. ASSUME NEW s \in Sweeps, BeginSweep(s) PROVE NagInv'
    <3> SUFFICES ASSUME ~ overlapped' PROVE
               /\ \A t, u \in InFlight' : t = u
               /\ \A t \in InFlight' : \A r \in sweep'[t].rows, x \in DOMAIN todo' : Settled(todo'[x], r)
               /\ \A x, y \in DOMAIN todo' : x < y /\ todo'[y].auto => Settled(todo'[x], todo'[y])
      BY DEF NagInv, Settled, Day, WeekOf
    <3>1. InFlight' \subseteq {s} /\ sweep'[s].rows = Generated /\ UNCHANGED todo /\ ~ overlapped
      <4>1. /\ InFlight' \subseteq InFlight \cup {s} /\ sweep'[s] = [at |-> now, rows |-> Generated]
            /\ todo' = todo /\ (~ overlapped' => ~ overlapped /\ InFlight = {})
        BY <2>2, BeginEffects DEF Base
      <4> QED BY <4>1
    <3> QED BY <3>1, RulesFindSettled DEF NagInv
  <2>3. ASSUME NEW s \in Sweeps, CommitSweep(s) PROVE NagInv'
    BY <2>3, CommitKeepsNagInv
  <2>4. ASSUME NEW s \in Sweeps, AbortSweep(s) PROVE NagInv'
    BY <2>4, AbortEffects DEF Base, NagInv, Settled, Day, WeekOf
  <2>5. CASE Tick \/ UNCHANGED vars
    <3>1. UNCHANGED <<todo, sweep, overlapped>>
      BY <2>5 DEF Tick, vars, beat
    <3> QED BY <3>1 DEF NagInv, Settled, Day, WeekOf, InFlight
  <2> QED BY <2>1, <2>2, <2>3, <2>4, <2>5 DEF Next, UserStep
<1> QED BY <1>1, <1>2, BaseHolds, PTL DEF Spec

\* The engine never opens a second to-do for work it has an open one for, for
\* any number of workers, applications and days, as long as no two sweeps
\* overlap: no row is open at the read, and none opens before the commit but by
\* an undone completion.
THEOREM NoDoubleNagHolds == Spec => []NoDoubleNag
<1>1. Base /\ NagInv => NoDoubleNag
  BY DEF NagInv, NoDoubleNag, Repeats, Rows, Settled
<1> QED BY <1>1, BaseHolds, NagInvHolds, PTL

\* What the user dismissed, or followed up, the engine makes no more: a sweep
\* reads it settled, and it stays settled until the sweep commits and after.
THEOREM SettledIsSettledHolds == Spec => []SettledIsSettled
<1>1. Base /\ NagInv => SettledIsSettled
  BY DEF NagInv, SettledIsSettled, Repeats, Rows, Settled
<1> QED BY <1>1, BaseHolds, NagInvHolds, PTL

-----------------------------------------------------------------------------
(* No interview goes unthanked *)

\* A thank-you that is owed is made, or stands in the way of another.
LEMMA RulesThank ==
  ASSUME Base, NEW a \in Tracked, NEW n \in Interviews(a), WithinADay(event[a][n].at, now)
  PROVE  \/ Thanked(a, event[a][n].at)
         \/ \E r \in Generated : r.app = a /\ r.type = "thank_you"
<1> DEFINE at == event[a][n].at
<1>1. at \in Nat /\ now \in Nat /\ at <= now /\ now <= LastTick /\ now - at <= DayTicks
  <2>1. at \in Nat
    BY TypedParts DEF Base, Interviews, Tracked, Events
  <2>2. at <= now /\ now <= at + DayTicks
    BY DEF WithinADay
  <2> HIDE DEF at
  <2> QED BY <2>1, <2>2, TypedParts, CalendarIsOne DEF Base
<1>2. Recent(a) # {}
  BY <1>1 DEF Recent
<1>3. CASE Suppressed(a, "thank_you")
  <2>1. PICK x \in RowsOf(a) :
          todo[x].type = "thank_you" /\ todo[x].auto /\ todo[x].status \in {"pending", "dismissed"}
    BY <1>3 DEF Suppressed, StandIns
  <2>2. todo[x].completed = Never
    BY <2>1 DEF Base, CompletedInv, RowsOf
  <2>3. Never >= at
    BY <1>1, TypedParts DEF Base, Never
  <2> QED BY <2>1, <2>2, <2>3 DEF Thanked
<1>4. CASE ~ Suppressed(a, "thank_you")
  <2>1. Fires("thank_you", a)
    BY <1>2, <1>4 DEF Fires, Awake, ThankYou
  <2>2. a \in Apps \cup {Global} /\ "thank_you" \in Types
    BY DEF Tracked, Types
  <2> QED BY <2>1, <2>2, GeneratedRows DEF Base
<1> QED BY <1>3, <1>4

\* A thank-you stands, or was sent no earlier than now, until its application goes.
LEMMA ThankedStays ==
  ASSUME Base, RowsTouched, NEW a \in Tracked', NEW t \in Nat, t <= now, Thanked(a, t)
  PROVE  Thanked(a, t)'
<1>1. PICK x \in RowsOf(a) :
        todo[x].auto /\ todo[x].type = "thank_you" /\ todo[x].completed >= t
  BY DEF Thanked
<1>2. /\ x \in DOMAIN todo /\ x \in DOMAIN todo' /\ Touched(todo[x], todo'[x])
      /\ todo[x].app = a /\ todo[x].status # "gone"
  BY <1>1 DEF RowsTouched, RowsOf
<1>3. todo'[x].status # "gone"
  BY <1>2 DEF RowsTouched
<1>4. todo'[x].completed >= t
  <2>1. Never >= t /\ now >= t
    BY TypedParts DEF Base, Never
  <2> QED BY <1>1, <1>2, <1>3, <2>1 DEF Touched
<1> QED BY <1>1, <1>2, <1>3, <1>4 DEF Thanked, RowsOf, Touched

\* A row that a commit stores thanks for whatever was before it.
LEMMA HeldIsStored ==
  ASSUME Base, NEW s \in Sweeps, CommitSweep(s), NEW a \in Tracked, NEW t \in Nat, t <= now,
         Held(s, a)
  PROVE  Thanked(a, t)'
<1>1. PICK r \in sweep[s].rows : r.app = a /\ r.type = "thank_you"
  BY DEF Held
<1>2. r.auto /\ r.status = "pending" /\ r.completed = Never
  BY <1>1, CommitEffects DEF Base, SweepInv
<1>3. PICK y \in DOMAIN todo' : todo'[y] = r
  BY <1>1, CommitEffects
<1>4. Never >= t
  BY TypedParts DEF Base, Never
<1> QED BY <1>1, <1>2, <1>3, <1>4 DEF Thanked, RowsOf

\* Whatever the user does keeps what was owed: an interview logged now was not
\* foreseen by a sweep that has begun.
LEMMA UserKeepsOwedInv ==
  ASSUME Base, OwedInv, UserStep
  PROVE  OwedInv'
<1>1. RowsTouched /\ TimelinesGrow /\ UNCHANGED <<now, sweep, swept>>
  BY UserStepEffects DEF Base, beat
<1> SUFFICES ASSUME NEW a \in Tracked', NEW t \in Nat, Foreseen(a, t)'
             PROVE  SweptFor(a, t)'
  BY DEF OwedInv
<1>2. PICK n \in Interviews(a)' : event'[a][n].at = t /\ event'[a][n].logged < t
  BY DEF Foreseen
<1>3. a \in Tracked /\ (Foreseen(a, t) \/ now < t)
  BY <1>1, <1>2 DEF TimelinesGrow, Foreseen
<1>4. CASE now < t
  <2>1. \A b \in Nat : b <= now => ~ WithinADay(t, b)
    BY <1>4, TypedParts DEF Base, WithinADay
  <2>2. \A b \in swept : ~ WithinADay(t, b)
    BY <2>1, TypedParts DEF Base, SweepInv
  <2>3. \A s \in InFlight : ~ WithinADay(t, sweep[s].at)
    BY <2>1, SweepTyped DEF Base, SweepInv
  <2> QED BY <1>1, <2>2, <2>3 DEF SweptFor, InFlight, WithinADay
<1>5. CASE ~ (now < t) /\ Foreseen(a, t)
  <2>1. SweptFor(a, t) /\ t <= now
    BY <1>3, <1>5, TypedParts DEF OwedInv, Base
  <2>2. Thanked(a, t) => Thanked(a, t)'
    BY <1>1, <2>1, ThankedStays
  <2> QED BY <1>1, <2>1, <2>2 DEF SweptFor, InFlight, Held
<1> QED BY <1>3, <1>4, <1>5

LEMMA BeginKeepsOwedInv ==
  ASSUME Base, OwedInv, NEW s \in Sweeps, BeginSweep(s)
  PROVE  OwedInv'
<1>1. /\ InFlight' \subseteq InFlight \cup {s} /\ \A u \in InFlight : sweep'[u] = sweep[u]
      /\ sweep'[s] = [at |-> now, rows |-> Generated]
      /\ app' = app /\ event' = event /\ todo' = todo /\ swept' = swept
  BY BeginEffects DEF Base
<1> SUFFICES ASSUME NEW a \in Tracked, NEW t \in Nat, Foreseen(a, t)
             PROVE  SweptFor(a, t)'
  BY <1>1 DEF OwedInv, Tracked, Foreseen, Interviews
<1>2. SweptFor(a, t) /\ (Thanked(a, t)' <=> Thanked(a, t))
  BY <1>1 DEF OwedInv, Thanked, RowsOf
<1>3. ASSUME WithinADay(t, now)
      PROVE  Thanked(a, t) \/ \E r \in sweep'[s].rows : r.app = a /\ r.type = "thank_you"
  BY <1>1, <1>3, RulesThank DEF Foreseen
<1>4. \A b \in swept' : WithinADay(t, b) => Thanked(a, t)'
  BY <1>1, <1>2 DEF SweptFor
<1>5. \A u \in InFlight' : WithinADay(t, sweep'[u].at) => Thanked(a, t)' \/ Held(u, a)'
  <2>1. \A u \in InFlight : WithinADay(t, sweep'[u].at) => Thanked(a, t)' \/ Held(u, a)'
    BY <1>1, <1>2 DEF SweptFor, Held
  <2>2. WithinADay(t, sweep'[s].at) => Thanked(a, t)' \/ Held(s, a)'
    BY <1>1, <1>2, <1>3 DEF Held
  <2> QED BY <1>1, <2>1, <2>2
<1> QED BY <1>4, <1>5 DEF SweptFor, WithinADay

LEMMA CommitKeepsOwedInv ==
  ASSUME Base, OwedInv, NEW s \in Sweeps, CommitSweep(s)
  PROVE  OwedInv'
<1>1. /\ s \in InFlight /\ InFlight' = InFlight \ {s} /\ \A u \in InFlight' : sweep'[u] = sweep[u]
      /\ app' = app /\ event' = event /\ swept' = swept \cup {sweep[s].at} /\ Tracked' = Tracked
      /\ DOMAIN todo \subseteq DOMAIN todo' /\ \A x \in DOMAIN todo : todo'[x] = todo[x]
  BY CommitEffects
<1> SUFFICES ASSUME NEW a \in Tracked, NEW t \in Nat, Foreseen(a, t)
             PROVE  SweptFor(a, t)'
  BY <1>1 DEF OwedInv, Foreseen, Interviews
<1>2. SweptFor(a, t)
  BY DEF OwedInv
<1>3. Thanked(a, t) => Thanked(a, t)'
  BY <1>1 DEF Thanked, RowsOf
<1>4. ASSUME WithinADay(t, sweep[s].at)
      PROVE  Thanked(a, t)'
  <2>1. t <= now
    <3>1. sweep[s].at \in Nat /\ sweep[s].at <= now /\ now \in Nat /\ t <= sweep[s].at
      BY <1>1, <1>4, SweepTyped, TypedParts DEF Base, SweepInv, WithinADay
    <3> QED BY <3>1
  <2> QED BY <1>1, <1>2, <1>3, <1>4, <2>1, HeldIsStored DEF SweptFor
<1>5. \A b \in swept' : WithinADay(t, b) => Thanked(a, t)'
  BY <1>1, <1>2, <1>3, <1>4 DEF SweptFor
<1>6. \A u \in InFlight' : WithinADay(t, sweep'[u].at) => Thanked(a, t)' \/ Held(u, a)'
  BY <1>1, <1>2, <1>3 DEF SweptFor, Held
<1> QED BY <1>5, <1>6 DEF SweptFor, WithinADay

LEMMA OwedInvHolds == Spec => []OwedInv
<1>1. Init => OwedInv
  BY DEF Init, OwedInv, SweptFor, Foreseen, Interviews, InFlight
<1>2. Base /\ OwedInv /\ [Next]_vars => OwedInv'
  <2> SUFFICES ASSUME Base, OwedInv, [Next]_vars PROVE OwedInv'
    OBVIOUS
  <2>1. CASE UserStep
    BY <2>1, UserKeepsOwedInv
  <2>2. ASSUME NEW s \in Sweeps, BeginSweep(s) PROVE OwedInv'
    BY <2>2, BeginKeepsOwedInv
  <2>3. ASSUME NEW s \in Sweeps, CommitSweep(s) PROVE OwedInv'
    BY <2>3, CommitKeepsOwedInv
  <2>4. ASSUME UNCHANGED <<app, event, todo, swept>>, InFlight' \subseteq InFlight,
               \A u \in InFlight' : sweep'[u] = sweep[u]
        PROVE  OwedInv'
    BY <2>4 DEF OwedInv, SweptFor, Foreseen, Thanked, Held, Tracked, Interviews, RowsOf, WithinADay
  <2>5. ASSUME NEW s \in Sweeps, AbortSweep(s) PROVE OwedInv'
    BY <2>4, <2>5, AbortEffects DEF Base
  <2>6. CASE Tick \/ UNCHANGED vars
    <3>1. UNCHANGED <<app, event, todo, sweep, swept>>
      BY <2>6 DEF Tick, vars, beat, user
    <3> QED BY <2>4, <3>1 DEF InFlight
  <2> QED BY <2>1, <2>2, <2>3, <2>5, <2>6 DEF Next, UserStep
<1> QED BY <1>1, <1>2, BaseHolds, PTL DEF Spec

\* Every interview that was in the timeline before it took place gets its
\* thank-you from the first beat after it, for any thresholds and rest days: that
\* beat comes within the day the rule looks back over, and its sweep either
\* finds a thank-you that stands or stores one.
THEOREM ThankYouIsOwedHolds == Spec => []ThankYouIsOwed
<1>1. Base /\ OwedInv => ThankYouIsOwed
  <2> SUFFICES ASSUME Base, OwedInv, NEW a \in Tracked, NEW n \in Interviews(a),
                      event[a][n].logged < event[a][n].at,
                      \E b \in Beats : event[a][n].at <= b, NextBeat(event[a][n].at) \in swept
               PROVE  \E x \in RowsOf(a) : todo[x].auto /\ todo[x].type = "thank_you"
                                           /\ todo[x].completed >= event[a][n].at
    BY DEF ThankYouIsOwed
  <2>1. event[a][n].at \in Nat
    BY TypedParts DEF Base, Interviews, Tracked, Events
  <2>2. WithinADay(event[a][n].at, NextBeat(event[a][n].at))
    BY <2>1, NextBeatWithinADay
  <2>3. SweptFor(a, event[a][n].at)
    BY <2>1 DEF OwedInv, Foreseen
  <2> QED BY <2>2, <2>3 DEF SweptFor, Thanked
<1> QED BY <1>1, BaseHolds, OwedInvHolds, PTL

=============================================================================
