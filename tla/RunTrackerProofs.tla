-------------------------- MODULE RunTrackerProofs ----------------------------
(***************************************************************************)
(* ToldOnce, BusyIsWatched and KeptUntilTold for any number of accounts,   *)
(* slots, clicks and reloads.                                              *)
(*                                                                         *)
(* A run is told when it leaves the store, and never comes back: PageInv   *)
(* says that what the store and the storage hold has not been told, and    *)
(* sits in its own slot only.  KeepInv says that the storage holds all     *)
(* that the page does, so that a reload finds it, and that until somebody  *)
(* else signs in every run is the user's own, so that it gives it back.    *)
(***************************************************************************)
EXTENDS RunTracker, TLAPS

SlotOf(r) == of[r].slot

RunStatuses == {"none", "asked", "active", "ended", "refused"}

TypeInv ==
  /\ status \in [Runs -> RunStatuses]
  /\ of \in [Runs -> [slot : Slots \cup {NoRun}, user : Users \cup {Nobody}]]
  /\ who \in Users \cup {Nobody}
  /\ running \in [Slots -> Runs \cup {NoRun}]
  /\ told \in [Runs -> Nat]
  /\ switches \in Nat /\ reloads \in Nat
  /\ waiting \subseteq Runs /\ tracked \subseteq Runs /\ timers \subseteq Slots

\* A poll is a record, whichever number it got.
Shaped(p) ==
  p = [slot |-> p.slot, run |-> p.run, user |-> p.user, id |-> p.id, answer |-> p.answer]

PageInv ==
  /\ \A r \in tracked : status[r] \in {"active", "ended"}
  /\ \A r \in waiting \cup tracked : status[r] # "none" /\ SlotOf(r) \in Slots
  /\ waiting \cap tracked = {}
  /\ \A r \in Runs : told[r] <= 1 /\ (r \notin tracked => told[r] = 0)
  /\ \A k \in Slots : running[k] # NoRun =>
       running[k] \in tracked /\ SlotOf(running[k]) = k /\ told[running[k]] = 0
  /\ \A e \in stored :
       /\ e.run \in tracked /\ SlotOf(e.run) = e.slot /\ told[e.run] = 0
       /\ e = [slot |-> e.slot, run |-> e.run]
       /\ \A f \in stored : f.slot = e.slot => f = e
  /\ \A p \in polls : p.run \in tracked /\ SlotOf(p.run) = p.slot /\ Shaped(p)

KeepInv ==
  /\ switches = 0 /\ who # Nobody => \A r \in Runs : status[r] # "none" => of[r].user = who
  /\ Entries(running) \subseteq stored
  /\ KeptUntilTold

Inv == TypeInv /\ PageInv /\ BusyIsWatched /\ KeepInv

-----------------------------------------------------------------------------
\* What an entry of a slot looks like.
LEMMA EntriesAre ==
  ASSUME NEW held, NEW e \in Entries(held)
  PROVE  /\ e.slot \in Slots /\ held[e.slot] # NoRun /\ e.run = held[e.slot]
         /\ e = [slot |-> e.slot, run |-> e.run]
  BY DEF Entries

LEMMA EntriesOf ==
  ASSUME NEW held, NEW k \in Slots, held[k] # NoRun
  PROVE  [slot |-> k, run |-> held[k]] \in Entries(held)
  BY DEF Entries

\* Clicks and the server leave the page alone.
LEMMA RequestsKeepInv ==
  ASSUME Inv, NEW r \in Runs, (\E k \in Slots : Click(r, k)) \/ Create(r) \/ End(r) \/ Miss(r) \/ Age(r)
  PROVE  Inv'
<1> USE DEF Inv
<1>1. UNCHANGED <<who, running, timers, stored, polls, told, tracked, replaced, denied, switches, reloads>>
  BY DEF Click, Create, End, Miss, Age, store, seen
<1>2. CASE \E k \in Slots : Click(r, k)
  <2>1. PICK k \in Slots : Click(r, k)
    BY <1>2
  <2>2. /\ status[r] = "none" /\ status' = [status EXCEPT ![r] = "asked"]
        /\ of' = [of EXCEPT ![r] = [slot |-> k, user |-> who]]
        /\ waiting' = waiting \cup {r} /\ late' = late
    BY <2>1 DEF Click
  <2>3. TypeInv'
    <3>1. [slot |-> k, user |-> who] \in [slot : Slots \cup {NoRun}, user : Users \cup {Nobody}]
      BY DEF TypeInv
    <3>2. status' \in [Runs -> RunStatuses]
      BY <2>2 DEF TypeInv, RunStatuses
    <3> QED BY <1>1, <2>2, <3>1, <3>2 DEF TypeInv
  <2>4. /\ \A s \in Runs : s # r => of'[s] = of[s] /\ status'[s] = status[s]
        /\ of'[r].slot = k /\ of'[r].user = who /\ status'[r] = "asked"
    BY <2>2 DEF TypeInv
  <2>5. r \notin tracked /\ r \notin waiting
    BY <2>2 DEF PageInv
  <2>6. PageInv'
    BY <1>1, <2>2, <2>4, <2>5 DEF PageInv, SlotOf, TypeInv
  <2>7. BusyIsWatched'
    BY <1>1 DEF BusyIsWatched
  <2>8. KeepInv'
    BY <1>1, <2>2, <2>4 DEF KeepInv, KeptUntilTold, Tracked, Entries
  <2> QED BY <2>3, <2>6, <2>7, <2>8
<1>3. CASE Create(r) \/ End(r) \/ Miss(r) \/ Age(r)
  <2>1. /\ of' = of /\ waiting' \subseteq waiting /\ late \subseteq late'
        /\ \A s \in Runs : status'[s] # "none" <=> status[s] # "none"
        /\ \A s \in Runs : status[s] \in {"active", "ended"} => status'[s] \in {"active", "ended"}
        /\ status' \in [Runs -> RunStatuses]
    BY <1>3 DEF Create, End, Miss, Age, server, TypeInv, RunStatuses
  <2>2. TypeInv'
    BY <1>1, <2>1 DEF TypeInv
  <2>3. PageInv'
    BY <1>1, <2>1 DEF PageInv, SlotOf, TypeInv
  <2>4. BusyIsWatched'
    BY <1>1 DEF BusyIsWatched
  <2>5. KeepInv'
    BY <1>1, <2>1 DEF KeepInv, KeptUntilTold, Tracked, Entries
  <2> QED BY <2>2, <2>3, <2>4, <2>5
<1> QED BY <1>2, <1>3

\* startTracking puts a run into its slot, in the storage too.
LEMMA TrackKeepsInv ==
  ASSUME Inv, NEW r \in Runs, Track(r)
  PROVE  Inv'
<1> USE DEF Inv
<1>1. PICK k \in Slots : k = SlotOf(r)
  BY DEF Track, PageInv
<1>2. /\ r \in waiting /\ waiting' = waiting \ {r}
      /\ running' = [running EXCEPT ![k] = r]
      /\ timers' = timers \cup {k} /\ stored' = Entries(running')
      /\ tracked' = tracked \cup {r}
      /\ replaced' = replaced \cup ({running[k]} \ {NoRun})
      /\ UNCHANGED <<status, of, who, polls, late, told, denied, switches, reloads>>
  BY <1>1 DEF Track, Persist, server, SlotOf
<1>3. TypeInv'
  BY <1>2 DEF TypeInv
<1>4. r \notin tracked /\ told[r] = 0 /\ r # NoRun
  BY <1>2, NamesAreApart DEF PageInv
<1>5. \A j \in Slots : running'[j] = IF j = k THEN r ELSE running[j]
  BY <1>2 DEF TypeInv
<1>6. \A j \in Slots : running'[j] # NoRun =>
         running'[j] \in tracked' /\ SlotOf(running'[j]) = j /\ told[running'[j]] = 0
  BY <1>1, <1>2, <1>4, <1>5 DEF PageInv
<1>7. \A e \in stored' : /\ e.slot \in Slots /\ running'[e.slot] # NoRun /\ e.run = running'[e.slot]
                         /\ e = [slot |-> e.slot, run |-> e.run]
  BY <1>2, EntriesAre
<1>8. PageInv'
  <2>1. \A e \in stored' :
          /\ e.run \in tracked' /\ SlotOf(e.run) = e.slot /\ told[e.run] = 0
          /\ e = [slot |-> e.slot, run |-> e.run]
          /\ \A f \in stored' : f.slot = e.slot => f = e
    BY <1>6, <1>7
  <2>2. \A s \in waiting' \cup tracked' : status[s] # "none" /\ SlotOf(s) \in Slots
    BY <1>2 DEF PageInv
  <2>3. waiting' \cap tracked' = {}
    BY <1>2, <1>4 DEF PageInv
  <2>4. \A s \in Runs : told[s] <= 1 /\ (s \notin tracked' => told[s] = 0)
    BY <1>2 DEF PageInv
  <2>5. \A p \in polls : p.run \in tracked' /\ SlotOf(p.run) = p.slot /\ Shaped(p)
    BY <1>2 DEF PageInv
  <2>7. \A s \in tracked' : status[s] \in {"active", "ended"}
    BY <1>2 DEF PageInv, Track
  <2>6. UNCHANGED <<status, of, polls, told>>
    BY <1>2
  <2> QED BY <1>6, <2>1, <2>2, <2>3, <2>4, <2>5, <2>6, <2>7 DEF PageInv, SlotOf
<1>9. BusyIsWatched'
  BY <1>2, <1>5 DEF BusyIsWatched
<1>10. KeepInv'
  <2>1. ASSUME NEW s \in tracked, Tracked(s) PROVE Tracked(s)' \/ s \in replaced'
    <3>1. PICK j \in Slots : running[j] = s
      BY <2>1 DEF Tracked
    <3>2. s # NoRun
      BY NamesAreApart DEF TypeInv
    <3> QED BY <1>2, <1>5, <3>1, <3>2 DEF Tracked
  <2>2. Tracked(r)'
    BY <1>5 DEF Tracked
  <2>3. KeptUntilTold'
    BY <1>2, <2>1, <2>2 DEF KeepInv, KeptUntilTold
  <2> QED BY <1>2, <2>3 DEF KeepInv
<1> QED BY <1>3, <1>8, <1>9, <1>10

\* forget empties a slot, in the storage too.
LEMMA ForgetIs ==
  ASSUME Inv, NEW k \in Slots, Forget(k)
  PROVE  /\ running' \in [Slots -> Runs \cup {NoRun}] /\ timers' \subseteq Slots
         /\ \A j \in Slots : running'[j] = IF j = k THEN NoRun ELSE running[j]
         /\ timers' = timers \ {k}
         /\ \A e \in stored' : /\ e.slot \in Slots /\ e.slot # k /\ running[e.slot] # NoRun
                                /\ e.run = running[e.slot]
                                /\ e = [slot |-> e.slot, run |-> e.run]
         /\ Entries(running)' = stored'
<1>1. /\ running' = [running EXCEPT ![k] = NoRun] /\ timers' = timers \ {k}
      /\ stored' = Entries(running')
  BY DEF Forget, Persist
<1>2. running' \in [Slots -> Runs \cup {NoRun}] /\ timers' \subseteq Slots
      /\ \A j \in Slots : running'[j] = IF j = k THEN NoRun ELSE running[j]
  BY <1>1 DEF Inv, TypeInv
<1>3. \A e \in stored' : /\ e.slot \in Slots /\ running'[e.slot] # NoRun /\ e.run = running'[e.slot]
                         /\ e = [slot |-> e.slot, run |-> e.run]
  BY <1>1, EntriesAre
<1> QED BY <1>1, <1>2, <1>3

\* After forget, with a run of the slot told if it was in it, the page and the
\* storage hold nothing that has been told.
LEMMA ForgetKeepsPage ==
  ASSUME Inv, NEW k \in Slots, Forget(k),
         UNCHANGED <<status, of, waiting, tracked>>,
         \A p \in polls' : p.run \in tracked /\ SlotOf(p.run) = p.slot /\ Shaped(p),
         \/ told' = told
         \/ running[k] # NoRun /\ told' = [told EXCEPT ![running[k]] = @ + 1]
  PROVE  PageInv' /\ told' \in [Runs -> Nat]
<1> USE DEF Inv
<1>1. /\ \A j \in Slots : running'[j] = IF j = k THEN NoRun ELSE running[j]
      /\ \A e \in stored' : /\ e.slot \in Slots /\ e.slot # k /\ running[e.slot] # NoRun
                             /\ e.run = running[e.slot]
                             /\ e = [slot |-> e.slot, run |-> e.run]
  BY ForgetIs
<1>2. told' \in [Runs -> Nat] /\ \A r \in Runs : r # running[k] => told'[r] = told[r]
  BY DEF TypeInv
<1>3. \A r \in Runs : told'[r] <= 1 /\ (r \notin tracked => told'[r] = 0)
  <2>1. CASE told' = told
    BY <2>1 DEF PageInv
  <2>2. CASE running[k] # NoRun /\ told' = [told EXCEPT ![running[k]] = @ + 1]
    <3>1. running[k] \in tracked /\ told[running[k]] = 0 /\ running[k] \in Runs
      BY <2>2 DEF PageInv, TypeInv
    <3>2. told'[running[k]] = 1
      BY <2>2, <3>1 DEF TypeInv
    <3> QED BY <1>2, <3>1, <3>2 DEF PageInv
  <2> QED BY <2>1, <2>2
<1>4. \A j \in Slots : j # k /\ running[j] # NoRun =>
         /\ running[j] \in tracked /\ SlotOf(running[j]) = j /\ told'[running[j]] = 0
  <2>1. ASSUME NEW j \in Slots, j # k, running[j] # NoRun
        PROVE  running[j] \in tracked /\ SlotOf(running[j]) = j /\ told'[running[j]] = 0
    <3>1. running[j] \in tracked /\ SlotOf(running[j]) = j /\ told[running[j]] = 0 /\ running[j] \in Runs
      BY <2>1 DEF PageInv, TypeInv
    <3>2. running[j] # running[k]
      BY <2>1, <3>1, NamesAreApart DEF PageInv
    <3> QED BY <1>2, <3>1, <3>2
  <2> QED BY <2>1
<1>5. \A j \in Slots : running'[j] # NoRun =>
         running'[j] \in tracked /\ SlotOf(running'[j]) = j /\ told'[running'[j]] = 0
  BY <1>1, <1>4
<1>6. \A e \in stored' :
         /\ e.run \in tracked /\ SlotOf(e.run) = e.slot /\ told'[e.run] = 0
         /\ e = [slot |-> e.slot, run |-> e.run]
         /\ \A f \in stored' : f.slot = e.slot => f = e
  BY <1>1, <1>4
<1> QED BY <1>2, <1>3, <1>5, <1>6 DEF PageInv, SlotOf

\* A step that takes no run out of the store but the one it tells or denies, and
\* writes what it keeps, keeps KeepInv.
LEMMA StaysKept ==
  ASSUME Inv, UNCHANGED <<status, of, who, switches, reloads, late, tracked, replaced>>,
         running' \in [Slots -> Runs \cup {NoRun}],
         \A k \in Slots : running[k] # NoRun =>
           running'[k] = running[k] \/ told'[running[k]] = 1 \/ running[k] \in denied',
         Entries(running)' \subseteq stored',
         denied \subseteq denied',
         \A r \in Runs : told[r] = 1 => told'[r] = 1
  PROVE  KeepInv'
<1>1. ASSUME NEW r \in tracked, Tracked(r) PROVE Tracked(r)' \/ told'[r] = 1 \/ r \in denied'
  <2>1. PICK k \in Slots : running[k] = r
    BY <1>1 DEF Tracked
  <2>2. r # NoRun
    BY NamesAreApart DEF Inv, TypeInv
  <2> QED BY <2>1, <2>2 DEF Tracked
<1>2. KeptUntilTold'
  BY <1>1 DEF Inv, TypeInv, KeepInv, KeptUntilTold
<1> QED BY <1>2 DEF Inv, KeepInv

\* A timer's poll leaves, or gives the run up.
LEMMA FireKeepsInv ==
  ASSUME Inv, NEW k \in Slots, Fire(k)
  PROVE  Inv'
<1> USE DEF Inv
<1>1. /\ k \in timers /\ running[k] # NoRun
      /\ UNCHANGED <<status, of, who, waiting, late, tracked, replaced, denied, switches, reloads>>
  BY DEF Fire, server, seen
<1>2. /\ running[k] \in tracked /\ running[k] \in Runs /\ SlotOf(running[k]) = k /\ told[running[k]] = 0
  BY <1>1 DEF PageInv, TypeInv
<1>3. CASE Settle(k, running[k]) /\ polls' = polls
  <2>1. /\ Forget(k) /\ told' = [told EXCEPT ![running[k]] = @ + 1]
    BY <1>3 DEF Settle
  <2>2. PageInv' /\ told' \in [Runs -> Nat]
    BY <1>1, <1>3, <2>1, ForgetKeepsPage DEF PageInv
  <2>3. /\ running' \in [Slots -> Runs \cup {NoRun}] /\ timers' \subseteq Slots
        /\ \A j \in Slots : running'[j] = IF j = k THEN NoRun ELSE running[j]
        /\ timers' = timers \ {k} /\ Entries(running)' = stored'
    BY <2>1, ForgetIs
  <2>4. TypeInv'
    BY <1>1, <2>2, <2>3 DEF TypeInv
  <2>5. BusyIsWatched'
    BY <1>3, <2>3 DEF BusyIsWatched
  <2>6. told'[running[k]] = 1 /\ \A r \in Runs : told[r] = 1 => told'[r] = 1
    BY <1>2, <2>1 DEF TypeInv
  <2>7. KeepInv'
    BY <1>1, <1>3, <2>3, <2>6, StaysKept DEF KeepInv
  <2> QED BY <2>2, <2>4, <2>5, <2>7
<1>4. CASE /\ timers' = timers \ {k}
           /\ polls' = polls \cup {PollOf(k, running[k], who, Fresh)}
           /\ UNCHANGED <<running, stored, told>>
  <2>1. PICK p : /\ p.slot = k /\ p.run = running[k] /\ p.user = who /\ p.answer = "none"
                 /\ Shaped(p) /\ polls' = polls \cup {p}
    BY <1>4 DEF PollOf, Shaped
  <2>2. TypeInv'
    BY <1>1, <1>4 DEF TypeInv
  <2>3. PageInv'
    BY <1>1, <1>2, <1>4, <2>1 DEF PageInv, SlotOf
  <2>4. BusyIsWatched'
    BY <1>4, <2>1 DEF BusyIsWatched
  <2>5. Entries(running)' = Entries(running)
    BY <1>4 DEF Entries
  <2>6. KeepInv'
    BY <1>1, <1>4, <2>1, <2>5, StaysKept DEF KeepInv, TypeInv
  <2> QED BY <2>2, <2>3, <2>4, <2>6
<1> QED BY <1>3, <1>4 DEF Fire

\* The server answers.
LEMMA AnswerKeepsInv ==
  ASSUME Inv, NEW p \in polls, Answer(p)
  PROVE  Inv'
<1> USE DEF Inv
<1>1. /\ UNCHANGED <<status, of, who, waiting, running, timers, stored, late, told, tracked, replaced, denied, switches, reloads>>
      /\ p.answer = "none"
  BY DEF Answer, server, store, seen
<1>10. PICK a \in {"lost"} \cup TurnedAway \cup {s \in {status[p.run]} : of[p.run].user = p.user} :
         polls' = (polls \ {p}) \cup {[p EXCEPT !.answer = a]}
  BY DEF Answer
<1>2. PICK q : q = [p EXCEPT !.answer = a] /\ polls' = (polls \ {p}) \cup {q}
  BY <1>10
<1>3. q.slot = p.slot /\ q.run = p.run /\ q.user = p.user /\ q.answer = a /\ Shaped(q)
  BY <1>1, <1>2 DEF PageInv, Shaped
<1>4. TypeInv'
  BY <1>1 DEF TypeInv
<1>5. PageInv'
  <2>1. \A r \in polls' : r.run \in tracked /\ SlotOf(r.run) = r.slot /\ Shaped(r)
    <3>1. p.run \in tracked /\ SlotOf(p.run) = p.slot
      BY DEF PageInv
    <3>2. q.run \in tracked /\ SlotOf(q.run) = q.slot /\ Shaped(q)
      BY <1>3, <3>1
    <3>3. \A r \in polls : r.run \in tracked /\ SlotOf(r.run) = r.slot /\ Shaped(r)
      BY DEF PageInv
    <3> QED BY <1>2, <3>2, <3>3
  <2> QED BY <1>1, <2>1 DEF PageInv, SlotOf
<1>6. BusyIsWatched'
  <2>1. \A r \in polls : \E o \in polls' : o.slot = r.slot /\ o.run = r.run
    BY <1>2, <1>3
  <2> QED BY <1>1, <2>1 DEF BusyIsWatched
<1>8. Entries(running)' = Entries(running)
  BY <1>1 DEF Entries
<1>9. KeepInv'
  BY <1>1, <1>8, StaysKept DEF KeepInv, TypeInv
<1> QED BY <1>4, <1>5, <1>6, <1>9

\* The answer comes back.
LEMMA DeliverKeepsInv ==
  ASSUME Inv, NEW p \in polls, Deliver(p)
  PROVE  Inv'
<1> USE DEF Inv
<1>1. /\ UNCHANGED <<status, of, who, waiting, late, tracked, replaced, switches, reloads>>
      /\ denied \subseteq denied'
      /\ polls' = polls \ {p} /\ p.answer # "none"
  BY DEF Deliver, server, seen
<1>2. PICK k \in Slots : k = p.slot
  BY DEF PageInv
<1>3. \A q \in polls' : q.run \in tracked /\ SlotOf(q.run) = q.slot /\ Shaped(q)
  BY <1>1 DEF PageInv
<1>4. CASE /\ Forget(k)
           /\ \/ told' = told /\ denied' = denied \cup ({running[k]} \ {NoRun})
              \/ running[k] # NoRun /\ told' = [told EXCEPT ![running[k]] = @ + 1]
  <2>1. PageInv' /\ told' \in [Runs -> Nat]
    BY <1>1, <1>3, <1>4, ForgetKeepsPage
  <2>2. /\ running' \in [Slots -> Runs \cup {NoRun}] /\ timers' \subseteq Slots
        /\ \A j \in Slots : running'[j] = IF j = k THEN NoRun ELSE running[j]
        /\ timers' = timers \ {k} /\ Entries(running)' = stored'
    BY <1>4, ForgetIs
  <2>3. TypeInv'
    BY <1>1, <2>1, <2>2 DEF TypeInv
  <2>4. BusyIsWatched'
    BY <1>1, <1>2, <2>2 DEF BusyIsWatched
  <2>5. \A r \in Runs : told[r] = 1 => told'[r] = 1
    <3>1. CASE told' = told
      BY <3>1
    <3>2. CASE running[k] # NoRun /\ told' = [told EXCEPT ![running[k]] = @ + 1]
      BY <3>2 DEF PageInv, TypeInv
    <3> QED BY <1>4, <3>1, <3>2
  <2>6. running[k] # NoRun => told'[running[k]] = 1 \/ running[k] \in denied'
    <3>1. CASE denied' = denied \cup ({running[k]} \ {NoRun})
      BY <3>1
    <3>2. CASE running[k] # NoRun /\ told' = [told EXCEPT ![running[k]] = @ + 1]
      BY <3>2 DEF PageInv, TypeInv
    <3> QED BY <1>4, <3>1, <3>2
  <2>7. KeepInv'
    BY <1>1, <2>2, <2>5, <2>6, StaysKept DEF KeepInv
  <2> QED BY <2>1, <2>3, <2>4, <2>7
<1>5. CASE Schedule(k) \/ (UNCHANGED <<store, told>> /\ running[k] # p.run)
           \/ (UNCHANGED <<store, told>> /\ running[k] = NoRun)
  <2>1. /\ UNCHANGED <<running, stored, told>>
        /\ timers' = timers \cup {k} \/ (timers' = timers /\ (running[k] # p.run \/ running[k] = NoRun))
    BY <1>5 DEF Schedule, store
  <2>2. TypeInv'
    BY <1>1, <2>1 DEF TypeInv
  <2>3. PageInv'
    BY <1>1, <1>3, <2>1 DEF PageInv, SlotOf
  <2>4. BusyIsWatched'
    BY <1>1, <1>2, <2>1 DEF BusyIsWatched
  <2>5. Entries(running)' = Entries(running)
    BY <2>1 DEF Entries
  <2>6. KeepInv'
    BY <1>1, <2>1, <2>5, StaysKept DEF KeepInv, TypeInv
  <2> QED BY <2>2, <2>3, <2>4, <2>6
<1>6. CASE p.answer = "refused"
  <2>1. Forget(p.slot) /\ told' = told /\ denied' = denied \cup ({running[p.slot]} \ {NoRun})
    BY <1>6 DEF Deliver
  <2>2. Forget(k)
    BY <1>2, <2>1
  <2> QED BY <1>2, <1>4, <2>1, <2>2
<1>7. CASE p.answer = "lost"
  BY <1>2, <1>5, <1>7 DEF Deliver, Lost
<1>8. CASE p.answer \in {"active", "ended"}
  <2>1. Read(p)
    BY <1>8 DEF Deliver
  <2>2. CASE running[k] # p.run
    BY <1>2, <1>5, <2>1, <2>2 DEF Read
  <2>3. CASE running[k] = p.run /\ p.answer = "ended"
    <3>1. p.run # NoRun
      BY NamesAreApart DEF PageInv, TypeInv
    <3> QED BY <1>2, <1>4, <2>1, <2>3, <3>1 DEF Read, Settle
  <2>4. CASE running[k] = p.run /\ p.answer # "ended"
    BY <1>2, <1>5, <2>1, <2>4 DEF Read
  <2> QED BY <2>2, <2>3, <2>4
<1> QED BY <1>1, <1>6, <1>7, <1>8 DEF Deliver

\* What the storage gives back goes into free slots, each run into its own, and
\* a poll of it leaves at once.
LEMMA RehydrateGives ==
  ASSUME Inv, NEW u, NEW held \in [Slots -> Runs \cup {NoRun}], NEW flying \in SUBSET polls,
         Rehydrate(u, held, flying)
  PROVE  /\ running' \in [Slots -> Runs \cup {NoRun}]
         /\ \A k \in Slots : held[k] # NoRun => running'[k] = held[k]
         /\ \A k \in Slots : running'[k] # held[k] => [slot |-> k, run |-> running'[k]] \in Restorable(u, held)
         /\ \A e \in Restorable(u, held) : running'[e.slot] = e.run
         /\ \A p \in polls' \ flying : p.user = u /\ p.answer = "none" /\ Shaped(p)
                                       /\ [slot |-> p.slot, run |-> p.run] \in Restorable(u, held)
         /\ flying \subseteq polls'
         /\ \A e \in Restorable(u, held) : \E p \in polls' : p.slot = e.slot /\ p.run = e.run
         /\ stored' = stored \/ stored' = Entries(running')
         /\ Restorable(u, held) = {} => running' = held
         /\ Restorable(u, held) # {} => stored' = Entries(running')
<1> USE DEF Inv
<1>1. PICK back : back = Restorable(u, held)
  OBVIOUS
<1>2. \A e \in back : /\ e \in stored /\ held[e.slot] = NoRun /\ e.slot \in Slots /\ e.run \in Runs
                     /\ e = [slot |-> e.slot, run |-> e.run]
                     /\ \A f \in back : f.slot = e.slot => f = e
  BY <1>1 DEF Restorable, PageInv, TypeInv
<1>3. /\ running' = [k \in Slots |-> IF \E e \in back : e.slot = k
                                     THEN (CHOOSE e \in back : e.slot = k).run ELSE held[k]]
      /\ polls' = flying \cup {PollOf(e.slot, e.run, u, Fresh) : e \in back}
      /\ stored' = IF back = {} THEN stored ELSE Entries(running')
  BY <1>1 DEF Rehydrate
<1>4. ASSUME NEW e \in back PROVE (CHOOSE f \in back : f.slot = e.slot) = e
  BY <1>2
<1>5. \A e \in back : running'[e.slot] = e.run
  BY <1>2, <1>3, <1>4
<1>6. \A k \in Slots : (~ \E e \in back : e.slot = k) => running'[k] = held[k]
  BY <1>3
<1>7. running' \in [Slots -> Runs \cup {NoRun}]
  <2>1. \A k \in Slots : running'[k] \in Runs \cup {NoRun}
    BY <1>2, <1>5, <1>6
  <2> QED BY <1>3, <2>1
<1>8. \A k \in Slots : running'[k] # held[k] => [slot |-> k, run |-> running'[k]] \in back
  BY <1>2, <1>5, <1>6
<1>9. \A k \in Slots : held[k] # NoRun => running'[k] = held[k]
  BY <1>2, <1>6
<1>10. \A p \in polls' \ flying : p.user = u /\ p.answer = "none" /\ Shaped(p)
                                /\ [slot |-> p.slot, run |-> p.run] \in back
  <2>1. ASSUME NEW p \in polls' \ flying
        PROVE  p.user = u /\ p.answer = "none" /\ Shaped(p) /\ [slot |-> p.slot, run |-> p.run] \in back
    <3>1. PICK e \in back : p = PollOf(e.slot, e.run, u, Fresh)
      BY <1>3
    <3>2. p.slot = e.slot /\ p.run = e.run /\ p.user = u /\ p.answer = "none" /\ Shaped(p)
      BY <3>1 DEF PollOf, Shaped
    <3> QED BY <1>2, <3>2
  <2> QED BY <2>1
<1>11. \A e \in back : \E p \in polls' : p.slot = e.slot /\ p.run = e.run
  <2>1. ASSUME NEW e \in back PROVE \E p \in polls' : p.slot = e.slot /\ p.run = e.run
    <3>1. PollOf(e.slot, e.run, u, Fresh) \in polls'
      BY <1>3
    <3>2. PollOf(e.slot, e.run, u, Fresh).slot = e.slot /\ PollOf(e.slot, e.run, u, Fresh).run = e.run
      BY DEF PollOf
    <3> QED BY <3>1, <3>2
  <2> QED BY <2>1
<1>12. back = {} => running' = held
  BY <1>3
<1> QED BY <1>1, <1>3, <1>5, <1>7, <1>8, <1>9, <1>10, <1>11, <1>12

\* Another account signs in: what was stored of it comes back.
LEMMA SignInKeepsInv ==
  ASSUME Inv, NEW u \in Users, SignIn(u)
  PROVE  Inv'
<1> USE DEF Inv
<1>1. /\ UNCHANGED <<status, of, waiting, timers, late, told, tracked, replaced, denied, reloads>>
      /\ who' = u /\ switches' = switches + 1 /\ Rehydrate(u, running, polls)
  BY DEF SignIn, server
<1>2. PICK back : back = Restorable(u, running)
  OBVIOUS
<1>3. \A e \in back : /\ e.run \in tracked /\ SlotOf(e.run) = e.slot /\ told[e.run] = 0
                     /\ e \in stored
  BY <1>2 DEF PageInv, Restorable
<1>4. /\ running' \in [Slots -> Runs \cup {NoRun}]
      /\ \A k \in Slots : running[k] # NoRun => running'[k] = running[k]
      /\ \A k \in Slots : running'[k] # running[k] => [slot |-> k, run |-> running'[k]] \in back
      /\ \A e \in back : \E p \in polls' : p.slot = e.slot /\ p.run = e.run
      /\ \A p \in polls' \ polls : Shaped(p) /\ [slot |-> p.slot, run |-> p.run] \in back
      /\ polls \subseteq polls'
      /\ stored' = stored \/ stored' = Entries(running')
  <2>1. running \in [Slots -> Runs \cup {NoRun}] /\ polls \in SUBSET polls
    BY DEF TypeInv
  <2> QED BY <1>1, <1>2, <2>1, RehydrateGives
<1>5. TypeInv'
  BY <1>1, <1>4 DEF TypeInv
<1>6. \A k \in Slots : running'[k] # NoRun =>
         running'[k] \in tracked /\ SlotOf(running'[k]) = k /\ told[running'[k]] = 0
  <2>1. ASSUME NEW k \in Slots, running'[k] # running[k]
        PROVE  running'[k] \in tracked /\ SlotOf(running'[k]) = k /\ told[running'[k]] = 0
    <3>1. PICK e \in back : e = [slot |-> k, run |-> running'[k]]
      BY <1>4, <2>1
    <3>2. e.slot = k /\ e.run = running'[k]
      BY <3>1
    <3> QED BY <1>3, <3>2
  <2> QED BY <2>1 DEF PageInv
<1>7. \A p \in polls' : p.run \in tracked /\ SlotOf(p.run) = p.slot /\ Shaped(p)
  <2>1. ASSUME NEW p \in polls' \ polls
        PROVE  p.run \in tracked /\ SlotOf(p.run) = p.slot /\ Shaped(p)
    <3>1. PICK e \in back : e = [slot |-> p.slot, run |-> p.run]
      BY <1>4, <2>1
    <3>2. e.slot = p.slot /\ e.run = p.run
      BY <3>1
    <3> QED BY <1>3, <1>4, <2>1, <3>2
  <2> QED BY <2>1 DEF PageInv
<1>8. PageInv'
  <2>1. \A e \in stored' :
          /\ e.run \in tracked /\ SlotOf(e.run) = e.slot /\ told[e.run] = 0
          /\ e = [slot |-> e.slot, run |-> e.run]
          /\ \A f \in stored' : f.slot = e.slot => f = e
    <3>1. CASE stored' = stored
      BY <3>1 DEF PageInv
    <3>2. CASE stored' = Entries(running')
      <4>1. \A e \in stored' : /\ e.slot \in Slots /\ running'[e.slot] # NoRun /\ e.run = running'[e.slot]
                               /\ e = [slot |-> e.slot, run |-> e.run]
        BY <3>2, EntriesAre
      <4> QED BY <1>6, <4>1
    <3> QED BY <1>4, <3>1, <3>2
  <2> QED BY <1>1, <1>6, <1>7, <2>1 DEF PageInv, SlotOf
<1>9. BusyIsWatched'
  <2>1. ASSUME NEW k \in Slots, running'[k] # NoRun
        PROVE  k \in timers \/ \E p \in polls' : p.slot = k /\ p.run = running'[k]
    <3>1. CASE running'[k] = running[k]
      BY <1>4, <2>1, <3>1 DEF BusyIsWatched
    <3>2. CASE running'[k] # running[k]
      <4>1. PICK e \in back : e = [slot |-> k, run |-> running'[k]]
        BY <1>4, <3>2
      <4>2. e.slot = k /\ e.run = running'[k]
        BY <4>1
      <4> QED BY <1>4, <4>2
    <3> QED BY <3>1, <3>2
  <2> QED BY <1>1, <2>1 DEF BusyIsWatched
<1>10. KeepInv'
  <2>1. switches' # 0
    BY <1>1 DEF TypeInv
  <2>2. ASSUME NEW r \in tracked, Tracked(r) PROVE Tracked(r)'
    <3>1. PICK k \in Slots : running[k] = r
      BY <2>2 DEF Tracked
    <3>2. r # NoRun
      BY NamesAreApart DEF TypeInv
    <3> QED BY <1>4, <3>1, <3>2 DEF Tracked
  <2>3. KeptUntilTold'
    BY <1>1, <2>1, <2>2 DEF KeepInv, KeptUntilTold
  <2>4. Entries(running)' \subseteq stored'
    <3>1. CASE back = {}
      <4>1. running' = running /\ stored' = stored
        BY <1>1, <1>2, <3>1, RehydrateGives DEF Rehydrate, TypeInv
      <4> QED BY <4>1 DEF KeepInv, Entries
    <3>2. CASE back # {}
      BY <1>1, <1>2, <3>2 DEF Rehydrate, Entries
    <3> QED BY <3>1, <3>2
  <2> QED BY <2>1, <2>3, <2>4 DEF KeepInv
<1> QED BY <1>5, <1>8, <1>9, <1>10

\* The page is loaded again, and finds in the storage what it held.
LEMMA ReloadKeepsInv ==
  ASSUME Inv, Reload
  PROVE  Inv'
<1> USE DEF Inv
<1>1. PICK held : held = [k \in Slots |-> NoRun]
  OBVIOUS
<1>2. PICK back : back = Restorable(who, held)
  OBVIOUS
<1>3. /\ UNCHANGED <<status, of, who, late, told, tracked, replaced, denied, switches>>
      /\ reloads' # 0 /\ reloads' \in Nat
      /\ waiting' = {} /\ timers' = {} /\ Rehydrate(who, held, {})
  BY <1>1 DEF Reload, server, TypeInv
<1>4. /\ running' \in [Slots -> Runs \cup {NoRun}]
      /\ \A k \in Slots : running'[k] # held[k] => [slot |-> k, run |-> running'[k]] \in back
      /\ \A e \in back : running'[e.slot] = e.run
      /\ \A p \in polls' : p.user = who /\ p.answer = "none" /\ Shaped(p)
                          /\ [slot |-> p.slot, run |-> p.run] \in back
      /\ \A e \in back : \E p \in polls' : p.slot = e.slot /\ p.run = e.run
      /\ stored' = stored \/ stored' = Entries(running')
      /\ back = {} => running' = held
      /\ back # {} => stored' = Entries(running')
  <2>1. held \in [Slots -> Runs \cup {NoRun}] /\ {} \in SUBSET polls
    BY <1>1
  <2> QED BY <1>2, <1>3, <2>1, RehydrateGives
<1>5. \A e \in back : /\ e.run \in tracked /\ SlotOf(e.run) = e.slot /\ told[e.run] = 0
                     /\ e.slot \in Slots
  BY <1>2 DEF PageInv, Restorable
<1>6. TypeInv'
  BY <1>3, <1>4 DEF TypeInv
<1>7. \A k \in Slots : running'[k] # NoRun =>
         /\ running'[k] \in tracked /\ SlotOf(running'[k]) = k /\ told[running'[k]] = 0
         /\ \E p \in polls' : p.slot = k /\ p.run = running'[k]
  <2>1. ASSUME NEW k \in Slots, running'[k] # NoRun
        PROVE  /\ running'[k] \in tracked /\ SlotOf(running'[k]) = k /\ told[running'[k]] = 0
               /\ \E p \in polls' : p.slot = k /\ p.run = running'[k]
    <3>1. PICK e \in back : e = [slot |-> k, run |-> running'[k]]
      BY <1>1, <1>4, <2>1
    <3>2. e.slot = k /\ e.run = running'[k]
      BY <3>1
    <3> QED BY <1>4, <1>5, <3>2
  <2> QED BY <2>1
<1>8. \A p \in polls' : p.run \in tracked /\ SlotOf(p.run) = p.slot /\ Shaped(p)
  <2>1. ASSUME NEW p \in polls' PROVE p.run \in tracked /\ SlotOf(p.run) = p.slot
    <3>1. PICK e \in back : e = [slot |-> p.slot, run |-> p.run]
      BY <1>4, <2>1
    <3>2. e.slot = p.slot /\ e.run = p.run
      BY <3>1
    <3> QED BY <1>5, <3>2
  <2> QED BY <1>4, <2>1
<1>9. PageInv'
  <2>1. \A e \in stored' :
          /\ e.run \in tracked /\ SlotOf(e.run) = e.slot /\ told[e.run] = 0
          /\ e = [slot |-> e.slot, run |-> e.run]
          /\ \A f \in stored' : f.slot = e.slot => f = e
    <3>1. CASE stored' = stored
      BY <3>1 DEF PageInv
    <3>2. CASE stored' = Entries(running')
      <4>1. \A e \in stored' : /\ e.slot \in Slots /\ running'[e.slot] # NoRun /\ e.run = running'[e.slot]
                               /\ e = [slot |-> e.slot, run |-> e.run]
        BY <3>2, EntriesAre
      <4> QED BY <1>7, <4>1
    <3> QED BY <1>4, <3>1, <3>2
  <2> QED BY <1>3, <1>7, <1>8, <2>1 DEF PageInv, SlotOf
<1>10. BusyIsWatched'
  BY <1>7 DEF BusyIsWatched
<1>11. KeepInv'
  <2>1. Entries(running)' \subseteq stored'
    <3>1. CASE back = {}
      <4>1. \A k \in Slots : running'[k] = NoRun
        BY <1>1, <1>4, <3>1
      <4> QED BY <4>1 DEF Entries
    <3>2. CASE back # {}
      BY <1>4, <3>2 DEF Entries
    <3> QED BY <3>1, <3>2
  <2>2. ASSUME switches = 0, who # Nobody, NEW r \in tracked, Tracked(r), r \notin late
        PROVE  Tracked(r)'
    <3>1. PICK k \in Slots : running[k] = r
      BY <2>2 DEF Tracked
    <3>2. r # NoRun /\ r \in Runs
      BY NamesAreApart DEF TypeInv
    <3>3. PICK e : e = [slot |-> k, run |-> r]
      OBVIOUS
    <3>4. e \in stored
      BY <3>1, <3>2, <3>3, EntriesOf DEF KeepInv
    <3>5. e.slot = k /\ e.run = r
      BY <3>3
    <3>6. of[r].user = who
      BY <2>2, <3>2 DEF KeepInv, PageInv
    <3>7. e \in back
      BY <1>1, <1>2, <2>2, <3>4, <3>5, <3>6 DEF Restorable
    <3> QED BY <1>4, <3>5, <3>7 DEF Tracked
  <2>3. KeptUntilTold'
    BY <1>3, <2>2 DEF KeepInv, KeptUntilTold
  <2> QED BY <1>3, <2>1, <2>3 DEF KeepInv
<1> QED BY <1>6, <1>9, <1>10, <1>11

LEMMA SignOutKeepsInv ==
  ASSUME Inv, SignOut
  PROVE  Inv'
<1>1. /\ UNCHANGED <<status, of, waiting, running, timers, stored, polls, late, told, tracked, replaced, denied, switches, reloads>>
      /\ who' = Nobody
  BY DEF SignOut, server, store, seen
<1> QED BY <1>1 DEF Inv, TypeInv, PageInv, SlotOf, BusyIsWatched, KeepInv,
                      KeptUntilTold, Tracked, Entries

LEMMA StutterKeepsInv ==
  ASSUME Inv, UNCHANGED vars
  PROVE  Inv'
<1>1. UNCHANGED <<status, of, who, waiting, running, timers, stored, polls, late, told, tracked, replaced, denied, switches, reloads>>
  BY DEF vars, server, store, seen
<1> QED BY <1>1 DEF Inv, TypeInv, PageInv, SlotOf, BusyIsWatched, KeepInv, KeptUntilTold, Tracked, Entries

LEMMA InitHasInv ==
  ASSUME Init
  PROVE  Inv
<1>1. TypeInv
  BY DEF Init, TypeInv, RunStatuses
<1>2. PageInv /\ BusyIsWatched
  BY DEF Init, PageInv, BusyIsWatched
<1>3. Entries(running) = {}
  BY DEF Init, Entries
<1>4. KeepInv
  BY <1>3 DEF Init, KeepInv, KeptUntilTold
<1> QED BY <1>1, <1>2, <1>4 DEF Inv

-----------------------------------------------------------------------------
\* The page's invariant, whatever accounts, reloads and answers do.
THEOREM InvHolds == Spec => []Inv
<1>1. Init => Inv
  BY InitHasInv
<1>2. Inv /\ [Next]_vars => Inv'
  <2> SUFFICES ASSUME Inv, [Next]_vars PROVE Inv'
    OBVIOUS
  <2>1. CASE Requests
    BY <2>1, RequestsKeepInv DEF Requests
  <2>2. CASE Answers
    BY <2>2, TrackKeepsInv, RequestsKeepInv DEF Answers
  <2>3. CASE Page
    BY <2>3, SignOutKeepsInv, SignInKeepsInv, ReloadKeepsInv DEF Page
  <2>4. CASE Clock
    BY <2>4, RequestsKeepInv DEF Clock
  <2>5. CASE Polling
    BY <2>5, FireKeepsInv, AnswerKeepsInv, DeliverKeepsInv DEF Polling
  <2>6. CASE UNCHANGED vars
    BY <2>6, StutterKeepsInv
  <2> QED BY <2>1, <2>2, <2>3, <2>4, <2>5, <2>6 DEF Next
<1> QED BY <1>1, <1>2, PTL DEF Spec

\* settle(): onRunSettled fires at most once per run.
THEOREM ToldOnceHolds == Spec => []ToldOnce
<1>1. Inv => ToldOnce
  BY DEF Inv, PageInv, ToldOnce
<1> QED BY <1>1, InvHolds, PTL

\* poll(): a busy slot has a poll of its run to come or under way.
THEOREM BusyIsWatchedHolds == Spec => []BusyIsWatched
<1>1. Inv => BusyIsWatched
  BY DEF Inv
<1> QED BY <1>1, InvHolds, PTL

\* poll(), persist() and rehydrateTracking(): until a reload, and over reloads
\* until the account changes, a run stays tracked until it is told, late, replaced
\* or dropped by a refused poll.
THEOREM KeptUntilToldHolds == Spec => []KeptUntilTold
<1>1. Inv => KeptUntilTold
  BY DEF Inv, KeepInv
<1> QED BY <1>1, InvHolds, PTL
===============================================================================
