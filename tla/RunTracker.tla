------------------------------ MODULE RunTracker ------------------------------
(***************************************************************************)
(* The page's view of runs in progress.  A button asks the API for a run   *)
(* and hands it to a store in module scope, which polls the run's status   *)
(* until it ends, and then tells whoever listens, once.  The store outlives *)
(* the button, an account switch (which does not reload the page) and,     *)
(* through sessionStorage, a reload of the page.                           *)
(*                                                                         *)
(* The development bypass, where clicks belong to nobody, is left out, and *)
(* so is a browser without sessionStorage.                                 *)
(*                                                                         *)
(* JavaScript runs each callback to its end, so an action is what happens  *)
(* between two awaits: a poll leaves (Fire), the server answers (Answer),  *)
(* the answer comes back (Deliver).  Anything may happen in between.       *)
(*                                                                         *)
(* A run's own life is RunExecution's; here it is active and then ended.   *)
(***************************************************************************)
EXTENDS Naturals, FiniteSets

CONSTANTS
  Users, Nobody,  \* who is signed in; Nobody: signed out
  Slots,          \* run type and job: runKey
  Runs,           \* bound: clicks
  MaxSwitches,    \* bound: sign-ins after the first
  MaxReloads      \* bound: reloads of the page

NoRun == "none"

ASSUME NamesAreApart == Nobody \notin Users /\ NoRun \notin Runs

VARIABLES
  status,    \* of each run on the server
  of,        \* slot and user of the click that asked for it
  who,       \* the session's user
  waiting,   \* runs whose createRun has not answered yet
  running,   \* the store: the run tracked in each slot
  timers,    \* slots with a poll scheduled
  polls,     \* polls in flight
  stored,    \* sessionStorage: what running held when it was written
  late,      \* runs watched for longer than the timeout
  told,      \* how often onRunSettled spoke of each run
  \* for the properties: tracked runs, those a later run of the slot replaced,
  \* those a refused poll dropped, sign-ins and reloads
  tracked, replaced, denied, switches, reloads

server == <<status, of>>
store  == <<running, timers, stored>>
seen   == <<tracked, replaced, denied, switches, reloads>>
vars   == <<server, who, waiting, store, polls, late, told, seen>>

Entries(held) == {[slot |-> k, run |-> held[k]] : k \in {s \in Slots : held[s] # NoRun}}

Tracked(r) == \E k \in Slots : running[k] = r

\* A run is asked for by one click and tracked once per life of the page, so it
\* stands for the store's entry: the comparison of entries is one of runs.
\* peekTracked: a slot's run is the one of the user who asks.
Peek(k, u) == IF running[k] # NoRun /\ of[running[k]].user = u THEN running[k] ELSE NoRun

-----------------------------------------------------------------------------
(* Buttons and the server *)

\* A button is idle when the slot is, and when it has no request of its own
\* under way; a second button of the job, in the list or in the pane, or the
\* same one mounted anew, knows nothing of that request.
Click(r, k) ==
  /\ who # Nobody /\ status[r] = "none" /\ Peek(k, who) = NoRun
  /\ status' = [status EXCEPT ![r] = "asked"]
  /\ of' = [of EXCEPT ![r] = [slot |-> k, user |-> who]]
  /\ waiting' = waiting \cup {r}
  /\ UNCHANGED <<who, store, polls, late, told, seen>>

\* create_run: the unique index is for agent runs; these three types may have
\* several active at once.  A quota, or an error, refuses the run.
Create(r) ==
  /\ status[r] = "asked"
  /\ \E s \in {"active", "refused"} : status' = [status EXCEPT ![r] = s]
  /\ UNCHANGED <<of, who, waiting, store, polls, late, told, seen>>

End(r) ==
  /\ status[r] = "active"
  /\ status' = [status EXCEPT ![r] = "ended"]
  /\ UNCHANGED <<of, who, waiting, store, polls, late, told, seen>>

-----------------------------------------------------------------------------
(* The store *)

PersistMutant == stored' = stored
Persist == stored' = Entries(running')

\* startTracking, for the user of the click, whoever is signed in by now.
Track(r) ==
  LET k == of[r].slot IN
  /\ r \in waiting /\ status[r] \in {"active", "ended"}
  /\ waiting' = waiting \ {r}
  /\ running' = [running EXCEPT ![k] = r]
  /\ timers' = timers \cup {k}
  /\ Persist
  /\ tracked' = tracked \cup {r}
  /\ replaced' = replaced \cup ({running[k]} \ {NoRun})
  /\ UNCHANGED <<server, who, polls, late, told, denied, switches, reloads>>

\* The request is refused, or its answer is lost: the run, if there is one or
\* will be, goes untracked.
Miss(r) ==
  /\ r \in waiting
  /\ waiting' = waiting \ {r}
  /\ UNCHANGED <<server, who, store, polls, late, told, seen>>

\* forget: the slot's entry and timer, whichever entry that is.
Forget(k) ==
  /\ running' = [running EXCEPT ![k] = NoRun]
  /\ timers' = timers \ {k}
  /\ Persist

\* settle: forget, then the listeners.
Settle(k, r) ==
  /\ Forget(k)
  /\ told' = [told EXCEPT ![r] = @ + 1]

Schedule(k) ==
  /\ timers' = timers \cup {k}
  /\ UNCHANGED <<running, stored, told>>

\* No two polls in flight are the same request, even when they ask for one run.
Fresh == CHOOSE n \in 0 .. Cardinality(polls) : \A p \in polls : p.id # n

PollOf(k, r, u, n) == [slot |-> k, run |-> r, user |-> u, id |-> n, answer |-> "none"]

\* The timer's poll: past the timeout the run is given up, otherwise the server
\* is asked, with the token of whoever is signed in now.
FireMutant(k) ==
  /\ k \in timers /\ running[k] # NoRun
  /\ timers' = timers \ {k}
  /\ polls' = polls \cup {PollOf(k, running[k], who, Fresh)}
  /\ UNCHANGED <<server, who, waiting, running, stored, told, late, seen>>
Fire(k) ==
  /\ k \in timers /\ running[k] # NoRun
  /\ IF running[k] \in late
     THEN Settle(k, running[k]) /\ UNCHANGED polls
     ELSE /\ timers' = timers \ {k}
          /\ polls' = polls \cup {PollOf(k, running[k], who, Fresh)}
          /\ UNCHANGED <<running, stored, told>>
  /\ UNCHANGED <<server, who, waiting, late, seen>>

\* get_current_user: whoever asks is refused (401) when the signing keys cannot be
\* fetched, the token has expired or is missing.
TurnedAway == {"refused"}

\* get_run knows its user's runs only; a lost answer is any other failure.
Answer(p) ==
  /\ p \in polls /\ p.answer = "none"
  /\ \E a \in {"lost"} \cup TurnedAway \cup {s \in {status[p.run]} : of[p.run].user = p.user} :
       polls' = (polls \ {p}) \cup {[p EXCEPT !.answer = a]}
  /\ UNCHANGED <<server, who, waiting, store, late, told, seen>>

\* Any failure but a refusal is taken for a passing one.
Lost(k) == IF running[k] # NoRun THEN Schedule(k) ELSE UNCHANGED <<store, told>>

\* An answer for an entry that was dropped or replaced meanwhile is ignored.
ReadMutant(p) == IF p.answer = "ended" THEN Settle(p.slot, p.run) ELSE Schedule(p.slot)
Read(p) ==
  IF running[p.slot] # p.run THEN UNCHANGED <<store, told>>
  ELSE IF p.answer = "ended" THEN Settle(p.slot, p.run) ELSE Schedule(p.slot)

\* A refusal forgets the slot, whatever is tracked there by now.
Deliver(p) ==
  /\ p \in polls /\ p.answer # "none"
  /\ polls' = polls \ {p}
  /\ \/ /\ p.answer = "refused" /\ Forget(p.slot) /\ UNCHANGED told
        /\ denied' = denied \cup ({running[p.slot]} \ {NoRun})
     \/ p.answer = "lost" /\ Lost(p.slot) /\ UNCHANGED denied
     \/ p.answer \in {"active", "ended"} /\ Read(p) /\ UNCHANGED denied
  /\ UNCHANGED <<server, who, waiting, late, tracked, replaced, switches, reloads>>

\* The clock passes a run's startedAt plus timeoutMs.
Age(r) ==
  /\ Tracked(r) \/ \E e \in stored : e.run = r
  /\ late' = late \cup {r}
  /\ UNCHANGED <<server, who, waiting, store, polls, told, seen>>

-----------------------------------------------------------------------------
(* Accounts and reloads *)

\* rehydrateTracking(u), on top of what the store holds: the user's stored runs
\* in slots that are free, unless they are late; each is polled at once.
Restorable(u, held) ==
  {e \in stored : of[e.run].user = u /\ held[e.slot] = NoRun /\ e.run \notin late}

Rehydrate(u, held, flying) ==
  LET back == Restorable(u, held) IN
  /\ running' = [k \in Slots |-> IF \E e \in back : e.slot = k
                                 THEN (CHOOSE e \in back : e.slot = k).run ELSE held[k]]
  /\ polls' = flying \cup {PollOf(e.slot, e.run, u, Fresh) : e \in back}
  /\ stored' = IF back = {} THEN stored ELSE Entries(running')

SignOut ==
  /\ who # Nobody
  /\ who' = Nobody
  /\ UNCHANGED <<server, waiting, store, polls, late, told, seen>>

\* The effect in RunToasts runs again for the new user.
SignIn(u) ==
  /\ who = Nobody /\ switches < MaxSwitches
  /\ who' = u
  /\ switches' = switches + 1
  /\ Rehydrate(u, running, polls)
  /\ UNCHANGED <<server, waiting, timers, late, told, tracked, replaced, denied, reloads>>

\* The module, its timers and requests are gone; storage and session are not.
Reload ==
  /\ reloads < MaxReloads
  /\ reloads' = reloads + 1
  /\ waiting' = {} /\ timers' = {}
  /\ Rehydrate(who, [k \in Slots |-> NoRun], {})
  /\ UNCHANGED <<server, who, late, told, tracked, replaced, denied, switches>>

-----------------------------------------------------------------------------
(* The system *)

Init ==
  /\ status = [r \in Runs |-> "none"]
  /\ of = [r \in Runs |-> [slot |-> NoRun, user |-> Nobody]]
  /\ who \in Users
  /\ waiting = {} /\ polls = {} /\ timers = {} /\ stored = {} /\ late = {}
  /\ running = [k \in Slots |-> NoRun]
  /\ told = [r \in Runs |-> 0]
  /\ tracked = {} /\ replaced = {} /\ denied = {} /\ switches = 0 /\ reloads = 0

Requests == \E r \in Runs : (\E k \in Slots : Click(r, k)) \/ Create(r) \/ End(r)
Answers  == \E r \in Runs : Track(r) \/ Miss(r)
Page     == SignOut \/ (\E u \in Users : SignIn(u)) \/ Reload
Clock    == \E r \in Runs : Age(r)
Polling  == \/ \E k \in Slots : Fire(k)
            \/ \E p \in polls : Answer(p) \/ Deliver(p)

Next == Requests \/ Answers \/ Page \/ Clock \/ Polling

\* Timers fire, a request ends in an answer or an error, and time passes.
Spec ==
  /\ Init /\ [][Next]_vars
  /\ \A k \in Slots : WF_vars(Fire(k))
  /\ WF_vars(\E p \in polls : Answer(p) \/ Deliver(p))
  /\ \A r \in Runs : WF_vars(Age(r))

-----------------------------------------------------------------------------
(* Properties *)

\* onRunSettled fires at most once per run, whichever polls of it are under way
\* and whatever accounts and reloads do in between.
ToldOnce == \A r \in Runs : told[r] <= 1

\* A slot that reads busy has a poll scheduled, or a poll of its very run in
\* flight: no order of answers leaves a spinner that nothing will ever stop.
BusyIsWatched ==
  \A k \in Slots :
    running[k] # NoRun =>
      k \in timers \/ \E p \in polls : p.slot = k /\ p.run = running[k]

\* A run the page has tracked stays tracked until its end is announced: it is lost
\* only to the clock, to a later run of its slot or to a refused poll of that slot.
\* Until the page is loaded again this is so whatever accounts come and go; over
\* reloads, as long as the account stays the same.  The refusal need not be about
\* the run: poll() forgets on any 401, which the user's own poll gets too.
KeptUntilTold ==
  reloads = 0 \/ (switches = 0 /\ who # Nobody) =>
    \A r \in tracked :
      Tracked(r) \/ told[r] = 1 \/ r \in late \/ r \in replaced \/ r \in denied

\* The timeout keeps a spinner from living for ever: nothing is tracked always.
SpinnersEnd == \A r \in Runs : <>[]~ Tracked(r)
=============================================================================
