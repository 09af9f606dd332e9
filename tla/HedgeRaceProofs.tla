-------------------------- MODULE HedgeRaceProofs --------------------------
(***************************************************************************)
(* Proofs about HedgeRace, for any number of races and endpoints and every *)
(* valid policy: the copies and the budget's cap, what a failed race       *)
(* returns, that an oversized answer is final, and, when no task is        *)
(* aborted before its first poll, the load balancer's slots.               *)
(*                                                                         *)
(* A step changes one race and its tasks, so the inductive invariant is    *)
(* one condition on each race (Well) and the books the races share.        *)
(***************************************************************************)
EXTENDS HedgeRace, Counting

RaceType ==
  [pc : {"idle", "preparing", "fanout", "start", "check", "admit", "pick",
         "wait", "drop", "leave", "done"},
   opening : BOOLEAN, primary : Endpoint, started : SUBSET Endpoints,
   in_flight : SUBSET Endpoints, copies : SUBSET Endpoints,
   joined : SUBSET Endpoints, max : 1..MaxAttempts, noted : BOOLEAN,
   deadline : BOOLEAN, seen : Nat, last_status : Endpoint,
   last_failure : Endpoint, delivery : {"none", "ready", "failed", "closed"},
   status : Endpoint, body : Endpoint]

TaskState == {"none", "unpolled", "gone"} \cup Alive \cup Results

TaskType == [Endpoints -> TaskState]

\* The states in which drive runs, and those in which the race is over.
Driving == {"fanout", "start", "check", "admit", "pick", "wait"}
Before  == {"idle", "preparing"}
Over    == {"drop", "leave"}

Deliveries == {"ready", "failed", "closed"}

Copies(q) == q.in_flight \ {q.primary}

\* A race the driver works on: who is in flight, and what the attempts it
\* has joined left behind in max, last_status and last_failure.
Ongoing(q, t) ==
  /\ q.noted /\ q.delivery = "none" /\ q.primary \in q.started
  /\ q.in_flight = q.started \ q.joined
  /\ q.joined \subseteq q.started
  /\ q.last_status = q.last_failure
  /\ Cardinality(q.started) <= q.max
  /\ \A e \in Endpoints \ q.started : t[e] = "none"
  /\ \A e \in q.started : t[e] \in {"none", "spawned", "running"} \cup Results
  /\ \A e \in q.joined : /\ t[e] \in Results \ {"ok"}
                         /\ t[e] = "halt" => q.max <= Cardinality(q.started)
                         /\ t[e] = "5xx" => q.last_failure # NoOne

\* Attempts are launched together at the end of the fan-out, and one by one
\* after it.
Launched(q, t) ==
  /\ q.opening => q.joined = {} /\ \A e \in Endpoints : t[e] = "none"
  /\ ~q.opening => \A e \in q.started : t[e] # "none"

\* A race that was delivered.
Ended(q, t) ==
  /\ q.noted /\ q.delivery # "none"
  /\ \A e \in q.started : t[e] \in {"cancelled", "unpolled", "gone"} \cup Results
  /\ \A e \in Endpoints \ q.started : t[e] = "none"
  /\ q.delivery = "failed" =>
       /\ \A e \in q.started : t[e] \in Results \ {"ok"}
       /\ q.status = q.body
       /\ q.body = NoOne => \A e \in Endpoints : t[e] # "5xx"

Blank(q) ==
  /\ ~q.noted /\ q.delivery = "none" /\ q.started = {} /\ q.in_flight = {}
  /\ q.joined = {} /\ q.last_status = q.last_failure /\ q.opening

Well(q, t) ==
  /\ q.copies = Copies(q)
  /\ q.pc \in Before => Blank(q) /\ \A e \in Endpoints : t[e] = "none"
  /\ q.pc = "preparing" => q.primary \in Endpoints
  /\ q.pc = "done" =>
       Blank(q) /\ \A e \in Endpoints : t[e] \in {"none", "cancelled", "unpolled", "gone"}
  /\ q.pc \in Driving => Ongoing(q, t) /\ Launched(q, t)
  /\ q.pc = "fanout" => q.opening
  /\ q.pc = "wait" => ~q.opening
  /\ q.pc \in {"check", "admit", "pick"} => Room(q)
  /\ q.pc \in Over => Ended(q, t)
  /\ q.pc = "leave" => q.in_flight = {}

AllWell == \A r \in Races : Well(race[r], task[r])

Noted == {r \in Races : race[r].noted}
Picking == {r \in Races : race[r].pc = "pick"}
Pairs == {x \in Races \X Endpoints : x[2] \in Copies(race[x[1]])}

\* The requests of the budget are the races that noted theirs.
RequestsExact == requests = Cardinality(Noted)

\* What an admission saw was under the cap for this many races.
UnderCap(n) == n * BpsScale < Cardinality(Races) * Bps

AdmitsUnder == \A r \in Races : race[r].pc = "admit" => UnderCap(race[r].seen)

HedgeInv ==
  TypeOK /\ AllWell /\ RequestsExact /\ CopiesCharged /\ BudgetCap /\ AdmitsUnder

-----------------------------------------------------------------------------
(***************************************************************************)
(* The records the actions write.                                          *)
(***************************************************************************)

\* Sets of endpoints are finite.
LEMMA SizesAreNat ==
  ASSUME NEW S \in SUBSET Endpoints
  PROVE  IsFiniteSet(S) /\ Cardinality(S) \in Nat
<1>1. IsFiniteSet(Endpoints)
  BY HedgeConfig DEF ValidPolicy
<1> QED
  BY <1>1, CountPart

\* MaxAttempts is positive.
LEMMA MaxPositive == MaxAttempts \in Nat /\ 1 <= MaxAttempts /\ MaxAttempts \in 1..MaxAttempts
BY HedgeConfig DEF ValidPolicy

\* The type invariant, race by race.
LEMMA TypeParts ==
  TypeOK <=> /\ requests \in 0..Cardinality(Races) /\ hedges \in Nat
             /\ load \in [Endpoints -> Nat]
             /\ race \in [Races -> RaceType] /\ task \in [Races -> TaskType]
BY Zenon DEF TypeOK, RaceType, TaskType, TaskState

\* HedgeRace::new
LEMMA NewType ==
  /\ New \in RaceType
  /\ New.pc = "idle" /\ New.copies = {} /\ New.primary = NoOne /\ Blank(New)
<1>1. NoOne \in Endpoint
  BY DEF Endpoint
<1>2. New \in RaceType
  BY <1>1, MaxPositive DEF New, RaceType
<1> QED
  BY <1>2 DEF New, Blank

\* A race that is back to its beginning.
LEMMA DoneType ==
  ASSUME NEW x, x = [New EXCEPT !.pc = "done"]
  PROVE  x \in RaceType /\ x.pc = "done" /\ x.copies = {} /\ x.primary = NoOne /\ Blank(x)
<1>1. x \in RaceType
  BY NewType, ZenonT(60) DEF RaceType
<1>2. /\ x.pc = "done" /\ x.copies = New.copies /\ x.primary = New.primary
      /\ x.noted = New.noted /\ x.delivery = New.delivery /\ x.started = New.started
      /\ x.in_flight = New.in_flight /\ x.joined = New.joined /\ x.opening = New.opening
      /\ x.last_status = New.last_status /\ x.last_failure = New.last_failure
  BY NewType DEF RaceType
<1> QED
  BY <1>1, <1>2, NewType DEF Blank

\* Fields a change of pc leaves alone.
Same(x, q) ==
  /\ x.opening = q.opening /\ x.primary = q.primary /\ x.started = q.started
  /\ x.in_flight = q.in_flight /\ x.copies = q.copies /\ x.joined = q.joined
  /\ x.max = q.max /\ x.noted = q.noted /\ x.last_status = q.last_status
  /\ x.last_failure = q.last_failure /\ x.delivery = q.delivery

\* The driver moves on.
LEMMA MoveType ==
  ASSUME NEW q \in RaceType, NEW x, NEW pc \in Driving, x = [q EXCEPT !.pc = pc]
  PROVE  x \in RaceType /\ x.pc = pc /\ x.seen = q.seen /\ Same(x, q)
<1>1. pc \in {"idle", "preparing", "fanout", "start", "check", "admit", "pick",
              "wait", "drop", "leave", "done"}
  BY DEF Driving
<1>2. x \in RaceType
  BY <1>1, ZenonT(60) DEF RaceType
<1>3. x.pc = pc /\ x.seen = q.seen /\ Same(x, q)
  BY DEF RaceType, Same
<1> QED
  BY <1>2, <1>3

\* The driver moves on, and with what it saw of the budget.
Saw(q, pc, n) == [q EXCEPT !.pc = pc, !.seen = n]

\* It is a race.
LEMMA SawType ==
  ASSUME NEW q \in RaceType, NEW pc \in Driving, NEW n \in Nat
  PROVE  /\ Saw(q, pc, n) \in RaceType /\ Saw(q, pc, n).pc = pc
         /\ Saw(q, pc, n).seen = n /\ Same(Saw(q, pc, n), q)
<1> DEFINE x == [q EXCEPT !.pc = pc, !.seen = n]
<1>1. pc \in {"idle", "preparing", "fanout", "start", "check", "admit", "pick",
              "wait", "drop", "leave", "done"}
  BY DEF Driving
<1>2. x \in RaceType
  BY <1>1, ZenonT(60) DEF RaceType
<1>3. x.pc = pc /\ x.seen = n /\ Same(x, q)
  BY DEF RaceType, Same
<1> QED
  BY <1>2, <1>3 DEF Saw

\* The driver awaits.
LEMMA WaitType ==
  ASSUME NEW q \in RaceType, NEW x, NEW d \in BOOLEAN,
         x = [q EXCEPT !.pc = "wait", !.opening = FALSE, !.deadline = d, !.seen = 0]
  PROVE  /\ x \in RaceType /\ x.pc = "wait" /\ x.opening = FALSE
         /\ x.primary = q.primary /\ x.started = q.started
         /\ x.in_flight = q.in_flight /\ x.copies = q.copies /\ x.joined = q.joined
         /\ x.max = q.max /\ x.noted = q.noted /\ x.last_status = q.last_status
         /\ x.last_failure = q.last_failure /\ x.delivery = q.delivery
<1>1. x \in RaceType
  BY ZenonT(60) DEF RaceType
<1>2. /\ x.pc = "wait" /\ x.opening = FALSE
      /\ x.primary = q.primary /\ x.started = q.started
      /\ x.in_flight = q.in_flight /\ x.copies = q.copies /\ x.joined = q.joined
      /\ x.max = q.max /\ x.noted = q.noted /\ x.last_status = q.last_status
      /\ x.last_failure = q.last_failure /\ x.delivery = q.delivery
  BY DEF RaceType
<1> QED
  BY <1>1, <1>2

\* The race is delivered.
LEMMA DeliverType ==
  ASSUME NEW q \in RaceType, NEW x, NEW d \in Deliveries,
         NEW status \in Endpoint, NEW body \in Endpoint,
         x = [q EXCEPT !.pc = "drop", !.seen = 0, !.delivery = d, !.status = status,
                       !.body = body]
  PROVE  /\ x \in RaceType /\ x.pc = "drop" /\ x.delivery = d
         /\ x.status = status /\ x.body = body
         /\ x.primary = q.primary /\ x.started = q.started
         /\ x.in_flight = q.in_flight /\ x.copies = q.copies /\ x.noted = q.noted
<1> DEFINE y == [q EXCEPT !.pc = "drop", !.seen = 0, !.delivery = d]
<1>1. y \in RaceType
  BY ZenonT(60) DEF RaceType, Deliveries
<1>2. x = [y EXCEPT !.status = status, !.body = body]
  BY DEF RaceType
<1>3. /\ x.pc = "drop" /\ x.delivery = d /\ x.status = status /\ x.body = body
      /\ x.primary = q.primary /\ x.started = q.started
      /\ x.in_flight = q.in_flight /\ x.copies = q.copies /\ x.noted = q.noted
  BY DEF RaceType
<1> HIDE DEF y
<1>4. x \in RaceType
  BY <1>1, <1>2, ZenonT(60) DEF RaceType
<1> QED
  BY <1>3, <1>4

\* The primary is selected.
LEMMA SelectType ==
  ASSUME NEW q \in RaceType, NEW x, NEW e \in Endpoints,
         x = [q EXCEPT !.pc = "preparing", !.primary = e]
  PROVE  /\ x \in RaceType /\ x.pc = "preparing" /\ x.primary = e
         /\ x.opening = q.opening /\ x.started = q.started /\ x.joined = q.joined
         /\ x.in_flight = q.in_flight /\ x.copies = q.copies /\ x.noted = q.noted
         /\ x.last_status = q.last_status /\ x.last_failure = q.last_failure
         /\ x.delivery = q.delivery
<1>1. e \in Endpoint
  BY DEF Endpoint
<1>2. x \in RaceType
  BY <1>1, ZenonT(60) DEF RaceType
<1>3. /\ x.pc = "preparing" /\ x.primary = e
      /\ x.opening = q.opening /\ x.started = q.started /\ x.joined = q.joined
      /\ x.in_flight = q.in_flight /\ x.copies = q.copies /\ x.noted = q.noted
      /\ x.last_status = q.last_status /\ x.last_failure = q.last_failure
      /\ x.delivery = q.delivery
  BY DEF RaceType
<1> QED
  BY <1>2, <1>3

\* The race opens with its primary.
LEMMA OpenType ==
  ASSUME NEW q \in RaceType, NEW x, NEW S \in SUBSET Endpoints,
         x = [q EXCEPT !.pc = "fanout", !.noted = TRUE, !.started = S, !.in_flight = S]
  PROVE  /\ x \in RaceType /\ x.pc = "fanout" /\ x.noted /\ x.started = S /\ x.in_flight = S
         /\ x.primary = q.primary /\ x.opening = q.opening /\ x.joined = q.joined
         /\ x.copies = q.copies /\ x.last_status = q.last_status /\ x.max = q.max
         /\ x.last_failure = q.last_failure /\ x.delivery = q.delivery
<1>2. x \in RaceType
  BY ZenonT(60) DEF RaceType
<1>3. /\ x.pc = "fanout" /\ x.noted /\ x.started = S /\ x.in_flight = S
      /\ x.primary = q.primary /\ x.opening = q.opening /\ x.joined = q.joined
      /\ x.copies = q.copies /\ x.last_status = q.last_status /\ x.max = q.max
      /\ x.last_failure = q.last_failure /\ x.delivery = q.delivery
  BY DEF RaceType
<1> QED
  BY <1>2, <1>3

\* A copy is placed.
Placed(q, e) == [q EXCEPT !.started = @ \cup {e}, !.in_flight = @ \cup {e},
                          !.copies = @ \cup {e}]

\* It is in flight, and started.
LEMMA PlacedType ==
  ASSUME NEW q \in RaceType, NEW e \in Endpoints, NEW x, x = Placed(q, e)
  PROVE  /\ x \in RaceType /\ x.started = q.started \cup {e}
         /\ x.in_flight = q.in_flight \cup {e} /\ x.copies = q.copies \cup {e}
         /\ x.pc = q.pc /\ x.noted = q.noted /\ x.primary = q.primary
         /\ x.opening = q.opening /\ x.joined = q.joined /\ x.last_status = q.last_status
         /\ x.max = q.max /\ x.last_failure = q.last_failure /\ x.delivery = q.delivery
<1>1. /\ q.started \cup {e} \in SUBSET Endpoints /\ q.in_flight \cup {e} \in SUBSET Endpoints
      /\ q.copies \cup {e} \in SUBSET Endpoints
  BY DEF RaceType
<1>2. x \in RaceType
  BY <1>1, ZenonT(60) DEF RaceType, Placed
<1>3. /\ x.started = q.started \cup {e}
      /\ x.in_flight = q.in_flight \cup {e} /\ x.copies = q.copies \cup {e}
      /\ x.pc = q.pc /\ x.noted = q.noted /\ x.primary = q.primary
      /\ x.opening = q.opening /\ x.joined = q.joined /\ x.last_status = q.last_status
      /\ x.max = q.max /\ x.last_failure = q.last_failure /\ x.delivery = q.delivery
  BY DEF RaceType, Placed
<1> QED
  BY <1>2, <1>3

\* An attempt is joined: it is no longer in flight.
Joined(q, e, m) == [q EXCEPT !.joined = @ \cup {e}, !.max = m,
                             !.in_flight = @ \ {e}, !.copies = @ \ {e}]

\* The rest is as it was.
LEMMA JoinedType ==
  ASSUME NEW q \in RaceType, NEW e \in Endpoints, NEW m \in 1..MaxAttempts,
         NEW x, x = Joined(q, e, m)
  PROVE  /\ x \in RaceType /\ x.joined = q.joined \cup {e} /\ x.max = m
         /\ x.in_flight = q.in_flight \ {e} /\ x.copies = q.copies \ {e}
         /\ x.pc = q.pc /\ x.noted = q.noted /\ x.primary = q.primary
         /\ x.opening = q.opening /\ x.started = q.started /\ x.last_status = q.last_status
         /\ x.last_failure = q.last_failure /\ x.delivery = q.delivery
<1>1. /\ q.joined \cup {e} \in SUBSET Endpoints /\ q.in_flight \ {e} \in SUBSET Endpoints
      /\ q.copies \ {e} \in SUBSET Endpoints
  BY DEF RaceType
<1>2. x \in RaceType
  BY <1>1, ZenonT(60) DEF RaceType, Joined
<1>3. /\ x.joined = q.joined \cup {e} /\ x.max = m
      /\ x.in_flight = q.in_flight \ {e} /\ x.copies = q.copies \ {e}
      /\ x.pc = q.pc /\ x.noted = q.noted /\ x.primary = q.primary
      /\ x.opening = q.opening /\ x.started = q.started /\ x.last_status = q.last_status
      /\ x.last_failure = q.last_failure /\ x.delivery = q.delivery
  BY DEF RaceType, Joined
<1> QED
  BY <1>2, <1>3

\* A failure is remembered.
Remembers(q, s, f) == [q EXCEPT !.last_status = s, !.last_failure = f]

\* The rest is as it was.
LEMMA RemembersType ==
  ASSUME NEW q \in RaceType, NEW s \in Endpoint, NEW f \in Endpoint,
         NEW x, x = Remembers(q, s, f)
  PROVE  /\ x \in RaceType /\ x.last_status = s /\ x.last_failure = f
         /\ x.in_flight = q.in_flight /\ x.copies = q.copies
         /\ x.pc = q.pc /\ x.noted = q.noted /\ x.primary = q.primary /\ x.max = q.max
         /\ x.opening = q.opening /\ x.started = q.started /\ x.joined = q.joined
         /\ x.delivery = q.delivery
<1>1. x \in RaceType
  BY ZenonT(60) DEF RaceType, Remembers
<1>2. /\ x.last_status = s /\ x.last_failure = f
      /\ x.in_flight = q.in_flight /\ x.copies = q.copies
      /\ x.pc = q.pc /\ x.noted = q.noted /\ x.primary = q.primary /\ x.max = q.max
      /\ x.opening = q.opening /\ x.started = q.started /\ x.joined = q.joined
      /\ x.delivery = q.delivery
  BY DEF RaceType, Remembers
<1> QED
  BY <1>1, <1>2

\* Nothing is in flight any more: a winner cancelled the rest.
LEMMA ClearedType ==
  ASSUME NEW q \in RaceType, NEW x, x = [q EXCEPT !.copies = {}, !.in_flight = {}]
  PROVE  /\ x \in RaceType /\ x.copies = {} /\ x.in_flight = {}
         /\ x.noted = q.noted /\ x.primary = q.primary /\ x.started = q.started
<1>1. x \in RaceType
  BY ZenonT(60) DEF RaceType
<1>2. /\ x.copies = {} /\ x.in_flight = {}
      /\ x.noted = q.noted /\ x.primary = q.primary /\ x.started = q.started
  BY DEF RaceType
<1> QED
  BY <1>1, <1>2

\* The race is dropped with what it held.
LEMMA DropType ==
  ASSUME NEW q \in RaceType, NEW x,
         x = [q EXCEPT !.pc = "leave", !.copies = {}, !.in_flight = {}]
  PROVE  /\ x \in RaceType /\ x.pc = "leave" /\ x.copies = {} /\ x.in_flight = {}
         /\ x.noted = q.noted /\ x.primary = q.primary /\ x.started = q.started
         /\ x.delivery = q.delivery /\ x.status = q.status /\ x.body = q.body
<1>1. x \in RaceType
  BY ZenonT(60) DEF RaceType
<1>2. /\ x.pc = "leave" /\ x.copies = {} /\ x.in_flight = {}
      /\ x.noted = q.noted /\ x.primary = q.primary /\ x.started = q.started
      /\ x.delivery = q.delivery /\ x.status = q.status /\ x.body = q.body
  BY DEF RaceType
<1> QED
  BY <1>1, <1>2

-----------------------------------------------------------------------------
(***************************************************************************)
(* Steps of one race.                                                      *)
(***************************************************************************)

\* A step that touches race r alone, and leaves it well.
Touches(r) ==
  /\ race' \in [Races -> RaceType] /\ task' \in [Races -> TaskType]
  /\ \A s \in Races \ {r} : race'[s] = race[s] /\ task'[s] = task[s]
  /\ Well(race'[r], task'[r])

\* An assignment to one race and to its tasks touches that race alone.
LEMMA TouchOne ==
  ASSUME TypeOK, NEW r \in Races, NEW q \in RaceType, NEW t \in TaskType,
         race' = [race EXCEPT ![r] = q], task' = [task EXCEPT ![r] = t], Well(q, t)
  PROVE  Touches(r) /\ race'[r] = q /\ task'[r] = t
<1>1. race \in [Races -> RaceType] /\ task \in [Races -> TaskType]
  BY TypeParts
<1>2. race' \in [Races -> RaceType] /\ race'[r] = q /\ \A s \in Races \ {r} : race'[s] = race[s]
  BY <1>1
<1>3. task' \in [Races -> TaskType] /\ task'[r] = t /\ \A s \in Races \ {r} : task'[s] = task[s]
  BY <1>1
<1> QED
  BY <1>2, <1>3 DEF Touches

\* The same for a step that leaves the tasks alone.
LEMMA TouchRace ==
  ASSUME TypeOK, NEW r \in Races, NEW q \in RaceType,
         race' = [race EXCEPT ![r] = q], task' = task, Well(q, task[r])
  PROVE  Touches(r) /\ race'[r] = q /\ task'[r] = task[r]
<1>1. race \in [Races -> RaceType] /\ task \in [Races -> TaskType]
  BY TypeParts
<1>2. race' \in [Races -> RaceType] /\ race'[r] = q /\ \A s \in Races \ {r} : race'[s] = race[s]
  BY <1>1
<1> QED
  BY <1>1, <1>2 DEF Touches

\* The driver goes back to its await with a race that is ongoing.
LEMMA WaitStep ==
  ASSUME TypeOK, NEW r \in Races, NEW q \in RaceType, NEW d \in BOOLEAN,
         Ongoing(q, task[r]), q.copies = Copies(q), Wait(r, q, d)
  PROVE  /\ Touches(r) /\ race'[r].pc = "wait" /\ race'[r].noted
         /\ Copies(race'[r]) = Copies(q) /\ race'[r].started = q.started
         /\ \A e \in Endpoints :
              task'[r][e] = IF e \in q.started /\ task[r][e] = "none" THEN "spawned"
                            ELSE task[r][e]
<1> DEFINE x == [q EXCEPT !.pc = "wait", !.opening = FALSE, !.deadline = d, !.seen = 0]
           u == task[r]
           t == [e \in Endpoints |-> IF e \in q.started /\ u[e] = "none"
                                       THEN "spawned" ELSE u[e]]
<1>1. task \in [Races -> TaskType] /\ u \in TaskType
  BY TypeParts
<1>2. t \in TaskType
  BY <1>1 DEF TaskType, TaskState, Alive
<1>3. race' = [race EXCEPT ![r] = x] /\ task' = [task EXCEPT ![r] = t]
  BY <1>1 DEF Wait, Put, Launch
<1>4. /\ x \in RaceType /\ x.pc = "wait" /\ x.opening = FALSE
      /\ x.primary = q.primary /\ x.started = q.started
      /\ x.in_flight = q.in_flight /\ x.copies = q.copies /\ x.joined = q.joined
      /\ x.max = q.max /\ x.noted = q.noted /\ x.last_status = q.last_status
      /\ x.last_failure = q.last_failure /\ x.delivery = q.delivery
  BY WaitType
<1> HIDE DEF x
<1>5. q.started \in SUBSET Endpoints /\ q.joined \in SUBSET Endpoints
  BY DEF RaceType
<1>6. Ongoing(x, t)
  <2>1. \A e \in Endpoints \ q.started : t[e] = "none"
    BY DEF Ongoing
  <2>2. \A e \in q.started : t[e] \in {"spawned", "running"} \cup Results
    BY <1>5 DEF Ongoing
  <2>3. \A e \in q.joined : t[e] = u[e]
    BY <1>5 DEF Ongoing, Results
  <2> HIDE DEF t
  <2> QED
    BY <1>4, <2>1, <2>2, <2>3 DEF Ongoing
<1>7. Launched(x, t)
  BY <1>4, <1>5 DEF Launched
<1>8. Well(x, t)
  BY <1>4, <1>6, <1>7 DEF Well, Copies, Before, Driving, Over
<1>9. Touches(r) /\ race'[r] = x /\ task'[r] = t
  <2> HIDE DEF t
  <2> QED
    BY <1>2, <1>3, <1>4, <1>8, TouchOne
<1>10. q.noted
  BY DEF Ongoing
<1> HIDE DEF t
<1>11. /\ race'[r].pc = "wait" /\ race'[r].noted
       /\ Copies(race'[r]) = Copies(q) /\ race'[r].started = q.started
  BY <1>4, <1>9, <1>10 DEF Copies
<1> QED
  BY <1>9, <1>11 DEF t

\* A delivery: what was in flight is aborted.
LEMMA DeliverStep ==
  ASSUME TypeOK, NEW r \in Races, NEW q \in RaceType,
         NEW d \in Deliveries,
         NEW status \in Endpoint, NEW body \in Endpoint,
         q.noted, q.copies = Copies(q),
         \A e \in q.started : task[r][e] \in {"spawned", "running"} \cup Results,
         \A e \in Endpoints \ q.started : task[r][e] = "none",
         d = "failed" => /\ \A e \in q.started : task[r][e] \in Results \ {"ok"}
                         /\ status = body
                         /\ body = NoOne => \A e \in Endpoints : task[r][e] # "5xx",
         Deliver(r, q, d, status, body)
  PROVE  /\ Touches(r) /\ race'[r].pc = "drop" /\ race'[r].noted
         /\ Copies(race'[r]) = Copies(q) /\ race'[r].started = q.started
         /\ \A e \in Endpoints : /\ task'[r][e] = Aborted(task[r][e])
                                 /\ ~UnpolledAborts => task[r][e] # "spawned"
<1> DEFINE x == [q EXCEPT !.pc = "drop", !.seen = 0, !.delivery = d, !.status = status,
                          !.body = body]
           u == task[r]
           t == [e \in Endpoints |-> Aborted(u[e])]
<1>1. task \in [Races -> TaskType] /\ u \in TaskType
  BY TypeParts
<1>2. t \in TaskType
  BY <1>1 DEF TaskType, TaskState, Alive, Aborted
<1>3. race' = [race EXCEPT ![r] = x] /\ task' = [task EXCEPT ![r] = t]
  BY <1>1 DEF Deliver, Put
<1>4. /\ x \in RaceType /\ x.pc = "drop" /\ x.delivery = d
      /\ x.status = status /\ x.body = body
      /\ x.primary = q.primary /\ x.started = q.started
      /\ x.in_flight = q.in_flight /\ x.copies = q.copies /\ x.noted = q.noted
  <2>1. x = [q EXCEPT !.pc = "drop", !.seen = 0, !.delivery = d, !.status = status,
                      !.body = body]
    OBVIOUS
  <2> HIDE DEF x
  <2>2. x \in RaceType
    BY <2>1, DeliverType, Zenon
  <2>3. x.pc = "drop" /\ x.delivery = d /\ x.status = status /\ x.body = body
    BY <2>1, SMTT(60) DEF RaceType
  <2>4. x.primary = q.primary /\ x.started = q.started /\ x.in_flight = q.in_flight
    BY <2>1, SMTT(60) DEF RaceType
  <2>5. x.copies = q.copies
    BY <2>1, SMTT(60) DEF RaceType
  <2>6. x.noted = q.noted
    BY <2>1, ZenonT(60) DEF RaceType
  <2> QED
    BY <2>2, <2>3, <2>4, <2>5, <2>6
<1> HIDE DEF x
<1>5. q.started \in SUBSET Endpoints
  BY DEF RaceType
<1>6. Ended(x, t)
  <2>1. \A e \in Endpoints \ q.started : t[e] = "none"
    BY DEF Aborted
  <2>2. \A e \in q.started : t[e] \in {"cancelled", "unpolled", "gone"} \cup Results
    BY <1>5 DEF Aborted, Results
  <2>3. \A e \in Endpoints : (u[e] \in Results => t[e] = u[e]) /\ (t[e] = "5xx" => u[e] = "5xx")
    BY <1>1 DEF Aborted, Results
  <2>4. d = "failed" => \A e \in q.started : t[e] \in Results \ {"ok"}
    BY <1>5, <2>3
  <2> HIDE DEF t
  <2> QED
    BY <1>4, <2>1, <2>2, <2>3, <2>4 DEF Ended, Deliveries
<1>7. Well(x, t)
  BY <1>4, <1>6 DEF Well, Copies, Before, Driving, Over
<1>8. Touches(r) /\ race'[r] = x /\ task'[r] = t
  <2>1. x \in RaceType
    BY <1>4
  <2> HIDE DEF t
  <2> QED
    BY <1>2, <1>3, <1>7, <2>1, TouchOne
<1>9. \A e \in Endpoints : ~UnpolledAborts => task[r][e] # "spawned"
  BY DEF Deliver
<1>10. \A e \in Endpoints : task'[r][e] = Aborted(task[r][e])
  BY <1>8
<1> HIDE DEF t
<1>11. /\ race'[r].pc = "drop" /\ race'[r].noted
       /\ Copies(race'[r]) = Copies(q) /\ race'[r].started = q.started
  BY <1>4, <1>8 DEF Copies
<1> QED
  BY <1>8, <1>9, <1>10, <1>11

\* HoldsSlot, of a race and its tasks.
Holding(q, t, e) ==
  \/ t[e] \in Alive
  \/ t[e] = "none" /\ e \in q.started
  \/ q.pc = "preparing" /\ e = q.primary

\* A launch holds the slots the picked endpoints held.
LEMMA HoldLaunch ==
  ASSUME NEW q, NEW x, NEW u \in TaskType, NEW t \in TaskType,
         q.pc # "preparing", x.pc # "preparing", x.started = q.started,
         \A e \in Endpoints :
           t[e] = IF e \in q.started /\ u[e] = "none" THEN "spawned" ELSE u[e]
  PROVE  \A e \in Endpoints : Holding(x, t, e) <=> Holding(q, u, e)
BY DEF Holding, Alive

\* So does an abort of tasks that were all polled, until they are reaped.
LEMMA HoldAbort ==
  ASSUME NEW q, NEW x, NEW u \in TaskType, NEW t \in TaskType,
         q.pc # "preparing", x.pc # "preparing", x.started = q.started,
         \A e \in Endpoints : t[e] = Aborted(u[e]) /\ u[e] # "spawned"
  PROVE  \A e \in Endpoints : Holding(x, t, e) <=> Holding(q, u, e)
BY DEF Holding, Alive, Aborted, TaskType, TaskState, Results

\* A race with nothing in flight fails with what it remembered.
LEMMA FailStep ==
  ASSUME TypeOK, NEW r \in Races, NEW q \in RaceType, NEW status \in {q.last_status, NoOne},
         Ongoing(q, task[r]), q.copies = Copies(q), q.in_flight = {}, Fail(r, q, status)
  PROVE  /\ Touches(r) /\ race'[r].pc = "drop" /\ race'[r].noted
         /\ Copies(race'[r]) = Copies(q) /\ race'[r].started = q.started
         /\ \A e \in Endpoints : /\ task'[r][e] = Aborted(task[r][e])
                                 /\ ~UnpolledAborts => task[r][e] # "spawned"
<1> DEFINE d == "failed"
           body == q.last_failure
<1>1. Deliver(r, q, d, body, body)
  BY DEF Fail, Ongoing
<1>2. q.started \subseteq q.joined /\ q.started \in SUBSET Endpoints /\ body \in Endpoint
  BY DEF Ongoing, RaceType
<1>3. \A e \in q.started : task[r][e] \in Results \ {"ok"}
  BY <1>2 DEF Ongoing
<1>4. \A e \in Endpoints \ q.started : task[r][e] = "none"
  BY DEF Ongoing
<1>5. body = NoOne => \A e \in Endpoints : task[r][e] # "5xx"
  BY <1>2, <1>4 DEF Ongoing
<1>6. q.noted
  BY DEF Ongoing
<1>7. d \in Deliveries
  BY DEF Deliveries
<1> HIDE DEF body, d
<1> QED
  BY <1>1, <1>2, <1>3, <1>4, <1>5, <1>6, <1>7, DeliverStep

\* What a well race says to its driver.
LEMMA DrivingFacts ==
  ASSUME TypeOK, AllWell, NEW r \in Races, race[r].pc \in Driving
  PROVE  /\ race[r] \in RaceType /\ task[r] \in TaskType
         /\ Ongoing(race[r], task[r]) /\ Launched(race[r], task[r])
         /\ race[r].copies = Copies(race[r])
         /\ race[r].primary \in Endpoints
<1>1. race[r] \in RaceType /\ task[r] \in TaskType
  BY TypeParts
<1>2. Well(race[r], task[r])
  BY DEF AllWell
<1>3. Ongoing(race[r], task[r]) /\ Launched(race[r], task[r]) /\ race[r].copies = Copies(race[r])
  BY <1>2 DEF Well
<1>4. race[r].primary \in race[r].started /\ race[r].started \in SUBSET Endpoints
  BY <1>1, <1>3 DEF Ongoing, RaceType
<1> QED
  BY <1>1, <1>3, <1>4

\* The driver steps back, with no copy started: it awaits what is in flight,
\* or the race is lost.
LEMMA BackStep ==
  ASSUME TypeOK, AllWell, NEW r \in Races, race[r].pc \in Driving,
         Denied(r, race[r]) \/ NotPlaced(r, race[r])
  PROVE  /\ Touches(r) /\ race'[r].pc \in {"wait", "drop"} /\ race'[r].noted
         /\ Copies(race'[r]) = Copies(race[r])
         /\ race'[r].started = race[r].started
         /\ ~UnpolledAborts => \A e \in Endpoints :
              Holding(race'[r], task'[r], e) <=> Holding(race[r], task[r], e)
<1> DEFINE q == race[r]
           u == task[r]
<1>1. /\ q \in RaceType /\ u \in TaskType /\ Ongoing(q, u) /\ q.copies = Copies(q)
      /\ q.pc # "preparing"
  BY DrivingFacts DEF Driving
<1>2. CASE q.in_flight = {} /\ Fail(r, q, q.last_status)
  <2>1. /\ Touches(r) /\ race'[r].pc = "drop" /\ race'[r].noted
        /\ Copies(race'[r]) = Copies(q) /\ race'[r].started = q.started
        /\ \A e \in Endpoints : /\ task'[r][e] = Aborted(task[r][e])
                                /\ ~UnpolledAborts => task[r][e] # "spawned"
    <3>1. q.last_status \in {q.last_status, NoOne}
      OBVIOUS
    <3> HIDE DEF q
    <3> QED
      BY <1>1, <1>2, <3>1, FailStep DEF u
  <2>2. task'[r] \in TaskType
    BY <2>1 DEF Touches
  <2>3. ~UnpolledAborts => \A e \in Endpoints : Holding(race'[r], task'[r], e) <=> Holding(q, u, e)
    BY <1>1, <2>1, <2>2, HoldAbort
  <2> QED
    BY <2>1, <2>3
<1>3. ASSUME NEW d \in BOOLEAN, Wait(r, q, d)
      PROVE  /\ Touches(r) /\ race'[r].pc = "wait" /\ race'[r].noted
             /\ Copies(race'[r]) = Copies(q)
             /\ race'[r].started = q.started
             /\ \A e \in Endpoints : Holding(race'[r], task'[r], e) <=> Holding(q, u, e)
  <2>1. /\ Touches(r) /\ race'[r].pc = "wait" /\ race'[r].noted
        /\ Copies(race'[r]) = Copies(q) /\ race'[r].started = q.started
        /\ \A e \in Endpoints :
             task'[r][e] = IF e \in q.started /\ task[r][e] = "none" THEN "spawned"
                           ELSE task[r][e]
    <3> HIDE DEF q
    <3> QED
      BY <1>1, <1>3, WaitStep DEF u
  <2>2. task'[r] \in TaskType
    BY <2>1 DEF Touches
  <2>3. \A e \in Endpoints : Holding(race'[r], task'[r], e) <=> Holding(q, u, e)
    BY <1>1, <2>1, <2>2, HoldLaunch
  <2> QED
    BY <2>1, <2>3
<1>4. CASE q.in_flight # {}
  <2>1. NextWait(q) \in BOOLEAN /\ (q.opening /\ NextWait(q)) \in BOOLEAN
    BY DEF NextWait
  <2>2. Wait(r, q, NextWait(q)) \/ Wait(r, q, q.opening /\ NextWait(q))
    BY <1>4 DEF Denied, NotPlaced
  <2> QED
    BY <1>3, <2>1, <2>2
<1>5. q.in_flight = {} => Fail(r, q, q.last_status)
  BY DEF Denied, NotPlaced
<1> QED
  BY <1>2, <1>4, <1>5

-----------------------------------------------------------------------------
(***************************************************************************)
(* The books each step keeps: requests, hedges and load change with the    *)
(* race the step touches.                                                  *)
(***************************************************************************)

\* A slot is taken or given back.
Moved(n, before, after) ==
  IF after /\ ~before THEN n + 1 ELSE IF before /\ ~after THEN Less(n) ELSE n

\* note_request and the end of the request.
RequestBook(r) ==
  requests' \in Nat /\ requests' + One(race[r].noted) = requests + One(race'[r].noted)

\* Admissions and their return.
HedgeBook(r) ==
  /\ hedges' \in Nat
  /\ hedges' + One(race[r].pc = "pick") + Cardinality(Copies(race[r]))
       = hedges + One(race'[r].pc = "pick") + Cardinality(Copies(race'[r]))

CapBook == hedges' <= hedges \/ (hedges' = hedges + 1 /\ UnderCap(hedges))

AdmitBook(r) == race'[r].pc = "admit" => UnderCap(race'[r].seen)

SlotBook(r) ==
  ~UnpolledAborts => \A e \in Endpoints :
    load'[e] = Moved(load[e], Holding(race[r], task[r], e), Holding(race'[r], task'[r], e))

\* Nothing is started after a join that disallowed more.
Halted(q, t) == \E e \in q.joined : t[e] = "halt"

StartBook(r) == Halted(race[r], task[r]) => race'[r].started \subseteq race[r].started

Books(r) ==
  /\ StartBook(r) /\ Touches(r) /\ RequestBook(r) /\ HedgeBook(r) /\ CapBook
  /\ AdmitBook(r) /\ load' \in [Endpoints -> Nat] /\ SlotBook(r)

\* The counters are numbers.
LEMMA CounterTypes ==
  ASSUME TypeOK
  PROVE  requests \in Nat /\ hedges \in Nat /\ load \in [Endpoints -> Nat]
<1>1. IsFiniteSet(Races)
  BY HedgeConfig DEF ValidPolicy
<1>2. Cardinality(Races) \in Nat
  BY <1>1, FS_CardinalityType
<1> QED
  BY <1>2 DEF TypeOK

\* The copies of a race are finitely many.
LEMMA CopiesNat ==
  ASSUME NEW q \in RaceType
  PROVE  IsFiniteSet(Copies(q)) /\ Cardinality(Copies(q)) \in Nat /\ Copies(q) \in SUBSET Endpoints
<1>1. Copies(q) \in SUBSET Endpoints
  BY DEF Copies, RaceType
<1> QED
  BY <1>1, SizesAreNat

\* An admission that is not made keeps the cap.
LEMMA CapSame ==
  ASSUME hedges \in Nat, hedges' \in Nat, hedges' <= hedges
  PROVE  CapBook
BY Zenon DEF CapBook

\* A slot's counter is assigned.
LEMMA LoadType ==
  ASSUME TypeOK, NEW e \in Endpoints, NEW n \in Nat, load' = [load EXCEPT ![e] = n]
  PROVE  load' \in [Endpoints -> Nat]
BY CounterTypes

\* A step that leaves the counters alone.
LEMMA QuietBooks ==
  ASSUME TypeOK, NEW r \in Races, Touches(r),
         requests' = requests, hedges' = hedges, load' = load,
         race'[r].noted <=> race[r].noted, race'[r].pc = "pick" <=> race[r].pc = "pick",
         Copies(race'[r]) = Copies(race[r]), race'[r].started = race[r].started,
         race'[r].pc = "admit" => UnderCap(race'[r].seen),
         ~UnpolledAborts => \A e \in Endpoints :
           Holding(race'[r], task'[r], e) <=> Holding(race[r], task[r], e)
  PROVE  Books(r)
<1>1. requests \in Nat /\ hedges \in Nat /\ load \in [Endpoints -> Nat]
  BY CounterTypes
<1>2. race[r] \in RaceType
  BY TypeParts
<1>3. Cardinality(Copies(race[r])) \in Nat
  BY <1>2, CopiesNat
<1>4. One(race'[r].noted) = One(race[r].noted)
  BY DEF One
<1>5. One(race'[r].pc = "pick") = One(race[r].pc = "pick")
  BY DEF One
<1>6. SlotBook(r)
  BY DEF Moved, SlotBook
<1>7. One(race[r].noted) \in Nat /\ One(race[r].pc = "pick") \in Nat
  BY OneType
<1>8. RequestBook(r)
  BY <1>1, <1>4, <1>7 DEF RequestBook
<1>9. HedgeBook(r)
  BY <1>1, <1>3, <1>5, <1>7 DEF HedgeBook
<1>10. AdmitBook(r) /\ CapBook /\ load' \in [Endpoints -> Nat]
  BY <1>1, CapSame DEF AdmitBook
<1> QED
  BY <1>6, <1>8, <1>9, <1>10 DEF Books, StartBook

\* The load balancer selects.
LEMMA SelectBooks ==
  ASSUME HedgeInv, NEW r \in Races, Select(r)
  PROVE  Books(r)
<1>0. TypeOK /\ race[r] \in RaceType /\ task[r] \in TaskType /\ Well(race[r], task[r])
  BY TypeParts DEF HedgeInv, AllWell
<1>1. PICK e \in Primaries :
        /\ load' = [load EXCEPT ![e] = @ + 1]
        /\ Put(r, [race[r] EXCEPT !.pc = "preparing", !.primary = e])
  BY DEF Select
<1>2. e \in Endpoints
  BY HedgeConfig DEF ValidPolicy
<1> DEFINE q == race[r]
           x == [q EXCEPT !.pc = "preparing", !.primary = e]
<1>3. race' = [race EXCEPT ![r] = x] /\ task' = task /\ requests' = requests /\ hedges' = hedges
  BY <1>1 DEF Select, Put
<1>4. /\ x \in RaceType /\ x.pc = "preparing" /\ x.primary = e
      /\ x.opening = q.opening /\ x.started = q.started /\ x.joined = q.joined
      /\ x.in_flight = q.in_flight /\ x.copies = q.copies /\ x.noted = q.noted
      /\ x.last_status = q.last_status /\ x.last_failure = q.last_failure
      /\ x.delivery = q.delivery
  BY <1>0, <1>2, SelectType
<1> HIDE DEF x
<1>5. q.pc = "idle" /\ Blank(q) /\ q.copies = Copies(q) /\ \A f \in Endpoints : task[r][f] = "none"
  BY <1>0 DEF Select, Well, Before
<1>6. Copies(x) = {} /\ Copies(q) = {}
  BY <1>4, <1>5 DEF Copies, Blank
<1>7. Well(x, task[r])
  BY <1>2, <1>4, <1>5, <1>6 DEF Well, Blank, Before, Driving, Over
<1>8. Touches(r) /\ race'[r] = x /\ task'[r] = task[r]
  BY <1>0, <1>3, <1>4, <1>7, TouchRace
<1>9. requests \in Nat /\ hedges \in Nat /\ load \in [Endpoints -> Nat]
  BY <1>0, CounterTypes
<1>10. load' \in [Endpoints -> Nat]
  <2>1. load[e] + 1 \in Nat /\ load' = [load EXCEPT ![e] = load[e] + 1]
    BY <1>1, <1>2, <1>9
  <2> QED
    BY <1>0, <1>2, <2>1, LoadType
<1>11. ASSUME NEW f \in Endpoints
       PROVE  load'[f] = Moved(load[f], Holding(q, task[r], f), Holding(x, task[r], f))
  <2>1. ~Holding(q, task[r], f) /\ (Holding(x, task[r], f) <=> f = e)
    BY <1>4, <1>5 DEF Holding, Blank, Alive
  <2> QED
    BY <1>1, <1>9, <2>1 DEF Moved
<1>12. Cardinality(Copies(q)) \in Nat /\ One(q.pc = "pick") = 0 /\ One(x.pc = "pick") = 0
       /\ One(x.noted) = 0 /\ One(q.noted) = 0
  BY <1>0, <1>4, <1>5, CopiesNat DEF One, Blank
<1>13. x.pc # "admit"
  BY <1>4
<1>14. RequestBook(r)
  BY <1>3, <1>9, <1>12, <1>8 DEF RequestBook
<1>15. HedgeBook(r)
  BY <1>3, <1>6, <1>9, <1>12, <1>8 DEF HedgeBook
<1>16. AdmitBook(r) /\ SlotBook(r)
  BY <1>8, <1>11, <1>13 DEF AdmitBook, SlotBook
<1>17. CapBook
  BY <1>3, <1>9, CapSame
<1>18. StartBook(r)
  BY <1>5, <1>8 DEF StartBook, Halted, Blank
<1> QED
  BY <1>8, <1>10, <1>14, <1>15, <1>16, <1>17, <1>18 DEF Books

\* Nothing is raced.
LEMMA PreparationFailedBooks ==
  ASSUME HedgeInv, NEW r \in Races, PreparationFailed(r)
  PROVE  Books(r)
<1>0. TypeOK /\ race[r] \in RaceType /\ task[r] \in TaskType /\ Well(race[r], task[r])
  BY TypeParts DEF HedgeInv, AllWell
<1> DEFINE q == race[r]
           x == [New EXCEPT !.pc = "done"]
<1>1. race' = [race EXCEPT ![r] = x] /\ task' = task /\ requests' = requests /\ hedges' = hedges
      /\ load' = [load EXCEPT ![q.primary] = Less(@)]
  BY DEF PreparationFailed, Put
<1>2. x \in RaceType /\ x.pc = "done" /\ x.copies = {} /\ x.primary = NoOne /\ Blank(x)
  BY DoneType
<1> HIDE DEF x
<1>3. q.pc = "preparing" /\ Blank(q) /\ q.copies = Copies(q) /\ q.primary \in Endpoints
      /\ \A f \in Endpoints : task[r][f] = "none"
  BY <1>0 DEF PreparationFailed, Well, Before
<1>4. Copies(x) = {} /\ Copies(q) = {}
  BY <1>2, <1>3 DEF Copies, Blank
<1>5. Well(x, task[r])
  BY <1>2, <1>3, <1>4 DEF Well, Before, Driving, Over
<1>6. Touches(r) /\ race'[r] = x /\ task'[r] = task[r]
  BY <1>0, <1>1, <1>2, <1>5, TouchRace
<1>7. requests \in Nat /\ hedges \in Nat /\ load \in [Endpoints -> Nat]
  BY <1>0, CounterTypes
<1>8. load' \in [Endpoints -> Nat]
  <2>1. Less(load[q.primary]) \in Nat /\ load' = [load EXCEPT ![q.primary] = Less(load[q.primary])]
    BY <1>1, <1>3, <1>7 DEF Less
  <2> QED
    BY <1>0, <1>3, <2>1, LoadType
<1>9. ASSUME NEW f \in Endpoints
      PROVE  load'[f] = Moved(load[f], Holding(q, task[r], f), Holding(x, task[r], f))
  <2>1. ~Holding(x, task[r], f) /\ (Holding(q, task[r], f) <=> f = q.primary)
    BY <1>2, <1>3 DEF Holding, Blank, Alive
  <2> QED
    BY <1>1, <1>3, <1>7, <2>1 DEF Moved
<1>10. Cardinality(Copies(q)) \in Nat /\ One(q.pc = "pick") = 0 /\ One(x.pc = "pick") = 0
       /\ One(x.noted) = 0 /\ One(q.noted) = 0
  BY <1>0, <1>2, <1>3, CopiesNat DEF One, Blank
<1>11. x.pc # "admit"
  BY <1>2
<1>12. RequestBook(r)
  BY <1>1, <1>7, <1>10, <1>6 DEF RequestBook
<1>13. HedgeBook(r)
  BY <1>1, <1>4, <1>7, <1>10, <1>6 DEF HedgeBook
<1>14. AdmitBook(r) /\ SlotBook(r)
  BY <1>6, <1>9, <1>11 DEF AdmitBook, SlotBook
<1>15. CapBook
  BY <1>1, <1>7, CapSame
<1>16. StartBook(r)
  BY <1>3, <1>6 DEF StartBook, Halted, Blank
<1> QED
  BY <1>6, <1>8, <1>12, <1>13, <1>14, <1>15, <1>16 DEF Books

\* The request is counted, and the primary started.
LEMMA OpenBooks ==
  ASSUME HedgeInv, NEW r \in Races, Open(r)
  PROVE  Books(r)
<1>0. TypeOK /\ race[r] \in RaceType /\ task[r] \in TaskType /\ Well(race[r], task[r])
  BY TypeParts DEF HedgeInv, AllWell
<1> DEFINE q == race[r]
           S == {q.primary}
           x == [q EXCEPT !.pc = "fanout", !.noted = TRUE, !.started = S, !.in_flight = S]
<1>1. race' = [race EXCEPT ![r] = x] /\ task' = task /\ requests' = requests + 1
      /\ hedges' = hedges /\ load' = load
  BY DEF Open, Put, NoteRequest
<1>2. q.pc = "preparing" /\ Blank(q) /\ q.copies = Copies(q) /\ q.primary \in Endpoints
      /\ \A f \in Endpoints : task[r][f] = "none"
  BY <1>0 DEF Open, Well, Before
<1>3. S \in SUBSET Endpoints /\ Cardinality(S) = 1
  BY <1>2, FS_Singleton
<1>4. /\ x \in RaceType /\ x.pc = "fanout" /\ x.noted /\ x.started = S /\ x.in_flight = S
      /\ x.primary = q.primary /\ x.opening = q.opening /\ x.joined = q.joined
      /\ x.copies = q.copies /\ x.last_status = q.last_status /\ x.max = q.max
      /\ x.last_failure = q.last_failure /\ x.delivery = q.delivery
  <2> HIDE DEF q, S
  <2> QED
    BY <1>0, <1>3, OpenType DEF q
<1> HIDE DEF x
<1>5. Copies(x) = {} /\ Copies(q) = {}
  BY <1>2, <1>4 DEF Copies, Blank
<1>6. q.max \in 1..MaxAttempts /\ MaxAttempts \in Nat
  BY <1>0, MaxPositive DEF RaceType
<1>7. Ongoing(x, task[r])
  BY <1>2, <1>3, <1>4, <1>6 DEF Ongoing, Blank
<1>8. Launched(x, task[r])
  BY <1>2, <1>4 DEF Launched, Blank
<1>9. Well(x, task[r])
  BY <1>2, <1>4, <1>5, <1>7, <1>8 DEF Well, Before, Driving, Over, Blank
<1>10. Touches(r) /\ race'[r] = x /\ task'[r] = task[r]
  BY <1>0, <1>1, <1>4, <1>9, TouchRace
<1>11. requests \in Nat /\ hedges \in Nat /\ load \in [Endpoints -> Nat]
  BY <1>0, CounterTypes
<1>12. ASSUME NEW f \in Endpoints
       PROVE  load'[f] = Moved(load[f], Holding(q, task[r], f), Holding(x, task[r], f))
  <2>1. Holding(x, task[r], f) <=> Holding(q, task[r], f)
    BY <1>2, <1>4 DEF Holding, Blank, Alive
  <2> QED
    BY <1>1, <2>1 DEF Moved
<1>13. Cardinality(Copies(q)) \in Nat /\ One(q.pc = "pick") = 0 /\ One(x.pc = "pick") = 0
       /\ One(x.noted) = 1 /\ One(q.noted) = 0
  BY <1>0, <1>2, <1>4, CopiesNat DEF One, Blank
<1>14. x.pc # "admit"
  BY <1>4
<1>15. RequestBook(r)
  BY <1>1, <1>11, <1>13, <1>10 DEF RequestBook
<1>16. HedgeBook(r)
  BY <1>1, <1>5, <1>11, <1>13, <1>10 DEF HedgeBook
<1>17. AdmitBook(r) /\ SlotBook(r)
  BY <1>10, <1>12, <1>14 DEF AdmitBook, SlotBook
<1>18. CapBook
  BY <1>1, <1>11, CapSame
<1>19. StartBook(r)
  BY <1>2, <1>10 DEF StartBook, Halted, Blank
<1> QED
  BY <1>10, <1>1, <1>11, <1>15, <1>16, <1>17, <1>18, <1>19 DEF Books

\* The driver moves on with the race as it was.
LEMMA MoveWell ==
  ASSUME NEW q \in RaceType, NEW x \in RaceType, NEW t \in TaskType,
         Same(x, q), Well(q, t), q.pc \in Driving,
         x.pc \in {"start", "check", "admit", "pick"}, x.pc # "start" => Room(q)
  PROVE  /\ Well(x, t) /\ Copies(x) = Copies(q) /\ (x.noted <=> q.noted)
         /\ \A e \in Endpoints : Holding(x, t, e) <=> Holding(q, t, e)
<1>1. Ongoing(q, t) /\ Launched(q, t) /\ q.copies = Copies(q)
  BY DEF Well
<1>2. Ongoing(x, t)
  BY <1>1 DEF Ongoing, Same
<1>3. Launched(x, t)
  BY <1>1 DEF Launched, Same
<1>4. Copies(x) = Copies(q) /\ x.copies = Copies(x)
  BY <1>1 DEF Copies, Same
<1>5. x.pc # "start" => Room(x)
  BY DEF Room, Same
<1>6. Well(x, t)
  BY <1>2, <1>3, <1>4, <1>5 DEF Well, Before, Driving, Over
<1>7. \A e \in Endpoints : Holding(x, t, e) <=> Holding(q, t, e)
  BY DEF Holding, Same, Driving
<1> QED
  BY <1>4, <1>6, <1>7 DEF Same

\* What such a move leaves of the books.
LEMMA MoveBooks ==
  ASSUME HedgeInv, NEW r \in Races, NEW x \in RaceType,
         Same(x, race[r]), race[r].pc \in Driving \ {"pick"},
         x.pc \in {"start", "check", "admit"}, x.pc # "start" => Room(race[r]),
         x.pc = "admit" => UnderCap(x.seen),
         race' = [race EXCEPT ![r] = x],
         task' = task, requests' = requests, hedges' = hedges, load' = load
  PROVE  Books(r)
<1>1. TypeOK /\ race[r] \in RaceType /\ task[r] \in TaskType /\ Well(race[r], task[r])
  BY TypeParts DEF HedgeInv, AllWell
<1>2. /\ Well(x, task[r]) /\ Copies(x) = Copies(race[r]) /\ (x.noted <=> race[r].noted)
      /\ \A e \in Endpoints : Holding(x, task[r], e) <=> Holding(race[r], task[r], e)
  BY <1>1, MoveWell
<1>3. Touches(r) /\ race'[r] = x /\ task'[r] = task[r]
  BY <1>1, <1>2, TouchRace
<1>4. race[r].pc # "pick" /\ x.pc # "pick"
  OBVIOUS
<1> QED
  BY <1>1, <1>2, <1>3, <1>4, QuietBooks DEF Same

\* What a step back leaves of the books, of a race that was not picking.
LEMMA BackBooks ==
  ASSUME HedgeInv, NEW r \in Races, race[r].pc \in Driving \ {"pick"},
         Denied(r, race[r]) \/ NotPlaced(r, race[r]),
         requests' = requests, hedges' = hedges, load' = load
  PROVE  Books(r)
<1>1. TypeOK /\ AllWell /\ race[r].pc \in Driving
  BY DEF HedgeInv
<1>2. /\ Touches(r) /\ race'[r].pc \in {"wait", "drop"} /\ race'[r].noted
      /\ Copies(race'[r]) = Copies(race[r]) /\ race'[r].started = race[r].started
      /\ ~UnpolledAborts => \A e \in Endpoints :
           Holding(race'[r], task'[r], e) <=> Holding(race[r], task[r], e)
  BY <1>1, BackStep
<1>3. race[r].noted
  BY <1>1, DrivingFacts DEF Ongoing
<1>4. race[r].pc # "pick" /\ race'[r].pc # "pick" /\ race'[r].pc # "admit"
  BY <1>2
<1> QED
  BY <1>1, <1>2, <1>3, <1>4, QuietBooks

\* The fan-out goes on, or its attempts are launched.
LEMMA FanOutBooks ==
  ASSUME HedgeInv, NEW r \in Races, FanOut(r)
  PROVE  Books(r)
<1> DEFINE q == race[r]
<1>1. TypeOK /\ AllWell /\ q.pc = "fanout" /\ q.pc \in Driving /\ q.pc \in Driving \ {"pick"}
  BY DEF HedgeInv, FanOut, Driving
<1>2. /\ q \in RaceType /\ task[r] \in TaskType /\ Ongoing(q, task[r]) /\ q.copies = Copies(q)
  BY <1>1, DrivingFacts
<1>3. requests' = requests /\ hedges' = hedges /\ load' = load
  BY DEF FanOut
<1>4. CASE Put(r, [q EXCEPT !.pc = "start"]) /\ task' = task
  <2> DEFINE x == [q EXCEPT !.pc = "start"]
             pc == "start"
  <2>1. pc \in Driving
    BY DEF Driving
  <2>2. x \in RaceType /\ x.pc = "start" /\ Same(x, q)
    BY <1>2, <2>1, MoveType
  <2>3. race' = [race EXCEPT ![r] = x] /\ task' = task
    BY <1>4 DEF Put
  <2> HIDE DEF x
  <2> QED
    BY <1>1, <1>3, <2>2, <2>3, MoveBooks
<1>5. CASE Wait(r, q, NextWait(q))
  <2>1. NextWait(q) \in BOOLEAN
    BY DEF NextWait
  <2>2. q.in_flight # {}
    <3>1. q.opening
      BY <1>1 DEF AllWell, Well
    <3>2. q.joined = {}
      BY <1>1, <3>1, DrivingFacts DEF Launched
    <3> QED
      BY <1>2, <3>2 DEF Ongoing
  <2>3. Denied(r, q)
    BY <1>5, <2>2 DEF Denied
  <2> QED
    BY <1>1, <1>3, <2>3, BackBooks
<1> QED
  BY <1>4, <1>5 DEF FanOut

\* Room is checked, and the budget read.
LEMMA StartOneBooks ==
  ASSUME HedgeInv, NEW r \in Races, StartOne(r)
  PROVE  Books(r)
<1> DEFINE q == race[r]
<1>1. TypeOK /\ AllWell /\ q.pc \in Driving /\ q.pc \in Driving \ {"pick"}
  BY DEF HedgeInv, StartOne, Driving
<1>2. q \in RaceType /\ hedges \in Nat
  BY <1>1, DrivingFacts, CounterTypes
<1>3. requests' = requests /\ hedges' = hedges /\ load' = load
  BY DEF StartOne
<1>4. CASE Room(q) /\ Put(r, [q EXCEPT !.pc = "check", !.seen = hedges]) /\ task' = task
  <2> DEFINE pc == "check"
             x == [q EXCEPT !.pc = pc, !.seen = hedges]
  <2>1. pc \in Driving
    BY DEF Driving
  <2>2. x \in RaceType /\ x.pc = "check" /\ Same(x, q)
    <3>1. x = Saw(q, pc, hedges)
      BY DEF Saw
    <3> HIDE DEF x, pc, q
    <3>2. x \in RaceType /\ x.pc = pc /\ Same(x, q)
      BY <1>2, <2>1, <3>1, SawType
    <3> QED
      BY <3>2 DEF pc
  <2>3. race' = [race EXCEPT ![r] = x] /\ task' = task
    BY <1>4 DEF Put
  <2> HIDE DEF x
  <2> QED
    BY <1>1, <1>3, <1>4, <2>2, <2>3, MoveBooks
<1>5. CASE Denied(r, q) \/ NotPlaced(r, q)
  BY <1>1, <1>3, <1>5, BackBooks
<1> QED
  BY <1>4, <1>5 DEF StartOne

\* The larger the number of requests, the larger its percentage.
LEMMA ScaledUp ==
  ASSUME NEW a \in Nat, NEW b \in Nat, NEW c \in Nat, a <= b
  PROVE  a * c <= b * c
<1>1. (b - a) * c >= 0
  OBVIOUS
<1>2. b * c = a * c + (b - a) * c /\ a * c \in Int /\ b * c \in Int /\ (b - a) * c \in Int
  OBVIOUS
<1> QED
  BY <1>1, <1>2

\* The comparison is against the requests of the moment, at most all races.
LEMMA AdmitCheckBooks ==
  ASSUME HedgeInv, NEW r \in Races, AdmitCheck(r)
  PROVE  Books(r)
<1> DEFINE q == race[r]
<1>1. TypeOK /\ AllWell /\ q.pc = "check" /\ q.pc \in Driving /\ q.pc \in Driving \ {"pick"}
  BY DEF HedgeInv, AdmitCheck, Driving
<1>2. q \in RaceType /\ q.seen \in Nat
  BY <1>1, DrivingFacts DEF RaceType
<1>3. requests' = requests /\ hedges' = hedges /\ load' = load
  BY DEF AdmitCheck
<1>4. CASE ~Full(q) /\ Put(r, [q EXCEPT !.pc = "admit"]) /\ task' = task
  <2> DEFINE pc == "admit"
             x == [q EXCEPT !.pc = pc]
  <2>1. pc \in Driving
    BY DEF Driving
  <2>2. x \in RaceType /\ x.pc = "admit" /\ Same(x, q) /\ x.seen = q.seen
    BY <1>2, <2>1, MoveType
  <2>3. race' = [race EXCEPT ![r] = x] /\ task' = task
    BY <1>4 DEF Put
  <2>4. UnderCap(q.seen)
    <3>1. IsFiniteSet(Races) /\ Bps \in Nat
      BY HedgeConfig DEF ValidPolicy, BpsScale
    <3>2. Cardinality(Races) \in Nat /\ requests \in Nat /\ requests <= Cardinality(Races)
      BY <1>1, <3>1, FS_CardinalityType DEF TypeOK
    <3>3. requests * Bps <= Cardinality(Races) * Bps
      BY <3>1, <3>2, ScaledUp
    <3>4. requests * Bps \in Nat /\ Cardinality(Races) * Bps \in Nat
      BY <3>1, <3>2
    <3>5. q.seen * BpsScale < requests * Bps
      BY <1>2, <1>4, <3>4 DEF Full, BpsScale
    <3> QED
      BY <1>2, <3>3, <3>4, <3>5 DEF UnderCap, BpsScale
  <2>5. Room(q)
    BY <1>1 DEF AllWell, Well
  <2> HIDE DEF x
  <2> QED
    BY <1>1, <1>3, <2>2, <2>3, <2>4, <2>5, MoveBooks
<1>5. CASE Denied(r, q)
  BY <1>1, <1>3, <1>5, BackBooks
<1> QED
  BY <1>4, <1>5 DEF AdmitCheck

\* An admission is made only from what was compared.
LEMMA AdmitExchangeBooks ==
  ASSUME HedgeInv, NEW r \in Races, AdmitExchange(r)
  PROVE  Books(r)
<1> DEFINE q == race[r]
<1>1. TypeOK /\ AllWell /\ q.pc = "admit" /\ q.pc \in Driving /\ q.pc \in Driving \ {"pick"}
      /\ UnderCap(q.seen)
  BY DEF HedgeInv, AdmitsUnder, AdmitExchange, Driving
<1>2. q \in RaceType /\ task[r] \in TaskType /\ hedges \in Nat /\ requests \in Nat
      /\ load \in [Endpoints -> Nat]
  BY <1>1, DrivingFacts, CounterTypes
<1>3. requests' = requests /\ task' = task /\ load' = load
  BY DEF AdmitExchange
<1>4. Room(q) /\ Well(q, task[r])
  BY <1>1 DEF AllWell, Well
<1>5. CASE ~Exchanges(q) /\ hedges' = hedges /\ Put(r, [q EXCEPT !.pc = "check", !.seen = hedges])
  <2> DEFINE pc == "check"
             x == [q EXCEPT !.pc = pc, !.seen = hedges]
  <2>1. pc \in Driving
    BY DEF Driving
  <2>2. x \in RaceType /\ x.pc = "check" /\ Same(x, q)
    <3>1. x = Saw(q, pc, hedges)
      BY DEF Saw
    <3> HIDE DEF x, pc, q
    <3>2. x \in RaceType /\ x.pc = pc /\ Same(x, q)
      BY <1>2, <2>1, <3>1, SawType
    <3> QED
      BY <3>2 DEF pc
  <2>3. race' = [race EXCEPT ![r] = x] /\ task' = task
    BY <1>3, <1>5 DEF Put
  <2> HIDE DEF x
  <2> QED
    BY <1>1, <1>3, <1>4, <1>5, <2>2, <2>3, MoveBooks
<1>6. CASE Exchanges(q) /\ hedges' = hedges + 1 /\ Put(r, [q EXCEPT !.pc = "pick", !.seen = 0])
  <2> DEFINE pc == "pick"
             n == 0
             x == [q EXCEPT !.pc = pc, !.seen = n]
  <2>1. pc \in Driving /\ n \in Nat
    BY DEF Driving
  <2>2. x \in RaceType /\ x.pc = "pick" /\ Same(x, q)
    <3>1. x = Saw(q, pc, n)
      BY DEF Saw
    <3> HIDE DEF x, n, pc, q
    <3>2. x \in RaceType /\ x.pc = pc /\ Same(x, q)
      BY <1>2, <2>1, <3>1, SawType
    <3> QED
      BY <3>2 DEF pc
  <2>3. race' = [race EXCEPT ![r] = x]
    BY <1>6 DEF Put
  <2> HIDE DEF x
  <2>4. /\ Well(x, task[r]) /\ Copies(x) = Copies(q) /\ (x.noted <=> q.noted)
        /\ \A e \in Endpoints : Holding(x, task[r], e) <=> Holding(q, task[r], e)
    BY <1>1, <1>2, <1>4, <2>2, MoveWell
  <2>5. Touches(r) /\ race'[r] = x /\ task'[r] = task[r]
    BY <1>1, <1>3, <2>2, <2>3, <2>4, TouchRace
  <2>6. One(q.noted) = One(x.noted) /\ One(q.noted) \in Nat
        /\ One(q.pc = "pick") = 0 /\ One(x.pc = "pick") = 1
    BY <1>1, <2>2, <2>4 DEF One
  <2>7. RequestBook(r)
    BY <1>2, <1>3, <2>5, <2>6 DEF RequestBook
  <2>8. Cardinality(Copies(q)) \in Nat
    BY <1>2, CopiesNat
  <2>9. HedgeBook(r)
    BY <1>2, <1>6, <2>4, <2>5, <2>6, <2>8 DEF HedgeBook
  <2>10. CapBook
    BY <1>1, <1>6 DEF CapBook, Exchanges
  <2>11. AdmitBook(r)
    BY <2>2, <2>5 DEF AdmitBook
  <2>12. SlotBook(r)
    BY <1>3, <2>4, <2>5 DEF SlotBook, Moved
  <2>13. StartBook(r)
    BY <2>2, <2>5 DEF StartBook, Same
  <2> QED
    BY <1>2, <1>3, <2>5, <2>7, <2>9, <2>10, <2>11, <2>12, <2>13 DEF Books
<1> QED
  BY <1>5, <1>6 DEF AdmitExchange

\* The budget covers what each race has charged to it.
LEMMA ChargedTo ==
  ASSUME HedgeInv, NEW r \in Races
  PROVE  /\ Cardinality(Copies(race[r])) \in Nat /\ hedges \in Nat
         /\ One(race[r].pc = "pick") + Cardinality(Copies(race[r])) <= hedges
<1>1. TypeOK /\ CopiesCharged /\ hedges \in Nat
  BY CounterTypes DEF HedgeInv
<1>2. \A s \in Races : race[s] \in RaceType
  BY <1>1, TypeParts
<1> DEFINE F == [s \in Races |-> Copies(race[s])]
           A == Fibres(Races, Endpoints, F)
<1>3. IsFiniteSet(Races) /\ IsFiniteSet(Endpoints)
  BY HedgeConfig DEF ValidPolicy
<1>4. \A s \in Races : F[s] \in SUBSET Endpoints
  BY <1>2, CopiesNat
<1>5. {Cardinality(A), Cardinality(F[r])} \subseteq Nat
      /\ Cardinality(F[r]) <= Cardinality(A)
  <2> HIDE DEF F
  <2> QED
    BY <1>3, <1>4, CountFibre
<1>6. Pairs = A
  BY DEF Pairs, Fibres
<1>7. Picking \subseteq Races
  BY DEF Picking
<1>8. IsFiniteSet(Picking) /\ Cardinality(Picking) \in Nat
  BY <1>3, <1>7, CountPart
<1>9. One(race[r].pc = "pick") <= Cardinality(Picking) /\ One(race[r].pc = "pick") \in Nat
  <2>1. CASE race[r].pc = "pick"
    <3>1. {r} \subseteq Picking /\ Cardinality({r}) = 1
      BY <2>1, FS_Singleton DEF Picking
    <3>2. 1 <= Cardinality(Picking)
      BY <1>8, <3>1, CountPart
    <3> QED
      BY <2>1, <3>2 DEF One
  <2>2. CASE race[r].pc # "pick"
    BY <1>8, <2>2 DEF One
  <2> QED
    BY <2>1, <2>2
<1>10. hedges = Cardinality(Picking) + Cardinality(A)
  BY <1>1, <1>6 DEF CopiesCharged, Picking, Pairs, Copies
<1>11. F[r] = Copies(race[r])
  OBVIOUS
<1> HIDE DEF F, A
<1> QED
  BY <1>1, <1>5, <1>8, <1>9, <1>10, <1>11

\* An admission the race holds can be given back in full.
LEMMA Reverted ==
  ASSUME hedges \in Nat, NEW n \in Nat, n <= hedges
  PROVE  RevertAdmission(n) = hedges - n /\ hedges - n \in Nat /\ hedges - n <= hedges
BY DEF RevertAdmission

\* The room left after a join is a number of attempts.
LEMMA DisallowType ==
  ASSUME NEW q \in RaceType, NEW u, NEW result, Ongoing(q, u)
  PROVE  /\ DisallowMore(q, result) \in 1..MaxAttempts
         /\ DisallowMore(q, result) <= q.max
         /\ Cardinality(q.started) <= DisallowMore(q, result)
         /\ result = "halt" => DisallowMore(q, result) <= Cardinality(q.started)
         /\ {Cardinality(q.started), q.max, DisallowMore(q, result)} \subseteq Nat
<1>1. q.started \in SUBSET Endpoints /\ q.max \in 1..MaxAttempts /\ MaxAttempts \in Nat
  BY MaxPositive DEF RaceType
<1>2. IsFiniteSet(q.started) /\ Cardinality(q.started) \in Nat
  BY <1>1, SizesAreNat
<1>3. {q.primary} \subseteq q.started /\ Cardinality({q.primary}) = 1
  BY FS_Singleton DEF Ongoing
<1>4. 1 <= Cardinality(q.started)
  BY <1>2, <1>3, CountPart
<1>5. Cardinality(q.started) <= q.max
  BY DEF Ongoing
<1> QED
  BY <1>1, <1>2, <1>4, <1>5 DEF DisallowMore

\* A placed copy joins those in flight.
LEMMA PlaceOngoing ==
  ASSUME NEW q \in RaceType, NEW p \in RaceType, NEW u \in TaskType,
         NEW e \in Endpoints \ q.started,
         Ongoing(q, u), q.copies = Copies(q), Room(q),
         p.started = q.started \cup {e}, p.in_flight = q.in_flight \cup {e},
         p.copies = q.copies \cup {e}, p.noted = q.noted, p.primary = q.primary,
         p.joined = q.joined, p.last_status = q.last_status,
         p.max = q.max, p.last_failure = q.last_failure, p.delivery = q.delivery
  PROVE  /\ Ongoing(p, u) /\ p.copies = Copies(p) /\ Copies(p) = Copies(q) \cup {e}
         /\ Cardinality(Copies(p)) = Cardinality(Copies(q)) + 1
<1>1. q.started \in SUBSET Endpoints /\ q.joined \in SUBSET Endpoints /\ q.max \in 1..MaxAttempts
  BY DEF RaceType
<1>2. IsFiniteSet(q.started) /\ Cardinality(q.started) \in Nat
  BY <1>1, SizesAreNat
<1>3. Cardinality(p.started) = Cardinality(q.started) + 1
  <2>1. Cardinality(q.started \cup {e}) = Cardinality(q.started) + 1
    BY <1>2, FS_AddElement
  <2> QED
    BY <2>1
<1>4. q.max \in Nat
  BY <1>1, MaxPositive
<1>5. Cardinality(p.started) <= p.max
  BY <1>2, <1>3, <1>4 DEF Room
<1>6. \A f \in q.joined : u[f] = "halt" => FALSE
  BY <1>2, <1>4 DEF Room, Ongoing
<1>7. e # q.primary /\ e \notin q.joined /\ u[e] = "none"
  BY DEF Ongoing
<1>8. p.in_flight = p.started \ p.joined /\ p.joined \subseteq p.started
  BY <1>7 DEF Ongoing
<1>9. \A f \in p.started : u[f] \in {"none", "spawned", "running"} \cup Results
  BY <1>7 DEF Ongoing
<1>10. \A f \in p.joined : /\ u[f] \in Results \ {"ok"}
                           /\ u[f] = "halt" => p.max <= Cardinality(p.started)
                           /\ u[f] = "5xx" => p.last_failure # NoOne
  BY <1>6 DEF Ongoing
<1>11. p.noted /\ p.delivery = "none" /\ p.primary \in p.started /\ p.last_status = p.last_failure
       /\ \A f \in Endpoints \ p.started : u[f] = "none"
  BY DEF Ongoing
<1>12. Ongoing(p, u)
  BY <1>5, <1>8, <1>9, <1>10, <1>11 DEF Ongoing
<1>13. Copies(p) = Copies(q) \cup {e} /\ e \notin Copies(q) /\ p.copies = Copies(p)
  BY <1>7 DEF Copies, Ongoing
<1>14. IsFiniteSet(Copies(q))
  BY CopiesNat
<1>15. Cardinality(Copies(q) \cup {e}) = Cardinality(Copies(q)) + 1
  BY <1>13, <1>14, FS_AddElement
<1> QED
  BY <1>12, <1>13, <1>15

\* A copy is placed, on an endpoint whose slot it takes.
LEMMA PlaceBooks ==
  ASSUME HedgeInv, NEW r \in Races, Place(r)
  PROVE  Books(r)
<1> DEFINE q == race[r]
           u == task[r]
<1>1. TypeOK /\ AllWell /\ q.pc = "pick" /\ q.pc \in Driving
  BY DEF HedgeInv, Place, Driving
<1>2. /\ q \in RaceType /\ u \in TaskType /\ Ongoing(q, u) /\ Launched(q, u)
      /\ q.copies = Copies(q)
  BY <1>1, DrivingFacts
<1>3. Room(q)
  BY <1>1 DEF AllWell, Well
<1>4. PICK e \in Endpoints \ q.started :
        LET p == [q EXCEPT !.started = @ \cup {e}, !.in_flight = @ \cup {e},
                           !.copies = @ \cup {e}]
        IN  /\ load' = [load EXCEPT ![e] = @ + 1]
            /\ IF q.opening THEN Put(r, [p EXCEPT !.pc = "fanout"]) /\ UNCHANGED task
               ELSE Wait(r, p, NextWait(p))
  BY DEF Place
<1> DEFINE p == [q EXCEPT !.started = @ \cup {e}, !.in_flight = @ \cup {e},
                          !.copies = @ \cup {e}]
<1>5. /\ load' = [load EXCEPT ![e] = @ + 1] /\ requests' = requests /\ hedges' = hedges
      /\ q.opening => Put(r, [p EXCEPT !.pc = "fanout"]) /\ task' = task
      /\ ~q.opening => Wait(r, p, NextWait(p))
  BY <1>4 DEF Place
<1>6. /\ p \in RaceType /\ p.started = q.started \cup {e}
      /\ p.in_flight = q.in_flight \cup {e} /\ p.copies = q.copies \cup {e}
      /\ p.pc = q.pc /\ p.noted = q.noted /\ p.primary = q.primary
      /\ p.opening = q.opening /\ p.joined = q.joined /\ p.last_status = q.last_status
      /\ p.max = q.max /\ p.last_failure = q.last_failure /\ p.delivery = q.delivery
  <2>1. p = Placed(q, e)
    BY DEF Placed
  <2> HIDE DEF p, q
  <2> QED
    BY <1>2, <2>1, PlacedType
<1> HIDE DEF p
<1>7. /\ Ongoing(p, u) /\ p.copies = Copies(p) /\ Copies(p) = Copies(q) \cup {e}
      /\ Cardinality(Copies(p)) = Cardinality(Copies(q)) + 1
  <2> HIDE DEF q, u
  <2> QED
    BY <1>2, <1>3, <1>6, PlaceOngoing
<1>8. u[e] = "none"
  BY <1>2 DEF Ongoing
<1>9. /\ Touches(r) /\ race'[r].noted /\ race'[r].pc \in {"fanout", "wait"}
      /\ Copies(race'[r]) = Copies(p)
      /\ \A f \in Endpoints :
           Holding(race'[r], task'[r], f) <=> f = e \/ Holding(q, u, f)
  <2>1. CASE q.opening
    <3> DEFINE pc == "fanout"
               x == [p EXCEPT !.pc = pc]
    <3>1. pc \in Driving
      BY DEF Driving
    <3>2. x \in RaceType /\ x.pc = "fanout" /\ Same(x, p)
      BY <1>6, <3>1, MoveType
    <3>3. race' = [race EXCEPT ![r] = x] /\ task' = task
      BY <1>5, <2>1 DEF Put
    <3> HIDE DEF x
    <3>4. Ongoing(x, u) /\ Copies(x) = Copies(p) /\ x.copies = Copies(x)
      BY <1>7, <3>2 DEF Ongoing, Same, Copies
    <3>5. Launched(x, u) /\ x.opening
      BY <1>2, <1>6, <2>1, <3>2 DEF Launched, Same
    <3>6. Well(x, u)
      BY <3>2, <3>4, <3>5 DEF Well, Before, Driving, Over
    <3>7. Touches(r) /\ race'[r] = x /\ task'[r] = u
      BY <1>1, <3>2, <3>3, <3>6, TouchRace
    <3>8. x.started = q.started \cup {e} /\ x.noted
      BY <1>6, <1>7, <3>2 DEF Same, Ongoing
    <3>9. \A f \in Endpoints : Holding(x, u, f) <=> f = e \/ Holding(q, u, f)
      BY <1>1, <1>8, <3>2, <3>8 DEF Holding
    <3> QED
      BY <3>2, <3>4, <3>7, <3>8, <3>9
  <2>2. CASE ~q.opening
    <3>1. NextWait(p) \in BOOLEAN
      BY DEF NextWait
    <3>2. /\ Touches(r) /\ race'[r].pc = "wait" /\ race'[r].noted
          /\ Copies(race'[r]) = Copies(p) /\ race'[r].started = p.started
          /\ \A f \in Endpoints :
               task'[r][f] = IF f \in p.started /\ task[r][f] = "none" THEN "spawned"
                             ELSE task[r][f]
      <4> DEFINE d == NextWait(p)
      <4>1. d \in BOOLEAN
        BY <3>1
      <4>2. Wait(r, p, d)
        BY <1>5, <2>2
      <4>3. TypeOK /\ p \in RaceType /\ Ongoing(p, task[r]) /\ p.copies = Copies(p)
        BY <1>1, <1>6, <1>7
      <4> HIDE DEF d
      <4> QED
        BY <4>1, <4>2, <4>3, WaitStep
    <3>3. \A f \in Endpoints : Holding(race'[r], task'[r], f) <=> f = e \/ Holding(q, u, f)
      BY <1>1, <1>6, <1>8, <3>2 DEF Holding, Alive
    <3> QED
      BY <3>2, <3>3
  <2> QED
    BY <2>1, <2>2
<1>10. requests \in Nat /\ hedges \in Nat /\ load \in [Endpoints -> Nat]
  BY <1>1, CounterTypes
<1>11. One(q.noted) = 1 /\ One(race'[r].noted) = 1
       /\ One(q.pc = "pick") = 1 /\ One(race'[r].pc = "pick") = 0
  BY <1>1, <1>2, <1>9 DEF One, Ongoing
<1>12. RequestBook(r)
  BY <1>5, <1>10, <1>11 DEF RequestBook
<1>13. Cardinality(Copies(q)) \in Nat
  BY <1>2, CopiesNat
<1>14. HedgeBook(r)
  BY <1>5, <1>7, <1>9, <1>10, <1>11, <1>13 DEF HedgeBook
<1>15. CapBook
  BY <1>5, <1>10, CapSame
<1>16. AdmitBook(r)
  BY <1>9 DEF AdmitBook
<1>17. load' \in [Endpoints -> Nat]
  <2>1. load[e] + 1 \in Nat /\ load' = [load EXCEPT ![e] = load[e] + 1]
    BY <1>5, <1>10
  <2> QED
    BY <1>1, <2>1, LoadType
<1>18. SlotBook(r)
  <2>1. ASSUME NEW f \in Endpoints
        PROVE  load'[f] = Moved(load[f], Holding(q, u, f), Holding(race'[r], task'[r], f))
    <3>1. CASE f = e
      <4>1. ~Holding(q, u, f) /\ Holding(race'[r], task'[r], f)
        BY <1>1, <1>8, <1>9, <3>1 DEF Holding, Alive
      <4> QED
        BY <1>5, <1>10, <3>1, <4>1 DEF Moved
    <3>2. CASE f # e
      BY <1>5, <1>9, <1>10, <3>2 DEF Moved
    <3> QED
      BY <3>1, <3>2
  <2> QED
    BY <2>1 DEF SlotBook
<1>19. StartBook(r)
  <2>1. {Cardinality(q.started), q.max} \subseteq Nat
    BY <1>2, DisallowType
  <2>2. ~Halted(q, u)
    BY <1>2, <1>3, <2>1 DEF Halted, Ongoing, Room
  <2> QED
    BY <2>2 DEF StartBook
<1> QED
  BY <1>9, <1>12, <1>14, <1>15, <1>16, <1>17, <1>18, <1>19 DEF Books

\* The admission of a copy that cannot be placed comes back.
LEMMA PlaceNowhereBooks ==
  ASSUME HedgeInv, NEW r \in Races, PlaceNowhere(r)
  PROVE  Books(r)
<1> DEFINE q == race[r]
<1>1. TypeOK /\ AllWell /\ q.pc = "pick" /\ q.pc \in Driving /\ NotPlaced(r, race[r])
  BY DEF HedgeInv, PlaceNowhere, Driving
<1>2. /\ Touches(r) /\ race'[r].pc \in {"wait", "drop"} /\ race'[r].noted
      /\ Copies(race'[r]) = Copies(race[r]) /\ race'[r].started = race[r].started
      /\ ~UnpolledAborts => \A e \in Endpoints :
           Holding(race'[r], task'[r], e) <=> Holding(race[r], task[r], e)
  BY <1>1, BackStep
<1>3. q.noted
  BY <1>1, DrivingFacts DEF Ongoing
<1>4. One(q.noted) = 1 /\ One(race'[r].noted) = 1
      /\ One(q.pc = "pick") = 1 /\ One(race'[r].pc = "pick") = 0
  BY <1>1, <1>2, <1>3 DEF One
<1>5. Cardinality(Copies(q)) \in Nat /\ hedges \in Nat /\ 1 + Cardinality(Copies(q)) <= hedges
  BY <1>4, ChargedTo
<1>6. hedges' = hedges - 1 /\ hedges' \in Nat /\ hedges' <= hedges
  BY <1>5, Reverted DEF PlaceNowhere
<1>7. requests \in Nat /\ load \in [Endpoints -> Nat]
  BY <1>1, CounterTypes
<1>8. requests' = requests /\ load' = load
  BY DEF PlaceNowhere
<1>9. RequestBook(r)
  BY <1>4, <1>7, <1>8 DEF RequestBook
<1>10. HedgeBook(r)
  BY <1>2, <1>4, <1>5, <1>6 DEF HedgeBook
<1>11. CapBook
  BY <1>5, <1>6, CapSame
<1>12. AdmitBook(r)
  BY <1>2 DEF AdmitBook
<1>13. SlotBook(r)
  BY <1>2, <1>8 DEF SlotBook, Moved
<1>14. StartBook(r)
  BY <1>2 DEF StartBook
<1> QED
  BY <1>2, <1>7, <1>8, <1>9, <1>10, <1>11, <1>12, <1>13, <1>14 DEF Books

\* What a race that awaits may join.
LEMMA ReadyFacts ==
  ASSUME TypeOK, AllWell, NEW r \in Races, race[r].pc = "wait"
  PROVE  /\ race[r] \in RaceType /\ task[r] \in TaskType /\ ~race[r].opening
         /\ Ongoing(race[r], task[r]) /\ race[r].copies = Copies(race[r])
         /\ \A e \in race[r].started : task[r][e] \in {"spawned", "running"} \cup Results
         /\ \A e \in Ready(r) : /\ e \in Endpoints /\ e \in race[r].started \ race[r].joined
                                /\ task[r][e] \in Results
<1>1. race[r].pc \in Driving
  BY DEF Driving
<1>2. /\ race[r] \in RaceType /\ task[r] \in TaskType
      /\ Ongoing(race[r], task[r]) /\ Launched(race[r], task[r])
      /\ race[r].copies = Copies(race[r])
  BY <1>1, DrivingFacts
<1>3. ~race[r].opening
  BY DEF AllWell, Well
<1>4. \A e \in race[r].started : task[r][e] \in {"spawned", "running"} \cup Results
  BY <1>2, <1>3 DEF Ongoing, Launched
<1>5. \A e \in Ready(r) : /\ e \in Endpoints /\ e \in race[r].started \ race[r].joined
                          /\ task[r][e] \in Results
  BY <1>2 DEF Ready, Ongoing, Results
<1> QED
  BY <1>2, <1>3, <1>4, <1>5

\* A race after it joined a failed attempt.
AfterMiss(q, e, result) ==
  LET j == Joined(q, e, DisallowMore(q, result))
  IN  Remembers(j, IF result = "5xx" THEN e ELSE j.last_status,
                   RememberFailure(j.last_failure, e, result))

\* It goes on without it.
LEMMA AfterMissOngoing ==
  ASSUME NEW q \in RaceType, NEW u \in TaskType, NEW e \in q.started \ q.joined,
         Ongoing(q, u), q.copies = Copies(q), u[e] \in Results \ {"ok"},
         NEW f, f = AfterMiss(q, e, u[e])
  PROVE  /\ f \in RaceType /\ Ongoing(f, u) /\ f.copies = Copies(f)
         /\ Copies(f) = Copies(q) \ {e} /\ f.in_flight = q.in_flight \ {e}
         /\ f.started = q.started /\ f.pc = q.pc /\ f.opening = q.opening
<1> DEFINE m == DisallowMore(q, u[e])
           j == Joined(q, e, m)
           s == IF u[e] = "5xx" THEN e ELSE j.last_status
           k == RememberFailure(j.last_failure, e, u[e])
<1>1. e \in Endpoints /\ q.joined \in SUBSET Endpoints /\ q.last_status \in Endpoint
      /\ q.last_failure \in Endpoint /\ NoOne \notin Endpoints
  BY HedgeConfig DEF RaceType, ValidPolicy
<1>2. /\ m \in 1..MaxAttempts /\ m <= q.max /\ Cardinality(q.started) <= m
      /\ u[e] = "halt" => m <= Cardinality(q.started)
      /\ {Cardinality(q.started), q.max, m} \subseteq Nat
  BY DisallowType
<1>3. f = Remembers(j, s, k)
  BY DEF AfterMiss
<1> HIDE DEF m
<1>4. /\ j \in RaceType /\ j.joined = q.joined \cup {e} /\ j.max = m
      /\ j.in_flight = q.in_flight \ {e} /\ j.copies = q.copies \ {e}
      /\ j.pc = q.pc /\ j.noted = q.noted /\ j.primary = q.primary
      /\ j.opening = q.opening /\ j.started = q.started /\ j.last_status = q.last_status
      /\ j.last_failure = q.last_failure /\ j.delivery = q.delivery
  <2>1. j = Joined(q, e, m)
    OBVIOUS
  <2> HIDE DEF j
  <2> QED
    BY <1>1, <1>2, <2>1, JoinedType
<1> HIDE DEF j
<1>5. /\ s \in Endpoint /\ k \in Endpoint /\ s = k
      /\ u[e] = "5xx" => k = e
      /\ u[e] # "5xx" => k = q.last_failure
  BY <1>1, <1>4 DEF RememberFailure, Endpoint, Ongoing
<1> HIDE DEF s, k
<1>6. /\ f \in RaceType /\ f.last_status = s /\ f.last_failure = k
      /\ f.in_flight = j.in_flight /\ f.copies = j.copies
      /\ f.pc = j.pc /\ f.noted = j.noted /\ f.primary = j.primary /\ f.max = j.max
      /\ f.opening = j.opening /\ f.started = j.started /\ f.joined = j.joined
      /\ f.delivery = j.delivery
  BY <1>3, <1>4, <1>5, RemembersType
<1>7. ASSUME NEW g \in f.joined
      PROVE  /\ u[g] \in Results \ {"ok"}
             /\ u[g] = "halt" => f.max <= Cardinality(f.started)
             /\ u[g] = "5xx" => f.last_failure # NoOne
  <2>1. CASE g = e
    BY <1>1, <1>2, <1>4, <1>5, <1>6, <2>1
  <2>2. CASE g \in q.joined
    <3>1. /\ u[g] \in Results \ {"ok"}
          /\ u[g] = "halt" => q.max <= Cardinality(q.started)
          /\ u[g] = "5xx" => q.last_failure # NoOne
      BY <2>2 DEF Ongoing
    <3>2. u[g] = "halt" => m <= Cardinality(q.started)
      BY <1>2, <3>1
    <3>3. q.last_failure # NoOne => k # NoOne
      BY <1>1, <1>5
    <3> QED
      BY <1>4, <1>6, <3>1, <3>2, <3>3
  <2> QED
    BY <1>4, <1>6, <2>1, <2>2
<1>8. /\ f.noted /\ f.delivery = "none" /\ f.primary \in f.started
      /\ f.in_flight = f.started \ f.joined /\ f.joined \subseteq f.started
      /\ f.last_status = f.last_failure
  BY <1>4, <1>5, <1>6 DEF Ongoing
<1>9. /\ Cardinality(f.started) <= f.max
      /\ \A g \in Endpoints \ f.started : u[g] = "none"
      /\ \A g \in f.started : u[g] \in {"none", "spawned", "running"} \cup Results
  BY <1>2, <1>4, <1>6 DEF Ongoing
<1>10. Ongoing(f, u)
  BY <1>7, <1>8, <1>9 DEF Ongoing
<1>11. f.copies = Copies(f) /\ Copies(f) = Copies(q) \ {e}
  BY <1>4, <1>6 DEF Copies
<1> QED
  BY <1>4, <1>6, <1>10, <1>11

\* What one copy's end gives back.
LEMMA OneBack ==
  ASSUME NEW C, IsFiniteSet(C), NEW e
  PROVE  /\ Cardinality(C \ (C \ {e})) + Cardinality(C \ {e}) = Cardinality(C)
         /\ Cardinality(C \ (C \ {e})) \in Nat
         /\ Cardinality(C \ (C \ {e})) <= Cardinality(C)
<1>1. Cardinality(C) \in Nat /\ Cardinality({}) = 0 /\ Cardinality({e}) = 1
  BY FS_CardinalityType, FS_EmptySet, FS_Singleton
<1>2. CASE e \in C
  <2>1. C \ (C \ {e}) = {e} /\ Cardinality(C \ {e}) = Cardinality(C) - 1
    BY <1>2, FS_RemoveElement
  <2>2. Cardinality(C) # 0
    BY <1>2, FS_EmptySet
  <2>3. Cardinality(C \ (C \ {e})) = 1
    BY <1>1, <2>1
  <2>4. Cardinality(C \ {e}) = Cardinality(C) - 1
    BY <2>1
  <2> HIDE <2>1
  <2> QED
    BY <1>1, <2>2, <2>3, <2>4
<1>3. CASE e \notin C
  <2>1. C \ (C \ {e}) = {} /\ C \ {e} = C
    BY <1>3
  <2> QED
    BY <1>1, <2>1
<1> QED
  BY <1>2, <1>3

\* Books of a race that noted its request and is not picking, before or
\* after: what it no longer has in flight was given back.
LEMMA ReturnBooks ==
  ASSUME HedgeInv, NEW r \in Races, NEW n \in Nat,
         Touches(r), race[r].noted, race'[r].noted,
         race[r].pc # "pick", race'[r].pc \notin {"pick", "admit"},
         race'[r].started = race[r].started,
         requests' = requests, load' = load, hedges' = RevertAdmission(n),
         n + Cardinality(Copies(race'[r])) = Cardinality(Copies(race[r])),
         Cardinality(Copies(race'[r])) \in Nat,
         ~UnpolledAborts => \A e \in Endpoints :
           Holding(race'[r], task'[r], e) <=> Holding(race[r], task[r], e)
  PROVE  Books(r)
<1>1. TypeOK
  BY DEF HedgeInv
<1>2. requests \in Nat /\ hedges \in Nat /\ load \in [Endpoints -> Nat]
  BY <1>1, CounterTypes
<1>3. One(race[r].noted) = 1 /\ One(race'[r].noted) = 1
      /\ One(race[r].pc = "pick") = 0 /\ One(race'[r].pc = "pick") = 0
  BY DEF One
<1>4. Cardinality(Copies(race[r])) \in Nat /\ Cardinality(Copies(race[r])) <= hedges
  BY <1>3, ChargedTo
<1>5. n <= hedges
  BY <1>2, <1>4
<1>6. hedges' = hedges - n /\ hedges' \in Nat /\ hedges' <= hedges
  BY <1>2, <1>5, Reverted
<1>7. RequestBook(r)
  BY <1>2, <1>3 DEF RequestBook
<1>8. HedgeBook(r)
  BY <1>2, <1>3, <1>4, <1>6 DEF HedgeBook
<1>9. CapBook
  BY <1>2, <1>6, CapSame
<1>10. AdmitBook(r)
  BY DEF AdmitBook
<1>11. SlotBook(r) /\ load' \in [Endpoints -> Nat]
  BY <1>2 DEF SlotBook, Moved
<1> QED
  BY <1>7, <1>8, <1>9, <1>10, <1>11 DEF Books, StartBook

\* A winner is delivered: every other attempt's admission comes back.
LEMMA WinBooks ==
  ASSUME HedgeInv, NEW r \in Races, race[r].pc = "wait", NEW e \in Ready(r), NEW c, NEW j,
         j = Joined(race[r], e, DisallowMore(race[r], task[r][e])),
         c = [j EXCEPT !.copies = {}, !.in_flight = {}],
         Deliver(r, c, "ready", e, e),
         hedges' = RevertAdmission(Cardinality(race[r].copies)),
         requests' = requests, load' = load
  PROVE  Books(r)
<1> DEFINE q == race[r]
           u == task[r]
           d == "ready"
           m == DisallowMore(q, u[e])
<1>1. TypeOK /\ AllWell
  BY DEF HedgeInv
<1>2. /\ q \in RaceType /\ u \in TaskType /\ Ongoing(q, u) /\ q.copies = Copies(q)
      /\ \A f \in q.started : u[f] \in {"spawned", "running"} \cup Results
      /\ e \in Endpoints /\ e \in Endpoint
  BY <1>1, ReadyFacts DEF Endpoint
<1>3. m \in 1..MaxAttempts
  BY <1>2, DisallowType
<1>4. j \in RaceType /\ j.noted = q.noted /\ j.primary = q.primary /\ j.started = q.started
  <2> HIDE DEF m, q
  <2> QED
    BY <1>2, <1>3, JoinedType DEF m, q
<1>5. /\ c \in RaceType /\ c.copies = {} /\ c.in_flight = {}
      /\ c.noted = j.noted /\ c.started = j.started
  BY <1>4, ClearedType
<1>6. c.noted /\ c.copies = Copies(c) /\ Copies(c) = {} /\ c.started = q.started
      /\ \A f \in Endpoints \ q.started : u[f] = "none"
  BY <1>2, <1>4, <1>5 DEF Ongoing, Copies
<1>7. d \in Deliveries /\ d # "failed"
  BY DEF Deliveries
<1>8. /\ Touches(r) /\ race'[r].pc = "drop" /\ race'[r].noted
      /\ Copies(race'[r]) = Copies(c) /\ race'[r].started = c.started
      /\ \A f \in Endpoints : /\ task'[r][f] = Aborted(task[r][f])
                              /\ ~UnpolledAborts => task[r][f] # "spawned"
  <2>1. Deliver(r, c, d, e, e)
    OBVIOUS
  <2> HIDE DEF d
  <2> QED
    BY <1>1, <1>2, <1>5, <1>6, <1>7, <2>1, DeliverStep
<1>9. task'[r] \in TaskType
  BY <1>8 DEF Touches
<1>10. ~UnpolledAborts => \A f \in Endpoints : Holding(race'[r], task'[r], f) <=> Holding(q, u, f)
  BY <1>2, <1>6, <1>8, <1>9, HoldAbort
<1>11. q.noted
  BY <1>2 DEF Ongoing
<1>12. Cardinality(Copies(race'[r])) = 0 /\ Cardinality(Copies(q)) \in Nat
  BY <1>2, <1>6, <1>8, CopiesNat, FS_EmptySet
<1>13. Cardinality(Copies(q)) + Cardinality(Copies(race'[r])) = Cardinality(Copies(q))
       /\ Cardinality(Copies(race'[r])) \in Nat
  BY <1>12
<1>14. hedges' = RevertAdmission(Cardinality(Copies(q)))
  BY <1>2
<1>15. q.pc # "pick" /\ race'[r].pc \notin {"pick", "admit"} /\ race'[r].started = q.started
  BY <1>6, <1>8
<1> QED
  BY <1>8, <1>10, <1>11, <1>12, <1>13, <1>14, <1>15, ReturnBooks

\* A failed attempt is joined: its admission comes back, and the race goes
\* on, starts another or is lost.
LEMMA MissBooks ==
  ASSUME HedgeInv, NEW r \in Races, race[r].pc = "wait", NEW e \in Ready(r),
         task[r][e] # "ok", NEW f, f = AfterMiss(race[r], e, task[r][e]),
         \/ Put(r, f) /\ task' = task
         \/ Put(r, [f EXCEPT !.pc = "start"]) /\ task' = task
         \/ f.in_flight = {} /\ Fail(r, f, f.last_status),
         hedges' = RevertAdmission(Cardinality(race[r].copies \ (race[r].copies \ {e}))),
         requests' = requests, load' = load
  PROVE  Books(r)
<1> DEFINE q == race[r]
           u == task[r]
<1>1. TypeOK /\ AllWell
  BY DEF HedgeInv
<1>2. /\ q \in RaceType /\ u \in TaskType /\ Ongoing(q, u) /\ q.copies = Copies(q)
      /\ ~q.opening /\ e \in q.started \ q.joined /\ u[e] \in Results \ {"ok"}
      /\ \A g \in q.started : u[g] \in {"spawned", "running"} \cup Results
  BY <1>1, ReadyFacts
<1>3. /\ f \in RaceType /\ Ongoing(f, u) /\ f.copies = Copies(f)
      /\ Copies(f) = Copies(q) \ {e}
      /\ f.started = q.started /\ f.pc = q.pc /\ f.opening = q.opening
  BY <1>2, AfterMissOngoing
<1>4. Launched(f, u)
  BY <1>2, <1>3 DEF Launched, Results
<1>5. Well(f, u)
  BY <1>2, <1>3, <1>4 DEF Well, Before, Driving, Over
<1>6. \A g \in Endpoints : Holding(f, u, g) <=> Holding(q, u, g)
  BY <1>3 DEF Holding
<1>7. /\ Touches(r) /\ race'[r].noted /\ race'[r].pc \in {"wait", "start", "drop"}
      /\ Copies(race'[r]) = Copies(f) /\ race'[r].started = q.started
      /\ ~UnpolledAborts => \A g \in Endpoints :
           Holding(race'[r], task'[r], g) <=> Holding(q, u, g)
  <2>1. CASE Put(r, f) /\ task' = task
    <3>1. Touches(r) /\ race'[r] = f /\ task'[r] = u
      BY <1>1, <1>3, <1>5, <2>1, TouchRace DEF Put
    <3> QED
      BY <1>3, <1>6, <3>1 DEF Ongoing
  <2>2. CASE Put(r, [f EXCEPT !.pc = "start"]) /\ task' = task
    <3> DEFINE pc == "start"
               x == [f EXCEPT !.pc = pc]
    <3>1. pc \in Driving /\ f.pc \in Driving
      BY <1>3 DEF Driving
    <3>2. x \in RaceType /\ x.pc = "start" /\ Same(x, f)
      BY <1>3, <3>1, MoveType
    <3>3. race' = [race EXCEPT ![r] = x]
      BY <2>2 DEF Put
    <3> HIDE DEF x
    <3>4. /\ Well(x, u) /\ Copies(x) = Copies(f) /\ (x.noted <=> f.noted)
          /\ \A g \in Endpoints : Holding(x, u, g) <=> Holding(f, u, g)
      BY <1>2, <1>3, <1>5, <3>1, <3>2, MoveWell
    <3>5. Touches(r) /\ race'[r] = x /\ task'[r] = u
      BY <1>1, <2>2, <3>2, <3>3, <3>4, TouchRace
    <3> QED
      BY <1>3, <1>6, <3>2, <3>4, <3>5 DEF Ongoing, Same
  <2>3. CASE f.in_flight = {} /\ Fail(r, f, f.last_status)
    <3>1. f.last_status \in {f.last_status, NoOne}
      OBVIOUS
    <3>2. /\ Touches(r) /\ race'[r].pc = "drop" /\ race'[r].noted
          /\ Copies(race'[r]) = Copies(f) /\ race'[r].started = f.started
          /\ \A g \in Endpoints : /\ task'[r][g] = Aborted(task[r][g])
                                  /\ ~UnpolledAborts => task[r][g] # "spawned"
      BY <1>1, <1>3, <2>3, <3>1, FailStep
    <3>3. task'[r] \in TaskType
      BY <3>2 DEF Touches
    <3>4. ~UnpolledAborts => \A g \in Endpoints :
            Holding(race'[r], task'[r], g) <=> Holding(f, u, g)
      BY <1>2, <1>3, <3>2, <3>3, HoldAbort
    <3> QED
      BY <1>3, <1>6, <3>2, <3>4
  <2> QED
    BY <2>1, <2>2, <2>3
<1> DEFINE C == Copies(q)
           n == Cardinality(C \ (C \ {e}))
<1>8. IsFiniteSet(C) /\ Cardinality(C) \in Nat
  BY <1>2, CopiesNat
<1>9. n \in Nat /\ n + Cardinality(C \ {e}) = Cardinality(C)
  <2> HIDE DEF C
  <2> QED
    BY <1>8, OneBack
<1>10. hedges' = RevertAdmission(n)
  BY <1>2
<1>11. Copies(race'[r]) = C \ {e} /\ Cardinality(C \ {e}) \in Nat
  <2>1. C \ {e} \in SUBSET Endpoints
    BY <1>2, CopiesNat
  <2> QED
    BY <1>3, <1>7, <2>1, SizesAreNat
<1>12. n + Cardinality(Copies(race'[r])) = Cardinality(Copies(q))
       /\ Cardinality(Copies(race'[r])) \in Nat
  BY <1>9, <1>11
<1>13. q.noted /\ q.pc # "pick" /\ race'[r].pc \notin {"pick", "admit"}
  BY <1>2, <1>7 DEF Ongoing
<1> HIDE DEF n
<1> QED
  BY <1>7, <1>9, <1>10, <1>12, <1>13, ReturnBooks

\* The driver joins an attempt that ended.
LEMMA JoinBooks ==
  ASSUME HedgeInv, NEW r \in Races, race[r].pc = "wait", Join(r),
         requests' = requests, load' = load
  PROVE  Books(r)
<1> DEFINE q == race[r]
<1>1. PICK e \in Ready(r) :
        LET result == task[r][e]
            j      == Joined(q, e, DisallowMore(q, result))
            won    == result = "ok"
            failed == AfterMiss(q, e, result)
        IN  /\ hedges' = RevertAdmission(Cardinality(q.copies \ IF won THEN {} ELSE j.copies))
            /\ CASE won -> Deliver(r, [j EXCEPT !.copies = {}, !.in_flight = {}],
                                   "ready", e, e)
                 [] ~won /\ ~IdleRace(j) -> Put(r, failed) /\ UNCHANGED task
                 [] ~won /\ IdleRace(j) /\ Room(j) ->
                      Put(r, [failed EXCEPT !.pc = "start"]) /\ UNCHANGED task
                 [] ~won /\ IdleRace(j) /\ ~Room(j) -> Fail(r, failed, failed.last_status)
  BY Zenon DEF Join, JoinedName, Joined, AfterMiss, Remembers
<1> DEFINE u == task[r]
           j == Joined(q, e, DisallowMore(q, u[e]))
           f == AfterMiss(q, e, u[e])
<1>2. TypeOK /\ AllWell
  BY DEF HedgeInv
<1>3. /\ q \in RaceType /\ u \in TaskType /\ Ongoing(q, u) /\ q.copies = Copies(q)
      /\ e \in q.started \ q.joined /\ e \in Endpoints /\ u[e] \in Results
  BY <1>2, ReadyFacts
<1>4. CASE u[e] = "ok"
  <2> DEFINE c == [j EXCEPT !.copies = {}, !.in_flight = {}]
  <2>1. Deliver(r, c, "ready", e, e) /\ hedges' = RevertAdmission(Cardinality(q.copies \ {}))
    BY <1>1, <1>4
  <2>2. q.copies \ {} = q.copies
    OBVIOUS
  <2>3. hedges' = RevertAdmission(Cardinality(q.copies))
    BY <2>1, <2>2
  <2> HIDE DEF c, j
  <2>4. c = [j EXCEPT !.copies = {}, !.in_flight = {}]
        /\ j = Joined(race[r], e, DisallowMore(race[r], task[r][e]))
    BY DEF c, j
  <2> QED
    BY <2>1, <2>3, <2>4, WinBooks
<1>5. CASE u[e] # "ok"
  <2> DEFINE m == DisallowMore(q, u[e])
  <2>1. m \in 1..MaxAttempts
    BY <1>3, DisallowType
  <2>2. j.copies = q.copies \ {e} /\ j.in_flight = q.in_flight \ {e}
    <3>1. j = Joined(q, e, m)
      OBVIOUS
    <3> HIDE DEF j, m
    <3> QED
      BY <1>3, <2>1, <3>1, JoinedType
  <2>3. f.in_flight = q.in_flight \ {e}
    <3>1. u[e] \in Results \ {"ok"}
      BY <1>3, <1>5
    <3> HIDE DEF f
    <3> QED
      BY <1>3, <3>1, AfterMissOngoing DEF f
  <2> HIDE DEF f, j, m
  <2>4. /\ hedges' = RevertAdmission(Cardinality(q.copies \ j.copies))
        /\ \/ Put(r, f) /\ task' = task
           \/ Put(r, [f EXCEPT !.pc = "start"]) /\ task' = task
           \/ IdleRace(j) /\ Fail(r, f, f.last_status)
    BY <1>1, <1>5 DEF f, j
  <2>5. IdleRace(j) => f.in_flight = {}
    BY <2>2, <2>3 DEF IdleRace
  <2>6. hedges' = RevertAdmission(Cardinality(q.copies \ (q.copies \ {e})))
    BY <2>2, <2>4
  <2>7. f = AfterMiss(race[r], e, task[r][e]) /\ task[r][e] # "ok"
    BY <1>5 DEF f
  <2> QED
    BY <2>4, <2>5, <2>6, <2>7, MissBooks
<1> QED
  BY <1>4, <1>5

\* The driver wakes.
LEMMA WakeBooks ==
  ASSUME HedgeInv, NEW r \in Races, Wake(r)
  PROVE  Books(r)
<1> DEFINE q == race[r]
           u == task[r]
<1>1. TypeOK /\ AllWell /\ q.pc = "wait" /\ q.pc \in Driving /\ q.pc \in Driving \ {"pick"}
      /\ requests' = requests /\ load' = load
  BY DEF HedgeInv, Wake, Driving
<1>2. /\ q \in RaceType /\ u \in TaskType /\ Ongoing(q, u) /\ q.copies = Copies(q)
      /\ \A e \in q.started : u[e] \in {"spawned", "running"} \cup Results
  BY <1>1, ReadyFacts
<1>3. CASE Stranded(r) /\ Fail(r, q, NoOne) /\ hedges' = hedges
  <2>1. q.started \in SUBSET Endpoints
    BY <1>2 DEF RaceType
  <2>2. ASSUME NEW e \in q.started PROVE e \in q.joined
    <3>1. u[e] \in {"none"} \cup Results /\ e \notin Ready(r) /\ e \in Endpoints
      BY <1>3, <2>1 DEF Stranded
    <3>2. u[e] \in Results
      BY <1>2, <3>1
    <3> QED
      BY <3>1, <3>2 DEF Ready
  <2>3. q.in_flight = {}
    BY <1>2, <2>2 DEF Ongoing
  <2>4. NoOne \in {q.last_status, NoOne}
    OBVIOUS
  <2>5. /\ Touches(r) /\ race'[r].pc = "drop" /\ race'[r].noted
        /\ Copies(race'[r]) = Copies(q) /\ race'[r].started = q.started
        /\ \A e \in Endpoints : /\ task'[r][e] = Aborted(task[r][e])
                                /\ ~UnpolledAborts => task[r][e] # "spawned"
    BY <1>1, <1>2, <1>3, <2>3, <2>4, FailStep
  <2>6. task'[r] \in TaskType
    BY <2>5 DEF Touches
  <2>7. ~UnpolledAborts => \A e \in Endpoints : Holding(race'[r], task'[r], e) <=> Holding(q, u, e)
    BY <1>1, <1>2, <2>5, <2>6, HoldAbort
  <2>8. q.noted /\ q.pc # "pick" /\ race'[r].pc # "pick" /\ race'[r].pc # "admit"
    BY <1>1, <1>2, <2>5 DEF Ongoing
  <2> QED
    BY <1>1, <1>3, <2>5, <2>7, <2>8, QuietBooks
<1>4. CASE Join(r)
  BY <1>1, <1>4, JoinBooks
<1>5. CASE Timer(r)
  <2> DEFINE pc == "start"
             x == [q EXCEPT !.pc = pc]
  <2>1. pc \in Driving
    BY DEF Driving
  <2>2. x \in RaceType /\ x.pc = "start" /\ Same(x, q)
    BY <1>2, <2>1, MoveType
  <2>3. race' = [race EXCEPT ![r] = x] /\ task' = task /\ hedges' = hedges
    BY <1>5 DEF Put, Timer
  <2> HIDE DEF x
  <2> QED
    BY <1>1, <2>2, <2>3, MoveBooks
<1> QED
  BY <1>3, <1>4, <1>5 DEF Wake

\* The client goes away.
LEMMA ClientClosedBooks ==
  ASSUME HedgeInv, NEW r \in Races, ClientClosed(r)
  PROVE  Books(r)
<1> DEFINE q == race[r]
           u == task[r]
           d == "closed"
           no == NoOne
<1>1. TypeOK /\ AllWell /\ q.pc = "wait"
      /\ requests' = requests /\ load' = load /\ hedges' = hedges
  BY DEF HedgeInv, ClientClosed
<1>2. /\ q \in RaceType /\ u \in TaskType /\ Ongoing(q, u) /\ q.copies = Copies(q)
      /\ \A e \in q.started : u[e] \in {"spawned", "running"} \cup Results
  BY <1>1, ReadyFacts
<1>3. d \in Deliveries /\ d # "failed" /\ no \in Endpoint
  BY DEF Deliveries, Endpoint
<1>4. q.noted /\ \A e \in Endpoints \ q.started : u[e] = "none"
  BY <1>2 DEF Ongoing
<1>5. Deliver(r, q, d, no, no)
  BY DEF ClientClosed
<1>6. /\ Touches(r) /\ race'[r].pc = "drop" /\ race'[r].noted
      /\ Copies(race'[r]) = Copies(q) /\ race'[r].started = q.started
      /\ \A e \in Endpoints : /\ task'[r][e] = Aborted(task[r][e])
                              /\ ~UnpolledAborts => task[r][e] # "spawned"
  <2> HIDE DEF d, no
  <2> QED
    BY <1>1, <1>2, <1>3, <1>4, <1>5, DeliverStep
<1>7. task'[r] \in TaskType
  BY <1>6 DEF Touches
<1>8. ~UnpolledAborts => \A e \in Endpoints : Holding(race'[r], task'[r], e) <=> Holding(q, u, e)
  BY <1>1, <1>2, <1>6, <1>7, HoldAbort
<1>9. q.pc # "pick" /\ race'[r].pc # "pick" /\ race'[r].pc # "admit"
  BY <1>1, <1>6
<1> QED
  BY <1>1, <1>4, <1>6, <1>8, <1>9, QuietBooks

\* Drop gives back what is still reserved.
LEMMA DropCopiesBooks ==
  ASSUME HedgeInv, NEW r \in Races, DropCopies(r)
  PROVE  Books(r)
<1> DEFINE q == race[r]
           u == task[r]
           x == [q EXCEPT !.pc = "leave", !.copies = {}, !.in_flight = {}]
<1>1. TypeOK /\ q \in RaceType /\ u \in TaskType /\ Well(q, u)
  BY TypeParts DEF HedgeInv, AllWell
<1>2. q.pc = "drop" /\ requests' = requests /\ load' = load /\ task' = task
      /\ race' = [race EXCEPT ![r] = x] /\ hedges' = RevertAdmission(Cardinality(q.copies))
  BY DEF DropCopies, Put
<1>3. /\ x \in RaceType /\ x.pc = "leave" /\ x.copies = {} /\ x.in_flight = {}
      /\ x.noted = q.noted /\ x.primary = q.primary /\ x.started = q.started
      /\ x.delivery = q.delivery /\ x.status = q.status /\ x.body = q.body
  BY <1>1, DropType
<1> HIDE DEF x
<1>4. Ended(q, u) /\ q.copies = Copies(q)
  BY <1>1, <1>2 DEF Well, Over
<1>5. Ended(x, u) /\ Copies(x) = {}
  BY <1>3, <1>4 DEF Ended, Copies
<1>6. Well(x, u)
  BY <1>3, <1>5 DEF Well, Before, Driving, Over
<1>7. Touches(r) /\ race'[r] = x /\ task'[r] = u
  BY <1>1, <1>2, <1>3, <1>6, TouchRace
<1>8. \A e \in Endpoints : Holding(x, u, e) <=> Holding(q, u, e)
  BY <1>2, <1>3 DEF Holding
<1>9. q.noted /\ race'[r].noted /\ q.pc # "pick" /\ race'[r].pc \notin {"pick", "admit"}
      /\ race'[r].started = q.started
  BY <1>2, <1>3, <1>4, <1>7 DEF Ended
<1>10. Cardinality(Copies(race'[r])) = 0 /\ Cardinality(Copies(q)) \in Nat
  BY <1>1, <1>5, <1>7, CopiesNat, FS_EmptySet
<1>11. Cardinality(Copies(q)) + Cardinality(Copies(race'[r])) = Cardinality(Copies(q))
       /\ Cardinality(Copies(race'[r])) \in Nat
  BY <1>10
<1>12. hedges' = RevertAdmission(Cardinality(Copies(q)))
  BY <1>2, <1>4
<1> QED
  BY <1>2, <1>7, <1>8, <1>9, <1>10, <1>11, <1>12, ReturnBooks

\* A race that noted its request is counted.
LEMMA NotedCounts ==
  ASSUME HedgeInv, NEW r \in Races, race[r].noted
  PROVE  requests \in Nat /\ 1 <= requests
<1>1. IsFiniteSet(Races) /\ {r} \subseteq Noted /\ Noted \subseteq Races
  BY HedgeConfig DEF ValidPolicy, Noted
<1>2. IsFiniteSet(Noted) /\ Cardinality(Noted) \in Nat
  BY <1>1, CountPart
<1>3. Cardinality({r}) = 1 /\ Cardinality({r}) <= Cardinality(Noted)
  BY <1>1, <1>2, CountPart, FS_Singleton
<1> QED
  BY <1>2, <1>3 DEF HedgeInv, RequestsExact

\* Then the request ends.
LEMMA EndRequestBooks ==
  ASSUME HedgeInv, NEW r \in Races, EndRequest(r)
  PROVE  Books(r)
<1> DEFINE q == race[r]
           u == task[r]
           x == [New EXCEPT !.pc = "done"]
           t == [e \in Endpoints |-> IF u[e] \in Results THEN "gone" ELSE u[e]]
<1>1. TypeOK /\ q \in RaceType /\ u \in TaskType /\ Well(q, u) /\ task \in [Races -> TaskType]
  BY TypeParts DEF HedgeInv, AllWell
<1>2. q.pc = "leave" /\ requests' = Less(requests) /\ load' = load /\ hedges' = hedges
      /\ race' = [race EXCEPT ![r] = x] /\ task' = [task EXCEPT ![r] = t]
  BY <1>1 DEF EndRequest, Put
<1>3. x \in RaceType /\ x.pc = "done" /\ x.copies = {} /\ x.primary = NoOne /\ Blank(x)
  BY DoneType
<1> HIDE DEF x
<1>4. Ended(q, u) /\ q.copies = Copies(q)
  BY <1>1, <1>2 DEF Well, Over
<1>5. t \in TaskType
  BY <1>1 DEF TaskType, TaskState
<1>6. Copies(x) = {}
  BY <1>3 DEF Blank, Copies
<1>7. \A e \in Endpoints : t[e] \in {"none", "cancelled", "unpolled", "gone"}
  BY <1>4 DEF Ended
<1>8. Well(x, t)
  <2> HIDE DEF t
  <2> QED
    BY <1>3, <1>6, <1>7 DEF Well, Before, Driving, Over
<1>9. Touches(r) /\ race'[r] = x /\ task'[r] = t
  <2> HIDE DEF t
  <2> QED
    BY <1>1, <1>2, <1>3, <1>5, <1>8, TouchOne
<1>10. q.noted /\ ~x.noted
  BY <1>3, <1>4 DEF Ended, Blank
<1>11. requests \in Nat /\ 1 <= requests
  BY <1>10, NotedCounts
<1>12. hedges \in Nat /\ load \in [Endpoints -> Nat]
  BY <1>1, CounterTypes
<1>13. One(q.noted) = 1 /\ One(x.noted) = 0 /\ One(q.pc = "pick") = 0 /\ One(x.pc = "pick") = 0
  BY <1>2, <1>3, <1>10 DEF One
<1>14. RequestBook(r)
  BY <1>2, <1>9, <1>11, <1>13 DEF RequestBook, Less
<1>15. Cardinality(Copies(q)) = 0 /\ Cardinality(Copies(x)) = 0
  <2>1. Copies(q) = {}
    BY <1>1, <1>2 DEF Well, Copies
  <2> QED
    BY <1>6, <2>1, FS_EmptySet
<1>16. HedgeBook(r)
  BY <1>2, <1>9, <1>12, <1>13, <1>15 DEF HedgeBook
<1>17. CapBook
  BY <1>2, <1>12, CapSame
<1>18. AdmitBook(r)
  BY <1>3, <1>9 DEF AdmitBook
<1>19. \A e \in Endpoints : Holding(x, t, e) <=> Holding(q, u, e)
  BY <1>2, <1>3, <1>4 DEF Holding, Ended, Blank, Alive, Results
<1>20. SlotBook(r)
  BY <1>2, <1>9, <1>19 DEF SlotBook, Moved
<1>21. StartBook(r)
  BY <1>3, <1>9 DEF StartBook, Blank
<1> QED
  BY <1>2, <1>9, <1>12, <1>14, <1>16, <1>17, <1>18, <1>20, <1>21 DEF Books

\* A task that is not joined changes its state alone.
LEMMA TaskStep ==
  ASSUME TypeOK, NEW r \in Races, NEW e \in Endpoints, NEW k \in TaskState,
         Become(r, e, k), race' = race,
         NEW t, t = [task[r] EXCEPT ![e] = k], Well(race[r], t)
  PROVE  /\ t \in TaskType /\ t[e] = k /\ \A f \in Endpoints \ {e} : t[f] = task[r][f]
         /\ Touches(r) /\ race'[r] = race[r] /\ task'[r] = t
<1>1. race \in [Races -> RaceType] /\ task \in [Races -> TaskType]
  BY TypeParts
<1>2. task[r] \in TaskType /\ race[r] \in RaceType
  BY <1>1
<1>3. t \in TaskType /\ t[e] = k /\ \A f \in Endpoints \ {e} : t[f] = task[r][f]
  BY <1>2 DEF TaskType
<1>4. task' = [task EXCEPT ![r] = t]
  BY <1>1 DEF Become
<1> DEFINE q == race[r]
<1>5. race' = [race EXCEPT ![r] = q] /\ q \in RaceType /\ Well(q, t)
  BY <1>1, <1>2
<1>6. Touches(r) /\ race'[r] = q /\ task'[r] = t
  <2>1. t \in TaskType
    BY <1>3
  <2> HIDE DEF q
  <2> QED
    BY <1>4, <1>5, <2>1, TouchOne
<1> QED
  BY <1>3, <1>6

\* Books of a step of a task, which moves slots only.
LEMMA TaskBooks ==
  ASSUME HedgeInv, NEW r \in Races, Touches(r), race'[r] = race[r],
         requests' = requests, hedges' = hedges, load' \in [Endpoints -> Nat], SlotBook(r)
  PROVE  Books(r)
<1>1. TypeOK /\ AdmitsUnder
  BY DEF HedgeInv
<1>2. requests \in Nat /\ hedges \in Nat /\ race[r] \in RaceType
  BY <1>1, CounterTypes, TypeParts
<1>3. Cardinality(Copies(race[r])) \in Nat
  BY <1>2, CopiesNat
<1>4. One(race[r].noted) \in Nat /\ One(race[r].pc = "pick") \in Nat
  BY OneType
<1>5. RequestBook(r)
  BY <1>2, <1>4 DEF RequestBook
<1>6. HedgeBook(r)
  BY <1>2, <1>3, <1>4 DEF HedgeBook
<1>7. CapBook
  BY <1>2, CapSame
<1>8. AdmitBook(r)
  BY <1>1 DEF AdmitBook, AdmitsUnder
<1> QED
  BY <1>5, <1>6, <1>7, <1>8 DEF Books, StartBook

\* A task that runs belongs to a race that awaits it.
LEMMA LiveTask ==
  ASSUME NEW q, NEW t \in TaskType, NEW e \in Endpoints, Well(q, t), q \in RaceType,
         t[e] \in {"spawned", "running"}
  PROVE  q.pc \in Driving /\ ~q.opening /\ e \in q.started \ q.joined
<1>1. q.pc \in Before \cup Driving \cup Over \cup {"done"}
  BY DEF RaceType, Before, Driving, Over
<1>2. q.pc \notin Before
  BY DEF Well
<1>3. q.pc # "done"
  BY DEF Well
<1>4. q.pc \notin Over
  <2>1. SUFFICES ASSUME Ended(q, t) PROVE FALSE
    BY DEF Well
  <2> QED
    BY <2>1 DEF Ended, Results
<1>5. q.pc \in Driving /\ Ongoing(q, t) /\ Launched(q, t)
  BY <1>1, <1>2, <1>3, <1>4 DEF Well
<1> QED
  BY <1>5 DEF Ongoing, Launched, Results

\* It may be polled, or end.
LEMMA LiveWell ==
  ASSUME NEW q \in RaceType, NEW u \in TaskType, NEW t \in TaskType, NEW e \in Endpoints,
         NEW k \in {"running"} \cup Results,
         Well(q, u), u[e] \in {"spawned", "running"},
         t[e] = k, \A f \in Endpoints \ {e} : t[f] = u[f]
  PROVE  Well(q, t)
<1>1. q.pc \in Driving /\ ~q.opening /\ e \in q.started \ q.joined
  BY LiveTask
<1>2. Ongoing(q, u) /\ Launched(q, u)
  BY <1>1 DEF Well
<1>3. q.started \in SUBSET Endpoints /\ q.joined \in SUBSET Endpoints
  BY DEF RaceType
<1>4. \A f \in Endpoints \ q.started : t[f] = "none"
  BY <1>1, <1>2 DEF Ongoing
<1>5. \A f \in q.started : t[f] \in {"none", "spawned", "running"} \cup Results
  BY <1>2, <1>3 DEF Ongoing
<1>6. \A f \in q.joined : t[f] = u[f]
  BY <1>1, <1>3
<1>7. Ongoing(q, t)
  BY <1>2, <1>4, <1>5, <1>6 DEF Ongoing
<1>8. Launched(q, t)
  BY <1>1, <1>2, <1>3 DEF Launched, Results
<1> QED
  BY <1>1, <1>7, <1>8 DEF Well, Before, Driving, Over

\* A task is polled for the first time.
LEMMA PollBooks ==
  ASSUME HedgeInv, NEW r \in Races, NEW e \in Endpoints, Poll(r, e)
  PROVE  Books(r)
<1> DEFINE q == race[r]
           u == task[r]
           k == "running"
           t == [u EXCEPT ![e] = k]
<1>1. TypeOK /\ q \in RaceType /\ u \in TaskType /\ Well(q, u)
  BY TypeParts DEF HedgeInv, AllWell
<1>2. u[e] = "spawned" /\ Become(r, e, k) /\ race' = race /\ load' = load
      /\ requests' = requests /\ hedges' = hedges
  BY DEF Poll
<1>3. k \in TaskState
  BY DEF TaskState, Alive
<1>4. t \in TaskType /\ t[e] = k /\ \A f \in Endpoints \ {e} : t[f] = u[f]
  BY <1>1, <1>3 DEF TaskType
<1>5. t = [task[r] EXCEPT ![e] = k]
  OBVIOUS
<1> HIDE DEF t
<1>6. Well(q, t)
  BY <1>1, <1>2, <1>4, LiveWell
<1>7. Touches(r) /\ race'[r] = q /\ task'[r] = t
  <2> HIDE DEF k
  <2> QED
    BY <1>1, <1>2, <1>3, <1>5, <1>6, TaskStep
<1>8. \A f \in Endpoints : Holding(q, t, f) <=> Holding(q, u, f)
  BY <1>2, <1>4 DEF Holding, Alive
<1>9. SlotBook(r) /\ load' \in [Endpoints -> Nat]
  BY <1>1, <1>2, <1>7, <1>8, CounterTypes DEF SlotBook, Moved
<1> QED
  BY <1>2, <1>7, <1>9, TaskBooks

\* An attempt ends, and its guard gives the slot back.
LEMMA FinishBooks ==
  ASSUME HedgeInv, NEW r \in Races, NEW e \in Endpoints, Finish(r, e)
  PROVE  Books(r)
<1>0. PICK k \in Results : Become(r, e, k)
  BY DEF Finish
<1> DEFINE q == race[r]
           u == task[r]
           t == [u EXCEPT ![e] = k]
<1>1. TypeOK /\ q \in RaceType /\ u \in TaskType /\ Well(q, u)
  BY TypeParts DEF HedgeInv, AllWell
<1>2. u[e] = "running" /\ race' = race /\ load' = [load EXCEPT ![e] = Less(@)]
      /\ requests' = requests /\ hedges' = hedges
  BY DEF Finish
<1>3. k \in TaskState
  BY DEF TaskState
<1>4. t \in TaskType /\ t[e] = k /\ \A f \in Endpoints \ {e} : t[f] = u[f]
  BY <1>1, <1>3 DEF TaskType
<1>5. t = [task[r] EXCEPT ![e] = k]
  OBVIOUS
<1> HIDE DEF t
<1>6. Well(q, t)
  BY <1>1, <1>2, <1>4, LiveWell
<1>7. Touches(r) /\ race'[r] = q /\ task'[r] = t
  BY <1>0, <1>1, <1>2, <1>3, <1>5, <1>6, TaskStep
<1>8. load \in [Endpoints -> Nat]
  BY <1>1, CounterTypes
<1>9. load' \in [Endpoints -> Nat]
  <2>1. Less(load[e]) \in Nat /\ load' = [load EXCEPT ![e] = Less(load[e])]
    BY <1>2, <1>8 DEF Less
  <2> QED
    BY <1>1, <2>1, LoadType
<1>10. q.pc \in Driving
  BY <1>1, <1>2, LiveTask
<1>11. SlotBook(r)
  <2>1. ASSUME NEW f \in Endpoints
        PROVE  load'[f] = Moved(load[f], Holding(q, u, f), Holding(q, t, f))
    <3>1. CASE f = e
      <4>1. Holding(q, u, f) /\ ~Holding(q, t, f)
        BY <1>2, <1>4, <1>10, <3>1 DEF Holding, Alive, Results, Driving
      <4> QED
        BY <1>2, <1>8, <3>1, <4>1 DEF Moved
    <3>2. CASE f # e
      <4>1. Holding(q, t, f) <=> Holding(q, u, f)
        BY <1>4, <3>2 DEF Holding
      <4> QED
        BY <1>2, <1>8, <3>2, <4>1 DEF Moved
    <3> QED
      BY <3>1, <3>2
  <2> QED
    BY <1>7, <2>1 DEF SlotBook
<1> QED
  BY <1>2, <1>7, <1>9, <1>11, TaskBooks

\* An aborted task is dropped, with its guard if it was ever polled.
LEMMA ReapBooks ==
  ASSUME HedgeInv, NEW r \in Races, NEW e \in Endpoints, Reap(r, e)
  PROVE  Books(r)
<1> DEFINE q == race[r]
           u == task[r]
           k == "gone"
           t == [u EXCEPT ![e] = k]
<1>1. TypeOK /\ q \in RaceType /\ u \in TaskType /\ Well(q, u)
  BY TypeParts DEF HedgeInv, AllWell
<1>2. u[e] \in {"cancelled", "unpolled"} /\ Become(r, e, k) /\ race' = race
      /\ requests' = requests /\ hedges' = hedges
      /\ load' = IF u[e] = "cancelled" THEN [load EXCEPT ![e] = Less(@)] ELSE load
  BY DEF Reap, Release
<1>3. k \in TaskState
  BY DEF TaskState
<1>4. t \in TaskType /\ t[e] = k /\ \A f \in Endpoints \ {e} : t[f] = u[f]
  BY <1>1, <1>3 DEF TaskType
<1>5. t = [task[r] EXCEPT ![e] = k]
  OBVIOUS
<1> HIDE DEF t
<1>6. q.pc \in Over \cup {"done"}
  <2>1. q.pc \in Before \cup Driving \cup Over \cup {"done"}
    BY <1>1 DEF RaceType, Before, Driving, Over
  <2>2. q.pc \notin Before
    BY <1>1, <1>2 DEF Well
  <2>3. q.pc \notin Driving
    <3>1. SUFFICES ASSUME Ongoing(q, u) PROVE FALSE
      BY <1>1 DEF Well
    <3> QED
      BY <1>2, <3>1 DEF Ongoing, Results
  <2> QED
    BY <2>1, <2>2, <2>3
<1>7. Well(q, t)
  <2>1. CASE q.pc = "done"
    BY <1>1, <1>4, <2>1 DEF Well, Before, Driving, Over
  <2>2. CASE q.pc \in Over
    <3>1. Ended(q, u) /\ q.started \in SUBSET Endpoints
      BY <1>1, <2>2 DEF Well, RaceType
    <3>2. e \in q.started /\ q.delivery # "failed"
      BY <1>2, <3>1 DEF Ended, Results
    <3>3. Ended(q, t)
      BY <1>4, <3>1, <3>2 DEF Ended
    <3> QED
      BY <1>1, <2>2, <3>3 DEF Well, Before, Driving, Over
  <2> QED
    BY <1>6, <2>1, <2>2
<1>8. Touches(r) /\ race'[r] = q /\ task'[r] = t
  <2> HIDE DEF k
  <2> QED
    BY <1>1, <1>2, <1>3, <1>5, <1>7, TaskStep
<1>9. load \in [Endpoints -> Nat]
  BY <1>1, CounterTypes
<1>10. load' \in [Endpoints -> Nat]
  <2>1. CASE u[e] = "cancelled"
    <3>1. Less(load[e]) \in Nat /\ load' = [load EXCEPT ![e] = Less(load[e])]
      BY <1>2, <1>9, <2>1 DEF Less
    <3> QED
      BY <1>1, <3>1, LoadType
  <2>2. CASE u[e] # "cancelled"
    BY <1>2, <1>9, <2>2
  <2> QED
    BY <2>1, <2>2
<1>11. SlotBook(r)
  <2>1. ASSUME NEW f \in Endpoints
        PROVE  load'[f] = Moved(load[f], Holding(q, u, f), Holding(q, t, f))
    <3>1. CASE f = e
      <4>1. (Holding(q, u, f) <=> u[e] = "cancelled") /\ ~Holding(q, t, f)
        BY <1>2, <1>4, <1>6, <3>1 DEF Holding, Alive, Over
      <4> QED
        BY <1>2, <1>9, <3>1, <4>1 DEF Moved
    <3>2. CASE f # e
      <4>1. Holding(q, t, f) <=> Holding(q, u, f)
        BY <1>4, <3>2 DEF Holding
      <4>2. load'[f] = load[f]
        BY <1>2, <1>9, <3>2
      <4> QED
        BY <4>1, <4>2 DEF Moved
    <3> QED
      BY <3>1, <3>2
  <2> QED
    BY <1>8, <2>1 DEF SlotBook
<1> QED
  BY <1>2, <1>8, <1>10, <1>11, TaskBooks

-----------------------------------------------------------------------------
(***************************************************************************)
(* The invariant.                                                          *)
(***************************************************************************)

\* Every step but the last stutter keeps the books of the race it is of.
LEMMA EveryBook ==
  ASSUME HedgeInv, Next
  PROVE  (\E r \in Races : Books(r)) \/ UNCHANGED vars
<1>1. ASSUME NEW r \in Races, Select(r) PROVE Books(r)
  BY <1>1, SelectBooks
<1>2. ASSUME NEW r \in Races, PreparationFailed(r) PROVE Books(r)
  BY <1>2, PreparationFailedBooks
<1>3. ASSUME NEW r \in Races, Open(r) PROVE Books(r)
  BY <1>3, OpenBooks
<1>4. ASSUME NEW r \in Races, Driver(r) PROVE Books(r)
  <2>1. CASE FanOut(r)
    BY <2>1, FanOutBooks
  <2>2. CASE StartOne(r)
    BY <2>2, StartOneBooks
  <2>3. CASE AdmitCheck(r)
    BY <2>3, AdmitCheckBooks
  <2>4. CASE AdmitExchange(r)
    BY <2>4, AdmitExchangeBooks
  <2>5. CASE Place(r)
    BY <2>5, PlaceBooks
  <2>6. CASE PlaceNowhere(r)
    BY <2>6, PlaceNowhereBooks
  <2>7. CASE Wake(r)
    BY <2>7, WakeBooks
  <2>8. CASE DropCopies(r)
    BY <2>8, DropCopiesBooks
  <2>9. CASE EndRequest(r)
    BY <2>9, EndRequestBooks
  <2> QED
    BY <1>4, <2>1, <2>2, <2>3, <2>4, <2>5, <2>6, <2>7, <2>8, <2>9 DEF Driver
<1>5. ASSUME NEW r \in Races, ClientClosed(r) PROVE Books(r)
  BY <1>5, ClientClosedBooks
<1>6. ASSUME NEW r \in Races, NEW e \in Endpoints, Attempt(r, e) PROVE Books(r)
  BY <1>6, PollBooks, FinishBooks, ReapBooks DEF Attempt
<1> QED
  BY <1>1, <1>2, <1>3, <1>4, <1>5, <1>6 DEF Next, Settled

\* One race's step changes the requests by its own.
LEMMA RequestsKept ==
  ASSUME HedgeInv, NEW r \in Races, Books(r)
  PROVE  RequestsExact' /\ requests' \in 0..Cardinality(Races)
<1> DEFINE A == Noted
           B == Noted'
<1>1. IsFiniteSet(Races) /\ A \subseteq Races /\ B \subseteq Races
  BY HedgeConfig DEF ValidPolicy, Noted
<1>2. IsFiniteSet(A) /\ IsFiniteSet(B) /\ Cardinality(A) \in Nat /\ Cardinality(B) \in Nat
      /\ Cardinality(Races) \in Nat /\ Cardinality(B) <= Cardinality(Races)
  BY <1>1, CountPart
<1>3. \A s \in Races \ {r} : race'[s] = race[s]
  BY DEF Books, Touches
<1>4. B \ {r} = A \ {r}
  BY <1>3 DEF Noted
<1>5. (r \in A <=> race[r].noted) /\ (r \in B <=> race'[r].noted)
  BY DEF Noted
<1> HIDE DEF A, B
<1>6. Cardinality(B) + One(r \in A) = Cardinality(A) + One(r \in B)
  BY <1>2, <1>4, CountStep
<1>7. One(r \in A) = One(race[r].noted) /\ One(r \in B) = One(race'[r].noted)
      /\ One(r \in A) \in Nat /\ One(r \in B) \in Nat
  BY <1>5, OneType DEF One
<1>8. requests = Cardinality(A)
  BY DEF HedgeInv, RequestsExact, A
<1>9. requests' \in Nat /\ requests' + One(r \in A) = requests + One(r \in B)
  BY <1>7 DEF Books, RequestBook
<1>10. requests' = Cardinality(B)
  BY <1>2, <1>6, <1>7, <1>8, <1>9
<1> QED
  BY <1>2, <1>10 DEF RequestsExact, B

\* One race's step changes the admissions by its own.
LEMMA CopiesKept ==
  ASSUME HedgeInv, NEW r \in Races, Books(r)
  PROVE  CopiesCharged'
<1> DEFINE A == Picking
           B == Picking'
           F == [s \in Races |-> Copies(race[s])]
           G == [s \in Races |-> Copies(race'[s])]
<1>1. IsFiniteSet(Races) /\ IsFiniteSet(Endpoints) /\ A \subseteq Races /\ B \subseteq Races
  BY HedgeConfig DEF ValidPolicy, Picking
<1>2. IsFiniteSet(A) /\ IsFiniteSet(B) /\ Cardinality(A) \in Nat /\ Cardinality(B) \in Nat
  BY <1>1, CountPart
<1>3. \A s \in Races \ {r} : race'[s] = race[s]
  BY DEF Books, Touches
<1>4. B \ {r} = A \ {r}
  BY <1>3 DEF Picking
<1>5. (r \in A <=> race[r].pc = "pick") /\ (r \in B <=> race'[r].pc = "pick")
  BY DEF Picking
<1>6. \A s \in Races : race[s] \in RaceType /\ race'[s] \in RaceType
  BY TypeParts DEF Books, Touches, HedgeInv
<1>7. \A s \in Races : F[s] \in SUBSET Endpoints /\ G[s] \in SUBSET Endpoints
  BY <1>6, CopiesNat
<1>8. \A s \in Races \ {r} : G[s] = F[s]
  BY <1>3
<1>9. F[r] = Copies(race[r]) /\ G[r] = Copies(race'[r])
  OBVIOUS
<1>10. Pairs = Fibres(Races, Endpoints, F) /\ Pairs' = Fibres(Races, Endpoints, G)
  BY DEF Pairs, Fibres
<1> HIDE DEF A, B, F, G
<1>11. Cardinality(B) + One(r \in A) = Cardinality(A) + One(r \in B)
  BY <1>2, <1>4, CountStep
<1>12. One(r \in A) = One(race[r].pc = "pick") /\ One(r \in B) = One(race'[r].pc = "pick")
       /\ One(r \in A) \in Nat /\ One(r \in B) \in Nat
  BY <1>5, OneType DEF One
<1>13. /\ {Cardinality(Pairs), Cardinality(Pairs'),
           Cardinality(F[r]), Cardinality(G[r])} \subseteq Nat
       /\ Cardinality(Pairs') + Cardinality(F[r]) = Cardinality(Pairs) + Cardinality(G[r])
  BY <1>1, <1>7, <1>8, <1>10, CountFibre
<1>14. hedges = Cardinality(A) + Cardinality(Pairs)
  BY DEF HedgeInv, CopiesCharged, A, Picking, Pairs, Copies
<1>15. /\ hedges' \in Nat
       /\ hedges' + One(r \in A) + Cardinality(F[r]) = hedges + One(r \in B) + Cardinality(G[r])
  BY <1>9, <1>12 DEF Books, HedgeBook
<1>16. hedges' = Cardinality(B) + Cardinality(Pairs')
  <2> DEFINE a == Cardinality(A)
             b == Cardinality(B)
             i == One(r \in A)
             j == One(r \in B)
             x == Cardinality(Pairs)
             y == Cardinality(Pairs')
             f == Cardinality(F[r])
             g == Cardinality(G[r])
             m == hedges'
             n == hedges
  <2>1. a \in Nat /\ b \in Nat /\ i \in Nat /\ j \in Nat /\ b + i = a + j
    BY <1>2, <1>11, <1>12
  <2>2. x \in Nat /\ y \in Nat /\ f \in Nat /\ g \in Nat /\ y + f = x + g
    BY <1>13
  <2>3. m \in Nat /\ m + i + f = n + j + g /\ n = a + x
    BY <1>14, <1>15
  <2> HIDE DEF a, b, i, j, x, y, f, g, m, n
  <2>4. m = b + y
    BY <2>1, <2>2, <2>3
  <2> QED
    BY <2>4 DEF m, b, y
<1> QED
  BY <1>16 DEF CopiesCharged, B, Picking, Pairs, Copies

\* An admission goes past the cap by no more than itself.
LEMMA CapKept ==
  ASSUME HedgeInv, NEW r \in Races, Books(r)
  PROVE  BudgetCap'
<1> DEFINE n == hedges
           m == hedges'
           cap == Cardinality(Races) * Bps
<1>1. IsFiniteSet(Races) /\ Bps \in Nat
  BY HedgeConfig DEF ValidPolicy, BpsScale
<1>2. Cardinality(Races) \in Nat
  BY <1>1, FS_CardinalityType
<1>3. cap \in Nat
  BY <1>1, <1>2
<1>4. n \in Nat /\ m \in Nat
  BY CounterTypes DEF HedgeInv, Books, HedgeBook
<1>5. n > 0 => (n - 1) * BpsScale < cap
  BY DEF HedgeInv, BudgetCap
<1>6. m <= n \/ (m = n + 1 /\ n * BpsScale < cap)
  BY DEF Books, CapBook, UnderCap
<1> HIDE DEF n, m, cap
<1>7. m > 0 => (m - 1) * BpsScale < cap
  BY <1>3, <1>4, <1>5, <1>6 DEF BpsScale
<1> QED
  BY <1>7 DEF BudgetCap, m, cap

\* Every step keeps the invariant.
LEMMA BooksKeep ==
  ASSUME HedgeInv, NEW r \in Races, Books(r)
  PROVE  HedgeInv'
<1>1. RequestsExact' /\ requests' \in 0..Cardinality(Races)
  BY RequestsKept
<1>2. CopiesCharged' /\ BudgetCap'
  BY CopiesKept, CapKept
<1>3. /\ race' \in [Races -> RaceType] /\ task' \in [Races -> TaskType]
      /\ hedges' \in Nat /\ load' \in [Endpoints -> Nat]
  BY DEF Books, Touches, HedgeBook
<1>4. TypeOK'
  BY <1>1, <1>3, Zenon DEF TypeOK, RaceType, TaskType, TaskState
<1>5. \A s \in Races : s = r \/ (race'[s] = race[s] /\ task'[s] = task[s])
  BY DEF Books, Touches
<1>6. AllWell'
  <2>1. ASSUME NEW s \in Races PROVE Well(race'[s], task'[s])
    BY <1>5 DEF Books, Touches, HedgeInv, AllWell
  <2> QED
    BY <2>1 DEF AllWell
<1>7. AdmitsUnder'
  <2>1. ASSUME NEW s \in Races, race'[s].pc = "admit" PROVE UnderCap(race'[s].seen)
    BY <1>5, <2>1 DEF Books, AdmitBook, HedgeInv, AdmitsUnder
  <2> QED
    BY <2>1 DEF AdmitsUnder, UnderCap
<1> QED
  BY <1>1, <1>2, <1>4, <1>6, <1>7 DEF HedgeInv

\* It holds when no race has begun.
LEMMA HedgeInit == Init => HedgeInv
<1> SUFFICES ASSUME Init PROVE HedgeInv
  OBVIOUS
<1>1. /\ requests = 0 /\ hedges = 0 /\ load = [e \in Endpoints |-> 0]
      /\ race = [r \in Races |-> New]
      /\ task = [r \in Races |-> [e \in Endpoints |-> "none"]]
  BY DEF Init
<1>2. IsFiniteSet(Races) /\ IsFiniteSet(Endpoints)
  BY HedgeConfig DEF ValidPolicy
<1>3. Cardinality(Races) \in Nat /\ Cardinality({}) = 0
  BY <1>2, FS_CardinalityType, FS_EmptySet
<1>4. \A r \in Races : race[r] = New /\ \A e \in Endpoints : task[r][e] = "none"
  BY <1>1
<1>5. race \in [Races -> RaceType]
  BY <1>1, NewType
<1>6. task \in [Races -> TaskType]
  BY <1>1 DEF TaskType, TaskState
<1>7. TypeOK
  BY <1>1, <1>3, <1>5, <1>6, TypeParts
<1>8. Copies(New) = {} /\ ~New.noted
  BY NewType DEF Copies, Blank
<1>9. ASSUME NEW r \in Races PROVE Well(race[r], task[r])
  BY <1>4, <1>8, NewType DEF Well, Before, Driving, Over
<1>10. Noted = {} /\ Picking = {} /\ Pairs = {}
  BY <1>4, <1>8, NewType DEF Noted, Picking, Pairs
<1>11. RequestsExact
  BY <1>1, <1>3, <1>10 DEF RequestsExact
<1>12. CopiesCharged
  <2>1. hedges = Cardinality(Picking) + Cardinality(Pairs)
    BY <1>1, <1>3, <1>10
  <2> QED
    BY <2>1 DEF CopiesCharged, Picking, Pairs, Copies
<1>13. BudgetCap
  BY <1>1 DEF BudgetCap
<1>14. AdmitsUnder
  BY <1>4, NewType DEF AdmitsUnder
<1> QED
  BY <1>7, <1>9, <1>11, <1>12, <1>13, <1>14 DEF HedgeInv, AllWell

\* A stutter keeps it.
LEMMA HedgeStutter == HedgeInv /\ UNCHANGED vars => HedgeInv'
BY DEF HedgeInv, vars, TypeOK, AllWell, RequestsExact, Noted, CopiesCharged, BudgetCap,
       AdmitsUnder, UnderCap

\* The invariant holds of every behaviour.
THEOREM HedgeInvariant == Spec => []HedgeInv
<1>1. Init => HedgeInv
  BY HedgeInit
<1>2. HedgeInv /\ [Next]_vars => HedgeInv'
  BY EveryBook, BooksKeep, HedgeStutter
<1> QED
  BY <1>1, <1>2, PTL DEF Spec

-----------------------------------------------------------------------------
(***************************************************************************)
(* The theorems.                                                           *)
(***************************************************************************)

\* Copies in flight and admissions of the budget agree, and the last copy
\* was admitted under the budget's percentage of the route's requests, for
\* any number of concurrent races (HedgeBudget, HedgeReservation).
THEOREM CopiesAreBudgeted == Spec => []CopiesBudgeted
<1>1. HedgeInv => CopiesBudgeted
  BY DEF HedgeInv, CopiesBudgeted
<1> QED
  BY <1>1, HedgeInvariant, PTL

\* A race fails only after all its attempts have, without a success among
\* them (finish_if_idle, on_timer, run_flight).
THEOREM LosesOnlyWhenSpent == Spec => []LostOnlyWhenSpent
<1>1. HedgeInv => LostOnlyWhenSpent
  <2>1. SUFFICES ASSUME HedgeInv, NEW r \in Races, race[r].delivery = "failed",
                        NEW e \in race[r].started
                 PROVE  task[r][e] \in Results \ {"ok"}
    BY DEF LostOnlyWhenSpent
  <2>2. race[r] \in RaceType /\ Well(race[r], task[r])
    BY <2>1, TypeParts DEF HedgeInv, AllWell
  <2>3. race[r].pc \in Before \cup Driving \cup Over \cup {"done"}
    BY <2>2 DEF RaceType, Before, Driving, Over
  <2>4. race[r].pc \in Over
    BY <2>1, <2>2, <2>3 DEF Well, Blank, Ongoing
  <2> QED
    BY <2>1, <2>2, <2>4 DEF Well, Ended
<1> QED
  BY <1>1, HedgeInvariant, PTL

\* A failed race returns the status of one attempt with the body of the same
\* attempt, and none only if no attempt got a response (remember_failure).
THEOREM FailsFaithfully == Spec => []FailureFaithful
<1>1. HedgeInv => FailureFaithful
  <2>1. SUFFICES ASSUME HedgeInv, NEW r \in Races, race[r].delivery = "failed"
                 PROVE  /\ race[r].status = race[r].body
                        /\ race[r].body = NoOne => \A e \in Endpoints : task[r][e] # "5xx"
    BY DEF FailureFaithful
  <2>2. race[r] \in RaceType /\ Well(race[r], task[r])
    BY <2>1, TypeParts DEF HedgeInv, AllWell
  <2>3. race[r].pc \in Before \cup Driving \cup Over \cup {"done"}
    BY <2>2 DEF RaceType, Before, Driving, Over
  <2>4. race[r].pc \in Over
    BY <2>1, <2>2, <2>3 DEF Well, Blank, Ongoing
  <2> QED
    BY <2>1, <2>2, <2>4 DEF Well, Ended
<1> QED
  BY <1>1, HedgeInvariant, PTL

\* Once an answer was too large to buffer, no step of any task starts another
\* attempt of that race (disallow_more).
THEOREM HaltsAreFinal == Spec => HaltIsFinal
<1> DEFINE Act == \A r \in Races : (\E e \in race[r].joined : task[r][e] = "halt")
                                     => race'[r].started \subseteq race[r].started
<1>1. HedgeInv /\ [Next]_vars => [Act]_vars
  <2>1. SUFFICES ASSUME HedgeInv, Next, NEW r \in Races, Halted(race[r], task[r])
                 PROVE  race'[r].started \subseteq race[r].started
    BY DEF Halted
  <2>2. CASE UNCHANGED vars
    BY <2>2 DEF vars
  <2>3. ASSUME NEW s \in Races, Books(s)
        PROVE  race'[r].started \subseteq race[r].started
    <3>1. r = s \/ race'[r] = race[r]
      BY <2>3 DEF Books, Touches
    <3> QED
      BY <2>1, <2>3, <3>1 DEF Books, StartBook
  <2> QED
    BY <2>1, <2>2, <2>3, EveryBook
<1> QED
  BY <1>1, HedgeInvariant, PTL DEF Spec, HaltIsFinal

\* One race's step moves the slots it holds, and no other.
LEMMA SlotsKept ==
  ASSUME HedgeInv, SlotsExact, ~UnpolledAborts, NEW r \in Races, Books(r)
  PROVE  SlotsExact'
<1>1. SUFFICES ASSUME NEW e \in Endpoints
               PROVE  load'[e] = Cardinality({s \in Races : HoldsSlot(s, e)'})
  BY DEF SlotsExact
<1> DEFINE A == {s \in Races : Holding(race[s], task[s], e)}
           B == {s \in Races : Holding(race'[s], task'[s], e)}
           n == load[e]
           m == load'[e]
<1>2. {s \in Races : HoldsSlot(s, e)} = A /\ {s \in Races : HoldsSlot(s, e)'} = B
  BY DEF HoldsSlot, Holding
<1>3. IsFiniteSet(Races) /\ A \subseteq Races /\ B \subseteq Races
  BY HedgeConfig DEF ValidPolicy
<1>4. IsFiniteSet(A) /\ Cardinality(A) \in Nat /\ Cardinality(B) \in Nat
  BY <1>3, CountPart
<1>5. \A s \in Races \ {r} : race'[s] = race[s] /\ task'[s] = task[s]
  BY DEF Books, Touches
<1>6. B \ {r} = A \ {r}
  BY <1>5
<1>7. n = Cardinality(A)
  BY <1>2 DEF SlotsExact
<1>8. m = Moved(n, r \in A, r \in B)
  <2>1. load'[e] = Moved(load[e], Holding(race[r], task[r], e), Holding(race'[r], task'[r], e))
    BY DEF Books, SlotBook
  <2>2. (r \in A <=> Holding(race[r], task[r], e)) /\ (r \in B <=> Holding(race'[r], task'[r], e))
    OBVIOUS
  <2> HIDE DEF A, B
  <2> QED
    BY <2>1, <2>2 DEF Moved
<1> HIDE DEF A, B, n, m
<1>9. Cardinality(B) + One(r \in A) = Cardinality(A) + One(r \in B)
  BY <1>4, <1>6, CountStep
<1>10. r \in A => Cardinality(A) # 0
  BY <1>4, FS_EmptySet
<1>11. m = Cardinality(B)
  BY <1>4, <1>7, <1>8, <1>9, <1>10 DEF Moved, One, Less
<1> QED
  BY <1>2, <1>11 DEF m

\* When no task is aborted before its first poll, the load balancer's
\* in-flight counter of every endpoint is the number of attempts that hold
\* it, so no slot leaks and none is released twice (Release).
THEOREM SlotsAreExact == ~UnpolledAborts /\ Spec => []SlotsExact
<1>1. Init => SlotsExact
  <2> SUFFICES ASSUME Init, NEW e \in Endpoints
               PROVE  load[e] = Cardinality({r \in Races : HoldsSlot(r, e)})
    BY DEF SlotsExact
  <2>1. \A r \in Races : race[r] = New /\ task[r][e] = "none"
    BY DEF Init
  <2>2. {r \in Races : HoldsSlot(r, e)} = {}
    BY <2>1, NewType DEF HoldsSlot, Alive, Blank
  <2>3. load[e] = 0 /\ Cardinality({}) = 0
    BY FS_EmptySet DEF Init
  <2> QED
    BY <2>2, <2>3
<1>2. SlotsExact /\ UNCHANGED vars => SlotsExact'
  BY DEF SlotsExact, HoldsSlot, vars
<1>3. ~UnpolledAborts /\ HedgeInv /\ SlotsExact /\ [Next]_vars => SlotsExact'
  BY <1>2, EveryBook, SlotsKept
<1>4. CASE UnpolledAborts
  BY <1>4
<1>5. CASE ~UnpolledAborts
  <2>1. HedgeInv /\ SlotsExact /\ [Next]_vars => SlotsExact'
    BY <1>3, <1>5
  <2> QED
    BY <1>1, <2>1, HedgeInvariant, PTL DEF Spec
<1> QED
  BY <1>4, <1>5
=============================================================================
