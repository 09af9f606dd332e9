----------------------------- MODULE HedgeRace -----------------------------
(***************************************************************************)
(* Hedged requests: the race of one client request over several endpoints  *)
(* (crates/core/src/hedge.rs, HedgeRace and drive), the admission budget   *)
(* all races of a route share (HedgeBudget), and the in-flight slots of    *)
(* the load balancer that the attempts hold                                *)
(* (crates/protocol/src/http/pingora/handler/request_filter/hedge.rs).     *)
(*                                                                         *)
(* A race's driver is one task that only awaits in Flight::next; between   *)
(* two awaits it meets other races at the budget's atomics, so every       *)
(* atomic operation of an admission is an action.  The attempts are tasks  *)
(* of their own, which start, end and are cancelled at any time.           *)
(***************************************************************************)
EXTENDS Naturals, FiniteSets

CONSTANTS Races,            \* client requests on the route
          Endpoints,
          Primaries,        \* endpoints the load balancer may select first
          InitialRequests,  \* HedgePolicy.initial_requests
          MaxAttempts,      \* HedgePolicy.max_attempts
          Bps,              \* HedgeBudget.bps
          UnpolledAborts,   \* TRUE: a task may be aborted before its first poll
          NoOne             \* no endpoint

BpsScale == 10000

\* validate_counts and percent_to_bps
ValidPolicy ==
  /\ {InitialRequests, MaxAttempts} \subseteq Nat \ {0}
  /\ InitialRequests <= MaxAttempts
  /\ Bps \in 0..BpsScale
  /\ IsFiniteSet(Races) /\ IsFiniteSet(Endpoints) /\ NoOne \notin Endpoints
  /\ Primaries \subseteq Endpoints
  /\ UnpolledAborts \in BOOLEAN

ASSUME HedgeConfig == ValidPolicy

VARIABLES requests, hedges,  \* HedgeBudget
          load,              \* in-flight counter of each endpoint (Strategy)
          race,              \* HedgeRace, with the locals of drive
          task               \* task[r][e]: the attempt of r on e

vars == <<requests, hedges, load, race, task>>

\* How an attempt ends: a status that wins or not, no response (a transport
\* error, or a panic of the task), or a response too large to buffer.
Results == {"ok", "5xx", "miss", "halt"}
Alive == {"spawned", "running", "cancelled"}

\* HedgeRace::new, and the locals of drive
New == [pc |-> "idle", opening |-> TRUE, primary |-> NoOne, started |-> {},
        in_flight |-> {}, copies |-> {}, joined |-> {}, max |-> MaxAttempts,
        noted |-> FALSE, deadline |-> FALSE, seen |-> 0,
        last_status |-> NoOne, last_failure |-> NoOne,
        delivery |-> "none", status |-> NoOne, body |-> NoOne]

Init ==
  /\ requests = 0 /\ hedges = 0
  /\ load = [e \in Endpoints |-> 0]
  /\ race = [r \in Races |-> New]
  /\ task = [r \in Races |-> [e \in Endpoints |-> "none"]]

Less(n) == IF n = 0 THEN 0 ELSE n - 1

Put(r, q) == race' = [race EXCEPT ![r] = q]

-----------------------------------------------------------------------------
(***************************************************************************)
(* Before the race.                                                        *)
(***************************************************************************)

\* The load balancer selected the primary and counted it.
Select(r) ==
  /\ race[r].pc = "idle"
  /\ \E e \in Primaries :
       /\ load' = [load EXCEPT ![e] = @ + 1]
       /\ Put(r, [race[r] EXCEPT !.pc = "preparing", !.primary = e])
  /\ UNCHANGED <<requests, hedges, task>>

\* preparation_failed and reject_oversized: release_selected, no race.
PreparationFailed(r) ==
  /\ race[r].pc = "preparing"
  /\ load' = [load EXCEPT ![race[r].primary] = Less(@)]
  /\ Put(r, [New EXCEPT !.pc = "done"])
  /\ UNCHANGED <<requests, hedges, task>>

\* note_request
NoteRequest == requests + 1

\* HedgeRace::open up to the first copy: the request is counted and the
\* primary, which pick returns first, is started uncharged.
Open(r) ==
  LET e == race[r].primary IN
  /\ race[r].pc = "preparing"
  /\ requests' = NoteRequest
  /\ Put(r, [race[r] EXCEPT !.pc = "fanout", !.noted = TRUE,
                            !.started = {e}, !.in_flight = {e}])
  /\ UNCHANGED <<hedges, load, task>>

-----------------------------------------------------------------------------
(***************************************************************************)
(* Starting attempts.                                                      *)
(***************************************************************************)

Room(q) == Cardinality(q.started) < q.max

\* next_wait: Some(per_try_timeout) while more attempts are allowed; the
\* policy sets the timeout when max_attempts exceeds initial_requests.
NextWait(q) == Room(q) /\ MaxAttempts > InitialRequests

\* Flight::launch for every attempt started since the last launch.
Launch(r, q) ==
  task' = [task EXCEPT ![r] =
            [e \in Endpoints |-> IF e \in q.started /\ @[e] = "none"
                                   THEN "spawned" ELSE @[e]]]

\* The driver goes back to Flight::next.
Wait(r, q, deadline) ==
  /\ Put(r, [q EXCEPT !.pc = "wait", !.opening = FALSE, !.deadline = deadline,
                      !.seen = 0])
  /\ Launch(r, q)

\* failed_from, or a winner: the delivery is decided and the rest aborted.
\* A spawned task that was never polled has not built its Release guard.
Aborted(t) ==
  CASE t = "running" -> "cancelled"
    [] t = "spawned" -> "unpolled"
    [] OTHER -> t

Deliver(r, q, delivery, status, body) ==
  /\ \A e \in Endpoints : task[r][e] = "spawned" => UnpolledAborts
  /\ Put(r, [q EXCEPT !.pc = "drop", !.seen = 0, !.delivery = delivery, !.status = status,
                      !.body = body])
  /\ task' = [task EXCEPT ![r] = [e \in Endpoints |-> Aborted(@[e])]]

Fail(r, q, status) ==
  Deliver(r, q, "failed", IF status # NoOne THEN status ELSE q.last_failure,
          q.last_failure)

\* start_initial: the next copy of the fan-out, or the launch of them all.
FanOut(r) ==
  LET q == race[r] IN
  /\ q.pc = "fanout"
  /\ IF Cardinality(q.started) < InitialRequests
       THEN Put(r, [q EXCEPT !.pc = "start"]) /\ UNCHANGED task
       ELSE Wait(r, q, NextWait(q))
  /\ UNCHANGED <<requests, hedges, load>>

\* on_timer, or the end of the fan-out, when the budget has no room.
Denied(r, q) ==
  IF q.in_flight = {} THEN Fail(r, q, q.last_status) ELSE Wait(r, q, NextWait(q))

\* The same when there is no endpoint left or the cap is reached: on_timer
\* disarms the timer, the end of the fan-out does not.
NotPlaced(r, q) ==
  IF q.in_flight = {} THEN Fail(r, q, q.last_status)
  ELSE Wait(r, q, q.opening /\ NextWait(q))

\* start_one and the first load of try_admit.
StartOne(r) ==
  LET q == race[r] IN
  /\ q.pc = "start"
  /\ CASE ~Room(q) -> NotPlaced(r, q)
       [] Room(q) /\ Bps = 0 -> Denied(r, q)
       [] Room(q) /\ Bps # 0 ->
            Put(r, [q EXCEPT !.pc = "check", !.seen = hedges]) /\ UNCHANGED task
  /\ UNCHANGED <<requests, hedges, load>>

\* try_admit's comparison, against the requests of this moment.
Full(q) == q.seen * BpsScale >= requests * Bps

AdmitCheck(r) ==
  LET q == race[r] IN
  /\ q.pc = "check"
  /\ IF Full(q) THEN Denied(r, q)
     ELSE Put(r, [q EXCEPT !.pc = "admit"]) /\ UNCHANGED task
  /\ UNCHANGED <<requests, hedges, load>>

Exchanges(q) == hedges = q.seen

\* try_admit's compare_exchange; a failure checks again with what it saw.
AdmitExchange(r) ==
  LET q == race[r] IN
  /\ q.pc = "admit"
  /\ IF Exchanges(q)
       THEN hedges' = hedges + 1 /\ Put(r, [q EXCEPT !.pc = "pick", !.seen = 0])
       ELSE hedges' = hedges /\ Put(r, [q EXCEPT !.pc = "check", !.seen = hedges])
  /\ UNCHANGED <<requests, load, task>>

\* next_address and fresh_endpoint find an endpoint, which is counted.
Place(r) ==
  LET q == race[r] IN
  /\ q.pc = "pick"
  /\ \E e \in Endpoints \ q.started :
       LET p == [q EXCEPT !.started = @ \cup {e}, !.in_flight = @ \cup {e},
                          !.copies = @ \cup {e}]
       IN  /\ load' = [load EXCEPT ![e] = @ + 1]
           /\ IF q.opening THEN Put(r, [p EXCEPT !.pc = "fanout"]) /\ UNCHANGED task
              ELSE Wait(r, p, NextWait(p))
  /\ UNCHANGED <<requests, hedges>>

\* Mutant: the admission of a copy that cannot be placed is kept.
RevertNothing(n) == hedges

\* revert_admission, n times.
RevertAdmission(n) == IF n <= hedges THEN hedges - n ELSE 0

\* There is none: all were started, or the others are unhealthy.
PlaceNowhere(r) ==
  /\ race[r].pc = "pick"
  /\ hedges' = RevertAdmission(1)
  /\ NotPlaced(r, race[r])
  /\ UNCHANGED <<requests, load>>

-----------------------------------------------------------------------------
(***************************************************************************)
(* The driver's await.                                                     *)
(***************************************************************************)

Ready(r) == {e \in Endpoints \ race[r].joined : task[r][e] \in Results}

\* The endpoint the wake-up names: Flight::addresses keeps it for a task
\* that panicked.
\* Mutant: a task that ended without a response has no name.
NameLost(r, e) == IF task[r][e] = "miss" THEN NoOne ELSE e

JoinedName(r, e) == e

\* Mutant: a later miss replaces the response that is kept.
RememberLast(kept, e, result) == IF result = "5xx" THEN e ELSE NoOne

\* remember_failure (drive): an attempt without a response does not replace
\* one that has it.
RememberFailure(kept, e, result) == IF result = "5xx" THEN e ELSE kept

\* Mutant: an oversized answer does not stop the race from growing.
DisallowNothing(q, result) == q.max

\* disallow_more
DisallowMore(q, result) ==
  IF result = "halt" THEN Cardinality(q.started) ELSE q.max

\* Mutant: any failed attempt with no room left loses the race.
IdleIgnoringOthers(q) == TRUE

\* finish_if_idle's first test
IdleRace(q) == q.in_flight = {}

\* on_finished and HedgeRace::on_complete for the task of e.
Join(r) ==
  \E e \in Ready(r) :
    LET name   == JoinedName(r, e)
        result == task[r][e]
        q      == [race[r] EXCEPT !.joined = @ \cup {e},
                     !.max = DisallowMore(race[r], result),
                     !.in_flight = @ \ {name}, !.copies = @ \ {name}]
        won    == result = "ok"
        failed == [q EXCEPT !.last_status = IF result = "5xx" THEN e ELSE @,
                            !.last_failure = RememberFailure(@, e, result)]
    IN  /\ hedges' = RevertAdmission(Cardinality(race[r].copies
                                       \ IF won THEN {} ELSE q.copies))
        /\ CASE won -> Deliver(r, [q EXCEPT !.copies = {}, !.in_flight = {}],
                               "ready", e, e)
             [] ~won /\ ~IdleRace(q) -> Put(r, failed) /\ UNCHANGED task
             [] ~won /\ IdleRace(q) /\ Room(q) ->
                  Put(r, [failed EXCEPT !.pc = "start"]) /\ UNCHANGED task
             [] ~won /\ IdleRace(q) /\ ~Room(q) -> Fail(r, failed, failed.last_status)

\* The per-try deadline passes and no attempt has ended.
Timer(r) ==
  /\ race[r].deadline /\ Ready(r) = {}
  /\ Put(r, [race[r] EXCEPT !.pc = "start"])
  /\ UNCHANGED <<hedges, task>>

\* run_flight: a driver with nothing to wait for ends, else it wakes.
Stranded(r) ==
  race[r].deadline = FALSE /\ \A e \in Endpoints : task[r][e] \in {"none"} \cup Results
                                                    /\ e \notin Ready(r)

Wake(r) ==
  /\ race[r].pc = "wait"
  /\ IF Stranded(r) THEN Fail(r, race[r], NoOne) /\ UNCHANGED hedges
     ELSE Join(r) \/ Timer(r)
  /\ UNCHANGED <<requests, load>>

\* The client goes away: dispatch drops the race, which drops the JoinSet.
ClientClosed(r) ==
  /\ race[r].pc = "wait"
  /\ Deliver(r, race[r], "closed", NoOne, NoOne)
  /\ UNCHANGED <<requests, hedges, load>>

\* Drop for HedgeRace: the reservations, then the request.  What the driver
\* and its JoinSet held goes with it.
DropCopies(r) ==
  /\ race[r].pc = "drop"
  /\ hedges' = RevertAdmission(Cardinality(race[r].copies))
  /\ Put(r, [race[r] EXCEPT !.pc = "leave", !.copies = {}, !.in_flight = {}])
  /\ UNCHANGED <<requests, load, task>>

EndRequest(r) ==
  /\ race[r].pc = "leave"
  /\ requests' = Less(requests)
  /\ Put(r, [New EXCEPT !.pc = "done"])
  /\ task' = [task EXCEPT ![r] =
               [e \in Endpoints |-> IF @[e] \in Results THEN "gone" ELSE @[e]]]
  /\ UNCHANGED <<hedges, load>>

-----------------------------------------------------------------------------
(***************************************************************************)
(* The attempts: run_attempt, whose first poll builds the Release guard.   *)
(***************************************************************************)

Become(r, e, t) == task' = [task EXCEPT ![r][e] = t]

Poll(r, e) ==
  /\ task[r][e] = "spawned"
  /\ Become(r, e, "running")
  /\ UNCHANGED <<requests, hedges, load, race>>

\* Mutant: the guard of a cancelled attempt does not run.
ReleaseNothing(e) == load

\* Release::drop
Release(e) == [load EXCEPT ![e] = Less(@)]

Finish(r, e) ==
  /\ task[r][e] = "running"
  /\ \E result \in Results : Become(r, e, result)
  /\ load' = [load EXCEPT ![e] = Less(@)]
  /\ UNCHANGED <<requests, hedges, race>>

\* The runtime drops an aborted task's future, with the guard if there is one.
Reap(r, e) ==
  /\ task[r][e] \in {"cancelled", "unpolled"}
  /\ load' = IF task[r][e] = "cancelled" THEN Release(e) ELSE load
  /\ Become(r, e, "gone")
  /\ UNCHANGED <<requests, hedges, race>>

Driver(r) ==
  \/ FanOut(r) \/ StartOne(r) \/ AdmitCheck(r) \/ AdmitExchange(r)
  \/ Place(r) \/ PlaceNowhere(r) \/ Wake(r) \/ DropCopies(r) \/ EndRequest(r)

Attempt(r, e) == Poll(r, e) \/ Finish(r, e) \/ Reap(r, e)

Settled == /\ \A r \in Races : race[r].pc = "done"
           /\ \A r \in Races, e \in Endpoints : task[r][e] \notin Alive \cup {"unpolled"}
           /\ UNCHANGED vars

Next ==
  \/ \E r \in Races : \/ Select(r) \/ PreparationFailed(r) \/ Open(r)
                      \/ Driver(r) \/ ClientClosed(r)
                      \/ \E e \in Endpoints : Attempt(r, e)
  \/ Settled

(* A woken task is polled, an exchange has a deadline of its own            *)
(* (exchange_timeout), and a sleep ends.                                    *)
Fairness ==
  \A r \in Races : /\ WF_vars(Driver(r))
                   /\ \A e \in Endpoints : WF_vars(Attempt(r, e))

Spec == Init /\ [][Next]_vars /\ Fairness

-----------------------------------------------------------------------------
(***************************************************************************)
(* Properties.                                                             *)
(***************************************************************************)

Endpoint == Endpoints \cup {NoOne}

\* The variables keep their types (struct HedgeRace, Flight).
TypeOK ==
  /\ requests \in 0..Cardinality(Races)
  /\ hedges \in Nat
  /\ load \in [Endpoints -> Nat]
  /\ race \in [Races ->
       [pc : {"idle", "preparing", "fanout", "start", "check", "admit", "pick",
              "wait", "drop", "leave", "done"},
        opening : BOOLEAN, primary : Endpoint, started : SUBSET Endpoints,
        in_flight : SUBSET Endpoints, copies : SUBSET Endpoints,
        joined : SUBSET Endpoints, max : 1..MaxAttempts, noted : BOOLEAN,
        deadline : BOOLEAN, seen : Nat, last_status : Endpoint,
        last_failure : Endpoint, delivery : {"none", "ready", "failed", "closed"},
        status : Endpoint, body : Endpoint]]
  /\ task \in [Races -> [Endpoints -> {"none", "unpolled", "gone"} \cup Alive \cup Results]]

\* Every copy in flight, and nothing else, is charged to the budget, and a
\* copy's admission comes back when it ends, cannot be placed, loses or is
\* dropped with its race (HedgeReservation, take_in_flight, winner_cancel).
CopiesCharged ==
  hedges = Cardinality({r \in Races : race[r].pc = "pick"})
           + Cardinality({x \in Races \X Endpoints :
                x[2] \in race[x[1]].in_flight \ {race[x[1]].primary}})

\* However admissions of concurrent races interleave, the last copy was
\* admitted under the budget's percentage of the route's requests
\* (try_admit's compare_exchange).
BudgetCap ==
  hedges > 0 => (hedges - 1) * BpsScale < Cardinality(Races) * Bps

\* Every copy that was sent was charged to the budget, and the budget's cap
\* held (HedgeBudget), with the types.
CopiesBudgeted == TypeOK /\ CopiesCharged /\ BudgetCap

\* An attempt whose answer is too large to buffer stops the race from
\* starting another, through any later failure or timer (disallow_more).
HaltIsFinal ==
  [][\A r \in Races : (\E e \in race[r].joined : task[r][e] = "halt")
       => race'[r].started \subseteq race[r].started]_vars

\* A failed race has given every attempt it started its chance: none of
\* them was still running or had succeeded (finish_if_idle, on_timer).
LostOnlyWhenSpent ==
  \A r \in Races : race[r].delivery = "failed" =>
    \A e \in race[r].started : task[r][e] \in Results \ {"ok"}

\* A failed race returns an attempt's own status with that attempt's own
\* body, and returns none only if no attempt got a response at all
\* (remember_failure, failed_from).
FailureFaithful ==
  \A r \in Races : race[r].delivery = "failed" =>
    /\ race[r].status = race[r].body
    /\ race[r].body = NoOne => \A e \in Endpoints : task[r][e] # "5xx"

\* Slots of the load balancer: one for a selected primary whose race has not
\* launched, one for a picked copy, one for every attempt until its task is
\* dropped ("Releases the load-balancer in-flight slot when the attempt ends
\* or is cancelled").
HoldsSlot(r, e) ==
  \/ task[r][e] \in Alive
  \/ task[r][e] = "none" /\ e \in race[r].started
  \/ race[r].pc = "preparing" /\ e = race[r].primary
SlotsExact ==
  \A e \in Endpoints : load[e] = Cardinality({r \in Races : HoldsSlot(r, e)})

\* Every race that begins is delivered: no panic, refused admission or
\* missing endpoint leaves a driver waiting (run_flight).
RaceEnds == \A r \in Races : race[r].pc = "fanout" ~> race[r].pc = "done"
=============================================================================
