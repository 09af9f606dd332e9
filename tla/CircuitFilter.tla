---------------------------- MODULE CircuitFilter ----------------------------
(***************************************************************************)
(* The circuit_breaker HTTP filter                                         *)
(* (crates/filter/.../traffic_management/circuit_breaker/mod.rs) for one   *)
(* cluster: the breaker each config generation builds, the requests that   *)
(* acquire a token in on_request and settle it in on_response, and the     *)
(* process-wide gauge praxis_circuit_breaker_open with its owner map.      *)
(* The breaker itself is the one of CircuitBreaker.tla.                    *)
(*                                                                         *)
(* A token lives in the request's filter state, and CircuitToken has no    *)
(* Drop.  It is lost when no on_response of the filter follows, because a  *)
(* filter before it rejected the response or a response condition passed   *)
(* it over, and when a re-entrant branch runs on_request again, whose      *)
(* token overwrites the first.                                             *)
(*                                                                         *)
(* Granularity.  The instrumented operations read the state, run the core  *)
(* operation, read the state again and publish: four steps that other      *)
(* requests interleave with.  Creating and dropping a breaker are two      *)
(* steps each, the owner map under its mutex and then the gauge.           *)
(***************************************************************************)
EXTENDS Naturals, FiniteSets

CONSTANTS Callers,     \* requests that pass through the filter
          Builds,      \* bound on the breakers built for the cluster
          Failures,    \* consecutive_failures
          Recovery,    \* recovery_window_secs
          HalfOpen,    \* half_open_timeout_secs
          MaxMoment,   \* bound on time
          MaxLost      \* where the count of lost tokens stops

ASSUME FilterConfig ==
  /\ IsFiniteSet(Callers)
  /\ Builds \in Nat /\ MaxMoment \in Nat /\ MaxLost \in Nat
  /\ {Failures, Recovery, HalfOpen} \subseteq Nat \ {0}   \* from_config

VARIABLES moment,    \* Instant::now()
          stage,     \* where each generation's breaker is in its life
          breaker,   \* InstrumentedCircuitBreaker::inner
          owner,     \* GAUGE_OWNERS[cluster], 0 for no entry
          gauge,     \* praxis_circuit_breaker_open of the cluster
          lost,      \* per breaker, the tokens that were lost (history)
          visit      \* what each request is doing

filterVars == <<moment, stage, breaker, owner, gauge, lost, visit>>

Versions == 1..Builds
Alive == {"claimed", "built", "current", "retired"}

\* The critical sections of the core breaker.
Core == INSTANCE CircuitBreaker WITH
          Peers <- Versions, Clients <- Callers, Threshold <- Failures,
          RecoveryWindow <- Recovery, HalfOpenTimeout <- HalfOpen,
          IdleThreshold <- 0, MaxClock <- MaxMoment, clock <- moment,
          breakers <- breaker, present <- Versions, client <- visit,
          sweep <- {}, barred <- {}, outdated <- {}

\* Whether the gauge should report generation g as open (or half-open).
logical_open(g) == breaker[g].state # "Closed"

Out == [pc |-> "out"]

\* pc of a request: "arrived" holds the pipeline of generation gen; the
\* "calling" ones have read `before`; "ran" has run the core operation;
\* "publish" has decided to publish `open`.  kind is the operation, and token
\* what is in the filter state or was just taken from it.
Operations == {"acquire", "success", "failure"}
Tokens == Nat

CallStates ==
  {Out} \cup [pc : {"arrived"}, gen : Versions]
        \cup [pc : {"inflight"}, gen : Versions, token : Tokens]
        \cup [pc : {"calling"}, gen : Versions, kind : Operations,
              before : BOOLEAN, token : SUBSET Tokens]
        \cup [pc : {"ran"}, gen : Versions, before : BOOLEAN,
              token : SUBSET Tokens]
        \cup [pc : {"publish"}, gen : Versions, open : BOOLEAN,
              token : SUBSET Tokens]

Users(g) == {c \in Callers : visit[c].pc # "out" /\ visit[c].gen = g}

\* The requests that owe generation g a settlement: a token is in the
\* request's filter state, or its settling call has not run yet.
Owing(g) ==
  {c \in Users(g) : \/ visit[c].pc = "inflight"
                    \/ visit[c].pc \in {"calling", "ran", "publish"}
                         /\ visit[c].token # {}}

\* The bound on lost tokens.
CanLose == \A g \in Versions : lost[g] < MaxLost

FilterInit ==
  /\ moment = 0
  /\ stage = [g \in Versions |-> "unborn"]
  /\ breaker = [g \in Versions |-> Core!New(0)]
  /\ owner = 0
  /\ gauge = FALSE
  /\ lost = [g \in Versions |-> 0]
  /\ visit = [c \in Callers |-> Out]

Proceed(c, s) == visit' = [visit EXCEPT ![c] = s]
Promote(g, s) == stage' = [stage EXCEPT ![g] = s]

-----------------------------------------------------------------------------
(***************************************************************************)
(* Breakers: InstrumentedCircuitBreaker::new, its Drop, and the reload     *)
(* that creates, installs or discards a generation.                        *)
(***************************************************************************)

\* new, up to the owner map: the newest breaker owns the gauge.  Reloads
\* are serialised, so one generation is under construction at a time.
ClaimGauge(g) ==
  /\ stage[g] = "unborn"
  /\ \A h \in Versions : h < g => stage[h] \notin {"unborn", "claimed", "built"}
  /\ Promote(g, "claimed")
  /\ owner' = g
  /\ UNCHANGED <<moment, breaker, lost, gauge, visit>>

\* The rest of new: a closed breaker and a gauge of 0.
Seed(g) ==
  /\ stage[g] = "claimed"
  /\ Promote(g, "built")
  /\ breaker' = [breaker EXCEPT ![g] = Core!New(moment)]
  /\ lost' = [lost EXCEPT ![g] = 0]
  /\ gauge' = FALSE
  /\ UNCHANGED <<moment, owner, visit>>

\* The current generation's pipeline is replaced, by g or (g = 0) by one
\* without the cluster.
Replaced(g) ==
  [h \in Versions |-> CASE h = g -> "current"
                        [] h # g /\ stage[h] = "current" -> "retired"
                        [] h # g /\ stage[h] # "current" -> stage[h]]

Swap(g) ==
  /\ stage[g] = "built"
  /\ stage' = Replaced(g)
  /\ UNCHANGED <<moment, breaker, lost, owner, gauge, visit>>

\* A later part of the build fails: the new pipeline is dropped unused.
Discard(g) ==
  /\ stage[g] = "built"
  /\ Promote(g, "retired")
  /\ UNCHANGED <<moment, breaker, lost, owner, gauge, visit>>

\* A reload to a configuration without the cluster.
RemoveCluster ==
  /\ \E g \in Versions : stage[g] = "current"
  /\ \A g \in Versions : stage[g] \notin {"claimed", "built"}
  /\ stage' = Replaced(0)
  /\ UNCHANGED <<moment, breaker, lost, owner, gauge, visit>>

\* Drop, once no request holds the pipeline: the entry is removed if it is
\* still this breaker's.
Drop(g) ==
  /\ stage[g] = "retired" /\ Users(g) = {}
  /\ Promote(g, IF owner = g THEN "clearing" ELSE "gone")
  /\ owner' = IF owner = g THEN 0 ELSE owner
  /\ UNCHANGED <<moment, breaker, lost, gauge, visit>>

\* if released { set_circuit_breaker_state(.., false) }
ClearGauge(g) ==
  /\ stage[g] = "clearing"
  /\ Promote(g, "gone")
  /\ gauge' = FALSE
  /\ UNCHANGED <<moment, breaker, lost, owner, visit>>

-----------------------------------------------------------------------------
(***************************************************************************)
(* Requests.                                                               *)
(***************************************************************************)

\* The request takes a reference to the current pipeline.
Arrive(c) ==
  /\ visit[c] = Out
  /\ \E g \in Versions :
       stage[g] = "current" /\ Proceed(c, [pc |-> "arrived", gen |-> g])
  /\ UNCHANGED <<moment, stage, breaker, lost, owner, gauge>>

\* try_acquire, record_success and record_failure begin: `before` is read.
\* on_request acquires, the second time round with the first token still in
\* the filter state; on_response takes the token out and chooses the outcome:
\* a failure for a server error or no header from an upstream that was
\* reached, a success for any other header.
Before(c) ==
  LET s == visit[c]
      call(kind, token) ==
        Proceed(c, [pc |-> "calling", gen |-> s.gen, kind |-> kind,
                    before |-> logical_open(s.gen), token |-> token])
  IN  /\ \/ s.pc = "arrived" /\ call("acquire", {})
         \/ /\ s.pc = "inflight" /\ CanLose
            /\ call("acquire", {s.token})
         \/ /\ s.pc = "inflight"
            /\ \E kind \in {"success", "failure"} : call(kind, {s.token})
      /\ UNCHANGED <<moment, stage, breaker, lost, owner, gauge>>

\* Mutant: a request that never reached the upstream keeps its slot.
ReleaseNothing(c) ==
  /\ visit[c].pc = "inflight"
  /\ Proceed(c, Out)
  /\ UNCHANGED <<moment, stage, breaker, lost, owner, gauge>>

\* on_response of a request that never reached the upstream.
ReleaseUnreached(c) ==
  /\ visit[c].pc = "inflight"
  /\ LET g == visit[c].gen
     IN  breaker' = [breaker EXCEPT ![g] = Core!ReleaseToken(breaker[g])]
  /\ Proceed(c, Out)
  /\ UNCHANGED <<moment, stage, lost, owner, gauge>>

\* The request ends without on_response of this filter: another response
\* filter rejected the response first, or a response condition was not met.
LeaveUnsettled(c) ==
  /\ visit[c].pc = "inflight"
  /\ CanLose
  /\ lost' = [lost EXCEPT ![visit[c].gen] = @ + 1]
  /\ Proceed(c, Out)
  /\ UNCHANGED <<moment, stage, breaker, owner, gauge>>

\* The core operation.  An admitted acquisition leaves with a new token, in
\* the place of the one an earlier pass left; a rejected one leaves that
\* token where it was, and a settling call leaves with none.
Operate(c) ==
  LET s == visit[c]
      b == breaker[s.gen]
      next == CASE s.kind = "acquire" -> Core!TryAcquire(b, moment)
                [] s.kind = "success" ->
                     Core!RecordSuccess(b, CHOOSE t \in s.token : TRUE)
                [] s.kind = "failure" ->
                     Core!RecordFailure(b, CHOOSE t \in s.token : TRUE, moment)
      granted == s.kind = "acquire" /\ Core!Admits(b, moment)
  IN  /\ s.pc = "calling"
      /\ breaker' = [breaker EXCEPT ![s.gen] = next]
      /\ lost' = IF granted /\ s.token # {}
                 THEN [lost EXCEPT ![s.gen] = @ + 1] ELSE lost
      /\ Proceed(c, [pc |-> "ran", gen |-> s.gen, before |-> s.before,
                     token |-> CASE granted -> {next.generation}
                                 [] s.kind = "acquire" /\ ~granted -> s.token
                                 [] s.kind # "acquire" -> {}])
      /\ UNCHANGED <<moment, stage, owner, gauge>>

\* The call returns: onwards with a token in the filter state (its own, or
\* after a rejected second pass the first one's, which on_response will find),
\* or (rejected with 503, or settled) out of the filter.
Returned(s) ==
  IF s.token = {} THEN Out
  ELSE [pc |-> "inflight", gen |-> s.gen, token |-> CHOOSE t \in s.token : TRUE]

\* `after` is read and compared with `before`.
After(c) ==
  LET s == visit[c]
  IN  /\ s.pc = "ran"
      /\ Proceed(c, IF s.before = logical_open(s.gen) THEN Returned(s)
                    ELSE [pc |-> "publish", gen |-> s.gen,
                          open |-> logical_open(s.gen), token |-> s.token])
      /\ UNCHANGED <<moment, stage, breaker, lost, owner, gauge>>

\* publish_open_gauge: it does not ask who owns the gauge.
Publish(c) ==
  /\ visit[c].pc = "publish"
  /\ gauge' = visit[c].open
  /\ Proceed(c, Returned(visit[c]))
  /\ UNCHANGED <<moment, stage, breaker, lost, owner>>

Pass ==
  /\ moment < MaxMoment
  /\ moment' = moment + 1
  /\ UNCHANGED <<stage, breaker, lost, owner, gauge, visit>>

\* The bounds are reached: every breaker has been built and dropped.
Spent ==
  /\ \A g \in Versions : stage[g] = "gone"
  /\ moment = MaxMoment
  /\ UNCHANGED filterVars

FilterNext ==
  \/ \E g \in Versions : \/ ClaimGauge(g) \/ Seed(g) \/ Swap(g) \/ Discard(g)
                            \/ Drop(g) \/ ClearGauge(g)
  \/ RemoveCluster
  \/ \E c \in Callers : \/ Arrive(c) \/ Before(c) \/ Operate(c) \/ After(c)
                        \/ Publish(c) \/ ReleaseUnreached(c) \/ LeaveUnsettled(c)
  \/ Pass
  \/ Spent

FilterSpec == FilterInit /\ [][FilterNext]_filterVars

-----------------------------------------------------------------------------
(***************************************************************************)
(* Properties.                                                             *)
(***************************************************************************)

\* The variables keep their types.
FilterTypeOK ==
  /\ moment \in 0..MaxMoment
  /\ stage \in [Versions -> Alive \cup {"unborn", "clearing", "gone"}]
  /\ breaker \in [Versions -> Core!Inner]
  /\ owner \in 0..Builds
  /\ gauge \in BOOLEAN
  /\ lost \in [Versions -> Nat]
  /\ visit \in [Callers -> CallStates]

\* Across reloads every token is settled at most once and at the breaker that
\* issued it: a breaker counts exactly the requests that still owe it a
\* settlement and the tokens that no on_response ever met (on_request,
\* on_response, ActiveCircuitToken).
TokensAtIssuer ==
  \A g \in Versions : breaker[g].in_flight = Cardinality(Owing(g)) + lost[g]

\* The owner map never names a breaker that is gone, which no later drop
\* could then remove (new, Drop for InstrumentedCircuitBreaker).
OwnerLives == owner # 0 => stage[owner] \in Alive

\* Every token is settled where it was issued or accounted for as lost, and
\* the gauge's owner lives (InstrumentedCircuitBreaker, on_response).
FilterSound == FilterTypeOK /\ TokensAtIssuer /\ OwnerLives

\* "clear the gauge so removed clusters do not leave a stale open=1 series
\* behind" (Drop for InstrumentedCircuitBreaker): with every breaker of the
\* cluster gone the gauge reads 0.
NoStaleSeries ==
  (\A g \in Versions : stage[g] \in {"unborn", "gone"}) => ~gauge
=============================================================================
