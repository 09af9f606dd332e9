--------------------------- MODULE CircuitBreaker ---------------------------
(***************************************************************************)
(* The per-peer circuit breakers of crates/core/src/circuit.rs: the state  *)
(* machine Closed -> Open -> HalfOpen with its generation-bearing tokens,  *)
(* the registry that creates breakers on first use, and the idle sweep     *)
(* that evicts them, driven by concurrent clients that peek, acquire a     *)
(* token, and later record its outcome or release it.                      *)
(*                                                                         *)
(* Granularity.  One action is one critical section of a breaker's mutex.  *)
(* try_acquire and record_failure read the clock BEFORE they take the      *)
(* mutex, so each is two actions: the first holds the registry's shard     *)
(* read lock and a timestamp, the second uses that timestamp, by then      *)
(* possibly in the past.  A writer of the shard (insertion by entry(),     *)
(* remove_if) waits for the readers of that peer.                          *)
(***************************************************************************)
EXTENDS Naturals, FiniteSets

CONSTANTS Peers,            \* PeerKey values
          Clients,          \* tasks that issue sub-requests
          Threshold,        \* CircuitBreakerConfig.threshold
          RecoveryWindow,   \* CircuitBreakerConfig.recovery_window
          HalfOpenTimeout,  \* CircuitBreakerConfig.half_open_timeout
          IdleThreshold,    \* argument of evict_idle
          MaxClock          \* bound on time

ASSUME CircuitConfig ==
  /\ Threshold \in Nat \ {0}
  /\ RecoveryWindow \in Nat
  /\ HalfOpenTimeout \in Nat
  /\ IdleThreshold \in Nat
  /\ MaxClock \in Nat
  /\ IsFiniteSet(Clients)

VARIABLES clock,     \* Instant::now()
          breakers,  \* the DashMap: breakers[p] is what the entry of p holds
          present,   \* the peers that have an entry
          client,    \* what each client is doing
          sweep,     \* progress of evict_idle
          barred,    \* history: end of the last recovery window of each peer
          outdated   \* history: clients whose token was outstanding when the
                     \* peer's breaker last opened or last issued a probe

history == <<barred, outdated>>
vars == <<clock, breakers, present, client, sweep, history>>

Instants == 0..MaxClock
States == {"Closed", "Open", "HalfOpen"}

\* An Option<Instant> is a set of at most one instant.
Some(t) == {t}
Nothing == {}

\* struct CircuitInner, without the lock-free mirror of its state: every
\* critical section that changes the state stores the mirror before it ends.
Inner == [state : States, generation : Nat, consecutive_failures : Nat,
          opened_at : SUBSET Instants, half_opened_at : SUBSET Instants,
          last_activity : Instants, in_flight : Nat]

\* CircuitBreaker::new
New(now) == [state |-> "Closed", generation |-> 0, consecutive_failures |-> 0,
             opened_at |-> Nothing, half_opened_at |-> Nothing,
             last_activity |-> now, in_flight |-> 0]

\* instant.is_some_and(|t| now.duration_since(t) >= d); duration_since
\* saturates at zero when t is later than now.
Elapsed(instant, now, d) ==
  \E t \in instant : (IF now >= t THEN now - t ELSE 0) >= d

-----------------------------------------------------------------------------
(***************************************************************************)
(* The breaker's critical sections, as functions from its state to the     *)
(* next one.                                                               *)
(***************************************************************************)

IssueToken(b, now) == [b EXCEPT !.in_flight = @ + 1, !.last_activity = now]

\* saturating_sub
ReleaseToken(b) == [b EXCEPT !.in_flight = IF @ = 0 THEN 0 ELSE @ - 1]

\* Mutant: the probe keeps the generation of the tokens before it.
TransitionWithoutBump(b, now) ==
  IssueToken([b EXCEPT !.state = "HalfOpen", !.half_opened_at = Some(now)], now)

\* Mutant: half_opened_at holds the probe's deadline instead of its start.
TransitionStoresDeadline(b, now) ==
  IssueToken([b EXCEPT !.generation = @ + 1, !.state = "HalfOpen",
                       !.half_opened_at = Some(now + HalfOpenTimeout)], now)

TransitionToHalfOpen(b, now) ==
  IssueToken([b EXCEPT !.generation = @ + 1, !.state = "HalfOpen",
                       !.half_opened_at = Some(now)], now)

\* Whether try_acquire issues a token: at once when Closed, as the probe of
\* an elapsed recovery window, or as the successor of a timed-out probe.
Admits(b, now) ==
  \/ b.state = "Closed"
  \/ b.state = "Open" /\ Elapsed(b.opened_at, now, RecoveryWindow)
  \/ b.state = "HalfOpen" /\ Elapsed(b.half_opened_at, now, HalfOpenTimeout)

\* CircuitBreaker::try_acquire.  A rejection still refreshes last_activity.
TryAcquire(b, now) ==
  LET touched == [b EXCEPT !.last_activity = now]
  IN  IF ~Admits(b, now) THEN touched
      ELSE IF b.state = "Closed" THEN IssueToken(touched, now)
      ELSE TransitionToHalfOpen(touched, now)

\* Mutant: a success closes the breaker whatever its generation.
SuccessOfAnyGeneration(b, token) ==
  [ReleaseToken(b) EXCEPT !.last_activity = clock, !.state = "Closed",
     !.consecutive_failures = 0, !.opened_at = Nothing, !.half_opened_at = Nothing]

RecordSuccess(b, token) ==
  LET freed == ReleaseToken(b)
      seen  == [freed EXCEPT !.last_activity = clock]
  IN  CASE token # b.generation -> freed
        [] token = b.generation /\ b.state = "Closed" ->
             [seen EXCEPT !.consecutive_failures = 0]
        [] token = b.generation /\ b.state = "HalfOpen" ->
             [seen EXCEPT !.state = "Closed", !.consecutive_failures = 0,
                          !.opened_at = Nothing, !.half_opened_at = Nothing]
        [] token = b.generation /\ b.state = "Open" -> seen

RecordFailure(b, token, now) ==
  LET freed  == ReleaseToken(b)
      seen   == [freed EXCEPT !.last_activity = now]
      failed == [seen EXCEPT !.consecutive_failures = @ + 1]
  IN  CASE token # b.generation -> freed
        [] token = b.generation /\ b.state = "Closed" ->
             IF failed.consecutive_failures >= Threshold
               THEN [failed EXCEPT !.state = "Open", !.opened_at = Some(now)]
               ELSE failed
        [] token = b.generation /\ b.state = "HalfOpen" ->
             [seen EXCEPT !.state = "Open", !.opened_at = Some(now),
                          !.half_opened_at = Nothing]
        [] token = b.generation /\ b.state = "Open" -> seen

\* Mutant: idleness is judged without the recovery-window exemption.
IdleWithoutExemption(b) ==
  b.in_flight = 0 /\ clock - b.last_activity >= IdleThreshold

\* CircuitBreaker::is_idle
IsIdle(b) ==
  /\ b.in_flight = 0
  /\ ~(b.state = "Open" /\ \E t \in b.opened_at : clock - t < RecoveryWindow)
  /\ clock - b.last_activity >= IdleThreshold

-----------------------------------------------------------------------------
(***************************************************************************)
(* Clients.                                                                *)
(***************************************************************************)

Idle == [pc |-> "idle"]
Requesting == {"admitted", "missing"}   \* chosen a peer, no lock held
Stamped == {"acquiring", "failing"}     \* shard read lock and a timestamp
Holding == {"inflight", "failing"}      \* a token is outstanding

ClientStates ==
  {Idle} \cup [pc : Requesting, peer : Peers]
         \cup [pc : {"acquiring"}, peer : Peers, now : Instants]
         \cup [pc : {"inflight"}, peer : Peers, token : Nat]
         \cup [pc : {"failing"}, peer : Peers, token : Nat, now : Instants]

Holders(p) == {c \in Clients : client[c].pc \in Holding /\ client[c].peer = p}
Readers(p) == {c \in Clients : client[c].pc \in Stamped /\ client[c].peer = p}

Init ==
  /\ clock = 0
  /\ breakers = [p \in Peers |-> New(0)]
  /\ present = {}
  /\ client = [c \in Clients |-> Idle]
  /\ sweep = [pc |-> "collect", visited |-> {}, candidates |-> {}]
  /\ barred = [p \in Peers |-> 0]
  /\ outdated = {}

Become(c, s) == client' = [client EXCEPT ![c] = s]

\* A new breaker state for p, and nothing else of the registry.
Store(p, b) ==
  /\ breakers' = [breakers EXCEPT ![p] = b]
  /\ UNCHANGED <<clock, sweep>>

\* CircuitBreakerRegistry::precheck, a peek that bars nobody from asking
\* again: a request it turns away leaves no trace.
Precheck(c, p) ==
  /\ client[c] = Idle
  /\ p \in present => Admits(breakers[p], clock)
  /\ Become(c, [pc |-> "admitted", peer |-> p])
  /\ UNCHANGED <<clock, breakers, present, sweep, history>>

\* CircuitBreakerRegistry::try_acquire up to the breaker's mutex: the read
\* lock is taken and the clock is read, or there is no breaker yet.
Lookup(c) ==
  /\ client[c].pc = "admitted"
  /\ LET p == client[c].peer
     IN  Become(c, IF p \in present
                     THEN [pc |-> "acquiring", peer |-> p, now |-> clock]
                     ELSE [pc |-> "missing", peer |-> p])
  /\ UNCHANGED <<clock, breakers, present, sweep, history>>

\* The critical section of try_acquire for the breaker state b of p.
Acquire(c, p, b, now) ==
  LET next == TryAcquire(b, now)
  IN  /\ Store(p, next)
      /\ Become(c, IF Admits(b, now)
                     THEN [pc |-> "inflight", peer |-> p,
                           token |-> next.generation]
                     ELSE Idle)
      /\ outdated' = IF Admits(b, now) /\ b.state # "Closed"
                       THEN outdated \cup Holders(p) ELSE outdated
      /\ UNCHANGED barred

\* try_acquire on a breaker the lookup found.
AcquireExisting(c) ==
  /\ client[c].pc = "acquiring"
  /\ Acquire(c, client[c].peer, breakers[client[c].peer], client[c].now)
  /\ UNCHANGED present

\* entry().or_insert_with(new).try_acquire(), under the shard's write lock;
\* another client may have inserted the breaker since the lookup.
AcquireEntry(c) ==
  /\ client[c].pc = "missing"
  /\ LET p == client[c].peer
     IN  /\ Readers(p) = {}
         /\ Acquire(c, p, IF p \in present THEN breakers[p] ELSE New(clock), clock)
         /\ present' = present \cup {p}

\* The client's token is consumed, turning p's breaker into b; an outcome
\* for a breaker that is gone is dropped.
Settle(c, p, b) ==
  /\ IF p \in present THEN Store(p, b) ELSE UNCHANGED <<clock, breakers, sweep>>
  /\ Become(c, Idle)
  /\ UNCHANGED present

Succeed(c) ==
  /\ client[c].pc = "inflight"
  /\ LET p == client[c].peer
     IN  Settle(c, p, RecordSuccess(breakers[p], client[c].token))
  /\ outdated' = outdated \ {c}
  /\ UNCHANGED barred

\* CircuitBreaker::release: the exchange never reached the peer.
Release(c) ==
  /\ client[c].pc = "inflight"
  /\ LET p == client[c].peer IN Settle(c, p, ReleaseToken(breakers[p]))
  /\ outdated' = outdated \ {c}
  /\ UNCHANGED barred

\* record_failure reads the clock, then waits for the mutex.
Fail(c) ==
  /\ client[c].pc = "inflight"
  /\ LET p == client[c].peer
     IN  IF p \in present
           THEN /\ Become(c, [pc |-> "failing", peer |-> p,
                              token |-> client[c].token, now |-> clock])
                /\ UNCHANGED outdated
           ELSE Become(c, Idle) /\ outdated' = outdated \ {c}
  /\ UNCHANGED <<clock, breakers, present, sweep, barred>>

FailLocked(c) ==
  /\ client[c].pc = "failing"
  /\ LET p     == client[c].peer
         now   == client[c].now
         next  == RecordFailure(breakers[p], client[c].token, now)
         trips == breakers[p].state # "Open" /\ next.state = "Open"
     IN  /\ Settle(c, p, next)
         /\ barred' = IF trips THEN [barred EXCEPT ![p] = now + RecoveryWindow]
                      ELSE barred
         /\ outdated' = IF trips THEN (outdated \cup Holders(p)) \ {c}
                        ELSE outdated \ {c}

-----------------------------------------------------------------------------
(***************************************************************************)
(* CircuitBreakerRegistry::evict_idle: collect the idle entries, then      *)
(* remove each one that is still idle, re-checked under the write lock.    *)
(***************************************************************************)

Collect(p) ==
  /\ sweep.pc = "collect" /\ p \notin sweep.visited
  /\ sweep' = [sweep EXCEPT !.visited = @ \cup {p},
                 !.candidates = IF p \in present /\ IsIdle(breakers[p])
                                  THEN @ \cup {p} ELSE @,
                 !.pc = IF sweep.visited \cup {p} = Peers
                          THEN "remove" ELSE @]
  /\ UNCHANGED <<clock, breakers, present, client, history>>

\* Mutant: the sweep trusts the candidates it collected.
RemovableUnchecked(p) == p \in present

\* remove_if's predicate
Removable(p) == p \in present /\ IsIdle(breakers[p])

RemoveIf(p) ==
  /\ sweep.pc = "remove" /\ p \in sweep.candidates
  /\ Readers(p) = {}
  /\ IF Removable(p)
       THEN /\ present' = present \ {p}
            /\ breakers' = [breakers EXCEPT ![p] = New(0)]  \* a blank
       ELSE UNCHANGED <<present, breakers>>
  /\ sweep' = [sweep EXCEPT !.candidates = @ \ {p}]
  /\ UNCHANGED <<clock, client, history>>

SweepEnd ==
  /\ sweep.pc = "remove" /\ sweep.candidates = {}
  /\ sweep' = [pc |-> "collect", visited |-> {}, candidates |-> {}]
  /\ UNCHANGED <<clock, breakers, present, client, history>>

Tick ==
  /\ clock < MaxClock
  /\ clock' = clock + 1
  /\ UNCHANGED <<breakers, present, client, sweep, history>>

ClientStep(c) ==
  \/ \E p \in Peers : Precheck(c, p)
  \/ Lookup(c) \/ AcquireExisting(c) \/ AcquireEntry(c)
  \/ Succeed(c) \/ Release(c) \/ Fail(c) \/ FailLocked(c)

Next ==
  \/ \E c \in Clients : ClientStep(c)
  \/ \E p \in Peers : Collect(p) \/ RemoveIf(p)
  \/ SweepEnd
  \/ Tick

Spec == Init /\ [][Next]_vars

-----------------------------------------------------------------------------
(***************************************************************************)
(* Properties.                                                             *)
(***************************************************************************)

\* The variables keep their types (circuit.rs, struct CircuitInner).
TypeOK ==
  /\ clock \in Instants
  /\ breakers \in [Peers -> Inner]
  /\ present \in SUBSET Peers
  /\ client \in [Clients -> ClientStates]
  /\ sweep \in [pc : {"collect", "remove"}, visited : SUBSET Peers,
                candidates : SUBSET Peers]
  /\ barred \in [Peers -> Nat]
  /\ outdated \in SUBSET Clients

\* in_flight counts exactly the outstanding tokens of the peer, through
\* timeouts, stale generations, eviction and re-creation: a slot is neither
\* leaked (the breaker would never be evicted) nor released by a request of
\* an evicted breaker, whose outcome would be lost.  A peer without an entry
\* has no outstanding token (release_token, remove_if in evict_idle).
SlotsMatchTokens ==
  \A p \in Peers :
    /\ breakers[p].in_flight = Cardinality(Holders(p))
    /\ p \notin present => Holders(p) = {}

\* While a breaker is half-open at most one outstanding token can change it:
\* the probe's.  Tokens of earlier generations, abandoned probes included,
\* are stale (try_reset_stale_probe bumps the generation).
SingleProbe ==
  \A p \in Peers : \A c, d \in Holders(p) :
    /\ breakers[p].state = "HalfOpen"
    /\ client[c].token = breakers[p].generation
    /\ client[d].token = breakers[p].generation
    => c = d

\* Between the failure that opened a breaker and the end of the recovery
\* window counted from it, no request to that peer gets a token: not through
\* a late success, nor a stale timestamp, nor because an idle sweep evicted
\* the open breaker and a fresh Closed one took its place (is_idle).
WindowHonoured ==
  [][\A c \in Clients :
       client[c].pc \in {"acquiring", "missing"} /\ client'[c].pc = "inflight"
         => clock >= barred[client[c].peer]]_vars

\* A request that was already in flight when its peer's breaker last opened,
\* or last handed out a probe, is no evidence about the peer's recovery: its
\* outcome, however late, neither closes nor re-opens the breaker, nor moves
\* its failure streak or timestamps (the generation checks of record_success
\* and record_failure, and their arms for Open).
Verdict(b) == <<b.state, b.consecutive_failures, b.opened_at, b.half_opened_at>>
OutdatedOutcomesIgnored ==
  [][\A c \in outdated :
       client[c] # client'[c]
         => Verdict(breakers'[client[c].peer]) = Verdict(breakers[client[c].peer])]_vars
=============================================================================
