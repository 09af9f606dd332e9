------------------------ MODULE CircuitBreakerProofs ------------------------
(***************************************************************************)
(* Proofs about the circuit breakers, for every set of peers, every finite *)
(* set of clients and every configuration, and about the circuit_breaker   *)
(* filter, for every number of generations and every finite set of         *)
(* requests; and about the sub-request client that the breakers guard, for *)
(* every number of tasks, peers and permits.                               *)
(***************************************************************************)
EXTENDS CircuitBreaker, CircuitFilter, SubRequest, Counting

-----------------------------------------------------------------------------
(***************************************************************************)
(* The breaker's critical sections keep its type.                          *)
(***************************************************************************)

\* CircuitBreaker::new builds a well-formed breaker.
LEMMA NewType == ASSUME NEW now \in Instants PROVE New(now) \in Inner
BY DEF New, Inner, States, Nothing

\* Refreshing the idle clock keeps a breaker well formed.
LEMMA Retouched ==
  ASSUME NEW b \in Inner, NEW now \in Instants
  PROVE  [b EXCEPT !.last_activity = now] \in Inner
BY DEF Inner

\* A token is issued by a well-formed breaker.
LEMMA IssueTokenType ==
  ASSUME NEW b \in Inner, NEW now \in Instants
  PROVE  IssueToken(b, now) \in Inner
<1> DEFINE n == b.in_flight + 1
<1>1. n \in Nat
  BY DEF Inner
<1> HIDE DEF n
<1>2. [b EXCEPT !.in_flight = n, !.last_activity = now] \in Inner
  BY <1>1 DEF Inner
<1> QED
  BY <1>2 DEF IssueToken, n

\* try_acquire maps a breaker to a breaker.
LEMMA TryAcquireType ==
  ASSUME NEW b \in Inner, NEW now \in Instants
  PROVE  TryAcquire(b, now) \in Inner
<1> DEFINE touched == [b EXCEPT !.last_activity = now]
           probed == [touched EXCEPT !.generation = @ + 1, !.state = "HalfOpen",
                                     !.half_opened_at = Some(now)]
<1>1. touched \in Inner
  BY Retouched
<1> DEFINE g == touched.generation + 1
<1> HIDE DEF touched
<1>2. g \in Nat
  BY <1>1 DEF Inner
<1> HIDE DEF g
<1>3. [touched EXCEPT !.generation = g, !.state = "HalfOpen",
                      !.half_opened_at = Some(now)] \in Inner
  BY <1>1, <1>2 DEF Inner, States, Some
<1>4. probed \in Inner
  BY <1>3 DEF g
<1> QED
  BY <1>1, <1>4, IssueTokenType
  DEF TryAcquire, TransitionToHalfOpen, touched

\* Releasing a slot maps a breaker to a breaker.
LEMMA ReleaseTokenType == ASSUME NEW b \in Inner PROVE ReleaseToken(b) \in Inner
BY DEF ReleaseToken, Inner

\* record_success maps a breaker to a breaker.
LEMMA RecordSuccessType ==
  ASSUME NEW b \in Inner, NEW token \in Nat, clock \in Instants
  PROVE  RecordSuccess(b, token) \in Inner
<1>1. b.state \in States
  BY DEF Inner
<1>2. ReleaseToken(b) \in Inner /\ ReleaseToken(b).state = b.state
  BY ReleaseTokenType DEF Inner, ReleaseToken
<1> QED
  BY <1>1, <1>2 DEF RecordSuccess, Inner, States, Nothing

\* record_failure maps a breaker to a breaker.
LEMMA RecordFailureType ==
  ASSUME NEW b \in Inner, NEW token \in Nat, NEW now \in Instants
  PROVE  RecordFailure(b, token, now) \in Inner
<1> DEFINE seen == [ReleaseToken(b) EXCEPT !.last_activity = now]
           failed == [seen EXCEPT !.consecutive_failures = @ + 1]
<1>1. b.state \in States
  BY DEF Inner
<1>2. ReleaseToken(b) \in Inner
  BY ReleaseTokenType
<1>3. seen \in Inner
  BY <1>2, Retouched
<1> DEFINE n == seen.consecutive_failures + 1
<1> HIDE DEF seen
<1>4. failed \in Inner
  <2>1. n \in Nat
    BY <1>3 DEF Inner
  <2> HIDE DEF n
  <2>2. [seen EXCEPT !.consecutive_failures = n] \in Inner
    BY <1>3, <2>1 DEF Inner
  <2> QED
    BY <2>2 DEF n
<1>5. [failed EXCEPT !.state = "Open", !.opened_at = Some(now)] \in Inner
  BY <1>4 DEF Inner, States, Some
<1>6. [seen EXCEPT !.state = "Open", !.opened_at = Some(now),
                   !.half_opened_at = Nothing] \in Inner
  BY <1>3 DEF Inner, States, Some, Nothing
<1> QED
  BY <1>1, <1>2, <1>3, <1>4, <1>5, <1>6, Zenon DEF RecordFailure, States, seen

\* What a client's program counter says of the other fields of its state.
LEMMA ClientFields ==
  ASSUME TypeOK, NEW c \in Clients
  PROVE  /\ client[c].pc \in Requesting => client[c].peer \in Peers
         /\ client[c].pc \in Stamped =>
              client[c].peer \in Peers /\ client[c].now \in Instants
         /\ client[c].pc \in Holding =>
              client[c].peer \in Peers /\ client[c].token \in Nat
BY DEF TypeOK, ClientStates, Idle, Requesting, Stamped, Holding

-----------------------------------------------------------------------------

\* The variables keep their types in every step of every client, of the
\* sweep and of the clock.
THEOREM TypeCorrect == Spec => []TypeOK
<1>1. Init => TypeOK
  BY CircuitConfig, NewType DEF Init, TypeOK, Instants, ClientStates
<1>2. TypeOK /\ [Next]_vars => TypeOK'
  <2> SUFFICES ASSUME TypeOK, [Next]_vars PROVE TypeOK'
    OBVIOUS
  <2> USE CircuitConfig
  <2>1. ASSUME NEW c \in Clients, NEW p \in Peers, Precheck(c, p) PROVE TypeOK'
    BY <2>1 DEF Precheck, Become, TypeOK, ClientStates, Requesting, history
  <2>2. ASSUME NEW c \in Clients, Lookup(c) PROVE TypeOK'
    BY <2>2, ClientFields
    DEF Lookup, Become, TypeOK, ClientStates, Requesting, history
  <2>3. ASSUME NEW c \in Clients, AcquireExisting(c) PROVE TypeOK'
    <3> DEFINE p == client[c].peer
               now == client[c].now
               next == TryAcquire(breakers[p], now)
    <3>1. p \in Peers /\ now \in Instants
      BY <2>3, ClientFields DEF AcquireExisting, Stamped
    <3>2. next \in Inner
      BY <3>1, TryAcquireType DEF TypeOK
    <3>3. next.generation \in Nat
      BY <3>2 DEF Inner
    <3> QED
      BY <2>3, <3>1, <3>2, <3>3
      DEF AcquireExisting, Acquire, Store, Become, TypeOK, ClientStates, Holders
  <2>4. ASSUME NEW c \in Clients, AcquireEntry(c) PROVE TypeOK'
    <3> DEFINE p == client[c].peer
               b == IF p \in present THEN breakers[p] ELSE New(clock)
               next == TryAcquire(b, clock)
    <3>1. p \in Peers
      BY <2>4, ClientFields DEF AcquireEntry, Requesting
    <3>2. b \in Inner
      BY <3>1, NewType DEF TypeOK
    <3>3. next \in Inner
      BY <3>2, TryAcquireType DEF TypeOK
    <3>4. next.generation \in Nat
      BY <3>3 DEF Inner
    <3> QED
      BY <2>4, <3>1, <3>3, <3>4
      DEF AcquireEntry, Acquire, Store, Become, TypeOK, ClientStates, Holders
  <2>5. ASSUME NEW c \in Clients, Succeed(c) PROVE TypeOK'
    <3>1. client[c].peer \in Peers /\ client[c].token \in Nat
      BY <2>5, ClientFields DEF Succeed, Holding
    <3>2. RecordSuccess(breakers[client[c].peer], client[c].token) \in Inner
      BY <3>1, RecordSuccessType DEF TypeOK
    <3> QED
      BY <2>5, <3>1, <3>2
      DEF Succeed, Settle, Store, Become, TypeOK, ClientStates, Idle
  <2>6. ASSUME NEW c \in Clients, Release(c) PROVE TypeOK'
    <3>1. client[c].peer \in Peers
      BY <2>6, ClientFields DEF Release, Holding
    <3>2. ReleaseToken(breakers[client[c].peer]) \in Inner
      BY <3>1, ReleaseTokenType DEF TypeOK
    <3> QED
      BY <2>6, <3>1, <3>2
      DEF Release, Settle, Store, Become, TypeOK, ClientStates, Idle
  <2>7. ASSUME NEW c \in Clients, Fail(c) PROVE TypeOK'
    <3>1. client[c].peer \in Peers /\ client[c].token \in Nat
      BY <2>7, ClientFields DEF Fail, Holding
    <3> QED
      BY <2>7, <3>1 DEF Fail, Become, TypeOK, ClientStates, Idle
  <2>8. ASSUME NEW c \in Clients, FailLocked(c) PROVE TypeOK'
    <3> DEFINE p == client[c].peer
               now == client[c].now
               next == RecordFailure(breakers[p], client[c].token, now)
    <3>1. p \in Peers /\ now \in Instants /\ client[c].token \in Nat
      BY <2>8, ClientFields DEF FailLocked, Holding, Stamped
    <3>2. next \in Inner
      BY <3>1, RecordFailureType DEF TypeOK
    <3>3. now + RecoveryWindow \in Nat
      BY <3>1 DEF Instants
    <3> HIDE DEF next
    <3>4. barred' \in [Peers -> Nat] /\ outdated' \in SUBSET Clients
      BY <2>8, <3>1, <3>3 DEF FailLocked, TypeOK, Holders, next
    <3> QED
      BY <2>8, <3>1, <3>2, <3>4
      DEF FailLocked, Settle, Store, Become, TypeOK, ClientStates, Idle, next
  <2>9. ASSUME NEW p \in Peers, Collect(p) PROVE TypeOK'
    BY <2>9 DEF Collect, TypeOK, history
  <2>10. ASSUME NEW p \in Peers, RemoveIf(p) PROVE TypeOK'
    <3>1. New(0) \in Inner
      BY NewType DEF Instants
    <3> QED
      BY <2>10, <3>1 DEF RemoveIf, TypeOK, history
  <2>11. ASSUME SweepEnd PROVE TypeOK'
    BY <2>11 DEF SweepEnd, TypeOK, history
  <2>12. ASSUME Tick PROVE TypeOK'
    BY <2>12 DEF Tick, TypeOK, Instants, history
  <2>13. ASSUME UNCHANGED vars PROVE TypeOK'
    BY <2>13 DEF vars, history, TypeOK
  <2> QED
    BY <2>1, <2>2, <2>3, <2>4, <2>5, <2>6, <2>7, <2>8, <2>9, <2>10, <2>11,
       <2>12, <2>13
    DEF Next, ClientStep
<1> QED
  BY <1>1, <1>2, PTL DEF Spec

-----------------------------------------------------------------------------
(***************************************************************************)
(* Slots: in_flight against the set of clients that hold a token.          *)
(***************************************************************************)

\* try_acquire takes a slot exactly when it admits.
LEMMA TryAcquireSlot ==
  ASSUME NEW b \in Inner, NEW now \in Instants
  PROVE  TryAcquire(b, now).in_flight =
           IF Admits(b, now) THEN b.in_flight + 1 ELSE b.in_flight
BY DEF TryAcquire, TransitionToHalfOpen, IssueToken, Inner

\* Recording an outcome, or releasing, returns one slot.
LEMMA SettledSlot ==
  ASSUME NEW b \in Inner, NEW token \in Nat, NEW now \in Instants
  PROVE  /\ RecordSuccess(b, token).in_flight = ReleaseToken(b).in_flight
         /\ RecordFailure(b, token, now).in_flight = ReleaseToken(b).in_flight
         /\ b.in_flight > 0 => ReleaseToken(b).in_flight = b.in_flight - 1
<1>1. b.state \in States /\ b.in_flight \in Nat
  BY DEF Inner
<1>2. ReleaseToken(b) \in Inner
  BY ReleaseTokenType
<1>3. RecordSuccess(b, token).in_flight = ReleaseToken(b).in_flight
  BY <1>1, <1>2 DEF RecordSuccess, States, Inner
<1>4. RecordFailure(b, token, now).in_flight = ReleaseToken(b).in_flight
  BY <1>1, <1>2 DEF RecordFailure, States, Inner
<1>5. b.in_flight > 0 => ReleaseToken(b).in_flight = b.in_flight - 1
  BY <1>1 DEF ReleaseToken, Inner
<1> QED
  BY <1>3, <1>4, <1>5

\* The holders of each peer are finitely many.
LEMMA HoldersFinite == \A p \in Peers : IsFiniteSet(Holders(p))
BY CircuitConfig, FS_Subset DEF Holders

\* A client that gets a token joins the holders of its peer.
LEMMA HoldersGain ==
  ASSUME TypeOK, NEW c \in Clients, NEW p \in Peers, NEW s,
         client' = [client EXCEPT ![c] = s],
         client[c].pc \notin Holding, s.pc \in Holding, s.peer = p
  PROVE  /\ c \notin Holders(p)
         /\ \A q \in Peers :
              Holders(q)' = IF q = p THEN Holders(q) \cup {c} ELSE Holders(q)
<1>1. client'[c] = s /\ \A d \in Clients : d # c => client'[d] = client[d]
  BY DEF TypeOK
<1> QED
  BY <1>1 DEF Holders

\* A client that settles its token leaves them.
LEMMA HoldersLose ==
  ASSUME TypeOK, NEW c \in Clients, NEW p \in Peers, NEW s,
         client' = [client EXCEPT ![c] = s],
         client[c].pc \in Holding, client[c].peer = p, s.pc \notin Holding
  PROVE  /\ c \in Holders(p)
         /\ \A q \in Peers :
              Holders(q)' = IF q = p THEN Holders(q) \ {c} ELSE Holders(q)
<1>1. client'[c] = s /\ \A d \in Clients : d # c => client'[d] = client[d]
  BY DEF TypeOK
<1> QED
  BY <1>1 DEF Holders

\* Every other step of a client leaves the holders alone.
LEMMA HoldersKeep ==
  ASSUME TypeOK, NEW c \in Clients, NEW s,
         client' = [client EXCEPT ![c] = s],
         client[c].pc \in Holding <=> s.pc \in Holding,
         s.pc \in Holding => s.peer = client[c].peer
  PROVE  \A q \in Peers : Holders(q)' = Holders(q)
<1>1. client'[c] = s /\ \A d \in Clients : d # c => client'[d] = client[d]
  BY DEF TypeOK
<1> QED
  BY <1>1 DEF Holders

-----------------------------------------------------------------------------
\* A client with the shard's read lock keeps the entry from being removed.
ReadersPresent ==
  \A c \in Clients : client[c].pc \in Stamped => client[c].peer \in present

\* The inductive invariant for the slots.
SlotInv == TypeOK /\ ReadersPresent /\ SlotsMatchTokens

\* A step in which the holders, the slots and the entries stay as they are
\* keeps the count.
LEMMA SlotsUntouched ==
  ASSUME SlotsMatchTokens, present' = present,
         \A q \in Peers : Holders(q)' = Holders(q),
         \A q \in Peers : breakers'[q].in_flight = breakers[q].in_flight
  PROVE  SlotsMatchTokens'
BY DEF SlotsMatchTokens

\* try_acquire on the breaker b of p, which the entry of p holds or which is
\* new, takes a slot exactly when c gets a token.
LEMMA AcquireKeepsSlots ==
  ASSUME SlotInv, NEW c \in Clients, NEW p \in Peers, NEW b \in Inner,
         NEW now \in Instants,
         b.in_flight = Cardinality(Holders(p)),
         client[c].pc \notin Holding,
         Acquire(c, p, b, now),
         present' = present \cup {p}
  PROVE  SlotsMatchTokens'
<1> DEFINE next == TryAcquire(b, now)
<1>1. breakers' = [breakers EXCEPT ![p] = next] /\ breakers \in [Peers -> Inner]
  BY DEF Acquire, Store, SlotInv, TypeOK
<1>2. breakers'[p] = next /\ \A q \in Peers : q # p => breakers'[q] = breakers[q]
  BY <1>1
<1>3. TypeOK /\ SlotsMatchTokens
  BY DEF SlotInv
<1>4. next.in_flight = IF Admits(b, now) THEN b.in_flight + 1 ELSE b.in_flight
  BY TryAcquireSlot
<1> HIDE DEF next
<1>5. CASE Admits(b, now)
  <2> DEFINE s == [pc |-> "inflight", peer |-> p, token |-> next.generation]
  <2>1. client' = [client EXCEPT ![c] = s]
    BY <1>5 DEF Acquire, Become, next
  <2>2. s.pc \in Holding /\ s.peer = p
    BY DEF Holding
  <2> HIDE DEF s
  <2>3. /\ c \notin Holders(p)
        /\ \A q \in Peers :
             Holders(q)' = IF q = p THEN Holders(q) \cup {c} ELSE Holders(q)
    BY <1>3, <2>1, <2>2, HoldersGain
  <2>4. Cardinality(Holders(p) \cup {c}) = Cardinality(Holders(p)) + 1
    BY <2>3, HoldersFinite, FS_AddElement
  <2> QED
    BY <1>2, <1>3, <1>4, <1>5, <2>3, <2>4 DEF SlotsMatchTokens
<1>6. CASE ~Admits(b, now)
  <2>1. client' = [client EXCEPT ![c] = Idle]
    BY <1>6 DEF Acquire, Become
  <2>2. Idle.pc \notin Holding
    BY DEF Idle, Holding
  <2>3. \A q \in Peers : Holders(q)' = Holders(q)
    BY <1>3, <2>1, <2>2, HoldersKeep
  <2> QED
    BY <1>2, <1>3, <1>4, <1>6, <2>3 DEF SlotsMatchTokens
<1> QED
  BY <1>5, <1>6

\* A token of p that c settles gives back the slot it took.
LEMMA SettleKeepsSlots ==
  ASSUME SlotInv, NEW c \in Clients, NEW p \in Peers, NEW b \in Inner,
         client[c].pc \in Holding, client[c].peer = p,
         breakers[p].in_flight > 0 => b.in_flight = breakers[p].in_flight - 1,
         Settle(c, p, b)
  PROVE  SlotsMatchTokens'
<1>1. TypeOK /\ SlotsMatchTokens
  BY DEF SlotInv
<1>2. client' = [client EXCEPT ![c] = Idle] /\ present' = present
  BY DEF Settle, Become
<1>3. Idle.pc \notin Holding
  BY DEF Idle, Holding
<1>4. /\ c \in Holders(p)
      /\ \A q \in Peers :
           Holders(q)' = IF q = p THEN Holders(q) \ {c} ELSE Holders(q)
  BY <1>1, <1>2, <1>3, HoldersLose
<1>5. /\ Cardinality(Holders(p)) \in Nat \ {0}
      /\ Cardinality(Holders(p) \ {c}) = Cardinality(Holders(p)) - 1
  BY <1>4, HoldersFinite, FS_RemoveElement, FS_EmptySet, FS_CardinalityType
<1>6. p \in present
  BY <1>1, <1>4 DEF SlotsMatchTokens
<1>7. breakers' = [breakers EXCEPT ![p] = b] /\ breakers \in [Peers -> Inner]
  BY <1>1, <1>6 DEF Settle, Store, TypeOK
<1>8. breakers'[p] = b /\ \A q \in Peers : q # p => breakers'[q] = breakers[q]
  BY <1>7
<1>9. b.in_flight = Cardinality(Holders(p) \ {c})
  <2>1. breakers[p].in_flight = Cardinality(Holders(p))
    BY <1>1 DEF SlotsMatchTokens
  <2> QED
    BY <2>1, <1>5
<1>10. ASSUME NEW q \in Peers
       PROVE  /\ breakers'[q].in_flight = Cardinality(Holders(q)')
              /\ q \notin present' => Holders(q)' = {}
  BY <1>1, <1>2, <1>4, <1>6, <1>8, <1>9 DEF SlotsMatchTokens
<1> QED
  BY <1>10 DEF SlotsMatchTokens

\* SlotInv is inductive: the count goes up and down with the set of holders,
\* and the sweep removes an entry only when that set is empty.
LEMMA SlotInvariant == Spec => []SlotInv
<1>1. Init => SlotInv
  <2> SUFFICES ASSUME Init PROVE SlotInv
    OBVIOUS
  <2>1. TypeOK
    BY CircuitConfig, NewType DEF Init, TypeOK, Instants, ClientStates
  <2>2. \A p \in Peers : Holders(p) = {}
    BY DEF Init, Holders, Holding, Idle
  <2>3. \A p \in Peers : breakers[p].in_flight = 0
    BY DEF Init, New
  <2>4. ReadersPresent
    BY DEF Init, ReadersPresent, Stamped, Idle
  <2> QED
    BY <2>1, <2>2, <2>3, <2>4, FS_EmptySet DEF SlotInv, SlotsMatchTokens
<1>2. SlotInv /\ TypeOK' /\ [Next]_vars => SlotInv'
  <2> SUFFICES ASSUME SlotInv, TypeOK', [Next]_vars
               PROVE  ReadersPresent' /\ SlotsMatchTokens'
    BY DEF SlotInv
  <2> USE CircuitConfig
  <2>0. TypeOK /\ ReadersPresent /\ SlotsMatchTokens
    BY DEF SlotInv
  <2>1. ASSUME NEW c \in Clients, NEW p \in Peers, Precheck(c, p)
        PROVE  ReadersPresent' /\ SlotsMatchTokens'
    <3> DEFINE s == [pc |-> "admitted", peer |-> p]
    <3>1. client' = [client EXCEPT ![c] = s] /\ UNCHANGED <<breakers, present>>
      BY <2>1 DEF Precheck, Become
    <3>2. client[c].pc \notin Holding /\ s.pc \notin Holding /\ s.pc \notin Stamped
      BY <2>1 DEF Precheck, Idle, Holding, Stamped
    <3> HIDE DEF s
    <3>3. SlotsMatchTokens'
      BY <2>0, <3>1, <3>2, HoldersKeep, SlotsUntouched
    <3> QED
      BY <2>0, <3>1, <3>2, <3>3 DEF ReadersPresent, TypeOK
  <2>2. ASSUME NEW c \in Clients, Lookup(c)
        PROVE  ReadersPresent' /\ SlotsMatchTokens'
    <3> DEFINE p == client[c].peer
               s == IF p \in present THEN [pc |-> "acquiring", peer |-> p, now |-> clock]
                                     ELSE [pc |-> "missing", peer |-> p]
    <3>1. client' = [client EXCEPT ![c] = s] /\ UNCHANGED <<breakers, present>>
      BY <2>2 DEF Lookup, Become
    <3>2. /\ client[c].pc \notin Holding /\ s.pc \notin Holding
          /\ s.pc \in Stamped => s.peer \in present
      BY <2>2 DEF Lookup, Holding, Stamped
    <3> HIDE DEF s
    <3>3. SlotsMatchTokens'
      BY <2>0, <3>1, <3>2, HoldersKeep, SlotsUntouched
    <3> QED
      BY <2>0, <3>1, <3>2, <3>3 DEF ReadersPresent, TypeOK
  <2>3. ASSUME NEW c \in Clients, AcquireExisting(c)
        PROVE  ReadersPresent' /\ SlotsMatchTokens'
    <3> DEFINE p == client[c].peer
    <3>1. client[c].pc \in Stamped /\ client[c].pc \notin Holding
      BY <2>3 DEF AcquireExisting, Stamped, Holding
    <3>2. p \in Peers /\ client[c].now \in Instants /\ p \in present
      BY <2>0, <3>1, ClientFields DEF ReadersPresent
    <3>3. breakers[p] \in Inner /\ breakers[p].in_flight = Cardinality(Holders(p))
      BY <2>0, <3>2 DEF TypeOK, SlotsMatchTokens
    <3>4. Acquire(c, p, breakers[p], client[c].now) /\ present' = present \cup {p}
      BY <2>3, <3>2 DEF AcquireExisting
    <3>5. SlotsMatchTokens'
      BY <3>1, <3>2, <3>3, <3>4, AcquireKeepsSlots
    <3> QED
      BY <2>0, <3>4, <3>5 DEF Acquire, Become, Idle, ReadersPresent, TypeOK, Stamped
  <2>4. ASSUME NEW c \in Clients, AcquireEntry(c)
        PROVE  ReadersPresent' /\ SlotsMatchTokens'
    <3> DEFINE p == client[c].peer
               b == IF p \in present THEN breakers[p] ELSE New(clock)
    <3>1. client[c].pc \in Requesting /\ client[c].pc \notin Holding
      BY <2>4 DEF AcquireEntry, Requesting, Holding
    <3>2. p \in Peers /\ clock \in Instants
      BY <2>0, <3>1, ClientFields DEF TypeOK
    <3>3. b \in Inner /\ b.in_flight = Cardinality(Holders(p))
      BY <2>0, <3>2, NewType, FS_EmptySet DEF TypeOK, SlotsMatchTokens, New
    <3>4. Acquire(c, p, b, clock) /\ present' = present \cup {p}
      BY <2>4 DEF AcquireEntry
    <3> HIDE DEF b
    <3>5. SlotsMatchTokens'
      BY <3>1, <3>2, <3>3, <3>4, AcquireKeepsSlots
    <3> QED
      BY <2>0, <3>4, <3>5 DEF Acquire, Become, Idle, ReadersPresent, TypeOK, Stamped
  <2>5. ASSUME NEW c \in Clients, Succeed(c)
        PROVE  ReadersPresent' /\ SlotsMatchTokens'
    <3> DEFINE p == client[c].peer
               b == RecordSuccess(breakers[p], client[c].token)
    <3>1. client[c].pc \in Holding /\ Settle(c, p, b)
      BY <2>5 DEF Succeed, Holding
    <3>2. p \in Peers /\ client[c].token \in Nat /\ breakers[p] \in Inner
          /\ clock \in Instants
      BY <2>0, <3>1, ClientFields DEF TypeOK
    <3>3. b \in Inner /\ (breakers[p].in_flight > 0 => b.in_flight = breakers[p].in_flight - 1)
      BY <3>2, RecordSuccessType, SettledSlot
    <3> HIDE DEF b
    <3>4. SlotsMatchTokens'
      BY <3>1, <3>2, <3>3, SettleKeepsSlots
    <3> QED
      BY <2>0, <3>1, <3>4 DEF Settle, Become, Idle, ReadersPresent, TypeOK, Stamped
  <2>6. ASSUME NEW c \in Clients, Release(c)
        PROVE  ReadersPresent' /\ SlotsMatchTokens'
    <3> DEFINE p == client[c].peer
               b == ReleaseToken(breakers[p])
    <3>1. client[c].pc \in Holding /\ Settle(c, p, b)
      BY <2>6 DEF Release, Holding
    <3>2. p \in Peers /\ breakers[p] \in Inner /\ 0 \in Nat /\ clock \in Instants
      BY <2>0, <3>1, ClientFields DEF TypeOK
    <3>3. b \in Inner /\ (breakers[p].in_flight > 0 => b.in_flight = breakers[p].in_flight - 1)
      BY <3>2, ReleaseTokenType, SettledSlot
    <3> HIDE DEF b
    <3>4. SlotsMatchTokens'
      BY <3>1, <3>2, <3>3, SettleKeepsSlots
    <3> QED
      BY <2>0, <3>1, <3>4 DEF Settle, Become, Idle, ReadersPresent, TypeOK, Stamped
  <2>7. ASSUME NEW c \in Clients, Fail(c)
        PROVE  ReadersPresent' /\ SlotsMatchTokens'
    <3> DEFINE p == client[c].peer
               s == [pc |-> "failing", peer |-> p, token |-> client[c].token, now |-> clock]
    <3>1. client[c].pc \in Holding /\ UNCHANGED <<breakers, present>>
      BY <2>7 DEF Fail, Holding
    <3>2. p \in Peers /\ c \in Holders(p)
      BY <2>0, <3>1, ClientFields DEF Holders
    <3>3. p \in present
      BY <2>0, <3>2 DEF SlotsMatchTokens
    <3>4. client' = [client EXCEPT ![c] = s]
      BY <2>7, <3>3 DEF Fail, Become
    <3>5. s.pc \in Holding /\ s.peer = p
      BY DEF Holding
    <3> HIDE DEF s
    <3>6. SlotsMatchTokens'
      BY <2>0, <3>1, <3>4, <3>5, HoldersKeep, SlotsUntouched
    <3> QED
      BY <2>0, <3>1, <3>3, <3>4, <3>5, <3>6 DEF ReadersPresent, TypeOK
  <2>8. ASSUME NEW c \in Clients, FailLocked(c)
        PROVE  ReadersPresent' /\ SlotsMatchTokens'
    <3> DEFINE p == client[c].peer
               b == RecordFailure(breakers[p], client[c].token, client[c].now)
    <3>1. client[c].pc \in Holding /\ client[c].pc \in Stamped /\ Settle(c, p, b)
      BY <2>8 DEF FailLocked, Holding, Stamped
    <3>2. p \in Peers /\ client[c].token \in Nat /\ client[c].now \in Instants
          /\ breakers[p] \in Inner
      BY <2>0, <3>1, ClientFields DEF TypeOK
    <3>3. b \in Inner /\ (breakers[p].in_flight > 0 => b.in_flight = breakers[p].in_flight - 1)
      BY <3>2, RecordFailureType, SettledSlot
    <3> HIDE DEF b
    <3>4. SlotsMatchTokens'
      BY <3>1, <3>2, <3>3, SettleKeepsSlots
    <3> QED
      BY <2>0, <3>1, <3>4 DEF Settle, Become, Idle, ReadersPresent, TypeOK, Stamped
  <2>9. ASSUME NEW p \in Peers, Collect(p)
        PROVE  ReadersPresent' /\ SlotsMatchTokens'
    BY <2>0, <2>9, SlotsUntouched DEF Collect, ReadersPresent, Holders
  <2>10. ASSUME NEW p \in Peers, RemoveIf(p)
         PROVE  ReadersPresent' /\ SlotsMatchTokens'
    <3>1. client' = client /\ \A q \in Peers : Holders(q)' = Holders(q)
      BY <2>10 DEF RemoveIf, Holders
    <3>2. CASE Removable(p)
      <4>1. present' = present \ {p} /\ breakers' = [breakers EXCEPT ![p] = New(0)]
        BY <2>10, <3>2 DEF RemoveIf
      <4>2. Holders(p) = {}
        <5>1. breakers[p].in_flight = 0
          BY <3>2 DEF Removable, IsIdle
        <5> QED
          BY <2>0, <5>1, HoldersFinite, FS_EmptySet DEF SlotsMatchTokens
      <4>3. breakers'[p].in_flight = 0 /\ \A q \in Peers : q # p => breakers'[q] = breakers[q]
        BY <2>0, <4>1 DEF TypeOK, New
      <4>4. SlotsMatchTokens'
        BY <2>0, <3>1, <4>1, <4>2, <4>3, FS_EmptySet DEF SlotsMatchTokens
      <4>5. ReadersPresent'
        BY <2>0, <2>10, <3>1, <4>1 DEF RemoveIf, Readers, ReadersPresent
      <4> QED
        BY <4>4, <4>5
    <3>3. CASE ~Removable(p)
      BY <2>0, <2>10, <3>1, <3>3, SlotsUntouched DEF RemoveIf, ReadersPresent
    <3> QED
      BY <3>2, <3>3
  <2>11. ASSUME SweepEnd PROVE ReadersPresent' /\ SlotsMatchTokens'
    BY <2>0, <2>11, SlotsUntouched DEF SweepEnd, ReadersPresent, Holders
  <2>12. ASSUME Tick PROVE ReadersPresent' /\ SlotsMatchTokens'
    BY <2>0, <2>12, SlotsUntouched DEF Tick, ReadersPresent, Holders
  <2>13. ASSUME UNCHANGED vars PROVE ReadersPresent' /\ SlotsMatchTokens'
    BY <2>0, <2>13, SlotsUntouched DEF vars, ReadersPresent, Holders
  <2> QED
    BY <2>1, <2>2, <2>3, <2>4, <2>5, <2>6, <2>7, <2>8, <2>9, <2>10, <2>11,
       <2>12, <2>13
    DEF Next, ClientStep
<1> QED
  BY <1>1, <1>2, TypeCorrect, PTL DEF Spec

\* in_flight counts exactly the outstanding tokens of each peer, and a peer
\* without an entry has none: no interleaving of clients with the idle sweep
\* leaks a slot or evicts a breaker somebody still holds a token of.
THEOREM SlotsCorrect == Spec => []SlotsMatchTokens
<1>1. SlotInv => SlotsMatchTokens
  BY DEF SlotInv
<1> QED
  BY <1>1, SlotInvariant, PTL

-----------------------------------------------------------------------------
(***************************************************************************)
(* What the critical sections do to the state, the generation and the      *)
(* opening time of a breaker.                                              *)
(***************************************************************************)

\* try_acquire: a rejection leaves the breaker as it was, an admission by a
\* Closed breaker too, and any other admission is a probe of a new
\* generation.
LEMMA TryAcquireMoves ==
  ASSUME NEW b \in Inner, NEW now \in Instants
  PROVE  LET n == TryAcquire(b, now) IN
         /\ ~Admits(b, now) \/ b.state = "Closed" =>
              /\ n.state = b.state /\ n.generation = b.generation
              /\ n.opened_at = b.opened_at /\ Verdict(n) = Verdict(b)
         /\ Admits(b, now) /\ b.state # "Closed" =>
              n.state = "HalfOpen" /\ n.generation = b.generation + 1
BY DEF TryAcquire, TransitionToHalfOpen, IssueToken, Inner, Verdict

\* release changes the slot only.
LEMMA ReleaseMoves ==
  ASSUME NEW b \in Inner
  PROVE  LET n == ReleaseToken(b) IN
         /\ n.state = b.state /\ n.generation = b.generation
         /\ n.opened_at = b.opened_at /\ Verdict(n) = Verdict(b)
BY DEF ReleaseToken, Inner, Verdict

\* record_success keeps the generation, neither leaves nor enters Open, and
\* does nothing to the state when the token is stale or the breaker is Open.
LEMMA SuccessMoves ==
  ASSUME NEW b \in Inner, NEW token \in Nat
  PROVE  LET n == RecordSuccess(b, token) IN
         /\ n.generation = b.generation
         /\ n.state = "Open" <=> b.state = "Open"
         /\ n.state = "HalfOpen" => b.state = "HalfOpen"
         /\ b.state = "Open" => n.opened_at = b.opened_at
         /\ token # b.generation \/ b.state = "Open" => Verdict(n) = Verdict(b)
<1>1. b.state \in States
  BY DEF Inner
<1>2. /\ ReleaseToken(b) \in Inner
      /\ ReleaseToken(b).state = b.state
      /\ ReleaseToken(b).generation = b.generation
      /\ ReleaseToken(b).opened_at = b.opened_at
      /\ ReleaseToken(b).consecutive_failures = b.consecutive_failures
      /\ ReleaseToken(b).half_opened_at = b.half_opened_at
  BY ReleaseTokenType DEF ReleaseToken, Inner
<1> QED
  BY <1>1, <1>2 DEF RecordSuccess, States, Inner, Verdict

\* record_failure keeps the generation, never leaves Open, and opens the
\* breaker at the time it was given; a stale token or one recorded while the
\* breaker is Open does nothing to the state.
LEMMA FailureMoves ==
  ASSUME NEW b \in Inner, NEW token \in Nat, NEW now \in Instants
  PROVE  LET n == RecordFailure(b, token, now) IN
         /\ n.generation = b.generation
         /\ b.state = "Open" => n.state = "Open" /\ n.opened_at = b.opened_at
         /\ b.state # "Open" /\ n.state = "Open" => n.opened_at = {now}
         /\ n.state = "HalfOpen" => b.state = "HalfOpen"
         /\ token # b.generation \/ b.state = "Open" => Verdict(n) = Verdict(b)
<1>1. b.state \in States
  BY DEF Inner
<1>2. /\ ReleaseToken(b) \in Inner
      /\ ReleaseToken(b).state = b.state
      /\ ReleaseToken(b).generation = b.generation
      /\ ReleaseToken(b).opened_at = b.opened_at
      /\ ReleaseToken(b).consecutive_failures = b.consecutive_failures
      /\ ReleaseToken(b).half_opened_at = b.half_opened_at
  BY ReleaseTokenType DEF ReleaseToken, Inner
<1> QED
  BY <1>1, <1>2 DEF RecordFailure, States, Inner, Verdict, Some

-----------------------------------------------------------------------------
(***************************************************************************)
(* The inductive invariant for probes, late outcomes and windows.          *)
(***************************************************************************)

\* No token is of a generation its breaker has not reached.
TokensNotAhead ==
  \A p \in Peers : \A c \in Holders(p) : client[c].token <= breakers[p].generation

\* An outdated client's outcome will find another generation or Open.
OutdatedStale ==
  \A c \in outdated :
    /\ client[c].pc \in Holding
    /\ \/ client[c].token # breakers[client[c].peer].generation
       \/ breakers[client[c].peer].state = "Open"

\* A window is running only while the breaker is open, and then it is the
\* one counted from opened_at; timestamps are not in the future.
WindowKept ==
  /\ \A p \in Peers : breakers[p].state = "Open" =>
       \E t \in Instants : /\ breakers[p].opened_at = {t} /\ t <= clock
                           /\ barred[p] = t + RecoveryWindow
  /\ \A p \in Peers : breakers[p].state # "Open" => barred[p] <= clock
  /\ \A p \in Peers \ present : breakers[p].state = "Closed"
  /\ \A c \in Clients : client[c].pc \in Stamped => client[c].now <= clock

ProbeInv ==
  SlotInv /\ TokensNotAhead /\ SingleProbe /\ OutdatedStale /\ WindowKept

\* A breaker admits a request only after its recovery window.
LEMMA AdmitsAfterWindow ==
  ASSUME TypeOK, WindowKept, NEW p \in Peers, NEW now \in Instants,
         now <= clock, Admits(breakers[p], now)
  PROVE  barred[p] <= clock
<1>1. CASE breakers[p].state # "Open"
  BY <1>1 DEF WindowKept
<1>2. CASE breakers[p].state = "Open"
  <2>1. PICK t \in Instants : /\ breakers[p].opened_at = {t} /\ t <= clock
                              /\ barred[p] = t + RecoveryWindow
    BY <1>2 DEF WindowKept
  <2>2. Elapsed({t}, now, RecoveryWindow)
    BY <1>2, <2>1 DEF Admits
  <2>3. (IF now >= t THEN now - t ELSE 0) >= RecoveryWindow
    BY <2>2 DEF Elapsed
  <2>4. clock \in Nat /\ now \in Nat /\ t \in Nat /\ RecoveryWindow \in Nat
    BY CircuitConfig DEF TypeOK, Instants
  <2> QED
    BY <2>1, <2>3, <2>4
<1> QED
  BY <1>1, <1>2

\* A step that touches no breaker, no entry and no token keeps it all.
LEMMA QuietKeeps ==
  ASSUME ProbeInv, TypeOK', UNCHANGED <<breakers, present, barred>>,
         clock \in Nat, clock' \in Nat, clock <= clock',
         outdated' = outdated,
         \A q \in Peers : Holders(q)' = Holders(q),
         \A d \in Clients : client[d].pc \in Holding =>
           /\ client'[d].pc \in Holding /\ client'[d].token = client[d].token
           /\ client'[d].peer = client[d].peer,
         \A d \in Clients : client'[d].pc \in Stamped => client'[d].now <= clock'
  PROVE  (TokensNotAhead /\ SingleProbe /\ OutdatedStale /\ WindowKept)'
<1>1. TokensNotAhead'
  BY DEF ProbeInv, TokensNotAhead, Holders
<1>2. SingleProbe'
  BY DEF ProbeInv, SingleProbe, Holders
<1>3. OutdatedStale'
  BY DEF ProbeInv, SlotInv, TypeOK, OutdatedStale
<1>4. WindowKept'
  <2>1. \A p \in Peers : breakers[p].state # "Open" => barred[p] <= clock'
    BY DEF ProbeInv, SlotInv, TypeOK, WindowKept
  <2>2. ASSUME NEW p \in Peers, breakers[p].state = "Open"
        PROVE  \E t \in Instants : /\ breakers[p].opened_at = {t} /\ t <= clock'
                                   /\ barred[p] = t + RecoveryWindow
    BY <2>2 DEF ProbeInv, WindowKept, Instants
  <2> QED
    BY <2>1, <2>2 DEF ProbeInv, WindowKept
<1> QED
  BY <1>1, <1>2, <1>3, <1>4

\* try_acquire by c on the breaker b of p keeps it all, whether b is the one
\* in the entry or a new one.
LEMMA AcquireKeeps ==
  ASSUME ProbeInv, NEW c \in Clients, NEW p \in Peers, NEW b \in Inner,
         NEW now \in Instants, now <= clock, clock' = clock,
         client[c].pc \notin Holding,
         Acquire(c, p, b, now),
         present' = present \cup {p},
         \/ p \in present /\ b = breakers[p]
         \/ p \notin present /\ b.state = "Closed"
  PROVE  (TokensNotAhead /\ SingleProbe /\ OutdatedStale /\ WindowKept)'
<1> DEFINE n == TryAcquire(b, now)
           probe == Admits(b, now) /\ b.state # "Closed"
<1>1. TypeOK /\ SlotsMatchTokens /\ TokensNotAhead /\ SingleProbe /\ OutdatedStale
      /\ WindowKept
  BY DEF ProbeInv, SlotInv
<1>2. b = breakers[p] \/ (p \notin present /\ Holders(p) = {} /\ b.state = "Closed")
  BY <1>1 DEF SlotsMatchTokens
<1>3. breakers'[p] = n /\ \A q \in Peers : q # p => breakers'[q] = breakers[q]
  BY <1>1 DEF Acquire, Store, TypeOK
<1>4. \A d \in Clients : d # c => client'[d] = client[d]
  BY <1>1 DEF Acquire, Become, TypeOK
<1>5. /\ Admits(b, now) => client'[c] = [pc |-> "inflight", peer |-> p, token |-> n.generation]
      /\ ~Admits(b, now) => client'[c] = Idle
  BY <1>1 DEF Acquire, Become, TypeOK
<1>6. /\ ~probe => n.state = b.state /\ n.generation = b.generation /\ n.opened_at = b.opened_at
      /\ probe => n.state = "HalfOpen" /\ n.generation = b.generation + 1
  BY TryAcquireMoves
<1>7. outdated' = (IF probe THEN outdated \cup Holders(p) ELSE outdated) /\ barred' = barred
  BY DEF Acquire
<1>8. /\ \A q \in Peers \ {p} : Holders(q)' = Holders(q) /\ c \notin Holders(q)
      /\ c \notin Holders(p)
      /\ Holders(p)' = IF Admits(b, now) THEN Holders(p) \cup {c} ELSE Holders(p)
  BY <1>4, <1>5 DEF Holders, Holding, Idle
<1>9. \A q \in Peers : \A d \in Holders(q) :
        d \in Clients /\ client[d].token \in Nat /\ client[d].peer = q
  BY <1>1, ClientFields DEF Holders
<1>10. b.generation \in Nat /\ b.state \in States /\ clock \in Nat
  BY <1>1 DEF Inner, TypeOK, Instants
<1> HIDE DEF n
<1>11. \A d \in Holders(p) : client[d].token <= b.generation
  BY <1>1, <1>2 DEF TokensNotAhead
<1>12. TokensNotAhead'
  <2> SUFFICES ASSUME NEW q \in Peers, NEW d \in Holders(q)'
               PROVE  client'[d].token <= breakers'[q].generation
    BY DEF TokensNotAhead
  <2>1. CASE q # p
    <3>1. d \in Holders(q) /\ d \in Clients /\ d # c
      BY <1>8, <1>9, <2>1
    <3> QED
      BY <1>1, <1>3, <1>4, <2>1, <3>1 DEF TokensNotAhead
  <2>2. CASE q = p /\ d = c
    BY <1>3, <1>5, <1>6, <1>8, <1>10, <2>2
  <2>3. CASE q = p /\ d # c
    <3>1. d \in Holders(p) /\ client'[d] = client[d]
      BY <1>4, <1>8, <1>9, <2>3
    <3> QED
      BY <1>3, <1>6, <1>9, <1>10, <1>11, <2>3, <3>1
  <2> QED
    BY <2>1, <2>2, <2>3
<1>13. SingleProbe'
  <2> SUFFICES ASSUME NEW q \in Peers, NEW d \in Holders(q)', NEW e \in Holders(q)',
                      breakers'[q].state = "HalfOpen",
                      client'[d].token = breakers'[q].generation,
                      client'[e].token = breakers'[q].generation
               PROVE  d = e
    BY DEF SingleProbe
  <2>1. CASE q # p
    <3>1. /\ d \in Holders(q) /\ d \in Clients /\ d # c
          /\ e \in Holders(q) /\ e \in Clients /\ e # c
      BY <1>8, <1>9, <2>1
    <3> QED
      BY <1>1, <1>3, <1>4, <2>1, <3>1 DEF SingleProbe
  <2>2. CASE q = p /\ ~probe
    <3>1. b.state = "HalfOpen" /\ b = breakers[p] /\ Holders(p)' = Holders(p)
      BY <1>2, <1>3, <1>6, <1>8, <2>2
    <3>2. /\ d \in Holders(p) /\ d \in Clients /\ d # c
          /\ e \in Holders(p) /\ e \in Clients /\ e # c
      BY <1>8, <1>9, <2>2, <3>1
    <3> QED
      BY <1>1, <1>3, <1>4, <1>6, <2>2, <3>1, <3>2 DEF SingleProbe
  <2>3. CASE q = p /\ probe
    <3>1. ASSUME NEW x \in Holders(p)', x # c PROVE client'[x].token # breakers'[p].generation
      <4>1. x \in Holders(p) /\ client'[x] = client[x]
        BY <1>4, <1>8, <1>9, <3>1
      <4> QED
        BY <1>3, <1>6, <1>9, <1>10, <1>11, <2>3, <4>1
    <3> QED
      BY <2>3, <3>1
  <2> QED
    BY <2>1, <2>2, <2>3
<1>14. OutdatedStale'
  <2> SUFFICES ASSUME NEW d \in outdated'
               PROVE  /\ client'[d].pc \in Holding
                      /\ \/ client'[d].token # breakers'[client'[d].peer].generation
                         \/ breakers'[client'[d].peer].state = "Open"
    BY DEF OutdatedStale
  <2>1. d \in Clients /\ d # c /\ client'[d] = client[d] /\ client[d].pc \in Holding
    BY <1>1, <1>4, <1>7, <1>8 DEF OutdatedStale, TypeOK, Holders
  <2>2. client[d].peer \in Peers /\ client[d].token \in Nat /\ d \in Holders(client[d].peer)
    BY <1>1, <2>1, ClientFields DEF Holders
  <2>3. CASE client[d].peer # p
    <3>1. d \in outdated
      BY <1>7, <1>9, <2>3
    <3> QED
      BY <1>1, <1>3, <2>1, <2>2, <2>3, <3>1 DEF OutdatedStale
  <2>4. CASE client[d].peer = p /\ probe
    BY <1>3, <1>6, <1>10, <1>11, <2>1, <2>2, <2>4
  <2>5. CASE client[d].peer = p /\ ~probe
    <3>1. d \in outdated /\ b = breakers[p]
      BY <1>2, <1>7, <2>2, <2>5
    <3> QED
      BY <1>1, <1>3, <1>6, <2>1, <2>5, <3>1 DEF OutdatedStale
  <2> QED
    BY <2>3, <2>4, <2>5
<1>15. WindowKept'
  <2>1. \A d \in Clients : client'[d].pc \in Stamped => client'[d].now <= clock'
    BY <1>1, <1>4, <1>5 DEF WindowKept, Stamped, Idle
  <2>2. \A q \in Peers \ present' : breakers'[q].state = "Closed"
    BY <1>1, <1>3 DEF WindowKept
  <2>3. ASSUME NEW q \in Peers, breakers'[q].state = "Open"
        PROVE  \E t \in Instants : /\ breakers'[q].opened_at = {t} /\ t <= clock'
                                   /\ barred'[q] = t + RecoveryWindow
    <3>1. breakers[q].state = "Open" /\ breakers'[q].opened_at = breakers[q].opened_at
      BY <1>2, <1>3, <1>6, <2>3
    <3> QED
      BY <1>1, <1>7, <3>1 DEF WindowKept
  <2>4. ASSUME NEW q \in Peers, breakers'[q].state # "Open"
        PROVE  barred'[q] <= clock'
    <3>1. CASE q # p \/ breakers[p].state # "Open"
      BY <1>1, <1>3, <1>7, <2>4, <3>1 DEF WindowKept
    <3>2. CASE q = p /\ breakers[p].state = "Open"
      <4>1. p \in present /\ b = breakers[p]
        BY <1>1, <3>2 DEF WindowKept
      <4>2. Admits(breakers[p], now)
        BY <1>3, <1>6, <2>4, <3>2, <4>1
      <4> QED
        BY <1>1, <1>7, <3>2, <4>2, AdmitsAfterWindow
    <3> QED
      BY <3>1, <3>2
  <2> QED
    BY <2>1, <2>2, <2>3, <2>4 DEF WindowKept
<1> QED
  BY <1>12, <1>13, <1>14, <1>15

\* Consuming the token of c turns p's breaker into b of the same generation.
\* It keeps it all if b enters Open only with a window from now, and then
\* every other token of p becomes outdated; and never enters HalfOpen.
LEMMA SettleKeeps ==
  ASSUME ProbeInv, NEW c \in Clients, NEW p \in Peers, NEW b \in Inner,
         c \in Holders(p), clock' = clock,
         Settle(c, p, b),
         b.generation = breakers[p].generation,
         b.state = "HalfOpen" => breakers[p].state = "HalfOpen",
         breakers[p].state = "Open" =>
           b.state = "Open" /\ b.opened_at = breakers[p].opened_at,
         NEW trips \in BOOLEAN,
         trips <=> breakers[p].state # "Open" /\ b.state = "Open",
         NEW now \in Instants, now <= clock,
         trips => b.opened_at = {now},
         barred' = IF trips THEN [barred EXCEPT ![p] = now + RecoveryWindow] ELSE barred,
         outdated' = IF trips THEN (outdated \cup Holders(p)) \ {c} ELSE outdated \ {c}
  PROVE  (TokensNotAhead /\ SingleProbe /\ OutdatedStale /\ WindowKept)'
<1>1. TypeOK /\ SlotsMatchTokens /\ TokensNotAhead /\ SingleProbe /\ OutdatedStale
      /\ WindowKept
  BY DEF ProbeInv, SlotInv
<1>2. p \in present /\ present' = present
  BY <1>1 DEF SlotsMatchTokens, Settle
<1>3. breakers'[p] = b /\ \A q \in Peers : q # p => breakers'[q] = breakers[q]
  BY <1>1, <1>2 DEF Settle, Store, TypeOK
<1>4. client'[c] = Idle /\ \A d \in Clients : d # c => client'[d] = client[d]
  BY <1>1 DEF Settle, Become, TypeOK
<1>5. \A q \in Peers : \A d \in Holders(q) :
        d \in Clients /\ client[d].token \in Nat /\ client[d].peer = q
  BY <1>1, ClientFields DEF Holders
<1>6. \A q \in Peers : \A d \in Holders(q)' :
        d \in Holders(q) /\ d # c /\ client'[d] = client[d]
  BY <1>4 DEF Holders, Holding, Idle
<1>7. \A q \in Peers : breakers'[q].generation = breakers[q].generation
  BY <1>3
<1>8. TokensNotAhead'
  <2> SUFFICES ASSUME NEW q \in Peers, NEW d \in Holders(q)'
               PROVE  client'[d].token <= breakers'[q].generation
    BY DEF TokensNotAhead
  <2> QED
    BY <1>1, <1>6, <1>7 DEF TokensNotAhead
<1>9. SingleProbe'
  <2> SUFFICES ASSUME NEW q \in Peers, NEW d \in Holders(q)', NEW e \in Holders(q)',
                      breakers'[q].state = "HalfOpen",
                      client'[d].token = breakers'[q].generation,
                      client'[e].token = breakers'[q].generation
               PROVE  d = e
    BY DEF SingleProbe
  <2>1. breakers[q].state = "HalfOpen"
    BY <1>3
  <2> QED
    BY <1>1, <1>6, <1>7, <2>1 DEF SingleProbe
<1>10. OutdatedStale'
  <2> SUFFICES ASSUME NEW d \in outdated'
               PROVE  /\ client'[d].pc \in Holding
                      /\ \/ client'[d].token # breakers'[client'[d].peer].generation
                         \/ breakers'[client'[d].peer].state = "Open"
    BY DEF OutdatedStale
  <2>1. d # c /\ (d \in outdated \/ (trips /\ d \in Holders(p)))
    OBVIOUS
  <2>2. d \in Clients /\ client[d].pc \in Holding /\ client'[d] = client[d]
    BY <1>1, <1>4, <2>1 DEF OutdatedStale, TypeOK, Holders
  <2>3. client[d].peer \in Peers
    BY <1>1, <2>2, ClientFields
  <2>4. CASE trips /\ client[d].peer = p
    BY <1>3, <2>2, <2>4
  <2>5. CASE ~(trips /\ client[d].peer = p)
    <3>1. d \in outdated
      BY <1>5, <2>1, <2>5
    <3>2. breakers[client[d].peer].state = "Open" => breakers'[client[d].peer].state = "Open"
      BY <1>3, <2>3
    <3> QED
      BY <1>1, <1>7, <2>2, <2>3, <3>1, <3>2 DEF OutdatedStale
  <2> QED
    BY <2>4, <2>5
<1>11. WindowKept'
  <2>1. \A d \in Clients : client'[d].pc \in Stamped => client'[d].now <= clock'
    BY <1>1, <1>4 DEF WindowKept, Stamped, Idle
  <2>2. \A q \in Peers \ present' : breakers'[q].state = "Closed"
    BY <1>1, <1>2, <1>3 DEF WindowKept
  <2>3. ASSUME NEW q \in Peers, breakers'[q].state = "Open"
        PROVE  \E t \in Instants : /\ breakers'[q].opened_at = {t} /\ t <= clock'
                                   /\ barred'[q] = t + RecoveryWindow
    <3>1. CASE trips /\ q = p
      <4>1. barred'[q] = now + RecoveryWindow
        BY <1>1, <3>1 DEF TypeOK
      <4> QED
        BY <1>3, <3>1, <4>1
    <3>2. CASE ~(trips /\ q = p)
      <4>1. barred'[q] = barred[q]
        BY <1>1, <3>2 DEF TypeOK
      <4>2. breakers[q].state = "Open" /\ breakers'[q].opened_at = breakers[q].opened_at
        BY <1>3, <2>3, <3>2
      <4> QED
        BY <1>1, <4>1, <4>2 DEF WindowKept
    <3> QED
      BY <3>1, <3>2
  <2>4. ASSUME NEW q \in Peers, breakers'[q].state # "Open"
        PROVE  barred'[q] <= clock'
    <3>1. breakers[q].state # "Open" /\ ~(trips /\ q = p)
      BY <1>3, <2>4
    <3>2. barred'[q] = barred[q]
      BY <1>1, <3>1 DEF TypeOK
    <3> QED
      BY <1>1, <3>1, <3>2 DEF WindowKept
  <2> QED
    BY <2>1, <2>2, <2>3, <2>4 DEF WindowKept
<1> QED
  BY <1>8, <1>9, <1>10, <1>11

\* An entry evict_idle removes has no outstanding token, and its recovery
\* window, if it is open, is over.
LEMMA RemovalKeeps ==
  ASSUME ProbeInv, NEW p \in Peers, RemoveIf(p), Removable(p)
  PROVE  (TokensNotAhead /\ SingleProbe /\ OutdatedStale /\ WindowKept)'
<1>1. TypeOK /\ SlotsMatchTokens /\ TokensNotAhead /\ SingleProbe /\ OutdatedStale
      /\ WindowKept
  BY DEF ProbeInv, SlotInv
<1>2. /\ present' = present \ {p} /\ breakers'[p] = New(0)
      /\ \A q \in Peers : q # p => breakers'[q] = breakers[q]
      /\ UNCHANGED <<clock, client, barred, outdated>>
  BY <1>1 DEF RemoveIf, TypeOK, history
<1>3. Holders(p) = {} /\ \A q \in Peers : Holders(q)' = Holders(q)
  <2>1. Cardinality(Holders(p)) = 0
    BY <1>1 DEF SlotsMatchTokens, Removable, IsIdle
  <2> QED
    BY <1>2, <2>1, HoldersFinite, FS_EmptySet DEF Holders
<1>4. TokensNotAhead'
  BY <1>1, <1>2, <1>3 DEF TokensNotAhead
<1>5. SingleProbe'
  BY <1>1, <1>2, <1>3 DEF SingleProbe
<1>6. OutdatedStale'
  <2> SUFFICES ASSUME NEW d \in outdated
               PROVE  /\ client[d].pc \in Holding
                      /\ \/ client[d].token # breakers'[client[d].peer].generation
                         \/ breakers'[client[d].peer].state = "Open"
    BY <1>2 DEF OutdatedStale
  <2>1. d \in Clients /\ client[d].pc \in Holding
    BY <1>1 DEF OutdatedStale, TypeOK
  <2>2. client[d].peer \in Peers /\ client[d].peer # p
    BY <1>1, <1>3, <2>1, ClientFields DEF Holders
  <2> QED
    BY <1>1, <1>2, <2>1, <2>2 DEF OutdatedStale
<1>7. WindowKept'
  <2>1. barred[p] <= clock
    <3>1. CASE breakers[p].state # "Open"
      BY <1>1, <3>1 DEF WindowKept
    <3>2. CASE breakers[p].state = "Open"
      <4>1. PICK t \in Instants : /\ breakers[p].opened_at = {t} /\ t <= clock
                                  /\ barred[p] = t + RecoveryWindow
        BY <1>1, <3>2 DEF WindowKept
      <4>2. ~(clock - t < RecoveryWindow)
        BY <3>2, <4>1 DEF Removable, IsIdle
      <4>3. clock \in Nat /\ t \in Nat /\ RecoveryWindow \in Nat
        BY <1>1, CircuitConfig DEF TypeOK, Instants
      <4> QED
        BY <4>1, <4>2, <4>3
    <3> QED
      BY <3>1, <3>2
  <2>2. \A q \in Peers \ present' : breakers'[q].state = "Closed"
    BY <1>1, <1>2 DEF WindowKept, New
  <2>3. \A q \in Peers : breakers'[q].state # "Open" => barred'[q] <= clock'
    BY <1>1, <1>2, <2>1 DEF WindowKept
  <2>4. ASSUME NEW q \in Peers, breakers'[q].state = "Open"
        PROVE  \E t \in Instants : /\ breakers'[q].opened_at = {t} /\ t <= clock'
                                   /\ barred'[q] = t + RecoveryWindow
    <3>1. q # p
      BY <1>2, <2>4 DEF New
    <3> QED
      BY <1>1, <1>2, <2>4, <3>1 DEF WindowKept
  <2> QED
    BY <1>1, <1>2, <2>2, <2>3, <2>4 DEF WindowKept
<1> QED
  BY <1>4, <1>5, <1>6, <1>7

\* ProbeInv is inductive relative to SlotInv.
LEMMA ProbeInvariant == Spec => []ProbeInv
<1>1. Init /\ SlotInv => ProbeInv
  <2> SUFFICES ASSUME Init, SlotInv PROVE ProbeInv
    OBVIOUS
  <2>1. \A p \in Peers : Holders(p) = {} /\ breakers[p].state = "Closed" /\ barred[p] = 0
    BY DEF Init, Holders, Holding, Idle, New
  <2>2. \A c \in Clients : client[c].pc \notin Stamped
    BY DEF Init, Stamped, Idle
  <2>3. WindowKept
    BY <2>1, <2>2 DEF Init, WindowKept
  <2> QED
    BY <2>1, <2>3 DEF Init, ProbeInv, TokensNotAhead, SingleProbe, OutdatedStale
<1>2. ProbeInv /\ SlotInv' /\ [Next]_vars => ProbeInv'
  <2> DEFINE Kept == (TokensNotAhead /\ SingleProbe /\ OutdatedStale /\ WindowKept)'
  <2> SUFFICES ASSUME ProbeInv, SlotInv', [Next]_vars PROVE Kept
    BY DEF ProbeInv
  <2>0. /\ TypeOK /\ TypeOK' /\ ReadersPresent /\ SlotsMatchTokens /\ TokensNotAhead
        /\ OutdatedStale /\ WindowKept
        /\ clock \in Nat /\ clock' \in Nat
    BY DEF ProbeInv, SlotInv, TypeOK, Instants
  <2> HIDE DEF Kept
  <2>1. ASSUME NEW c \in Clients, NEW p \in Peers, Precheck(c, p) PROVE Kept
    <3> DEFINE s == [pc |-> "admitted", peer |-> p]
    <3>1. client' = [client EXCEPT ![c] = s]
          /\ UNCHANGED <<clock, breakers, present, barred, outdated>>
      BY <2>1 DEF Precheck, Become, history
    <3>2. client[c].pc \notin Holding /\ s.pc \notin Holding /\ s.pc \notin Stamped
      BY <2>1 DEF Precheck, Idle, Holding, Stamped
    <3> HIDE DEF s
    <3>3. \A q \in Peers : Holders(q)' = Holders(q)
      BY <2>0, <3>1, <3>2, HoldersKeep
    <3>4. client'[c] = s /\ \A d \in Clients : d # c => client'[d] = client[d]
      BY <2>0, <3>1 DEF TypeOK
    <3>5. \A d \in Clients : client'[d].pc \in Stamped => client'[d].now <= clock'
      BY <2>0, <3>1, <3>2, <3>4 DEF WindowKept
    <3> QED
      BY <2>0, <3>1, <3>2, <3>3, <3>4, <3>5, QuietKeeps DEF Kept
  <2>2. ASSUME NEW c \in Clients, Lookup(c) PROVE Kept
    <3> DEFINE p == client[c].peer
               s == IF p \in present THEN [pc |-> "acquiring", peer |-> p, now |-> clock]
                                     ELSE [pc |-> "missing", peer |-> p]
    <3>1. client' = [client EXCEPT ![c] = s]
          /\ UNCHANGED <<clock, breakers, present, barred, outdated>>
      BY <2>2 DEF Lookup, Become, history
    <3>2. /\ client[c].pc \notin Holding /\ s.pc \notin Holding
          /\ s.pc \in Stamped => s.now = clock
      BY <2>2 DEF Lookup, Holding, Stamped
    <3> HIDE DEF s
    <3>3. \A q \in Peers : Holders(q)' = Holders(q)
      BY <2>0, <3>1, <3>2, HoldersKeep
    <3>4. client'[c] = s /\ \A d \in Clients : d # c => client'[d] = client[d]
      BY <2>0, <3>1 DEF TypeOK
    <3>5. \A d \in Clients : client'[d].pc \in Stamped => client'[d].now <= clock'
      BY <2>0, <3>1, <3>2, <3>4 DEF WindowKept
    <3> QED
      BY <2>0, <3>1, <3>2, <3>3, <3>4, <3>5, QuietKeeps DEF Kept
  <2>3. ASSUME NEW c \in Clients, AcquireExisting(c) PROVE Kept
    <3> DEFINE p == client[c].peer
    <3>1. client[c].pc \in Stamped /\ client[c].pc \notin Holding
      BY <2>3 DEF AcquireExisting, Stamped, Holding
    <3>2. p \in Peers /\ client[c].now \in Instants /\ p \in present /\ breakers[p] \in Inner
      BY <2>0, <3>1, ClientFields DEF ReadersPresent, TypeOK
    <3>3. client[c].now <= clock
      BY <2>0, <3>1 DEF WindowKept
    <3>4. /\ Acquire(c, p, breakers[p], client[c].now)
          /\ present' = present \cup {p} /\ clock' = clock
      BY <2>3, <3>2 DEF AcquireExisting, Acquire, Store
    <3> QED
      BY <3>1, <3>2, <3>3, <3>4, AcquireKeeps DEF Kept
  <2>4. ASSUME NEW c \in Clients, AcquireEntry(c) PROVE Kept
    <3> DEFINE p == client[c].peer
               b == IF p \in present THEN breakers[p] ELSE New(clock)
    <3>1. client[c].pc \in Requesting /\ client[c].pc \notin Holding
      BY <2>4 DEF AcquireEntry, Requesting, Holding
    <3>2. p \in Peers /\ clock \in Instants /\ clock <= clock
      BY <2>0, <3>1, ClientFields DEF TypeOK
    <3>3. b \in Inner /\ \/ p \in present /\ b = breakers[p]
                         \/ p \notin present /\ b.state = "Closed"
      BY <2>0, <3>2, NewType DEF TypeOK, New
    <3>4. Acquire(c, p, b, clock) /\ present' = present \cup {p} /\ clock' = clock
      BY <2>4 DEF AcquireEntry, Acquire, Store
    <3> HIDE DEF b
    <3> QED
      BY <3>1, <3>2, <3>3, <3>4, AcquireKeeps DEF Kept
  <2>5. ASSUME NEW c \in Clients, Succeed(c) PROVE Kept
    <3> DEFINE p == client[c].peer
               b == RecordSuccess(breakers[p], client[c].token)
    <3>1. client[c].pc \in Holding /\ Settle(c, p, b)
          /\ outdated' = outdated \ {c} /\ barred' = barred
      BY <2>5 DEF Succeed, Holding
    <3>2. p \in Peers /\ client[c].token \in Nat /\ breakers[p] \in Inner
          /\ clock \in Instants /\ clock <= clock
      BY <2>0, <3>1, ClientFields DEF TypeOK
    <3>3. b \in Inner /\ c \in Holders(p) /\ clock' = clock
      BY <3>1, <3>2, RecordSuccessType DEF Holders, Settle, Store
    <3>4. /\ b.generation = breakers[p].generation
          /\ b.state = "Open" <=> breakers[p].state = "Open"
          /\ b.state = "HalfOpen" => breakers[p].state = "HalfOpen"
          /\ breakers[p].state = "Open" => b.opened_at = breakers[p].opened_at
      BY <3>2, SuccessMoves
    <3> HIDE DEF b
    <3> QED
      BY <3>1, <3>2, <3>3, <3>4, SettleKeeps DEF Kept
  <2>6. ASSUME NEW c \in Clients, Release(c) PROVE Kept
    <3> DEFINE p == client[c].peer
               b == ReleaseToken(breakers[p])
    <3>1. client[c].pc \in Holding /\ Settle(c, p, b)
          /\ outdated' = outdated \ {c} /\ barred' = barred
      BY <2>6 DEF Release, Holding
    <3>2. p \in Peers /\ breakers[p] \in Inner /\ clock \in Instants /\ clock <= clock
      BY <2>0, <3>1, ClientFields DEF TypeOK
    <3>3. b \in Inner /\ c \in Holders(p) /\ clock' = clock
      BY <3>1, <3>2, ReleaseTokenType DEF Holders, Settle, Store
    <3>4. /\ b.generation = breakers[p].generation /\ b.state = breakers[p].state
          /\ b.opened_at = breakers[p].opened_at
      BY <3>2, ReleaseMoves
    <3> HIDE DEF b
    <3> QED
      BY <3>1, <3>2, <3>3, <3>4, SettleKeeps DEF Kept
  <2>7. ASSUME NEW c \in Clients, Fail(c) PROVE Kept
    <3> DEFINE p == client[c].peer
               s == [pc |-> "failing", peer |-> p, token |-> client[c].token, now |-> clock]
    <3>1. client[c].pc \in Holding /\ UNCHANGED <<clock, breakers, present, barred>>
      BY <2>7 DEF Fail, Holding
    <3>2. p \in Peers /\ c \in Holders(p)
      BY <2>0, <3>1, ClientFields DEF Holders
    <3>3. p \in present
      BY <2>0, <3>2 DEF SlotsMatchTokens
    <3>4. client' = [client EXCEPT ![c] = s] /\ outdated' = outdated
      BY <2>7, <3>3 DEF Fail, Become
    <3>5. s.pc \in Holding /\ s.peer = p /\ s.token = client[c].token /\ s.now = clock
      BY DEF Holding
    <3> HIDE DEF s
    <3>6. \A q \in Peers : Holders(q)' = Holders(q)
      BY <2>0, <3>1, <3>4, <3>5, HoldersKeep
    <3>7. client'[c] = s /\ \A d \in Clients : d # c => client'[d] = client[d]
      BY <2>0, <3>4 DEF TypeOK
    <3>8. \A d \in Clients : client'[d].pc \in Stamped => client'[d].now <= clock'
      BY <2>0, <3>1, <3>5, <3>7 DEF WindowKept
    <3> QED
      BY <2>0, <3>1, <3>4, <3>5, <3>6, <3>7, <3>8, QuietKeeps DEF Kept
  <2>8. ASSUME NEW c \in Clients, FailLocked(c) PROVE Kept
    <3> DEFINE p == client[c].peer
               now == client[c].now
               b == RecordFailure(breakers[p], client[c].token, now)
               trips == breakers[p].state # "Open" /\ b.state = "Open"
    <3>1. client[c].pc \in Holding /\ client[c].pc \in Stamped
      BY <2>8 DEF FailLocked, Holding, Stamped
    <3>2. p \in Peers /\ client[c].token \in Nat /\ now \in Instants
          /\ breakers[p] \in Inner /\ now <= clock
      BY <2>0, <3>1, ClientFields DEF TypeOK, WindowKept
    <3>3. /\ Settle(c, p, b)
          /\ barred' = IF trips THEN [barred EXCEPT ![p] = now + RecoveryWindow] ELSE barred
          /\ outdated' = IF trips THEN (outdated \cup Holders(p)) \ {c} ELSE outdated \ {c}
      BY <2>8 DEF FailLocked
    <3>4. b \in Inner /\ c \in Holders(p) /\ clock' = clock
      BY <3>1, <3>2, <3>3, RecordFailureType DEF Holders, Settle, Store
    <3>5. /\ b.generation = breakers[p].generation
          /\ breakers[p].state = "Open" => b.state = "Open" /\ b.opened_at = breakers[p].opened_at
          /\ breakers[p].state # "Open" /\ b.state = "Open" => b.opened_at = {now}
          /\ b.state = "HalfOpen" => breakers[p].state = "HalfOpen"
      BY <3>2, FailureMoves
    <3> HIDE DEF b
    <3>6. trips \in BOOLEAN
      OBVIOUS
    <3>7. (trips <=> breakers[p].state # "Open" /\ b.state = "Open")
          /\ (trips => b.opened_at = {now})
      BY <3>5
    <3> HIDE DEF trips, now, p
    <3> QED
      BY <3>2, <3>3, <3>4, <3>5, <3>6, <3>7, SettleKeeps DEF Kept
  <2>9. ASSUME NEW p \in Peers, Collect(p) PROVE Kept
    <3>1. UNCHANGED <<clock, breakers, present, client, barred, outdated>>
      BY <2>9 DEF Collect, history
    <3> QED
      BY <2>0, <3>1, QuietKeeps DEF Kept, WindowKept, Holders
  <2>10. ASSUME NEW p \in Peers, RemoveIf(p) PROVE Kept
    <3>1. CASE Removable(p)
      BY <2>10, <3>1, RemovalKeeps DEF Kept
    <3>2. CASE ~Removable(p)
      <4>1. UNCHANGED <<clock, breakers, present, client, barred, outdated>>
        BY <2>10, <3>2 DEF RemoveIf, history
      <4> QED
        BY <2>0, <4>1, QuietKeeps DEF Kept, WindowKept, Holders
    <3> QED
      BY <3>1, <3>2
  <2>11. ASSUME SweepEnd PROVE Kept
    <3>1. UNCHANGED <<clock, breakers, present, client, barred, outdated>>
      BY <2>11 DEF SweepEnd, history
    <3> QED
      BY <2>0, <3>1, QuietKeeps DEF Kept, WindowKept, Holders
  <2>12. ASSUME Tick PROVE Kept
    <3>1. clock' = clock + 1 /\ UNCHANGED <<breakers, present, client, barred, outdated>>
      BY <2>12 DEF Tick, history
    <3>2. \A d \in Clients : client[d].pc \in Stamped => client[d].now \in Nat
      BY <2>0, ClientFields DEF Instants
    <3>3. \A d \in Clients : client'[d].pc \in Stamped => client'[d].now <= clock'
      BY <2>0, <3>1, <3>2 DEF WindowKept
    <3> QED
      BY <2>0, <3>1, <3>3, QuietKeeps DEF Kept, Holders
  <2>13. ASSUME UNCHANGED vars PROVE Kept
    <3>1. UNCHANGED <<clock, breakers, present, client, barred, outdated>>
      BY <2>13 DEF vars, history
    <3> QED
      BY <2>0, <3>1, QuietKeeps DEF Kept, WindowKept, Holders
  <2> QED
    BY <2>1, <2>2, <2>3, <2>4, <2>5, <2>6, <2>7, <2>8, <2>9, <2>10, <2>11,
       <2>12, <2>13
    DEF Next, ClientStep
<1> QED
  BY <1>1, <1>2, SlotInvariant, PTL DEF Spec

\* A half-open breaker has at most one token that can still move it, however
\* many probes were abandoned to the half-open timeout.
THEOREM ProbesCorrect == Spec => []SingleProbe
<1>1. ProbeInv => SingleProbe
  BY DEF ProbeInv
<1> QED
  BY <1>1, ProbeInvariant, PTL

\* No request gets a token of a peer before the peer's recovery window is
\* over, through timestamps read before the mutex and eviction of the entry.
THEOREM WindowCorrect == Spec => WindowHonoured
<1> DEFINE Early(c) ==
      client[c].pc \in {"acquiring", "missing"} /\ client'[c].pc = "inflight"
<1>1. ProbeInv /\ [Next]_vars => [\A c \in Clients : Early(c) =>
                                    clock >= barred[client[c].peer]]_vars
  <2> SUFFICES ASSUME ProbeInv, Next, NEW c \in Clients, Early(c)
               PROVE  clock >= barred[client[c].peer]
    BY DEF vars
  <2>0. TypeOK /\ ReadersPresent /\ WindowKept /\ client[c].pc \in {"acquiring", "missing"}
        /\ client'[c].pc = "inflight"
    BY DEF ProbeInv, SlotInv
  <2>1. AcquireExisting(c) \/ AcquireEntry(c)
    <3>1. client' # client
      BY <2>0
    <3>2. PICK d \in Clients : ClientStep(d)
      BY <3>1 DEF Next, Collect, RemoveIf, SweepEnd, Tick
    <3>3. \A s : Become(d, s) => (d # c => client'[c] = client[c])
      BY <2>0 DEF Become, TypeOK
    <3>4. d = c
      BY <2>0, <3>2, <3>3 DEF ClientStep, Precheck, Lookup, AcquireExisting,
         AcquireEntry, Acquire, Succeed, Release, Fail, FailLocked, Settle
    <3>5. ClientStep(c)
      BY <3>2, <3>4
    <3>6. client[c] # Idle
      BY <2>0 DEF Idle
    <3>7. /\ \A q \in Peers : ~Precheck(c, q)
          /\ ~Succeed(c) /\ ~Release(c) /\ ~Fail(c) /\ ~FailLocked(c)
          /\ ~Lookup(c)
      BY <2>0, <3>6 DEF Precheck, Lookup, Succeed, Release, Fail, FailLocked
    <3> QED
      BY <3>5, <3>7 DEF ClientStep
  <2>2. client[c].peer \in Peers /\ clock \in Nat /\ barred[client[c].peer] \in Nat
    BY <2>0, ClientFields DEF TypeOK, Requesting, Stamped, Instants
  <2>3. ASSUME NEW b \in Inner, NEW now \in Instants, Acquire(c, client[c].peer, b, now)
        PROVE  Admits(b, now)
    BY <2>0, <2>3 DEF Acquire, Become, Idle, TypeOK
  <2>4. CASE AcquireExisting(c)
    <3> DEFINE p == client[c].peer
    <3>1. client[c].now \in Instants /\ client[c].now <= clock /\ breakers[p] \in Inner
      BY <2>0, <2>2, <2>4, ClientFields DEF AcquireExisting, Stamped, WindowKept, TypeOK
    <3>2. Admits(breakers[p], client[c].now)
      BY <2>3, <2>4, <3>1 DEF AcquireExisting
    <3> QED
      BY <2>0, <2>2, <3>1, <3>2, AdmitsAfterWindow
  <2>5. CASE AcquireEntry(c)
    <3> DEFINE p == client[c].peer
    <3>1. clock \in Instants /\ clock <= clock
      BY <2>0, <2>2 DEF TypeOK
    <3>2. CASE p \in present
      <4>1. breakers[p] \in Inner
        BY <2>0, <2>2 DEF TypeOK
      <4>2. Admits(breakers[p], clock)
        BY <2>3, <2>5, <3>1, <3>2, <4>1 DEF AcquireEntry
      <4> QED
        BY <2>0, <2>2, <3>1, <4>2, AdmitsAfterWindow
    <3>3. CASE p \notin present
      BY <2>0, <2>2, <3>3 DEF WindowKept
    <3> QED
      BY <3>2, <3>3
  <2> QED
    BY <2>1, <2>4, <2>5
<1> QED
  BY <1>1, ProbeInvariant, PTL DEF Spec, WindowHonoured

\* An outcome of a request that was already outstanding when the breaker last
\* opened or last handed out a probe never moves the breaker.
THEOREM OutdatedCorrect == Spec => OutdatedOutcomesIgnored
<1>1. ProbeInv /\ [Next]_vars =>
        [\A c \in outdated : client[c] # client'[c] =>
           Verdict(breakers'[client[c].peer]) = Verdict(breakers[client[c].peer])]_vars
  <2> SUFFICES ASSUME ProbeInv, Next, NEW c \in outdated, client[c] # client'[c]
               PROVE  Verdict(breakers'[client[c].peer]) = Verdict(breakers[client[c].peer])
    BY DEF vars
  <2> DEFINE p == client[c].peer
             t == client[c].token
  <2>0. TypeOK /\ OutdatedStale /\ c \in Clients /\ client[c].pc \in Holding
    BY DEF ProbeInv, SlotInv, OutdatedStale, TypeOK
  <2>1. Succeed(c) \/ Release(c) \/ Fail(c) \/ FailLocked(c)
    <3>1. client' # client
      OBVIOUS
    <3>2. PICK d \in Clients : ClientStep(d)
      BY <3>1 DEF Next, Collect, RemoveIf, SweepEnd, Tick
    <3>3. \A s : Become(d, s) => (d # c => client'[c] = client[c])
      BY <2>0 DEF Become, TypeOK
    <3>4. d = c
      BY <2>0, <3>2, <3>3 DEF ClientStep, Precheck, Lookup, AcquireExisting,
         AcquireEntry, Acquire, Succeed, Release, Fail, FailLocked, Settle
    <3>5. ClientStep(c)
      BY <3>2, <3>4
    <3>6. client[c] # Idle
      BY <2>0 DEF Idle, Holding
    <3>7. /\ \A q \in Peers : ~Precheck(c, q)
          /\ ~Lookup(c) /\ ~AcquireExisting(c) /\ ~AcquireEntry(c)
      BY <2>0, <3>6 DEF Precheck, Lookup, AcquireExisting, AcquireEntry, Holding
    <3> QED
      BY <3>5, <3>7 DEF ClientStep
  <2>2. p \in Peers /\ t \in Nat /\ breakers[p] \in Inner
        /\ (t # breakers[p].generation \/ breakers[p].state = "Open")
    BY <2>0, ClientFields DEF OutdatedStale, TypeOK
  <2>3. ASSUME NEW b, Settle(c, p, b), Verdict(b) = Verdict(breakers[p])
        PROVE  Verdict(breakers'[p]) = Verdict(breakers[p])
    BY <2>0, <2>2, <2>3 DEF Settle, Store, TypeOK
  <2>4. CASE Succeed(c)
    BY <2>2, <2>3, <2>4, SuccessMoves DEF Succeed
  <2>5. CASE Release(c)
    BY <2>2, <2>3, <2>5, ReleaseMoves DEF Release
  <2>6. CASE Fail(c)
    BY <2>6 DEF Fail
  <2>7. CASE FailLocked(c)
    <3>1. client[c].now \in Instants
      BY <2>0, <2>7, ClientFields DEF FailLocked, Stamped
    <3> QED
      BY <2>2, <2>3, <2>7, <3>1, FailureMoves DEF FailLocked
  <2> QED
    BY <2>1, <2>4, <2>5, <2>6, <2>7
<1> QED
  BY <1>1, ProbeInvariant, PTL DEF Spec, OutdatedOutcomesIgnored

-----------------------------------------------------------------------------
(***************************************************************************)
(* The circuit_breaker filter.  Its breakers are the core's: the critical  *)
(* sections, read through the filter's instance, keep the type of a        *)
(* breaker and move its slots as they do above.                            *)
(***************************************************************************)

\* A breaker of the filter is built well formed, with no slot taken.
LEMMA FilterNew ==
  ASSUME NEW now \in 0..MaxMoment
  PROVE  Core!New(now) \in Core!Inner /\ Core!New(now).in_flight = 0
BY DEF Core!New, Core!Inner, Core!States, Core!Nothing, Core!Instants

\* Refreshing the idle clock changes no slot.
LEMMA FilterTouch ==
  ASSUME NEW b \in Core!Inner, NEW now \in 0..MaxMoment
  PROVE  /\ [b EXCEPT !.last_activity = now] \in Core!Inner
         /\ [b EXCEPT !.last_activity = now].in_flight = b.in_flight
BY DEF Core!Inner, Core!Instants

\* issue_token takes one slot.
LEMMA FilterIssue ==
  ASSUME NEW b \in Core!Inner, NEW now \in 0..MaxMoment
  PROVE  /\ Core!IssueToken(b, now) \in Core!Inner
         /\ Core!IssueToken(b, now).in_flight = b.in_flight + 1
<1> DEFINE n == b.in_flight + 1
<1>1. n \in Nat
  BY DEF Core!Inner
<1> HIDE DEF n
<1>2. /\ [b EXCEPT !.in_flight = n, !.last_activity = now] \in Core!Inner
      /\ [b EXCEPT !.in_flight = n, !.last_activity = now].in_flight = n
  BY <1>1 DEF Core!Inner, Core!Instants
<1> QED
  BY <1>2 DEF Core!IssueToken, n

\* A probe starts from a breaker with the same slots.
LEMMA FilterProbe ==
  ASSUME NEW b \in Core!Inner, NEW now \in 0..MaxMoment, NEW x,
         x = [b EXCEPT !.generation = @ + 1, !.state = "HalfOpen",
                       !.half_opened_at = {now}]
  PROVE  x \in Core!Inner /\ x.in_flight = b.in_flight
<1> DEFINE g == b.generation + 1
<1>1. g \in Nat /\ x = [b EXCEPT !.generation = g, !.state = "HalfOpen",
                                 !.half_opened_at = {now}]
  BY DEF Core!Inner
<1> HIDE DEF g
<1>2. [b EXCEPT !.generation = g, !.state = "HalfOpen", !.half_opened_at = {now}]
        \in Core!Inner
  BY <1>1 DEF Core!Inner, Core!Instants, Core!States
<1>3. [b EXCEPT !.generation = g, !.state = "HalfOpen",
                !.half_opened_at = {now}].in_flight = b.in_flight
  BY DEF Core!Inner
<1> QED
  BY <1>1, <1>2, <1>3

\* try_acquire takes a slot exactly when it admits.
LEMMA FilterAcquire ==
  ASSUME NEW b \in Core!Inner, NEW now \in 0..MaxMoment
  PROVE  /\ Core!TryAcquire(b, now) \in Core!Inner
         /\ Core!TryAcquire(b, now).in_flight =
              IF Core!Admits(b, now) THEN b.in_flight + 1 ELSE b.in_flight
<1> DEFINE touched == [b EXCEPT !.last_activity = now]
           probed == [touched EXCEPT !.generation = @ + 1, !.state = "HalfOpen",
                                     !.half_opened_at = {now}]
<1>1. touched \in Core!Inner /\ touched.in_flight = b.in_flight
  BY FilterTouch
<1>2. Core!TryAcquire(b, now) = IF ~Core!Admits(b, now) THEN touched
                                ELSE IF b.state = "Closed" THEN Core!IssueToken(touched, now)
                                ELSE Core!IssueToken(probed, now)
  BY DEF Core!TryAcquire, Core!TransitionToHalfOpen, Core!Some
<1> HIDE DEF touched
<1>3. probed \in Core!Inner /\ probed.in_flight = b.in_flight
  BY <1>1, FilterProbe
<1> HIDE DEF probed
<1> QED
  BY <1>1, <1>2, <1>3, FilterIssue

\* release_token gives back one slot, if there is one.
LEMMA FilterRelease ==
  ASSUME NEW b \in Core!Inner
  PROVE  /\ Core!ReleaseToken(b) \in Core!Inner
         /\ b.in_flight # 0 => Core!ReleaseToken(b).in_flight = b.in_flight - 1
<1> DEFINE n == IF b.in_flight = 0 THEN 0 ELSE b.in_flight - 1
<1>1. n \in Nat
  BY DEF Core!Inner
<1> HIDE DEF n
<1>2. [b EXCEPT !.in_flight = n] \in Core!Inner /\ [b EXCEPT !.in_flight = n].in_flight = n
  BY <1>1 DEF Core!Inner
<1> QED
  BY <1>2 DEF Core!ReleaseToken, n

\* record_success gives back the slot that release_token gives back.
LEMMA FilterSuccess ==
  ASSUME NEW b \in Core!Inner, NEW token \in Nat, moment \in 0..MaxMoment
  PROVE  /\ Core!RecordSuccess(b, token) \in Core!Inner
         /\ Core!RecordSuccess(b, token).in_flight = Core!ReleaseToken(b).in_flight
<1> DEFINE freed == Core!ReleaseToken(b)
           seen == [freed EXCEPT !.last_activity = moment]
<1>1. freed \in Core!Inner
  BY FilterRelease
<1>2. b.state \in {"Closed", "Open", "HalfOpen"}
  BY DEF Core!Inner, Core!States
<1>3. seen \in Core!Inner /\ seen.in_flight = freed.in_flight
  BY <1>1, FilterTouch
<1>4. Core!RecordSuccess(b, token) \in
        {freed, [seen EXCEPT !.consecutive_failures = 0],
         [seen EXCEPT !.state = "Closed", !.consecutive_failures = 0,
                      !.opened_at = {}, !.half_opened_at = {}], seen}
  BY <1>2 DEF Core!RecordSuccess, Core!Nothing
<1> HIDE DEF seen, freed
<1>5. /\ [seen EXCEPT !.consecutive_failures = 0] \in Core!Inner
      /\ [seen EXCEPT !.consecutive_failures = 0].in_flight = seen.in_flight
  BY <1>3 DEF Core!Inner
<1>6. /\ [seen EXCEPT !.state = "Closed", !.consecutive_failures = 0,
                      !.opened_at = {}, !.half_opened_at = {}] \in Core!Inner
      /\ [seen EXCEPT !.state = "Closed", !.consecutive_failures = 0,
                      !.opened_at = {}, !.half_opened_at = {}].in_flight = seen.in_flight
  BY <1>3 DEF Core!Inner, Core!States
<1> QED
  BY <1>1, <1>3, <1>4, <1>5, <1>6 DEF freed

\* So does record_failure.
LEMMA FilterFailure ==
  ASSUME NEW b \in Core!Inner, NEW token \in Nat, NEW now \in 0..MaxMoment
  PROVE  /\ Core!RecordFailure(b, token, now) \in Core!Inner
         /\ Core!RecordFailure(b, token, now).in_flight = Core!ReleaseToken(b).in_flight
<1> DEFINE freed == Core!ReleaseToken(b)
           seen == [freed EXCEPT !.last_activity = now]
           n == seen.consecutive_failures + 1
           failed == [seen EXCEPT !.consecutive_failures = n]
           opened(x) == [x EXCEPT !.state = "Open", !.opened_at = {now}]
           reopened == [seen EXCEPT !.state = "Open", !.opened_at = {now},
                                    !.half_opened_at = {}]
<1>1. freed \in Core!Inner
  BY FilterRelease
<1>2. b.state \in {"Closed", "Open", "HalfOpen"}
  BY DEF Core!Inner, Core!States
<1>3. seen \in Core!Inner /\ seen.in_flight = freed.in_flight
  BY <1>1, FilterTouch
<1>4. Core!RecordFailure(b, token, now) \in {freed, opened(failed), failed, reopened, seen}
  BY <1>2 DEF Core!RecordFailure, Core!Nothing, Core!Some
<1> HIDE DEF seen, freed
<1>5. n \in Nat
  BY <1>3 DEF Core!Inner
<1> HIDE DEF n
<1>6. failed \in Core!Inner /\ failed.in_flight = seen.in_flight
  BY <1>3, <1>5 DEF Core!Inner
<1> HIDE DEF failed
<1>7. opened(failed) \in Core!Inner /\ opened(failed).in_flight = seen.in_flight
  BY <1>6 DEF Core!Inner, Core!States, Core!Instants
<1>8. reopened \in Core!Inner /\ reopened.in_flight = seen.in_flight
  BY <1>3 DEF Core!Inner, Core!States, Core!Instants
<1> HIDE DEF opened, reopened
<1> QED
  BY <1>1, <1>3, <1>4, <1>6, <1>7, <1>8 DEF freed

-----------------------------------------------------------------------------
(***************************************************************************)
(* Tokens across generations.                                              *)
(***************************************************************************)

\* Whether a request in state s owes its generation a settlement.
Owes(s) == s.pc = "inflight" \/ (s.pc \in {"calling", "ran", "publish"} /\ s.token # {})

\* A request holds a pipeline that was installed, so a breaker that is still
\* being built has no request; and the settling calls carry a token.
VisitsSane ==
  \A c \in Callers :
    /\ visit[c].pc # "out" => stage[visit[c].gen] \in {"current", "retired"}
    /\ visit[c].pc = "calling" => (visit[c].kind = "acquire" \/ visit[c].token # {})

\* The inductive invariant of the filter.
FilterInv == FilterSound /\ VisitsSane

\* What a request's program counter says of the other fields of its state.
LEMMA VisitFields ==
  ASSUME FilterTypeOK, NEW c \in Callers
  PROVE  /\ visit[c].pc \in {"out", "arrived", "inflight", "calling", "ran", "publish"}
         /\ visit[c].pc = "out" => visit[c] = Out
         /\ visit[c].pc # "out" => visit[c].gen \in Versions
         /\ visit[c].pc = "inflight" => visit[c].token \in Nat
         /\ visit[c].pc = "calling" => visit[c].kind \in Operations
         /\ visit[c].pc \in {"calling", "ran"} => visit[c].before \in BOOLEAN
         /\ visit[c].pc = "publish" => visit[c].open \in BOOLEAN
         /\ visit[c].pc \in {"calling", "ran", "publish"} => visit[c].token \in SUBSET Nat
BY DEF FilterTypeOK, CallStates, Out, Tokens

\* Out is no generation's.
LEMMA OutPc == Out.pc = "out"
BY DEF Out

\* The requests that owe g, by what each one owes; they are finitely many.
LEMMA OwingIs ==
  \A g \in Versions :
    /\ IsFiniteSet(Owing(g))
    /\ Owing(g) = {c \in Callers : visit[c].pc # "out" /\ visit[c].gen = g /\ Owes(visit[c])}
<1>1. \A g \in Versions : Owing(g) = {c \in Callers : /\ visit[c].pc # "out"
                                                     /\ visit[c].gen = g /\ Owes(visit[c])}
  BY DEF Owing, Users, Owes
<1> QED
  BY <1>1, FilterConfig, FS_Subset

\* Who owes g after one request has moved.
LEMMA OwingMoves ==
  ASSUME FilterTypeOK, NEW c \in Callers, NEW s, visit' = [visit EXCEPT ![c] = s],
         NEW g \in Versions
  PROVE  /\ (c \in Owing(g)') <=> (s.pc # "out" /\ s.gen = g /\ Owes(s))
         /\ (c \in Owing(g)) <=> (visit[c].pc # "out" /\ visit[c].gen = g /\ Owes(visit[c]))
         /\ \A d \in Callers \ {c} : (d \in Owing(g)') <=> (d \in Owing(g))
         /\ Owing(g) \subseteq Callers /\ Owing(g)' \subseteq Callers
<1>1. visit'[c] = s /\ \A d \in Callers : d # c => visit'[d] = visit[d]
  BY DEF FilterTypeOK
<1> QED
  BY <1>1 DEF Owing, Users, Owes

\* A request that owes after the step what it owed before changes no count.
LEMMA OwingKept ==
  ASSUME FilterTypeOK, NEW c \in Callers, NEW s, visit' = [visit EXCEPT ![c] = s],
         (s.pc # "out" /\ Owes(s)) <=> (visit[c].pc # "out" /\ Owes(visit[c])),
         s.pc # "out" /\ Owes(s) => s.gen = visit[c].gen
  PROVE  \A g \in Versions : Owing(g)' = Owing(g)
<1> SUFFICES ASSUME NEW g \in Versions PROVE Owing(g)' = Owing(g)
  OBVIOUS
<1>1. /\ (c \in Owing(g)') <=> (s.pc # "out" /\ s.gen = g /\ Owes(s))
      /\ (c \in Owing(g)) <=> (visit[c].pc # "out" /\ visit[c].gen = g /\ Owes(visit[c]))
      /\ \A d \in Callers \ {c} : (d \in Owing(g)') <=> (d \in Owing(g))
      /\ Owing(g) \subseteq Callers /\ Owing(g)' \subseteq Callers
  BY OwingMoves
<1> QED
  BY <1>1

\* An admitted request owes its generation one more settlement.
LEMMA OwingGained ==
  ASSUME FilterTypeOK, NEW c \in Callers, NEW s, visit' = [visit EXCEPT ![c] = s],
         s.pc # "out", Owes(s), ~Owes(visit[c]),
         s.gen \in Versions
  PROVE  \A g \in Versions :
           Cardinality(Owing(g)') = Cardinality(Owing(g)) + (IF g = s.gen THEN 1 ELSE 0)
<1> SUFFICES ASSUME NEW g \in Versions
             PROVE  Cardinality(Owing(g)') = Cardinality(Owing(g)) + (IF g = s.gen THEN 1 ELSE 0)
  OBVIOUS
<1>0. /\ (c \in Owing(g)') <=> (s.pc # "out" /\ s.gen = g /\ Owes(s))
      /\ (c \in Owing(g)) <=> (visit[c].pc # "out" /\ visit[c].gen = g /\ Owes(visit[c]))
      /\ \A d \in Callers \ {c} : (d \in Owing(g)') <=> (d \in Owing(g))
      /\ Owing(g) \subseteq Callers /\ Owing(g)' \subseteq Callers
  BY OwingMoves
<1>1. IsFiniteSet(Owing(g)) /\ Cardinality(Owing(g)) \in Nat
  BY OwingIs, FS_CardinalityType
<1>2. CASE g = s.gen
  <2>1. Owing(g)' = Owing(g) \cup {c} /\ c \notin Owing(g)
    BY <1>0, <1>2
  <2> QED
    BY <1>1, <1>2, <2>1, FS_AddElement
<1>3. CASE g # s.gen
  <2>1. Owing(g)' = Owing(g)
    BY <1>0, <1>3
  <2> QED
    BY <1>1, <1>3, <2>1
<1> QED
  BY <1>2, <1>3

\* A settled request owes nothing: its generation has one settlement less.
LEMMA OwingSettled ==
  ASSUME FilterTypeOK, NEW c \in Callers, NEW s, visit' = [visit EXCEPT ![c] = s],
         s.pc = "out" \/ ~Owes(s), visit[c].pc # "out", Owes(visit[c])
  PROVE  \A g \in Versions :
           Cardinality(Owing(g)) = Cardinality(Owing(g)') + (IF g = visit[c].gen THEN 1 ELSE 0)
<1> SUFFICES ASSUME NEW g \in Versions
             PROVE  Cardinality(Owing(g)) =
                      Cardinality(Owing(g)') + (IF g = visit[c].gen THEN 1 ELSE 0)
  OBVIOUS
<1>0. /\ (c \in Owing(g)') <=> (s.pc # "out" /\ s.gen = g /\ Owes(s))
      /\ (c \in Owing(g)) <=> (visit[c].pc # "out" /\ visit[c].gen = g /\ Owes(visit[c]))
      /\ \A d \in Callers \ {c} : (d \in Owing(g)') <=> (d \in Owing(g))
      /\ Owing(g) \subseteq Callers /\ Owing(g)' \subseteq Callers
  BY OwingMoves
<1>1. IsFiniteSet(Owing(g))
  BY OwingIs
<1>2. CASE g = visit[c].gen
  <2>1. Owing(g)' = Owing(g) \ {c} /\ c \in Owing(g)
    BY <1>0, <1>2
  <2>2. IsFiniteSet(Owing(g)') /\ c \notin Owing(g)' /\ Owing(g) = Owing(g)' \cup {c}
    BY <1>1, <2>1, FS_Subset
  <2> QED
    BY <1>2, <2>2, FS_AddElement
<1>3. CASE g # visit[c].gen
  <2>1. Owing(g)' = Owing(g)
    BY <1>0, <1>3
  <2> QED
    BY <1>1, <1>3, <2>1, FS_CardinalityType
<1> QED
  BY <1>2, <1>3

-----------------------------------------------------------------------------
\* The stages a breaker goes through.
Stages == Alive \cup {"unborn", "clearing", "gone"}

\* A step that moves stages alone keeps the invariant when it takes no
\* request's pipeline away and leaves the gauge's owner alive.
LEMMA StageMoves ==
  ASSUME FilterInv, moment' = moment, breaker' = breaker, gauge' \in BOOLEAN, visit' = visit,
         lost' = lost,
         stage' \in [Versions -> Stages], owner' \in 0..Builds,
         owner' # 0 => stage'[owner'] \in Alive,
         \A g \in Versions : stage[g] \in {"current", "retired"} =>
                               stage'[g] \in {"current", "retired"} \/ Users(g) = {}
  PROVE  FilterInv'
<1> USE DEF FilterInv, FilterSound
<1>1. FilterTypeOK'
  BY DEF FilterTypeOK, Stages
<1>2. TokensAtIssuer'
  BY DEF TokensAtIssuer, Owing, Users
<1>3. OwnerLives'
  BY DEF OwnerLives
<1>4. VisitsSane'
  <2> SUFFICES ASSUME NEW c \in Callers
               PROVE  /\ visit[c].pc # "out" => stage'[visit[c].gen] \in {"current", "retired"}
                      /\ visit[c].pc = "calling" =>
                           (visit[c].kind = "acquire" \/ visit[c].token # {})
    BY DEF VisitsSane
  <2>1. visit[c].pc = "calling" => (visit[c].kind = "acquire" \/ visit[c].token # {})
    BY DEF VisitsSane
  <2>2. ASSUME visit[c].pc # "out" PROVE stage'[visit[c].gen] \in {"current", "retired"}
    <3>1. visit[c].gen \in Versions
      BY <2>2, VisitFields
    <3>2. c \in Users(visit[c].gen)
      BY <2>2 DEF Users
    <3>3. stage[visit[c].gen] \in {"current", "retired"}
      BY <2>2 DEF VisitsSane
    <3> QED
      BY <3>1, <3>2, <3>3
  <2> QED
    BY <2>1, <2>2
<1> QED
  BY <1>1, <1>2, <1>3, <1>4

\* new up to the owner map: the newest breaker owns the gauge, alive.
LEMMA ClaimKeeps ==
  ASSUME FilterInv, NEW g \in Versions, ClaimGauge(g)
  PROVE  FilterInv'
<1>1. /\ stage \in [Versions -> Stages] /\ gauge \in BOOLEAN
      /\ stage' = [stage EXCEPT ![g] = "claimed"] /\ stage[g] = "unborn"
  BY DEF FilterInv, FilterSound, FilterTypeOK, ClaimGauge, Promote, Stages
<1>2. stage' \in [Versions -> Stages] /\ stage'[g] = "claimed"
  BY <1>1 DEF Stages, Alive
<1>3. owner' = g /\ g \in 0..Builds
  BY FilterConfig DEF ClaimGauge, Versions
<1>4. \A h \in Versions : stage[h] \in {"current", "retired"} => stage'[h] = stage[h]
  BY <1>1
<1> QED
  BY <1>1, <1>2, <1>3, <1>4, StageMoves DEF ClaimGauge, Alive

\* The rest of new: the breaker starts without slots, and without requests.
LEMMA SeedKeeps ==
  ASSUME FilterInv, NEW g \in Versions, Seed(g)
  PROVE  FilterInv'
<1> USE DEF FilterInv, FilterSound
<1>1. /\ moment \in 0..MaxMoment /\ stage[g] = "claimed"
      /\ stage' = [stage EXCEPT ![g] = "built"]
      /\ breaker' = [breaker EXCEPT ![g] = Core!New(moment)]
      /\ visit' = visit /\ owner' = owner /\ moment' = moment /\ gauge' = FALSE
      /\ stage \in [Versions -> Stages] /\ breaker \in [Versions -> Core!Inner]
      /\ lost' = [lost EXCEPT ![g] = 0] /\ lost \in [Versions -> Nat]
  BY DEF Seed, Promote, FilterTypeOK, Stages
<1>2. Core!New(moment) \in Core!Inner /\ Core!New(moment).in_flight = 0
  BY <1>1, FilterNew
<1>3. FilterTypeOK'
  BY <1>1, <1>2 DEF FilterTypeOK, Alive
<1>4. Users(g) = {}
  BY <1>1 DEF Users, VisitsSane
<1>5. TokensAtIssuer'
  <2>1. \A h \in Versions : Owing(h)' = Owing(h)
    BY <1>1 DEF Owing, Users
  <2>2. Owing(g) = {}
    BY <1>4 DEF Owing
  <2>3. Cardinality(Owing(g)) = 0
    BY <2>2, FS_EmptySet
  <2>4. /\ breaker'[g].in_flight = 0 /\ lost'[g] = 0
        /\ \A h \in Versions : h # g => breaker'[h] = breaker[h] /\ lost'[h] = lost[h]
    BY <1>1, <1>2
  <2>5. \A h \in Versions : breaker'[h].in_flight = Cardinality(Owing(h)) + lost'[h]
    BY <2>3, <2>4 DEF TokensAtIssuer
  <2> QED
    BY <2>1, <2>5 DEF TokensAtIssuer
<1>6. OwnerLives'
  BY <1>1 DEF OwnerLives, FilterTypeOK, Alive
<1>7. VisitsSane'
  BY <1>1, VisitFields DEF VisitsSane
<1> QED
  BY <1>3, <1>5, <1>6, <1>7

\* Installing, discarding and removing a generation.
LEMMA ReplaceKeeps ==
  ASSUME FilterInv, (\E g \in Versions : Swap(g) \/ Discard(g)) \/ RemoveCluster
  PROVE  FilterInv'
<1>1. /\ stage \in [Versions -> Stages] /\ owner \in 0..Builds /\ gauge \in BOOLEAN
      /\ owner # 0 => owner \in Versions /\ stage[owner] \in Alive
  BY FilterConfig DEF FilterInv, FilterSound, FilterTypeOK, OwnerLives, Stages, Versions
<1>2. /\ moment' = moment /\ breaker' = breaker /\ gauge' = gauge /\ visit' = visit
      /\ owner' = owner /\ lost' = lost
  BY DEF Swap, Discard, RemoveCluster
<1>3. ASSUME NEW n, stage' = Replaced(n)
      PROVE  /\ stage' \in [Versions -> Stages]
             /\ \A h \in Versions : stage[h] \in Alive => stage'[h] \in Alive
             /\ \A h \in Versions : stage[h] \in {"current", "retired"} =>
                                      stage'[h] \in {"current", "retired"}
  <2>1. \A h \in Versions : stage'[h] \in {"current", "retired"} \/ stage'[h] = stage[h]
    BY <1>3 DEF Replaced
  <2>2. \A h \in Versions : stage'[h] \in Stages
    BY <1>1, <2>1 DEF Stages, Alive
  <2>3. stage' \in [Versions -> Stages]
    BY <1>3, <2>2 DEF Replaced
  <2> QED
    BY <2>1, <2>3 DEF Alive
<1>4. /\ stage' \in [Versions -> Stages]
      /\ \A h \in Versions : stage[h] \in Alive => stage'[h] \in Alive
      /\ \A h \in Versions : stage[h] \in {"current", "retired"} =>
                               stage'[h] \in {"current", "retired"}
  <2>1. CASE \E g \in Versions : Swap(g)
    BY <1>3, <2>1 DEF Swap
  <2>2. CASE \E g \in Versions : Discard(g)
    BY <1>1, <2>2 DEF Discard, Promote, Stages, Alive
  <2>3. CASE RemoveCluster
    BY <1>3, <2>3 DEF RemoveCluster
  <2> QED
    BY <2>1, <2>2, <2>3
<1>5. owner' # 0 => stage'[owner'] \in Alive
  BY <1>1, <1>2, <1>4
<1> QED
  BY <1>1, <1>2, <1>4, <1>5, StageMoves

\* Drop, which waits for the last request, and the clearing of the gauge.
LEMMA DropKeeps ==
  ASSUME FilterInv, NEW g \in Versions, Drop(g) \/ ClearGauge(g)
  PROVE  FilterInv'
<1>1. /\ stage \in [Versions -> Stages] /\ owner \in 0..Builds /\ gauge \in BOOLEAN
      /\ owner # 0 => owner \in Versions /\ stage[owner] \in Alive
  BY FilterConfig DEF FilterInv, FilterSound, FilterTypeOK, OwnerLives, Stages, Versions
<1>2. \E s \in {"clearing", "gone"} : stage' = [stage EXCEPT ![g] = s]
  BY DEF Drop, ClearGauge, Promote
<1>3. stage' \in [Versions -> Stages] /\ \A h \in Versions : h # g => stage'[h] = stage[h]
  BY <1>1, <1>2 DEF Stages
<1>4. /\ moment' = moment /\ breaker' = breaker /\ gauge' \in BOOLEAN /\ visit' = visit
      /\ owner' \in 0..Builds /\ lost' = lost
  <2>1. CASE Drop(g)
    BY <1>1, <2>1, FilterConfig DEF Drop
  <2>2. CASE ClearGauge(g)
    BY <1>1, <2>2 DEF ClearGauge
  <2> QED
    BY <2>1, <2>2
<1>5. owner' # 0 => owner' = owner /\ owner # g
  BY <1>1 DEF Drop, ClearGauge, Alive
<1>6. owner' # 0 => stage'[owner'] \in Alive
  BY <1>1, <1>3, <1>5
<1>7. stage[g] \in {"current", "retired"} => Users(g) = {}
  BY DEF Drop, ClearGauge
<1> QED
  BY <1>3, <1>4, <1>6, <1>7, StageMoves

-----------------------------------------------------------------------------
\* What a request may become: a state of the right type, in the pipeline of
\* an installed generation, with a token when it settles.
Sound(s) ==
  /\ s \in CallStates
  /\ s.pc # "out" => stage[s.gen] \in {"current", "retired"}
  /\ s.pc = "calling" => (s.kind = "acquire" \/ s.token # {})

\* A request's step keeps the invariant when its new state is sound and the
\* slots still are the settlements owed and the tokens lost.
LEMMA VisitMoves ==
  ASSUME FilterInv, NEW c \in Callers, NEW s, Sound(s),
         visit' = [visit EXCEPT ![c] = s],
         moment' = moment, stage' = stage, owner' = owner, gauge' \in BOOLEAN,
         breaker' \in [Versions -> Core!Inner], lost' \in [Versions -> Nat],
         TokensAtIssuer'
  PROVE  FilterInv'
<1> USE DEF FilterInv, FilterSound
<1>1. visit \in [Callers -> CallStates]
  BY DEF FilterTypeOK
<1>2. visit' \in [Callers -> CallStates]
  BY <1>1 DEF Sound
<1>3. FilterTypeOK'
  BY <1>2 DEF FilterTypeOK
<1>4. OwnerLives'
  BY DEF OwnerLives
<1>5. visit'[c] = s /\ \A d \in Callers : d # c => visit'[d] = visit[d]
  BY <1>1
<1>6. VisitsSane'
  BY <1>5 DEF VisitsSane, Sound
<1> QED
  BY <1>3, <1>4, <1>6

\* A step that owes what it owed, at breakers it leaves alone.
LEMMA VisitKeeps ==
  ASSUME FilterInv, NEW c \in Callers, NEW s, Sound(s),
         visit' = [visit EXCEPT ![c] = s],
         moment' = moment, stage' = stage, owner' = owner, gauge' \in BOOLEAN,
         breaker' = breaker, lost' = lost,
         (s.pc # "out" /\ Owes(s)) <=> (visit[c].pc # "out" /\ Owes(visit[c])),
         s.pc # "out" /\ Owes(s) => s.gen = visit[c].gen
  PROVE  FilterInv'
<1>1. FilterTypeOK /\ TokensAtIssuer
  BY DEF FilterInv, FilterSound
<1>2. \A g \in Versions : Owing(g)' = Owing(g)
  BY <1>1, OwingKept
<1>3. TokensAtIssuer'
  BY <1>1, <1>2 DEF TokensAtIssuer
<1> QED
  BY <1>1, <1>3, VisitMoves DEF FilterTypeOK

\* The states a request takes, each with what it says of itself.
LEMMA CallState ==
  ASSUME NEW g \in Versions
  PROVE  /\ Out \in CallStates
         /\ [pc |-> "arrived", gen |-> g] \in CallStates
         /\ \A t \in Nat : [pc |-> "inflight", gen |-> g, token |-> t] \in CallStates
         /\ \A k \in Operations, b \in BOOLEAN, T \in SUBSET Nat :
              [pc |-> "calling", gen |-> g, kind |-> k, before |-> b, token |-> T] \in CallStates
         /\ \A b \in BOOLEAN, T \in SUBSET Nat :
              /\ [pc |-> "ran", gen |-> g, before |-> b, token |-> T] \in CallStates
              /\ [pc |-> "publish", gen |-> g, open |-> b, token |-> T] \in CallStates
BY DEF CallStates, Tokens

\* A request takes a reference to the current pipeline.
LEMMA ArriveKeeps ==
  ASSUME FilterInv, NEW c \in Callers, Arrive(c)
  PROVE  FilterInv'
<1>1. PICK g \in Versions : stage[g] = "current" /\ Proceed(c, [pc |-> "arrived", gen |-> g])
  BY DEF Arrive
<1> DEFINE s == [pc |-> "arrived", gen |-> g]
<1>2. s \in CallStates /\ s.pc = "arrived" /\ s.gen = g
  BY CallState
<1>3. visit' = [visit EXCEPT ![c] = s]
  BY <1>1 DEF Proceed
<1> HIDE DEF s
<1>4. Sound(s) /\ ~Owes(s)
  BY <1>1, <1>2 DEF Sound, Owes
<1>5. visit[c].pc = "out"
  BY OutPc DEF Arrive
<1>6. gauge' \in BOOLEAN
  BY DEF FilterInv, FilterSound, FilterTypeOK, Arrive
<1> QED
  BY <1>2, <1>3, <1>4, <1>5, <1>6, VisitKeeps DEF Arrive

\* The instrumented call begins, and with on_response the token moves from
\* the filter state into the settling call.
LEMMA BeforeKeeps ==
  ASSUME FilterInv, NEW c \in Callers, Before(c)
  PROVE  FilterInv'
<1> DEFINE v == visit[c]
           b == logical_open(v.gen)
<1>1. FilterTypeOK /\ VisitsSane
  BY DEF FilterInv, FilterSound
<1>2. v.pc \in {"arrived", "inflight"}
  BY DEF Before
<1>3. v.gen \in Versions /\ stage[v.gen] \in {"current", "retired"}
  BY <1>1, <1>2, VisitFields DEF VisitsSane
<1>4. b \in BOOLEAN
  BY DEF logical_open
<1>5. gauge' \in BOOLEAN
  BY <1>1 DEF FilterTypeOK, Before
<1>6. CASE v.pc = "arrived"
  <2> DEFINE s == [pc |-> "calling", gen |-> v.gen, kind |-> "acquire", before |-> b,
                   token |-> {}]
  <2>1. visit' = [visit EXCEPT ![c] = s]
    BY <1>6 DEF Before, Proceed
  <2>2. s.pc = "calling" /\ s.gen = v.gen /\ s.kind = "acquire" /\ s.token = {}
    OBVIOUS
  <2>3. s \in CallStates
    <3> HIDE DEF b
    <3> QED
      BY <1>3, <1>4, CallState DEF Operations
  <2> HIDE DEF s
  <2>4. Sound(s) /\ ~Owes(s) /\ ~Owes(v)
    BY <1>3, <1>6, <2>2, <2>3 DEF Sound, Owes
  <2> QED
    BY <1>5, <2>1, <2>2, <2>4, VisitKeeps DEF Before
<1>7. CASE v.pc = "inflight"
  <2>1. PICK kind \in {"acquire", "success", "failure"} :
          Proceed(c, [pc |-> "calling", gen |-> v.gen, kind |-> kind,
                      before |-> b, token |-> {v.token}])
    BY <1>7 DEF Before
  <2> DEFINE s == [pc |-> "calling", gen |-> v.gen, kind |-> kind, before |-> b,
                   token |-> {v.token}]
  <2>2. visit' = [visit EXCEPT ![c] = s]
    BY <2>1 DEF Proceed
  <2>3. s.pc = "calling" /\ s.gen = v.gen /\ s.kind = kind /\ s.token = {v.token}
    OBVIOUS
  <2>4. v.token \in Nat
    BY <1>1, <1>7, VisitFields
  <2>5. s \in CallStates
    <3> HIDE DEF b
    <3>1. kind \in Operations /\ {v.token} \in SUBSET Nat
      BY <2>4 DEF Operations
    <3> QED
      BY <1>3, <1>4, <3>1, CallState
  <2> HIDE DEF s
  <2>6. Sound(s) /\ Owes(s) /\ Owes(v)
    BY <1>3, <1>7, <2>3, <2>5 DEF Sound, Owes
  <2> QED
    BY <1>5, <1>7, <2>2, <2>3, <2>6, VisitKeeps DEF Before
<1> QED
  BY <1>2, <1>6, <1>7

\* A breaker that gives a slot back while a request of it stops owing.
LEMMA SlotReturned ==
  ASSUME FilterTypeOK, TokensAtIssuer, NEW c \in Callers, NEW s, NEW next \in Core!Inner,
         visit' = [visit EXCEPT ![c] = s], lost' = lost,
         breaker' = [breaker EXCEPT ![visit[c].gen] = next],
         s.pc = "out" \/ ~Owes(s), visit[c].pc # "out", Owes(visit[c]),
         breaker[visit[c].gen].in_flight # 0 =>
           next.in_flight = breaker[visit[c].gen].in_flight - 1
  PROVE  TokensAtIssuer'
<1> DEFINE v == visit[c]
<1>1. v.gen \in Versions /\ breaker \in [Versions -> Core!Inner]
  BY VisitFields DEF FilterTypeOK
<1> SUFFICES ASSUME NEW g \in Versions
             PROVE  breaker'[g].in_flight = Cardinality(Owing(g)') + lost[g]
  BY DEF TokensAtIssuer
<1> DEFINE m == Cardinality(Owing(g))
           n == Cardinality(Owing(g)')
<1>2. m = n + (IF g = v.gen THEN 1 ELSE 0)
  BY OwingSettled
<1>3. n \in Nat
  <2>1. Owing(g)' \subseteq Callers
    BY DEF Owing, Users
  <2>2. IsFiniteSet(Owing(g)')
    BY <2>1, FilterConfig, FS_Subset
  <2> QED
    BY <2>2, FS_CardinalityType
<1>4. breaker[g].in_flight = m + lost[g] /\ lost[g] \in Nat
  BY DEF TokensAtIssuer, FilterTypeOK
<1>5. breaker'[g] = IF g = v.gen THEN next ELSE breaker[g]
  BY <1>1
<1> HIDE DEF m, n, v
<1>6. breaker'[g].in_flight = n + lost[g]
  <2>1. CASE g = v.gen
    BY <1>2, <1>3, <1>4, <1>5, <2>1 DEF v
  <2>2. CASE g # v.gen
    BY <1>2, <1>3, <1>4, <1>5, <2>2
  <2> QED
    BY <2>1, <2>2
<1> QED
  BY <1>6 DEF n

\* A breaker that takes a slot while a request of it starts owing.
LEMMA SlotTaken ==
  ASSUME FilterTypeOK, TokensAtIssuer, NEW c \in Callers, NEW s, NEW next \in Core!Inner,
         visit' = [visit EXCEPT ![c] = s], lost' = lost,
         breaker' = [breaker EXCEPT ![s.gen] = next],
         s.pc # "out", Owes(s), ~Owes(visit[c]), s.gen \in Versions,
         next.in_flight = breaker[s.gen].in_flight + 1
  PROVE  TokensAtIssuer'
<1>1. breaker \in [Versions -> Core!Inner]
  BY DEF FilterTypeOK
<1> SUFFICES ASSUME NEW g \in Versions
             PROVE  breaker'[g].in_flight = Cardinality(Owing(g)') + lost[g]
  BY DEF TokensAtIssuer
<1> DEFINE m == Cardinality(Owing(g))
           n == Cardinality(Owing(g)')
<1>2. n = m + (IF g = s.gen THEN 1 ELSE 0)
  BY OwingGained
<1>3. m \in Nat
  BY OwingIs, FS_CardinalityType
<1>4. breaker[g].in_flight = m + lost[g] /\ lost[g] \in Nat
  BY DEF TokensAtIssuer, FilterTypeOK
<1>5. breaker'[g] = IF g = s.gen THEN next ELSE breaker[g]
  BY <1>1
<1> HIDE DEF m, n
<1>6. breaker'[g].in_flight = n + lost[g]
  BY <1>2, <1>3, <1>4, <1>5
<1> QED
  BY <1>6 DEF n

\* on_response of a request that never reached the upstream gives its slot
\* back to the breaker that issued it.
LEMMA ReleaseKeeps ==
  ASSUME FilterInv, NEW c \in Callers, ReleaseUnreached(c)
  PROVE  FilterInv'
<1> DEFINE v == visit[c]
           b == breaker[v.gen]
           next == Core!ReleaseToken(b)
<1>1. /\ FilterTypeOK /\ TokensAtIssuer /\ breaker \in [Versions -> Core!Inner]
      /\ gauge \in BOOLEAN /\ lost \in [Versions -> Nat]
  BY DEF FilterInv, FilterSound, FilterTypeOK
<1>2. v.pc = "inflight" /\ Owes(v) /\ v.gen \in Versions
  BY <1>1, VisitFields DEF ReleaseUnreached, Owes
<1>3. /\ visit' = [visit EXCEPT ![c] = Out] /\ breaker' = [breaker EXCEPT ![v.gen] = next]
      /\ lost' = lost
  BY DEF ReleaseUnreached, Proceed
<1>4. next \in Core!Inner /\ (b.in_flight # 0 => next.in_flight = b.in_flight - 1)
  BY <1>1, <1>2, FilterRelease
<1>5. TokensAtIssuer'
  BY <1>1, <1>2, <1>3, <1>4, OutPc, SlotReturned
<1>6. breaker' \in [Versions -> Core!Inner]
  BY <1>1, <1>3, <1>4
<1>7. Sound(Out)
  BY <1>2, OutPc, CallState DEF Sound
<1> QED
  BY <1>1, <1>3, <1>5, <1>6, <1>7, VisitMoves DEF ReleaseUnreached

\* A request that ends without on_response owes nothing any more, and its slot
\* stays taken: the token is lost.
LEMMA LeaveKeeps ==
  ASSUME FilterInv, NEW c \in Callers, LeaveUnsettled(c)
  PROVE  FilterInv'
<1> DEFINE v == visit[c]
<1>1. /\ FilterTypeOK /\ TokensAtIssuer /\ breaker \in [Versions -> Core!Inner]
      /\ gauge \in BOOLEAN /\ lost \in [Versions -> Nat]
  BY DEF FilterInv, FilterSound, FilterTypeOK
<1>2. v.pc = "inflight" /\ Owes(v) /\ v.gen \in Versions
  BY <1>1, VisitFields DEF LeaveUnsettled, Owes
<1>3. /\ visit' = [visit EXCEPT ![c] = Out]
      /\ lost' = [lost EXCEPT ![v.gen] = lost[v.gen] + 1]
      /\ UNCHANGED <<moment, stage, breaker, owner, gauge>>
  BY DEF LeaveUnsettled, Proceed
<1>4. lost' \in [Versions -> Nat]
  BY <1>1, <1>2, <1>3
<1>5. TokensAtIssuer'
  <2> SUFFICES ASSUME NEW g \in Versions
               PROVE  breaker'[g].in_flight = Cardinality(Owing(g)') + lost'[g]
    BY DEF TokensAtIssuer
  <2> DEFINE m == Cardinality(Owing(g))
             n == Cardinality(Owing(g)')
  <2>1. m = n + (IF g = v.gen THEN 1 ELSE 0)
    BY <1>1, <1>2, <1>3, OutPc, OwingSettled
  <2>2. n \in Nat
    <3>1. Owing(g)' \subseteq Callers
      BY DEF Owing, Users
    <3>2. IsFiniteSet(Owing(g)')
      BY <3>1, FilterConfig, FS_Subset
    <3> QED
      BY <3>2, FS_CardinalityType
  <2>3. breaker'[g].in_flight = m + lost[g] /\ lost[g] \in Nat
    BY <1>1, <1>3 DEF TokensAtIssuer
  <2>4. lost'[g] = lost[g] + (IF g = v.gen THEN 1 ELSE 0)
    BY <1>1, <1>3
  <2> HIDE DEF m, n, v
  <2>5. breaker'[g].in_flight = n + lost'[g]
    BY <2>1, <2>2, <2>3, <2>4
  <2> QED
    BY <2>5 DEF n
<1>6. Sound(Out)
  BY <1>2, OutPc, CallState DEF Sound
<1> QED
  BY <1>1, <1>3, <1>4, <1>5, <1>6, VisitMoves

\* The core operation: an admitted acquisition takes a slot and leaves with a
\* token, losing the one it overwrites; a rejected one changes no slot; a
\* settling call returns its slot and leaves without a token.
LEMMA OperateKeeps ==
  ASSUME FilterInv, NEW c \in Callers, Operate(c)
  PROVE  FilterInv'
<1> DEFINE v == visit[c]
           b == breaker[v.gen]
           tok == CHOOSE t \in v.token : TRUE
           next == CASE v.kind = "acquire" -> Core!TryAcquire(b, moment)
                     [] v.kind = "success" -> Core!RecordSuccess(b, tok)
                     [] v.kind = "failure" -> Core!RecordFailure(b, tok, moment)
           granted == v.kind = "acquire" /\ Core!Admits(b, moment)
           T == CASE granted -> {next.generation}
                  [] v.kind = "acquire" /\ ~granted -> v.token
                  [] v.kind # "acquire" -> {}
           s == [pc |-> "ran", gen |-> v.gen, before |-> v.before, token |-> T]
<1>1. /\ FilterTypeOK /\ TokensAtIssuer /\ breaker \in [Versions -> Core!Inner]
      /\ moment \in 0..MaxMoment /\ gauge \in BOOLEAN /\ VisitsSane
      /\ lost \in [Versions -> Nat]
  BY DEF FilterInv, FilterSound, FilterTypeOK
<1>2. /\ v.pc = "calling" /\ v.gen \in Versions /\ v.token \in SUBSET Nat
      /\ v.kind \in {"acquire", "success", "failure"} /\ v.before \in BOOLEAN
      /\ v.kind = "acquire" \/ v.token # {}
      /\ stage[v.gen] \in {"current", "retired"}
  BY <1>1, VisitFields DEF Operate, Operations, VisitsSane
<1>3. visit' = [visit EXCEPT ![c] = s] /\ breaker' = [breaker EXCEPT ![v.gen] = next]
  BY DEF Operate, Proceed
<1>4. /\ UNCHANGED <<moment, stage, owner, gauge>>
      /\ lost' = IF granted /\ v.token # {}
                 THEN [lost EXCEPT ![v.gen] = lost[v.gen] + 1] ELSE lost
  BY DEF Operate
<1>5. b \in Core!Inner
  BY <1>1, <1>2
<1>6. /\ next \in Core!Inner
      /\ granted => next.in_flight = b.in_flight + 1
      /\ v.kind = "acquire" /\ ~granted => next.in_flight = b.in_flight
      /\ v.kind # "acquire" => (b.in_flight # 0 => next.in_flight = b.in_flight - 1)
  <2> HIDE DEF b, v
  <2>1. CASE v.kind = "acquire"
    <3>1. next = Core!TryAcquire(b, moment)
      BY <2>1
    <3> HIDE DEF next
    <3> QED
      BY <1>1, <1>5, <2>1, <3>1, FilterAcquire
  <2>2. CASE v.kind # "acquire"
    <3>1. tok \in Nat
      BY <1>2, <2>2
    <3>2. next = Core!RecordSuccess(b, tok) \/ next = Core!RecordFailure(b, tok, moment)
      BY <1>2, <2>2
    <3> HIDE DEF next, tok
    <3>3. next \in Core!Inner /\ next.in_flight = Core!ReleaseToken(b).in_flight
      <4>0. b \in Core!Inner /\ tok \in Nat /\ moment \in 0..MaxMoment
        BY <1>1, <1>5, <3>1
      <4>1. CASE next = Core!RecordSuccess(b, tok)
        BY ONLY <4>0, <4>1, FilterSuccess
      <4>2. CASE next = Core!RecordFailure(b, tok, moment)
        BY ONLY <4>0, <4>2, FilterFailure
      <4> QED
        BY <3>2, <4>1, <4>2
    <3> QED
      BY <1>5, <2>2, <3>3, FilterRelease
  <2> QED
    BY <2>1, <2>2
<1> HIDE DEF next, granted
<1>7. /\ T \in SUBSET Nat /\ (granted => v.kind = "acquire")
      /\ granted => T # {}
      /\ v.kind = "acquire" /\ ~granted => T = v.token
      /\ v.kind # "acquire" => T = {}
  BY <1>2, <1>6 DEF Core!Inner, granted
<1> HIDE DEF T
<1>8. s.pc = "ran" /\ s.gen = v.gen /\ s.token = T
  OBVIOUS
<1>9. s \in CallStates
  BY <1>2, <1>7, CallState
<1> HIDE DEF s, b
<1>10. Sound(s) /\ (Owes(s) <=> T # {}) /\ (Owes(v) <=> v.token # {})
  BY <1>2, <1>7, <1>8, <1>9 DEF Sound, Owes
<1>11. breaker' \in [Versions -> Core!Inner]
  BY <1>1, <1>3, <1>6
<1>12. lost' \in [Versions -> Nat]
  BY <1>1, <1>2, <1>4
<1>13. TokensAtIssuer'
  <2>1. CASE granted /\ v.token = {}
    BY <1>1, <1>2, <1>3, <1>4, <1>6, <1>7, <1>8, <1>10, <2>1, SlotTaken DEF b
  <2>2. CASE v.kind = "acquire" /\ ~granted
    <3>1. \A g \in Versions : Owing(g)' = Owing(g)
      BY <1>1, <1>2, <1>3, <1>7, <1>8, <1>10, <2>2, OwingKept
    <3>2. \A g \in Versions : breaker'[g].in_flight = breaker[g].in_flight
      BY <1>1, <1>2, <1>3, <1>6, <2>2 DEF b
    <3> QED
      BY <1>1, <1>4, <2>2, <3>1, <3>2 DEF TokensAtIssuer
  <2>3. CASE v.kind # "acquire"
    BY <1>1, <1>2, <1>3, <1>4, <1>6, <1>7, <1>10, <2>3, SlotReturned DEF b
  <2>4. CASE granted /\ v.token # {}
    <3>1. \A g \in Versions : Owing(g)' = Owing(g)
      BY <1>1, <1>2, <1>3, <1>7, <1>8, <1>10, <2>4, OwingKept
    <3>2. ASSUME NEW g \in Versions
          PROVE  breaker'[g].in_flight = Cardinality(Owing(g)) + lost'[g]
      <4> DEFINE m == Cardinality(Owing(g))
      <4>1. m \in Nat
        BY OwingIs, FS_CardinalityType
      <4>2. breaker[g].in_flight = m + lost[g] /\ lost[g] \in Nat
        BY <1>1 DEF TokensAtIssuer
      <4>3. /\ breaker'[g].in_flight =
                 breaker[g].in_flight + (IF g = v.gen THEN 1 ELSE 0)
            /\ lost'[g] = lost[g] + (IF g = v.gen THEN 1 ELSE 0)
        <5>1. CASE g = v.gen
          BY <1>1, <1>3, <1>4, <1>6, <2>4, <5>1 DEF b
        <5>2. CASE g # v.gen
          BY <1>1, <1>3, <1>4, <2>4, <4>1, <4>2, <5>2
        <5> QED
          BY <5>1, <5>2
      <4> HIDE DEF m, v
      <4>4. breaker'[g].in_flight = m + lost'[g]
        BY <4>1, <4>2, <4>3
      <4> QED
        BY <4>4 DEF m
    <3> QED
      BY <3>1, <3>2 DEF TokensAtIssuer
  <2> QED
    BY <1>7, <2>1, <2>2, <2>3, <2>4
<1> QED
  BY <1>1, <1>3, <1>4, <1>10, <1>11, <1>12, <1>13, VisitMoves

\* Returning from a call hands the token, if there is one, to the request.
LEMMA ReturnedSound ==
  ASSUME FilterInv, NEW c \in Callers, visit[c].pc \in {"ran", "publish"}
  PROVE  LET s == Returned(visit[c])
         IN  /\ Sound(s) /\ ((s.pc # "out" /\ Owes(s)) <=> Owes(visit[c]))
             /\ s.pc # "out" => s.gen = visit[c].gen
<1> DEFINE v == visit[c]
           s == Returned(v)
           tok == CHOOSE t \in v.token : TRUE
<1>1. /\ v.gen \in Versions /\ v.token \in SUBSET Nat
      /\ stage[v.gen] \in {"current", "retired"}
  BY VisitFields DEF FilterInv, FilterSound, VisitsSane
<1>2. Owes(v) <=> v.token # {}
  BY DEF Owes
<1>3. CASE v.token = {}
  <2>1. s = Out
    BY <1>3 DEF Returned
  <2> QED
    BY <1>1, <1>2, <1>3, <2>1, OutPc, CallState DEF Sound
<1>4. CASE v.token # {}
  <2>1. s = [pc |-> "inflight", gen |-> v.gen, token |-> tok]
    BY <1>4 DEF Returned
  <2>2. tok \in Nat
    BY <1>1, <1>4
  <2> HIDE DEF tok, s
  <2>3. s \in CallStates /\ s.pc = "inflight" /\ s.gen = v.gen
    BY <1>1, <2>1, <2>2, CallState
  <2>4. Sound(s) /\ Owes(s)
    BY <1>1, <2>3 DEF Sound, Owes
  <2> QED
    BY <1>2, <1>4, <2>3, <2>4 DEF s
<1> QED
  BY <1>3, <1>4

\* `after` is read: the call publishes or returns.
LEMMA AfterKeeps ==
  ASSUME FilterInv, NEW c \in Callers, After(c)
  PROVE  FilterInv'
<1> DEFINE v == visit[c]
           same == v.before = logical_open(v.gen)
           p == [pc |-> "publish", gen |-> v.gen, open |-> logical_open(v.gen),
                 token |-> v.token]
           s == IF same THEN Returned(v) ELSE p
<1>1. /\ v.pc = "ran" /\ v.gen \in Versions /\ v.token \in SUBSET Nat
      /\ stage[v.gen] \in {"current", "retired"} /\ gauge \in BOOLEAN
  BY VisitFields DEF FilterInv, FilterSound, FilterTypeOK, VisitsSane, After
<1>2. visit' = [visit EXCEPT ![c] = s]
  BY DEF After, Proceed
<1>3. UNCHANGED <<moment, stage, breaker, lost, owner, gauge>>
  BY DEF After
<1>4. p \in CallStates /\ p.pc = "publish" /\ p.gen = v.gen /\ p.token = v.token
  <2>1. logical_open(v.gen) \in BOOLEAN
    BY DEF logical_open
  <2> QED
    BY <1>1, <2>1, CallState
<1> HIDE DEF p
<1>5. Sound(p) /\ (Owes(p) <=> Owes(v)) /\ p.pc # "out"
  BY <1>1, <1>4 DEF Sound, Owes
<1>6. /\ Sound(s) /\ ((s.pc # "out" /\ Owes(s)) <=> Owes(v))
      /\ s.pc # "out" => s.gen = v.gen
  BY <1>1, <1>4, <1>5, ReturnedSound
<1> HIDE DEF s
<1> QED
  BY <1>1, <1>2, <1>3, <1>6, VisitKeeps

\* The gauge is published and the call returns.
LEMMA PublishKeeps ==
  ASSUME FilterInv, NEW c \in Callers, Publish(c)
  PROVE  FilterInv'
<1> DEFINE s == Returned(visit[c])
<1>1. visit[c].pc = "publish" /\ gauge' \in BOOLEAN
  BY VisitFields DEF Publish, FilterInv, FilterSound
<1>2. visit' = [visit EXCEPT ![c] = s]
  BY DEF Publish, Proceed
<1>3. /\ Sound(s) /\ ((s.pc # "out" /\ Owes(s)) <=> Owes(visit[c]))
      /\ s.pc # "out" => s.gen = visit[c].gen
  BY <1>1, ReturnedSound
<1> HIDE DEF s
<1> QED
  BY <1>1, <1>2, <1>3, VisitKeeps DEF Publish

\* The invariant of the filter holds in every state.
LEMMA FilterInvariant == FilterSpec => []FilterInv
<1>1. FilterInit => FilterInv
  <2> SUFFICES ASSUME FilterInit PROVE FilterInv
    OBVIOUS
  <2>1. 0 \in 0..MaxMoment /\ 0 \in 0..Builds
    BY FilterConfig
  <2>2. Core!New(0) \in Core!Inner /\ Core!New(0).in_flight = 0
    BY <2>1, FilterNew
  <2>3. FilterTypeOK
    BY <2>1, <2>2 DEF FilterInit, FilterTypeOK, CallStates
  <2>4. \A c \in Callers : visit[c].pc = "out"
    BY OutPc DEF FilterInit
  <2>5. \A g \in Versions : Owing(g) = {}
    BY <2>4 DEF Owing, Users
  <2>6. \A g \in Versions : Cardinality(Owing(g)) = 0
    BY <2>5, FS_EmptySet
  <2>7. TokensAtIssuer
    BY <2>2, <2>6 DEF TokensAtIssuer, FilterInit
  <2>8. OwnerLives /\ VisitsSane
    BY <2>4 DEF OwnerLives, VisitsSane, FilterInit
  <2> QED
    BY <2>3, <2>7, <2>8 DEF FilterInv, FilterSound
<1>2. FilterInv /\ [FilterNext]_filterVars => FilterInv'
  <2> SUFFICES ASSUME FilterInv, [FilterNext]_filterVars PROVE FilterInv'
    OBVIOUS
  <2>1. ASSUME NEW g \in Versions,
               ClaimGauge(g) \/ Seed(g) \/ Swap(g) \/ Discard(g) \/ Drop(g) \/ ClearGauge(g)
        PROVE  FilterInv'
    BY <2>1, ClaimKeeps, SeedKeeps, ReplaceKeeps, DropKeeps
  <2>2. ASSUME RemoveCluster PROVE FilterInv'
    BY <2>2, ReplaceKeeps
  <2>3. ASSUME NEW c \in Callers, Arrive(c) \/ Before(c) \/ Operate(c)
        PROVE  FilterInv'
    BY <2>3, ArriveKeeps, BeforeKeeps, OperateKeeps
  <2>4. ASSUME NEW c \in Callers, After(c) \/ Publish(c) \/ ReleaseUnreached(c)
                                     \/ LeaveUnsettled(c)
        PROVE  FilterInv'
    BY <2>4, AfterKeeps, PublishKeeps, ReleaseKeeps, LeaveKeeps
  <2>5. ASSUME Pass PROVE FilterInv'
    <3>1. moment' \in 0..MaxMoment
      BY <2>5, FilterConfig DEF Pass, FilterInv, FilterSound, FilterTypeOK
    <3> QED
      BY <2>5, <3>1 DEF Pass, FilterInv, FilterSound, FilterTypeOK, TokensAtIssuer,
                        OwnerLives, VisitsSane, Owing, Users
  <2>6. ASSUME UNCHANGED filterVars PROVE FilterInv'
    BY <2>6 DEF filterVars, FilterInv, FilterSound, FilterTypeOK, TokensAtIssuer,
                OwnerLives, VisitsSane, Owing, Users
  <2> QED
    BY <2>1, <2>2, <2>3, <2>4, <2>5, <2>6 DEF FilterNext, Spent
<1> QED
  BY <1>1, <1>2, PTL DEF FilterSpec

\* Across reloads every token the filter issues is settled at most once and at
\* the breaker that issued it, a breaker's slots are exactly the settlements it
\* is still owed and the tokens lost to rejected responses, response conditions
\* and re-entry, and the gauge's owner map never names a breaker that is gone:
\* for every number of generations and requests, every threshold and window
\* (on_request, on_response, new, Drop).
THEOREM FilterCorrect == FilterSpec => []FilterSound
<1>1. FilterInv => FilterSound
  BY DEF FilterInv
<1> QED
  BY <1>1, FilterInvariant, PTL

-----------------------------------------------------------------------------
(***************************************************************************)
(* The sub-request client: permits, tokens and sessions come back, the     *)
(* breaker learns what the caller learns, and a request that was sent is   *)
(* not sent again.                                                         *)
(*                                                                         *)
(* The inductive invariant: what one call holds and has settled at each    *)
(* await, and the shared counters as sums over the calls.                  *)
(***************************************************************************)

CallRecord ==
  [pc : Points, mode : Modes \cup {"buffered"}, peer : Targets,
   late : BOOLEAN, permit : BOOLEAN, token : BOOLEAN, session : BOOLEAN,
   err : Errors \cup {"ok"}, sent : SUBSET Targets, issued : BOOLEAN,
   verdict : Verdicts, result : Errors \cup {"ok", "none", "cancelled"},
   counted : Nat]

\* The awaits with a token in the guard, and those of a stream whose token is
\* settled; a permit is held at all of them.
Charging == {"connect", "head", "body", "finish", "read", "closing", "collect",
             "closing_body", "returning"}
Streamed == {"discarding", "releasing", "stream", "reading", "disposing"}

\* A call holds what its await says.
Holds(j) ==
  /\ j.permit <=> j.pc \in Charging \cup Streamed
  /\ j.token <=> j.pc \in Charging
  /\ j.session => j.permit

\* How its token stands, and the error it is about to return.
Standing(j) ==
  /\ j.pc \in {"idle", "admission"} => ~j.issued /\ j.verdict = "none"
  /\ j.pc \in Charging => j.issued /\ j.verdict = "none"
  /\ j.pc \in Streamed =>
       /\ j.mode = "streaming" /\ j.issued
       /\ j.verdict = IF j.pc = "discarding" THEN "failure" ELSE "success"
  /\ j.pc \in {"collect", "closing_body", "returning"} => j.mode # "streaming"
  /\ j.pc \in {"closing", "discarding"} => j.err \in {"io", "deadline"}
  /\ j.pc = "closing_body" => j.err \in {"io", "deadline", "too_large"}
  /\ j.pc \notin {"closing", "closing_body", "discarding"} => j.err = "ok"
  /\ j.pc # "over" => j.counted = IF j.pc = "disposing" THEN 1 ELSE 0

\* What was sent, and that only an unsent call falls back.
Sending(j) ==
  /\ j.sent \subseteq {j.peer}
  /\ j.pc \in {"idle", "admission", "connect", "fallback"} => j.sent = {}

\* What VerdictFits says of one call.
Fits(j) ==
  j.pc \in {"fallback", "over"} =>
    /\ j.issued <=> j.verdict # "none"
    /\ j.issued /\ j.result \in Faults => j.verdict = "failure"
    /\ j.issued /\ j.result \in {"ok", "invalid", "too_large"} =>
         j.verdict = "success"
    /\ j.verdict = "released" <=>
         j.issued /\ j.result = "cancelled" /\ j.mode = "neutral"
    /\ j.mode = "streaming" /\ j.result = "ok" => j.counted = 1

CallInv(j) == j \in CallRecord /\ Holds(j) /\ Standing(j) /\ Sending(j) /\ Fits(j)

\* The shared counters agree with what the calls hold.
Counted ==
  /\ permits \in Int /\ detached \in Nat /\ slots \in [Targets -> Int]
  /\ permits + detached + Cardinality({t \in Jobs : exchange[t].permit})
       = MaxConnections
  /\ \A p \in Targets :
       slots[p] = Cardinality({t \in Jobs : /\ exchange[t].token
                                            /\ exchange[t].peer = p})

SubInv ==
  /\ permits >= 0 /\ Counted
  /\ exchange \in [Jobs -> CallRecord]
  /\ \A t \in Jobs : CallInv(exchange[t])

-----------------------------------------------------------------------------
(***************************************************************************)
(* A step turns one task's call into k and moves the counters by what k    *)
(* holds more or less.                                                     *)
(***************************************************************************)

Balanced(t, k) ==
  /\ exchange' = [exchange EXCEPT ![t] = k]
  /\ permits' \in Nat /\ detached' \in Nat /\ slots' \in [Targets -> Int]
  /\ permits' + detached' + One(k.permit)
       = permits + detached + One(exchange[t].permit)
  /\ \A p \in Targets :
       slots'[p] + One(exchange[t].token /\ exchange[t].peer = p)
         = slots[p] + One(k.token /\ k.peer = p)

\* Such a step keeps the invariant if k is as it should be.
LEMMA BalancedKeeps ==
  ASSUME SubInv, NEW t \in Jobs, NEW k, CallInv(k), Balanced(t, k)
  PROVE  SubInv'
<1> DEFINE Permitted == {u \in Jobs : exchange[u].permit}
           Charged(p) == {u \in Jobs : exchange[u].token /\ exchange[u].peer = p}
<1>1. /\ exchange' \in [Jobs -> CallRecord]
      /\ exchange'[t] = k /\ \A u \in Jobs : u # t => exchange'[u] = exchange[u]
  BY DEF SubInv, Balanced, CallInv
<1>2. \A u \in Jobs : CallInv(exchange'[u])
  BY <1>1 DEF SubInv
<1>3. permits' + detached' + Cardinality(Permitted') = MaxConnections
  <2>1. Permitted' \ {t} = Permitted \ {t} /\ IsFiniteSet(Permitted)
    BY <1>1, CountPart, SubRequestConfig
  <2>2. (t \in Permitted <=> exchange[t].permit) /\ (t \in Permitted' <=> k.permit)
    BY <1>1
  <2>3. /\ Cardinality(Permitted) \in Nat /\ Cardinality(Permitted') \in Nat
        /\ Cardinality(Permitted') + One(exchange[t].permit)
             = Cardinality(Permitted) + One(k.permit)
    <3> HIDE DEF Permitted
    <3> QED
      BY <2>1, <2>2, CountStep, FS_CardinalityType DEF One
  <2>4. permits + detached + Cardinality(Permitted) = MaxConnections
    BY DEF SubInv, Counted
  <2>5. /\ permits \in Int /\ detached \in Int /\ permits' \in Int /\ detached' \in Int
        /\ permits' + detached' + One(k.permit)
             = permits + detached + One(exchange[t].permit)
    BY DEF SubInv, Counted, Balanced
  <2> HIDE DEF Permitted
  <2> QED
    BY <2>3, <2>4, <2>5, OneType, SubRequestConfig
<1>4. ASSUME NEW p \in Targets PROVE slots'[p] = Cardinality(Charged(p)')
  <2>1. Charged(p)' \ {t} = Charged(p) \ {t} /\ IsFiniteSet(Charged(p))
    BY <1>1, CountPart, SubRequestConfig
  <2>2. /\ t \in Charged(p) <=> exchange[t].token /\ exchange[t].peer = p
        /\ t \in Charged(p)' <=> k.token /\ k.peer = p
    BY <1>1
  <2>3. /\ Cardinality(Charged(p)) \in Nat /\ Cardinality(Charged(p)') \in Nat
        /\ Cardinality(Charged(p)') + One(exchange[t].token /\ exchange[t].peer = p)
             = Cardinality(Charged(p)) + One(k.token /\ k.peer = p)
    <3> HIDE DEF Charged
    <3> QED
      BY <2>1, <2>2, CountStep, FS_CardinalityType DEF One
  <2>4. slots[p] = Cardinality(Charged(p))
    BY DEF SubInv, Counted
  <2>5. /\ slots'[p] \in Int
        /\ slots'[p] + One(exchange[t].token /\ exchange[t].peer = p)
             = slots[p] + One(k.token /\ k.peer = p)
    BY DEF Balanced
  <2> HIDE DEF Charged
  <2> QED
    BY <2>3, <2>4, <2>5 DEF One
<1> QED
  BY <1>1, <1>2, <1>3, <1>4 DEF SubInv, Counted, Balanced

-----------------------------------------------------------------------------
(***************************************************************************)
(* The three ways a call goes on.                                          *)
(***************************************************************************)

\* At an await that gives nothing back the counters stand.
LEMMA AwaitBalanced ==
  ASSUME SubInv, NEW t \in Jobs, NEW k, Await(t, k),
         k.permit = exchange[t].permit, k.token = exchange[t].token,
         k.token => k.peer = exchange[t].peer
  PROVE  Balanced(t, k)
<1>1. permits \in Nat /\ detached \in Nat /\ slots \in [Targets -> Int]
  BY DEF SubInv, Counted
<1> QED
  BY <1>1 DEF Await, Continue, Balanced, One

\* The slot of a settled token is given back to its own peer.
LEMMA SettleSlotStep ==
  ASSUME SubInv, NEW t \in Jobs, NEW j \in CallRecord, SettleSlot(j),
         j.token = exchange[t].token, j.token => j.peer = exchange[t].peer
  PROVE  /\ slots' \in [Targets -> Int]
         /\ \A p \in Targets :
              slots'[p] + One(exchange[t].token /\ exchange[t].peer = p) = slots[p]
<1>1. slots \in [Targets -> Int] /\ j.peer \in Targets /\ j.token \in BOOLEAN
  BY DEF SubInv, Counted, CallRecord
<1>2. CASE j.token
  <2>1. slots' = [slots EXCEPT ![j.peer] = @ - 1]
    BY <1>2 DEF SettleSlot
  <2> QED
    BY <1>1, <1>2, <2>1 DEF One
<1>3. CASE ~j.token
  BY <1>1, <1>3 DEF SettleSlot, One
<1> QED
  BY <1>1, <1>2, <1>3

\* What Return leaves of the call.
GivenBack(j, r, v) ==
  [Settled(j, v) EXCEPT !.permit = FALSE, !.session = FALSE, !.err = "ok",
     !.result = r,
     !.pc = IF j.mode = "url" /\ FallsBack(r) THEN "fallback" ELSE "over"]

\* Return gives the permit and the token back.
LEMMA ReturnBalanced ==
  ASSUME SubInv, NEW t \in Jobs, NEW j \in CallRecord, NEW r, NEW v,
         Return(t, j, r, v),
         j.permit = exchange[t].permit, j.token = exchange[t].token,
         j.token => j.peer = exchange[t].peer
  PROVE  Balanced(t, GivenBack(j, r, v))
<1>1. permits \in Nat /\ detached \in Nat /\ j.permit \in BOOLEAN
  BY DEF SubInv, Counted, CallRecord
<1>2. ~GivenBack(j, r, v).permit /\ ~GivenBack(j, r, v).token
  BY DEF GivenBack, Settled, CallRecord
<1>3. SettleSlot(j)
  BY DEF Return
<1>4. /\ slots' \in [Targets -> Int]
      /\ \A p \in Targets :
           slots'[p] + One(exchange[t].token /\ exchange[t].peer = p) = slots[p]
  BY <1>3, SettleSlotStep
<1>5. slots \in [Targets -> Int]
  BY DEF SubInv, Counted
<1>6. exchange' = [exchange EXCEPT ![t] = GivenBack(j, r, v)]
  BY DEF Return, Continue, GivenBack
<1>7. /\ permits' \in Nat /\ detached' \in Nat
      /\ permits' + detached' = permits + detached + One(exchange[t].permit)
  BY <1>1 DEF Return, One
<1> DEFINE k == GivenBack(j, r, v)
<1>8. One(k.permit) = 0 /\ \A p \in Targets : One(k.token /\ k.peer = p) = 0
  BY <1>2 DEF One
<1>9. permits + detached + One(exchange[t].permit) \in Int
  BY <1>1, OneType
<1> HIDE DEF k
<1> QED
  BY <1>1, <1>4, <1>5, <1>6, <1>7, <1>8, <1>9 DEF Balanced, k

\* An exchange that has not been sent, or returns an error after which
\* nothing is retried, is charged with the verdict its error calls for.
LEMMA ChargedInv ==
  ASSUME NEW j \in CallRecord, NEW err \in Errors \cup {"ok"},
         j.token <=> j.issued, j.verdict = "none", j.counted = 0,
         j.sent \subseteq {j.peer}, FallsBack(err) => j.sent = {},
         err = "ok" => j.mode # "streaming"
  PROVE  CallInv(GivenBack(j, err, VerdictOf(err)))
<1> DEFINE k == GivenBack(j, err, VerdictOf(err))
<1>1. /\ k.pc = IF j.mode = "url" /\ FallsBack(err) THEN "fallback" ELSE "over"
      /\ k.mode = j.mode /\ k.peer = j.peer /\ k.sent = j.sent
      /\ k.issued = j.issued /\ k.counted = j.counted /\ k.late = j.late
      /\ k.permit = FALSE /\ k.token = FALSE /\ k.session = FALSE
      /\ k.err = "ok" /\ k.result = err
      /\ k.verdict = IF j.token THEN VerdictOf(err) ELSE "none"
  BY DEF GivenBack, Settled, CallRecord
<1>2. VerdictOf(err) \in {"failure", "success"}
  BY DEF VerdictOf
<1>3. k \in CallRecord
  <2> DEFINE q == IF j.mode = "url" /\ FallsBack(err) THEN "fallback" ELSE "over"
             s == Settled(j, VerdictOf(err))
  <2>1. s \in CallRecord
    BY <1>2, ZenonT(60) DEF Settled, CallRecord, Verdicts
  <2>2. q \in Points
    BY DEF Points
  <2>3. err \in Errors \cup {"ok", "none", "cancelled"}
    OBVIOUS
  <2> HIDE DEF q, s
  <2>4. [s EXCEPT !.permit = FALSE, !.session = FALSE, !.err = "ok",
           !.result = err, !.pc = q] \in CallRecord
    BY <2>1, <2>2, <2>3, ZenonT(60) DEF CallRecord
  <2> QED
    BY <2>4 DEF GivenBack, q, s
<1> HIDE DEF k
<1>4. Holds(k)
  BY <1>1 DEF Holds, Charging, Streamed
<1>5. Standing(k)
  BY <1>1 DEF Standing, Charging, Streamed
<1>6. Sending(k)
  BY <1>1 DEF Sending
<1>7. Fits(k)
  BY <1>1, <1>2, <1>3 DEF Fits, VerdictOf, Faults, Errors, CallRecord
<1> QED
  BY <1>3, <1>4, <1>5, <1>6, <1>7 DEF CallInv, k

\* ChargeAndReturn as a step.
LEMMA ChargeStep ==
  ASSUME SubInv, NEW t \in Jobs, NEW j \in CallRecord,
         NEW err \in Errors \cup {"ok"}, ChargeAndReturn(t, j, err),
         j.permit = exchange[t].permit, j.token = exchange[t].token,
         j.token => j.peer = exchange[t].peer,
         j.token <=> j.issued, j.verdict = "none", j.counted = 0,
         j.sent \subseteq {j.peer}, FallsBack(err) => j.sent = {},
         err = "ok" => j.mode # "streaming"
  PROVE  SubInv'
<1>1. CallInv(GivenBack(j, err, VerdictOf(err)))
  BY ChargedInv
<1>2. Balanced(t, GivenBack(j, err, VerdictOf(err)))
  BY ReturnBalanced DEF ChargeAndReturn
<1> QED
  BY <1>1, <1>2, BalancedKeeps

\* An await as a step.
LEMMA AwaitStep ==
  ASSUME SubInv, NEW t \in Jobs, NEW k, Await(t, k), CallInv(k),
         k.permit = exchange[t].permit, k.token = exchange[t].token,
         k.token => k.peer = exchange[t].peer
  PROVE  SubInv'
BY AwaitBalanced, BalancedKeeps

\* What a call keeps from one await to the next of the same kind.
Alike(j, k) ==
  /\ k.mode = j.mode /\ k.peer = j.peer /\ k.permit = j.permit
  /\ k.token = j.token /\ k.issued = j.issued /\ k.verdict = j.verdict
  /\ k.counted = j.counted /\ k.result = j.result

\* From one await to a later one of the same kind: what is held, and how the
\* token stands, do not change.
LEMMA AlikeInv ==
  ASSUME NEW j, CallInv(j), NEW k \in CallRecord, Alike(j, k),
         k.sent \subseteq {j.peer},
         \/ /\ j.pc \in Charging \ {"closing", "closing_body"}
            /\ k.pc \in Charging \ {"connect"}
         \/ {j.pc, k.pc} \subseteq {"stream", "reading"},
         k.pc \in {"collect", "closing_body", "returning"} => k.mode # "streaming",
         k.pc = "closing" => k.err \in {"io", "deadline"},
         k.pc = "closing_body" => k.err \in {"io", "deadline", "too_large"},
         k.pc \notin {"closing", "closing_body"} => k.err = j.err
  PROVE  CallInv(k)
<1> USE DEF Alike
<1>1. Holds(k)
  BY DEF CallInv, CallRecord, Holds, Charging, Streamed
<1>2. Standing(k)
  BY DEF CallInv, Standing, Charging, Streamed
<1>3. Sending(k)
  BY DEF CallInv, Sending, Charging
<1>4. Fits(k)
  BY DEF Fits, Charging
<1> QED
  BY <1>1, <1>2, <1>3, <1>4 DEF CallInv

\* Such a move as a step.
LEMMA AlikeStep ==
  ASSUME SubInv, NEW t \in Jobs, NEW k \in CallRecord, Await(t, k),
         Alike(exchange[t], k), k.sent \subseteq {exchange[t].peer},
         \/ /\ exchange[t].pc \in Charging \ {"closing", "closing_body"}
            /\ k.pc \in Charging \ {"connect"}
         \/ {exchange[t].pc, k.pc} \subseteq {"stream", "reading"},
         k.pc \in {"collect", "closing_body", "returning"} => k.mode # "streaming",
         k.pc = "closing" => k.err \in {"io", "deadline"},
         k.pc = "closing_body" => k.err \in {"io", "deadline", "too_large"},
         k.pc \notin {"closing", "closing_body"} => k.err = exchange[t].err
  PROVE  SubInv'
<1>1. CallInv(exchange[t])
  BY DEF SubInv
<1>2. CallInv(k)
  BY <1>1, AlikeInv
<1> QED
  BY <1>2, AwaitStep DEF Alike

-----------------------------------------------------------------------------
(***************************************************************************)
(* Every action keeps the invariant.                                       *)
(***************************************************************************)

\* Nothing is under way and every permit is there.
LEMMA SubInitInv == SubInit => SubInv
<1> SUFFICES ASSUME SubInit PROVE SubInv
  OBVIOUS
<1>1. NoCallYet \in CallRecord
  BY SubRequestConfig
  DEF NoCallYet, Call, CallRecord, Points, Targets, Errors, Verdicts
<1>2. CallInv(NoCallYet)
  BY <1>1 DEF NoCallYet, Call, CallInv, Holds, Standing, Sending, Fits, Charging,
     Streamed
<1>3. exchange \in [Jobs -> CallRecord] /\ \A t \in Jobs : CallInv(exchange[t])
  BY <1>1, <1>2 DEF SubInit
<1>4. \A t \in Jobs : ~exchange[t].permit /\ ~exchange[t].token
  BY DEF SubInit, NoCallYet, Call
<1>5. /\ {t \in Jobs : exchange[t].permit} = {}
      /\ \A p \in Targets :
           {t \in Jobs : exchange[t].token /\ exchange[t].peer = p} = {}
  BY <1>4
<1>6. Counted
  <2>1. Cardinality({}) = 0
    BY FS_EmptySet
  <2>2. \A p \in Targets : slots[p] = 0
    BY DEF SubInit
  <2>3. /\ permits = MaxConnections /\ detached = 0 /\ slots \in [Targets -> Int]
    BY DEF SubInit
  <2>4. permits + detached + Cardinality({t \in Jobs : exchange[t].permit})
          = MaxConnections
    BY <1>5, <2>1, <2>3, SubRequestConfig
  <2>5. \A p \in Targets :
          slots[p] = Cardinality({t \in Jobs : /\ exchange[t].token
                                               /\ exchange[t].peer = p})
    <3> TAKE p \in Targets
    <3>1. {t \in Jobs : exchange[t].token /\ exchange[t].peer = p} = {}
      BY <1>5
    <3> QED
      BY <2>1, <2>2, <3>1
  <2> QED
    BY <2>3, <2>4, <2>5, SubRequestConfig DEF Counted
<1> QED
  BY <1>3, <1>6, SubRequestConfig DEF SubInv, SubInit

\* An attempt of an unsent call that holds nothing begins or is refused.
LEMMA StartStep ==
  ASSUME SubInv, NEW t \in Jobs, NEW j \in CallRecord, Start(t, j),
         ~exchange[t].permit, ~exchange[t].token, ~j.permit, ~j.token,
         ~j.session, ~j.issued, j.verdict = "none", j.counted = 0, j.sent = {}, j.err = "ok"
  PROVE  SubInv'
<1>0. /\ j.permit = exchange[t].permit /\ j.token = exchange[t].token
  BY DEF SubInv, CallRecord
<1>1. ASSUME NEW err \in {"invalid", "circuit_open", "deadline"},
             ChargeAndReturn(t, j, err)
      PROVE  SubInv'
  BY <1>0, <1>1, ChargeStep DEF Errors, Faults
<1>2. CASE Await(t, [j EXCEPT !.pc = "admission"])
  <2> DEFINE k == [j EXCEPT !.pc = "admission"]
  <2>1. /\ k \in CallRecord /\ k.pc = "admission"
        /\ k.permit = j.permit /\ k.token = j.token /\ k.session = j.session
        /\ k.issued = j.issued /\ k.verdict = j.verdict
        /\ k.counted = j.counted /\ k.sent = j.sent /\ k.err = j.err
    BY DEF CallRecord, Points
  <2>2. Await(t, k)
    BY <1>2
  <2> HIDE DEF k
  <2>3. CallInv(k)
    BY <2>1 DEF CallInv, Holds, Standing, Sending, Fits, Charging, Streamed
  <2> QED
    BY <1>0, <2>1, <2>2, <2>3, AwaitStep
<1> QED
  BY <1>1, <1>2 DEF Start

\* StartCall: a fresh call.
LEMMA StartCallInv ==
  ASSUME SubInv, NEW t \in Jobs, StartCall(t) PROVE SubInv'
<1>1. PICK m \in Modes, p \in Targets : Start(t, Call(m, p))
  BY DEF StartCall
<1>2. ~exchange[t].permit /\ ~exchange[t].token
  BY DEF SubInv, CallInv, Holds, Charging, Streamed, StartCall
<1>3. Call(m, p) \in CallRecord
  BY DEF Call, CallRecord, Points, Errors, Verdicts
<1> DEFINE j == Call(m, p)
<1>4. /\ ~j.permit /\ ~j.token /\ ~j.session /\ ~j.issued
      /\ j.verdict = "none" /\ j.counted = 0 /\ j.sent = {} /\ j.err = "ok"
  BY DEF Call
<1> HIDE DEF j
<1> QED
  BY <1>1, <1>2, <1>3, <1>4, StartStep DEF j

\* Admitted: the permit and the token come together, or not at all.
LEMMA AdmittedInv ==
  ASSUME SubInv, NEW t \in Jobs, Admitted(t) PROVE SubInv'
<1> DEFINE x == exchange[t]
<1>1. CallInv(x) /\ x \in CallRecord /\ x.pc = "admission" /\ permits > 0
  BY DEF SubInv, CallInv, Admitted
<1>2. /\ ~x.permit /\ ~x.token /\ ~x.issued /\ x.verdict = "none"
      /\ x.counted = 0 /\ x.sent = {} /\ ~x.session /\ x.err = "ok"
  BY <1>1 DEF CallInv, Holds, Standing, Sending, Charging, Streamed
<1>3. CASE ChargeAndReturn(t, x, "circuit_open")
  BY <1>1, <1>2, <1>3, ChargeStep DEF Errors
<1>4. CASE ~ChargeAndReturn(t, x, "circuit_open")
  <2> DEFINE k == [[x EXCEPT !.permit = TRUE] EXCEPT
                     !.pc = "connect", !.token = TRUE, !.issued = TRUE]
  <2>1. /\ permits' = permits - 1 /\ detached' = detached
        /\ slots' = [slots EXCEPT ![[x EXCEPT !.permit = TRUE].peer] = @ + 1]
        /\ exchange' = [exchange EXCEPT ![t] = k]
    BY <1>4 DEF Admitted, Continue
  <2>2. /\ k \in CallRecord /\ k.pc = "connect" /\ k.permit = TRUE
        /\ k.token = TRUE /\ k.issued = TRUE /\ k.peer = x.peer
        /\ k.verdict = x.verdict /\ k.counted = x.counted
        /\ k.session = x.session /\ k.sent = x.sent /\ k.err = x.err
        /\ [x EXCEPT !.permit = TRUE].peer = x.peer /\ x.peer \in Targets
    BY <1>1 DEF CallRecord, Points
  <2> HIDE DEF k, x
  <2>3. CallInv(k)
    BY <1>2, <2>2
    DEF CallInv, Holds, Standing, Sending, Fits, Charging, Streamed
  <2>4. /\ permits \in Nat /\ detached \in Nat /\ slots \in [Targets -> Int]
    BY DEF SubInv, Counted
  <2>5. Balanced(t, k)
    BY <1>1, <1>2, <2>1, <2>2, <2>4 DEF Balanced, One, x
  <2> QED
    BY <2>3, <2>5, BalancedKeeps
<1> QED
  BY <1>3, <1>4

\* AdmissionTimeout: the wait for a permit ends with nothing held.
LEMMA AdmissionTimeoutInv ==
  ASSUME SubInv, NEW t \in Jobs, AdmissionTimeout(t) PROVE SubInv'
<1> DEFINE x == exchange[t]
<1>1. CallInv(x) /\ x \in CallRecord /\ x.pc = "admission"
  BY DEF SubInv, CallInv, AdmissionTimeout
<1>2. /\ ~x.permit /\ ~x.token /\ ~x.issued /\ x.verdict = "none"
      /\ x.counted = 0 /\ x.sent = {}
  BY <1>1 DEF CallInv, Holds, Standing, Sending, Charging, Streamed
<1> QED
  BY <1>1, <1>2, ChargeStep DEF AdmissionTimeout, Errors

\* A call with its token in the guard returns: the token is charged for err.
\* j is the call as it stands, but for what it has sent.
LEMMA ChargingReturn ==
  ASSUME SubInv, NEW t \in Jobs, exchange[t].pc \in Charging,
         NEW j \in CallRecord, Alike(exchange[t], j), j.sent \subseteq {j.peer},
         NEW err \in Errors \cup {"ok"}, ChargeAndReturn(t, j, err),
         FallsBack(err) => j.sent = {}, err = "ok" => j.mode # "streaming"
  PROVE  SubInv'
<1>1. CallInv(exchange[t])
  BY DEF SubInv
<1>2. /\ j.token /\ j.issued /\ j.verdict = "none" /\ j.counted = 0
  BY <1>1 DEF CallInv, Holds, Standing, Charging, Alike
<1> QED
  BY <1>2, ChargeStep DEF Alike

\* Connect: a session, a deadline, or an error with nothing sent yet.
LEMMA ConnectInv ==
  ASSUME SubInv, NEW t \in Jobs, Connect(t) PROVE SubInv'
<1> DEFINE j == exchange[t]
<1>1. CallInv(j) /\ j \in CallRecord /\ j.pc = "connect" /\ j.sent = {}
  BY DEF SubInv, CallInv, Connect, Sending
<1>2. CASE Await(t, [j EXCEPT !.pc = "head", !.session = TRUE])
  <2> DEFINE k == [j EXCEPT !.pc = "head", !.session = TRUE]
  <2>1. /\ k \in CallRecord /\ Alike(j, k) /\ k.sent = {} /\ k.pc = "head"
        /\ k.err = j.err
    BY <1>1 DEF CallRecord, Points, Alike
  <2> HIDE DEF k
  <2> QED
    BY <1>1, <1>2, <2>1, AlikeStep DEF Charging, k
<1>3. ASSUME NEW err \in {"deadline", "connect", "invalid"},
             ChargeAndReturn(t, j, err)
      PROVE  SubInv'
  BY <1>1, <1>3, ChargingReturn DEF Charging, Alike, Errors, Faults
<1> QED
  BY <1>2, <1>3 DEF Connect

\* Write: from here on the request may have reached the peer, so no error may
\* fall back.
LEMMA WriteInv ==
  ASSUME SubInv, NEW t \in Jobs, Write(t) PROVE SubInv'
<1> DEFINE x == exchange[t]
           j == [x EXCEPT !.sent = @ \cup {x.peer}]
<1>1. CallInv(x) /\ x \in CallRecord /\ x.sent \subseteq {x.peer}
  BY DEF SubInv, CallInv, Sending
<1>2. /\ j \in CallRecord /\ Alike(x, j) /\ j.pc = x.pc
      /\ j.sent \subseteq {j.peer} /\ j.peer = x.peer /\ j.err = x.err
  BY <1>1 DEF CallRecord, Alike
<1>3. x.pc \in {"head", "body", "finish"}
  BY <1>1 DEF Write, CallRecord
<1>4. ASSUME NEW q \in {"body", "finish", "read"}, Await(t, [j EXCEPT !.pc = q])
      PROVE  SubInv'
  <2> DEFINE k == [j EXCEPT !.pc = q]
  <2> HIDE DEF j
  <2>1. /\ k \in CallRecord /\ Alike(x, k) /\ k.sent \subseteq {x.peer}
        /\ k.pc = q /\ k.err = x.err
    BY <1>2 DEF CallRecord, Points, Alike
  <2> HIDE DEF k
  <2> QED
    BY <1>3, <1>4, <2>1, AlikeStep DEF Charging, k
<1>5. CASE CloseThenCharge(t, j, "deadline")
  <2> DEFINE k == [j EXCEPT !.pc = "closing", !.err = "deadline"]
  <2> HIDE DEF j
  <2>1. /\ k \in CallRecord /\ Alike(x, k) /\ k.sent \subseteq {x.peer}
        /\ k.pc = "closing" /\ k.err = "deadline"
    BY <1>2, ZenonT(60) DEF CallRecord, Points, Alike, Errors, Faults
  <2>2. Await(t, k)
    BY <1>5 DEF CloseThenCharge
  <2> HIDE DEF k
  <2> QED
    BY <1>3, <2>1, <2>2, AlikeStep DEF Charging, Faults
<1>6. ASSUME NEW err \in {"deadline", "invalid", "io"}, ChargeAndReturn(t, j, err)
      PROVE  SubInv'
  <2> HIDE DEF j
  <2> QED
    BY <1>2, <1>3, <1>6, ChargingReturn DEF Charging, FallsBack, Errors, Faults
<1> QED
  BY <1>4, <1>5, <1>6 DEF Write, SessionErrors

\* Closed: the error the session was closed for is charged.
LEMMA ClosedInv ==
  ASSUME SubInv, NEW t \in Jobs, Closed(t) PROVE SubInv'
<1> DEFINE j == exchange[t]
<1>1. /\ j \in CallRecord /\ j.pc = "closing" /\ j.err \in {"io", "deadline"}
      /\ j.sent \subseteq {j.peer}
  BY DEF SubInv, CallInv, Closed, Standing, Sending
<1> QED
  BY <1>1, ChargingReturn DEF Closed, Charging, Alike, FallsBack, Errors, Faults

\* Read: the headers, an error, or a stream whose token is settled at once.
LEMMA ReadInv ==
  ASSUME SubInv, NEW t \in Jobs, Read(t) PROVE SubInv'
<1> DEFINE j == exchange[t]
<1>1. /\ CallInv(j) /\ j \in CallRecord /\ j.pc = "read" /\ j.sent \subseteq {j.peer}
  BY DEF SubInv, CallInv, Read, Sending
<1>2. ASSUME NEW err \in {"io", "deadline"}, CloseThenCharge(t, j, err)
      PROVE  SubInv'
  <2> DEFINE k == [j EXCEPT !.pc = "closing", !.err = err]
  <2>1. /\ k \in CallRecord /\ Alike(j, k) /\ k.sent \subseteq {j.peer}
        /\ k.pc = "closing" /\ k.err = err
    BY <1>1, ZenonT(60) DEF CallRecord, Points, Alike, Errors, Faults
  <2>2. Await(t, k)
    BY <1>2 DEF CloseThenCharge
  <2> HIDE DEF k
  <2> QED
    BY <1>1, <2>1, <2>2, AlikeStep DEF Charging
<1>3. ASSUME NEW err \in {"io", "deadline"}, ChargeAndReturn(t, j, err)
      PROVE  SubInv'
  BY <1>1, <1>3, ChargingReturn DEF Charging, Alike, FallsBack, Errors, Faults
<1>4. ASSUME j.mode # "streaming", Await(t, [j EXCEPT !.pc = "collect"])
      PROVE  SubInv'
  <2> DEFINE k == [j EXCEPT !.pc = "collect"]
  <2>1. /\ k \in CallRecord /\ Alike(j, k) /\ k.sent \subseteq {j.peer}
        /\ k.pc = "collect" /\ k.err = j.err
    BY <1>1 DEF CallRecord, Points, Alike
  <2> HIDE DEF k
  <2> QED
    BY <1>1, <1>4, <2>1, AlikeStep DEF Charging, Alike, k
<1>5. ASSUME NEW q \in {"releasing", "discarding", "stream"},
             NEW v, v = IF q = "discarding" THEN "failure" ELSE "success",
             NEW e, e = IF q = "discarding" THEN "io" ELSE "ok",
             j.mode = "streaming", HandTo(t, j, q, v, e)
      PROVE  SubInv'
  <2> DEFINE s == Settled(j, v)
             k == [s EXCEPT !.pc = q, !.err = e, !.late = FALSE]
  <2>1. /\ j.token = TRUE /\ j.permit = TRUE /\ j.issued /\ j.verdict = "none"
        /\ j.counted = 0
    BY <1>1 DEF CallInv, CallRecord, Holds, Standing, Charging
  <2>2. v \in Verdicts /\ e \in Errors \cup {"ok"} /\ q \in Points
    BY <1>5 DEF Verdicts, Errors, Faults, Points
  <2>3. /\ s \in CallRecord /\ s.token = FALSE /\ s.verdict = v
        /\ s.mode = j.mode /\ s.peer = j.peer /\ s.permit = j.permit
        /\ s.session = j.session /\ s.issued = j.issued /\ s.sent = j.sent
        /\ s.counted = j.counted
    BY <1>1, <2>1, <2>2 DEF Settled, CallRecord
  <2> HIDE DEF s
  <2>4. /\ k \in CallRecord /\ k.token = FALSE /\ k.verdict = v /\ k.pc = q
        /\ k.err = e /\ k.mode = j.mode /\ k.peer = j.peer
        /\ k.permit = j.permit /\ k.session = j.session /\ k.issued = j.issued
        /\ k.sent = j.sent /\ k.counted = j.counted
    BY <2>2, <2>3 DEF CallRecord
  <2>5. /\ SettleSlot(j) /\ exchange' = [exchange EXCEPT ![t] = k]
        /\ permits' = permits /\ detached' = detached
    BY <1>5 DEF HandTo, Continue, s
  <2> HIDE DEF k
  <2>6. CallInv(k)
    <3>1. Holds(k)
      BY <1>1, <2>1, <2>4 DEF CallInv, Holds, Charging, Streamed
    <3>2. Standing(k)
      BY <1>5, <2>1, <2>4 DEF Standing, Charging, Streamed
    <3>3. Sending(k) /\ Fits(k)
      BY <1>1, <2>4 DEF CallInv, Sending, Fits
    <3> QED
      BY <2>4, <3>1, <3>2, <3>3 DEF CallInv
  <2>7. /\ slots' \in [Targets -> Int] /\ slots \in [Targets -> Int]
        /\ \A p \in Targets :
             slots'[p] + One(exchange[t].token /\ exchange[t].peer = p) = slots[p]
    BY <1>1, <2>5, SettleSlotStep DEF SubInv, Counted
  <2>8. permits \in Nat /\ detached \in Nat
    BY DEF SubInv, Counted
  <2>9. \A p \in Targets : One(k.token /\ k.peer = p) = 0
    BY <2>4 DEF One
  <2>10. One(k.permit) = One(exchange[t].permit)
    BY <2>4
  <2>11. Balanced(t, k)
    BY <2>5, <2>7, <2>8, <2>9, <2>10 DEF Balanced
  <2> QED
    BY <2>6, <2>11, BalancedKeeps
<1>6. ASSUME j.mode = "streaming", Handoff(t, j) PROVE SubInv'
  BY <1>5, <1>6 DEF Handoff, VerdictOfDrop
<1> QED
  BY <1>2, <1>3, <1>4, <1>6 DEF Read

\* CollectBody: the body's end, an error to close for, or the timeout.
LEMMA CollectBodyInv ==
  ASSUME SubInv, NEW t \in Jobs, CollectBody(t) PROVE SubInv'
<1> DEFINE j == exchange[t]
<1>1. /\ CallInv(j) /\ j \in CallRecord /\ j.pc = "collect"
      /\ j.sent \subseteq {j.peer} /\ j.mode # "streaming"
  BY DEF SubInv, CallInv, CollectBody, Sending, Standing
<1>2. CASE ChargeAndReturn(t, j, "deadline")
  BY <1>1, <1>2, ChargingReturn DEF Charging, Alike, FallsBack, Errors, Faults
<1>3. ASSUME NEW err \in {"io", "too_large", "deadline"},
             Await(t, [j EXCEPT !.pc = "closing_body", !.err = err])
      PROVE  SubInv'
  <2> DEFINE k == [j EXCEPT !.pc = "closing_body", !.err = err]
  <2>1. /\ k \in CallRecord /\ Alike(j, k) /\ k.sent \subseteq {j.peer}
        /\ k.pc = "closing_body" /\ k.err = err
    BY <1>1, ZenonT(60) DEF CallRecord, Points, Alike, Errors, Faults
  <2> HIDE DEF k
  <2> QED
    BY <1>1, <1>3, <2>1, AlikeStep DEF Charging, Alike, k
<1>4. CASE Await(t, [j EXCEPT !.pc = "returning"])
  <2> DEFINE k == [j EXCEPT !.pc = "returning"]
  <2>1. /\ k \in CallRecord /\ Alike(j, k) /\ k.sent \subseteq {j.peer}
        /\ k.pc = "returning" /\ k.err = j.err
    BY <1>1 DEF CallRecord, Points, Alike
  <2> HIDE DEF k
  <2> QED
    BY <1>1, <1>4, <2>1, AlikeStep DEF Charging, Alike, k
<1> QED
  BY <1>2, <1>3, <1>4 DEF CollectBody

\* Collected: the session is closed or back in the pool.
LEMMA CollectedInv ==
  ASSUME SubInv, NEW t \in Jobs, Collected(t) PROVE SubInv'
<1> DEFINE j == exchange[t]
<1>1. /\ CallInv(j) /\ j \in CallRecord /\ j.pc \in {"closing_body", "returning"}
      /\ j.sent \subseteq {j.peer} /\ j.mode # "streaming"
      /\ j.err \in {"io", "deadline", "too_large", "ok"}
  BY DEF SubInv, CallInv, Collected, Sending, Standing
<1>2. ASSUME NEW err \in {"io", "deadline", "too_large", "ok"},
             ChargeAndReturn(t, j, err)
      PROVE  SubInv'
  BY <1>1, <1>2, ChargingReturn DEF Charging, Alike, FallsBack, Errors, Faults
<1> QED
  BY <1>1, <1>2 DEF Collected

\* A stream's exchange ends: its token is settled already, its permit and its
\* session go back, and it has been counted.
LEMMA StreamReturn ==
  ASSUME SubInv, NEW t \in Jobs, NEW j \in CallRecord,
         exchange[t].pc \in Streamed, j.mode = "streaming", j.permit, ~j.token,
         exchange[t].permit = j.permit, exchange[t].token = j.token,
         j.issued, j.sent \subseteq {j.peer}, j.counted = 1,
         NEW r \in {"ok", "io", "deadline"},
         j.verdict = IF r = "ok" THEN "success" ELSE "failure",
         Return(t, j, r, "none")
  PROVE  SubInv'
<1> DEFINE k == GivenBack(j, r, "none")
<1>1. Settled(j, "none") = j
  BY DEF Settled, CallRecord
<1>2. k = [j EXCEPT !.permit = FALSE, !.session = FALSE, !.err = "ok",
                    !.result = r, !.pc = "over"]
  BY <1>1 DEF GivenBack
<1>3. /\ k.pc = "over" /\ k.permit = FALSE /\ k.token = FALSE /\ k.session = FALSE
      /\ k.err = "ok" /\ k.result = r /\ k.mode = j.mode /\ k.peer = j.peer
      /\ k.sent = j.sent /\ k.issued = j.issued /\ k.verdict = j.verdict
      /\ k.counted = j.counted
  BY <1>2, ZenonT(60) DEF CallRecord
<1>4. k \in CallRecord
  <2>1. "over" \in Points /\ r \in Errors \cup {"ok", "none", "cancelled"}
    BY DEF Points, Errors, Faults
  <2> HIDE DEF k
  <2>2. [j EXCEPT !.permit = FALSE, !.session = FALSE, !.err = "ok",
                  !.result = r, !.pc = "over"] \in CallRecord
    BY <2>1 DEF CallRecord
  <2> QED
    BY <1>2, <2>2
<1>5. Balanced(t, k)
  BY ReturnBalanced
<1> HIDE DEF k
<1>6. CallInv(k)
  BY <1>3, <1>4 DEF CallInv, Holds, Standing, Sending, Fits, Charging, Streamed, Faults
<1> QED
  BY <1>5, <1>6, BalancedKeeps

\* What the invariant says of a stream.
StreamState(j) ==
  /\ j \in CallRecord /\ j.permit = TRUE /\ j.token = FALSE
  /\ j.mode = "streaming" /\ j.issued = TRUE /\ j.sent \subseteq {j.peer}
  /\ j.verdict = IF j.pc = "discarding" THEN "failure" ELSE "success"
  /\ j.counted = IF j.pc = "disposing" THEN 1 ELSE 0
  /\ j.pc = "discarding" => j.err \in {"io", "deadline"}
  /\ j.pc # "discarding" => j.err = "ok"

\* It follows from the await alone.
LEMMA StreamFacts ==
  ASSUME SubInv, NEW t \in Jobs, exchange[t].pc \in Streamed
  PROVE  CallInv(exchange[t]) /\ StreamState(exchange[t])
BY DEF StreamState, SubInv, CallInv, CallRecord, Holds, Standing, Sending, Charging, Streamed

\* HeaderEnd: a header exchange that is over returns what it settled.
LEMMA HeaderEndInv ==
  ASSUME SubInv, NEW t \in Jobs, HeaderEnd(t) PROVE SubInv'
<1> DEFINE x == exchange[t]
           j == [x EXCEPT !.counted = @ + 1]
<1>1. x \in CallRecord
  BY DEF SubInv
<1>2. x.pc \in {"releasing", "discarding"}
  BY <1>1 DEF HeaderEnd, CallRecord
<1>3. StreamState(x) /\ x.counted = 0 /\ x.pc \in Streamed
  BY <1>2, StreamFacts DEF Streamed, StreamState
<1>4. /\ j \in CallRecord /\ j.permit = x.permit /\ j.token = x.token
      /\ j.mode = x.mode /\ j.issued = x.issued /\ j.sent = x.sent
      /\ j.peer = x.peer /\ j.verdict = x.verdict /\ j.err = x.err
      /\ j.counted = 1
  BY <1>1, <1>3 DEF CallRecord
<1>5. Return(t, j, j.err, "none")
  BY DEF HeaderEnd
<1> HIDE DEF j
<1>6. /\ j.err \in {"ok", "io", "deadline"}
      /\ j.verdict = IF j.err = "ok" THEN "success" ELSE "failure"
  BY <1>2, <1>3, <1>4 DEF StreamState
<1> QED
  BY <1>3, <1>4, <1>5, <1>6, StreamReturn DEF StreamState

\* EndStream: done is set and the stream counted with everything still held.
LEMMA EndStreamStep ==
  ASSUME SubInv, NEW t \in Jobs, exchange[t].pc \in {"stream", "reading"},
         EndStream(t, exchange[t])
  PROVE  SubInv'
<1> DEFINE j == exchange[t]
           k == [j EXCEPT !.pc = "disposing", !.counted = 1]
<1>1. j.pc \in Streamed
  BY DEF Streamed
<1>2. StreamState(j) /\ j \in CallRecord /\ j.counted = 0 /\ CallInv(j)
  BY <1>1, StreamFacts DEF StreamState
<1> USE DEF StreamState
<1>3. /\ k \in CallRecord /\ k.pc = "disposing" /\ k.counted = 1
      /\ k.permit = j.permit /\ k.token = j.token /\ k.session = j.session
      /\ k.mode = j.mode /\ k.peer = j.peer /\ k.sent = j.sent
      /\ k.issued = j.issued /\ k.verdict = j.verdict /\ k.err = j.err
  BY <1>2 DEF CallRecord, Points
<1>4. Await(t, k)
  <2>1. j.counted + 1 = 1
    BY <1>2
  <2>2. Await(t, [j EXCEPT !.pc = "disposing", !.counted = j.counted + 1])
    BY DEF EndStream
  <2> QED
    BY <2>1, <2>2, Zenon
<1> HIDE DEF k
<1>5. CallInv(k)
  BY <1>1, <1>2, <1>3
  DEF CallInv, Holds, Standing, Sending, Fits, Charging, Streamed
<1> QED
  BY <1>3, <1>4, <1>5, AwaitStep

\* The body moves between its caller and a read.
LEMMA StreamAwait ==
  ASSUME SubInv, NEW t \in Jobs, exchange[t].pc \in {"stream", "reading"},
         NEW q \in {"stream", "reading"}, Await(t, [exchange[t] EXCEPT !.pc = q])
  PROVE  SubInv'
<1> DEFINE j == exchange[t]
           k == [j EXCEPT !.pc = q]
<1>1. j \in CallRecord /\ j.sent \subseteq {j.peer}
  BY StreamFacts DEF Streamed, StreamState
<1>2. /\ k \in CallRecord /\ Alike(j, k) /\ k.sent \subseteq {j.peer}
      /\ k.pc = q /\ k.err = j.err
  BY <1>1 DEF CallRecord, Points, Alike
<1> HIDE DEF k
<1> QED
  BY <1>2, AlikeStep DEF k

\* NextChunk, ChunkRead, CancelStream: one of the two.
LEMMA ChunkInv ==
  ASSUME SubInv, NEW t \in Jobs, NextChunk(t) \/ ChunkRead(t) \/ CancelStream(t)
  PROVE  SubInv'
BY EndStreamStep, StreamAwait DEF NextChunk, ChunkRead, CancelStream

\* Disposed: the permit goes back once the session is gone.
LEMMA DisposedInv ==
  ASSUME SubInv, NEW t \in Jobs, Disposed(t) PROVE SubInv'
<1>1. exchange[t].pc = "disposing"
  BY DEF Disposed
<1>2. exchange[t].pc \in Streamed
  BY <1>1 DEF Streamed
<1> QED
  BY <1>1, <1>2, StreamFacts, StreamReturn DEF Disposed, StreamState

\* DropBody: the permit travels with the session to the spawned task.
LEMMA DropBodyInv ==
  ASSUME SubInv, NEW t \in Jobs, DropBody(t) PROVE SubInv'
<1> DEFINE x == exchange[t]
           j == [x EXCEPT !.counted = @ + 1]
<1>1. x \in CallRecord
  BY DEF SubInv
<1>2. x.pc = "stream" /\ x.pc \in Streamed
  BY <1>1 DEF DropBody, CallRecord, Streamed
<1>0. StreamState(x)
  BY <1>2, StreamFacts
<1> USE DEF StreamState
<1>3. /\ j \in CallRecord /\ j.permit = x.permit /\ j.token = x.token
      /\ j.mode = x.mode /\ j.issued = x.issued /\ j.sent = x.sent
      /\ j.peer = x.peer /\ j.verdict = x.verdict /\ j.err = x.err
      /\ j.counted = 1
  BY <1>0, <1>2 DEF CallRecord
<1>4. CASE Return(t, j, "ok", "none")
  <2> HIDE DEF j
  <2> QED
    BY <1>0, <1>2, <1>3, <1>4, StreamReturn
<1>5. CASE ~Return(t, j, "ok", "none")
  <2> DEFINE k == [j EXCEPT !.pc = "over", !.permit = FALSE, !.session = FALSE,
                            !.result = "ok"]
  <2>1. /\ detached' = detached + 1 /\ exchange' = [exchange EXCEPT ![t] = k]
        /\ permits' = permits /\ slots' = slots
    BY <1>5 DEF DropBody, Continue
  <2> HIDE DEF j
  <2>2. /\ k \in CallRecord /\ k.pc = "over" /\ k.permit = FALSE
        /\ k.session = FALSE /\ k.result = "ok" /\ k.token = j.token
        /\ k.mode = j.mode /\ k.issued = j.issued /\ k.sent = j.sent
        /\ k.peer = j.peer /\ k.verdict = j.verdict /\ k.counted = j.counted
        /\ k.err = j.err
    BY <1>3 DEF CallRecord, Points
  <2> HIDE DEF k
  <2>3. CallInv(k)
    BY <1>0, <1>2, <1>3, <2>2
    DEF CallInv, Holds, Standing, Sending, Fits, Charging, Streamed, Faults
  <2>4. permits \in Nat /\ detached \in Nat /\ slots \in [Targets -> Int]
    BY DEF SubInv, Counted
  <2>5. x.permit = TRUE /\ x.token = FALSE
    BY <1>0
  <2>6. Balanced(t, k)
    BY <1>3, <2>1, <2>2, <2>4, <2>5 DEF Balanced, One
  <2> QED
    BY <2>3, <2>6, BalancedKeeps
<1> QED
  BY <1>4, <1>5

\* Fallback: the next peer, with nothing sent and nothing held.
LEMMA FallbackInv ==
  ASSUME SubInv, NEW t \in Jobs, Fallback(t) PROVE SubInv'
<1> DEFINE j == exchange[t]
<1>1. CallInv(j) /\ j \in CallRecord /\ j.pc = "fallback"
  BY DEF SubInv, CallInv, Fallback
<1>2. /\ j.permit = FALSE /\ j.token = FALSE /\ ~j.session /\ j.sent = {}
      /\ j.counted = 0 /\ j.err = "ok" /\ j.peer \in 1..Dials
  BY <1>1 DEF CallInv, CallRecord, Holds, Standing, Sending, Charging, Streamed, Targets
<1>3. CASE j.late
  <2> DEFINE k == [j EXCEPT !.pc = "over", !.result = "deadline",
                            !.issued = FALSE, !.verdict = "none"]
  <2>1. Await(t, k)
    BY <1>1, <1>3 DEF Fallback
  <2>2. /\ k \in CallRecord /\ k.pc = "over" /\ k.issued = FALSE
        /\ k.verdict = "none" /\ k.result = "deadline"
        /\ k.permit = j.permit /\ k.token = j.token /\ k.session = j.session
        /\ k.sent = j.sent /\ k.counted = j.counted /\ k.err = j.err
    BY <1>1, ZenonT(60) DEF CallRecord, Points, Verdicts, Errors, Faults
  <2> HIDE DEF k
  <2>3. CallInv(k)
    BY <1>2, <2>2 DEF CallInv, Holds, Standing, Sending, Fits, Charging, Streamed
  <2> QED
    BY <1>2, <2>1, <2>2, <2>3, AwaitStep
<1>4. CASE ~j.late /\ j.peer < Dials
  <2> DEFINE k == [j EXCEPT !.peer = @ + 1, !.issued = FALSE, !.verdict = "none"]
  <2>1. Start(t, k)
    BY <1>1, <1>4 DEF Fallback
  <2>2. j.peer + 1 \in Targets
    BY <1>2, <1>4, SubRequestConfig DEF Targets
  <2>3. /\ k \in CallRecord /\ k.issued = FALSE /\ k.verdict = "none"
        /\ k.permit = j.permit /\ k.token = j.token /\ k.session = j.session
        /\ k.sent = j.sent /\ k.counted = j.counted /\ k.err = j.err
    BY <1>1, <2>2 DEF CallRecord, Verdicts
  <2> HIDE DEF k
  <2> QED
    BY <1>2, <2>1, <2>3, StartStep
<1>5. CASE ~j.late /\ ~(j.peer < Dials)
  <2> DEFINE k == [j EXCEPT !.pc = "over"]
  <2>1. Await(t, k)
    BY <1>1, <1>5 DEF Fallback
  <2>2. /\ k \in CallRecord /\ k.pc = "over" /\ k.issued = j.issued
        /\ k.verdict = j.verdict /\ k.result = j.result /\ k.mode = j.mode
        /\ k.permit = j.permit /\ k.token = j.token /\ k.session = j.session
        /\ k.sent = j.sent /\ k.counted = j.counted /\ k.err = j.err
    BY <1>1 DEF CallRecord, Points
  <2> HIDE DEF k
  <2>3. Fits(k)
    BY <1>1, <2>2 DEF CallInv, Fits
  <2>4. CallInv(k)
    BY <1>2, <2>2, <2>3 DEF CallInv, Holds, Standing, Sending, Charging, Streamed
  <2> QED
    BY <1>2, <2>1, <2>2, <2>4, AwaitStep
<1> QED
  BY <1>3, <1>4, <1>5

\* Abandon: whatever the dropped future held goes back, and a token still in
\* the guard is a failure, or nothing for an abandon-neutral call.
LEMMA AbandonInv ==
  ASSUME SubInv, NEW t \in Jobs, Abandon(t) PROVE SubInv'
<1> DEFINE j == exchange[t]
<1>1. /\ CallInv(j) /\ j \in CallRecord
      /\ j.pc \notin {"idle", "stream", "fallback", "over"}
  BY DEF SubInv, CallInv, Abandon
<1>2. CASE j.pc = "reading"
  BY <1>2, StreamAwait DEF Abandon
<1>3. CASE j.pc # "reading"
  <2> DEFINE v == VerdictOfDrop(j)
             r == IF j.pc = "disposing" THEN "ok" ELSE "cancelled"
             s == Settled(j, v)
             k == [s EXCEPT !.pc = "over", !.permit = FALSE, !.session = FALSE,
                            !.err = "ok", !.result = r]
  <2>1. /\ SettleSlot(j) /\ detached' = detached
        /\ permits' = permits + (IF j.permit THEN 1 ELSE 0)
        /\ exchange' = [exchange EXCEPT ![t] = k]
    BY <1>3 DEF Abandon, Continue
  <2>2. v = IF j.mode = "neutral" THEN "released" ELSE "failure"
    BY DEF VerdictOfDrop
  <2> HIDE DEF v
  <2>3. /\ s \in CallRecord /\ s.token = FALSE
        /\ s.verdict = IF j.token THEN v ELSE j.verdict
        /\ s.mode = j.mode /\ s.peer = j.peer /\ s.issued = j.issued
        /\ s.sent = j.sent /\ s.counted = j.counted
    <3> DEFINE w == IF j.token THEN v ELSE j.verdict
    <3>1. s = [j EXCEPT !.token = FALSE, !.verdict = w]
      BY <1>1 DEF Settled, CallRecord
    <3>2. v \in Verdicts
      BY <2>2 DEF Verdicts
    <3>3. w \in Verdicts
      BY <1>1, <3>2 DEF CallRecord
    <3> HIDE DEF s, w
    <3>4. s \in CallRecord
      BY <1>1, <3>1, <3>3 DEF CallRecord
    <3>5. /\ s.token = FALSE /\ s.verdict = w
          /\ s.mode = j.mode /\ s.peer = j.peer /\ s.issued = j.issued
          /\ s.sent = j.sent /\ s.counted = j.counted
      BY <1>1, <3>1 DEF CallRecord
    <3> QED
      BY <3>4, <3>5 DEF w
  <2>4. r = IF j.pc = "disposing" THEN "ok" ELSE "cancelled"
    OBVIOUS
  <2> HIDE DEF s, r
  <2>5. "over" \in Points /\ r \in Errors \cup {"ok", "none", "cancelled"}
    BY <2>4 DEF Points
  <2>6. /\ k \in CallRecord /\ k.pc = "over" /\ k.permit = FALSE
        /\ k.session = FALSE /\ k.err = "ok" /\ k.result = r
        /\ k.token = FALSE /\ k.verdict = s.verdict /\ k.mode = j.mode
        /\ k.peer = j.peer /\ k.issued = j.issued /\ k.sent = j.sent
        /\ k.counted = j.counted
    BY <2>3, <2>5 DEF CallRecord
  <2> HIDE DEF k
  <2>7. Fits(k)
    <3>1. CASE j.pc \in Charging
      BY <1>1, <2>2, <2>3, <2>4, <2>6, <3>1
      DEF CallInv, Holds, Standing, Fits, Charging, Faults
    <3>2. CASE j.pc \in Streamed
      BY <1>1, <2>3, <2>4, <2>6, <3>2
      DEF CallInv, Holds, Standing, Fits, Charging, Streamed, Faults
    <3>3. CASE j.pc = "admission"
      BY <1>1, <2>3, <2>4, <2>6, <3>3
      DEF CallInv, Holds, Standing, Fits, Charging, Faults
    <3> QED
      BY <1>1, <3>1, <3>2, <3>3 DEF CallRecord, Points, Charging, Streamed
  <2>8. CallInv(k)
    BY <1>1, <2>6, <2>7 DEF CallInv, Holds, Standing, Sending, Charging, Streamed
  <2>9. /\ permits \in Nat /\ detached \in Nat /\ slots \in [Targets -> Int]
        /\ j.permit \in BOOLEAN
    BY <1>1 DEF SubInv, Counted, CallRecord
  <2>10. /\ slots' \in [Targets -> Int]
        /\ \A p \in Targets :
             slots'[p] + One(exchange[t].token /\ exchange[t].peer = p) = slots[p]
    BY <1>1, <2>1, SettleSlotStep
  <2>11. One(k.permit) = 0 /\ \A p \in Targets : One(k.token /\ k.peer = p) = 0
    BY <2>6 DEF One
  <2>12. /\ permits' \in Nat /\ detached' \in Nat
         /\ permits' + detached' = permits + detached + One(exchange[t].permit)
    BY <2>1, <2>9 DEF One
  <2>13. Balanced(t, k)
    BY <2>1, <2>9, <2>10, <2>11, <2>12 DEF Balanced
  <2> QED
    BY <2>8, <2>13, BalancedKeeps
<1> QED
  BY <1>2, <1>3

\* DeadlinePasses: time changes nothing a call holds.
LEMMA DeadlinePassesInv ==
  ASSUME SubInv, NEW t \in Jobs, DeadlinePasses(t) PROVE SubInv'
<1> DEFINE j == exchange[t]
           k == [j EXCEPT !.late = TRUE]
<1>1. CallInv(j) /\ j \in CallRecord /\ Await(t, k)
  BY DEF SubInv, CallInv, DeadlinePasses
<1>2. /\ k \in CallRecord /\ k.pc = j.pc /\ Alike(j, k)
      /\ k.session = j.session /\ k.sent = j.sent /\ k.err = j.err
  BY <1>1 DEF CallRecord, Alike
<1> HIDE DEF k
<1>3. CallInv(k)
  BY <1>1, <1>2 DEF CallInv, Holds, Standing, Sending, Fits, Alike
<1> QED
  BY <1>1, <1>2, <1>3, AwaitStep DEF Alike

\* AskAgain: a call that is over holds nothing.
LEMMA AskAgainInv ==
  ASSUME SubInv, NEW t \in Jobs, AskAgain(t) PROVE SubInv'
<1> DEFINE j == exchange[t]
<1>1. CallInv(j) /\ j \in CallRecord /\ j.pc = "over" /\ Await(t, NoCallYet)
  BY DEF SubInv, CallInv, AskAgain
<1>2. j.permit = FALSE /\ j.token = FALSE
  BY <1>1 DEF CallInv, CallRecord, Holds, Charging, Streamed
<1>3. NoCallYet \in CallRecord
  BY SubRequestConfig
  DEF NoCallYet, Call, CallRecord, Points, Targets, Errors, Verdicts
<1>4. CallInv(NoCallYet) /\ NoCallYet.permit = FALSE /\ NoCallYet.token = FALSE
  BY <1>3 DEF NoCallYet, Call, CallInv, Holds, Standing, Sending, Fits, Charging,
     Streamed
<1> QED
  BY <1>1, <1>2, <1>4, AwaitStep

\* DisposeDetached: the spawned task gives the permit back.
LEMMA DisposeDetachedInv ==
  ASSUME SubInv, DisposeDetached PROVE SubInv'
<1> DEFINE n == Cardinality({t \in Jobs : exchange[t].permit})
<1>1. n \in Nat
  BY CountPart, SubRequestConfig
<1>2. /\ permits \in Nat /\ detached \in Nat
      /\ permits + detached + n = MaxConnections
  BY DEF SubInv, Counted
<1>3. /\ permits' = permits + 1 /\ detached' = detached - 1 /\ detached > 0
      /\ slots' = slots /\ exchange' = exchange
  BY DEF DisposeDetached
<1> HIDE DEF n
<1>4. /\ permits' \in Nat /\ detached' \in Nat
      /\ permits' + detached' + n = MaxConnections
  BY <1>1, <1>2, <1>3
<1>5. n' = n
  BY <1>3 DEF n
<1> QED
  BY <1>3, <1>4, <1>5 DEF SubInv, Counted, n

-----------------------------------------------------------------------------
(***************************************************************************)
(* The theorems.                                                           *)
(***************************************************************************)

\* The invariant is inductive.
LEMMA SubNextInv == SubInv /\ [SubNext]_subVars => SubInv'
<1> SUFFICES ASSUME SubInv, [SubNext]_subVars PROVE SubInv'
  OBVIOUS
<1>1. ASSUME NEW t \in Jobs, SubStep(t) PROVE SubInv'
  BY <1>1, StartCallInv, AdmittedInv, AdmissionTimeoutInv, ConnectInv, WriteInv,
     ReadInv, ClosedInv, CollectBodyInv, CollectedInv, HeaderEndInv, ChunkInv,
     DisposedInv, DropBodyInv, FallbackInv, AbandonInv, DeadlinePassesInv,
     AskAgainInv
  DEF SubStep
<1>2. CASE UNCHANGED subVars
  BY <1>2 DEF subVars, SubInv, Counted
<1> QED
  BY <1>1, <1>2, DisposeDetachedInv DEF SubNext

\* Every state the client reaches satisfies the inductive invariant.
THEOREM SubInvariant == SubSpec => []SubInv
<1> QED
  BY SubInitInv, SubNextInv, PTL DEF SubSpec

\* For every number of tasks, peers and permits: on every path of a call
\* (error, deadline, cancellation at any await, a dropped stream) its permit
\* and token come back exactly once, and no more sessions are open than
\* max_connections (try_acquire_permit, CircuitGuard, Drop for
\* SubResponseBody).
THEOREM HoldingsCorrect == SubSpec => []HoldingsReturned
<1>1. ASSUME SubInv PROVE HoldingsReturned
  <2> DEFINE P == {t \in Jobs : exchange[t].permit}
             S == {t \in Jobs : exchange[t].session}
             T(p) == {t \in Jobs : exchange[t].token /\ exchange[t].peer = p}
  <2>1. S \subseteq P
    BY <1>1 DEF SubInv, CallInv, Holds
  <2>2. IsFiniteSet(P) /\ Cardinality(P) \in Nat
    BY CountPart, SubRequestConfig
  <2>3. Cardinality(S) \in Nat /\ Cardinality(S) <= Cardinality(P)
    BY <2>1, <2>2, CountPart
  <2>4. /\ permits \in Nat /\ detached \in Nat
        /\ permits + detached + Cardinality(P) = MaxConnections
    BY <1>1 DEF SubInv, Counted
  <2>5. \A p \in Targets : slots[p] = Cardinality(T(p))
    BY <1>1 DEF SubInv, Counted
  <2>6. \A p \in Targets : Cardinality(T(p)) \in Nat
    BY CountPart, SubRequestConfig
  <2>7. slots \in [Targets -> Nat]
    <3> HIDE DEF T
    <3> QED
      BY <1>1, <2>5, <2>6 DEF SubInv, Counted
  <2>8. detached + Cardinality(S) <= MaxConnections /\ permits \in 0..MaxConnections
    <3> HIDE DEF P, S
    <3> QED
      BY <2>2, <2>3, <2>4, SubRequestConfig
  <2>9. SubTypeOK
    BY <1>1, <2>4, <2>7, <2>8 DEF SubTypeOK, SubInv, CallRecord
  <2> QED
    BY <2>4, <2>5, <2>8, <2>9 DEF HoldingsReturned
<1> QED
  BY <1>1, SubInvariant, PTL

\* The breaker learns what the caller learns, on every path of every call
\* (charge, finalize, Drop for CircuitGuard, body.rs).
THEOREM VerdictsCorrect == SubSpec => []VerdictFits
<1>1. SubInv => VerdictFits
  BY DEF SubInv, CallInv, Fits, VerdictFits
<1> QED
  BY <1>1, SubInvariant, PTL

\* A request that may have reached one peer is never sent to another, for
\* every number of peers and every interleaving of calls (execute_url).
THEOREM NoResendCorrect == SubSpec => []NoResend
<1>1. SubInv => NoResend
  BY DEF SubInv, CallInv, Sending, NoResend
<1> QED
  BY <1>1, SubInvariant, PTL
=============================================================================
