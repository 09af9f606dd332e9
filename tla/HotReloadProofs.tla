--------------------------- MODULE HotReloadProofs ---------------------------
(***************************************************************************)
(* Proofs about the hot reload, for every set of listeners, endpoints and  *)
(* configs and every number of generations and requests: generations       *)
(* agree, and what was known to be down is carried into the new pipelines. *)
(***************************************************************************)
EXTENDS HotReload, Counting

-----------------------------------------------------------------------------
(***************************************************************************)
(* The inductive invariant.                                                *)
(***************************************************************************)

Following == [pc : {"round", "refresh"}, left : SUBSET Endpoints]
             \cup [pc : {"wait"}]
ProberState ==
  {NoProber} \cup Following
  \cup [pc : {"record"}, left : SUBSET Endpoints, ep : Endpoints, ok : BOOLEAN]
  \cup [pc : {"publish"}, counts : Counts, then : Following]
  \cup [pc : {"total"}, total : 0 .. Cardinality(Endpoints), then : Following]
RequestState ==
  {Idle} \cup [pc : {"sent"}, g : Gens, ep : Endpoints]
  \cup [pc : {"publish"}, counts : Counts]
  \cup [pc : {"total"}, total : 0 .. Cardinality(Endpoints)]

\* What the probe tasks and the requests hold.
TasksTyped ==
  /\ prober \in [Gens -> ProberState]
  /\ req \in [Requests -> RequestState]

\* The config and the tokens of each stage of reload_pipelines: the new
\* generation is one ahead of the probed one until the tokens change hands.
Stage ==
  /\ phase \in {"build", "swap", "clusterMeta", "cancel"} => gen = token + 1
  /\ phase \in {"idle", "seed", "seedTotal", "spawn"} => gen = token
  /\ phase \in {"idle", "build", "swap", "clusterMeta", "cancel"} =>
       config = conf[token]

\* Which metadata store has been written.
MetaStage ==
  /\ meta.listeners = IF phase \in {"idle", "build", "swap"} THEN token ELSE gen
  /\ meta.clusters = IF phase \in {"idle", "build", "swap", "clusterMeta"}
                     THEN token ELSE gen

\* Slots are never ahead of the reload; until the carry-over is done every
\* listener of the old config serves the old generation, and afterwards all
\* but the listeners still to be swapped serve the new one.
SlotStage ==
  /\ \A l \in Live : slot[l] <= gen
  /\ phase \in {"idle", "build"} => \A l \in Live : slot[l] <= token
  /\ phase \in {"idle", "build"} \/ (phase = "swap" /\ toCarry # {}) =>
       \A l \in Live \cap config.listeners : slot[l] = token
  /\ phase = "swap" =>
       \A l \in (Live \cap conf[gen].listeners) \ toSwap : slot[l] = gen
  /\ phase \notin {"idle", "build", "swap"} =>
       \A l \in Live \cap conf[gen].listeners : slot[l] = gen

\* An endpoint down since the reload began is down in the probed registry.
SteadyDown ==
  phase \in {"build", "swap"} =>
    \A e \in steady : e \in config.eps /\ ~reg[token][e].healthy

\* Once carried over it is down in the new registry, which observations
\* through the swapped listeners write to as well.
CarriedDown ==
  phase = "swap" /\ Checked(config) /\ conf[gen].check = config.check
  /\ Live \cap config.listeners # {} =>
    \A e \in (steady \cap conf[gen].eps) \ toCarry : ~reg[gen][e].healthy

ReloadInv ==
  /\ TypeOK /\ TasksTyped
  /\ Stage /\ MetaStage /\ SlotStage /\ MetaAfterSwap
  /\ SteadyDown /\ CarriedDown

-----------------------------------------------------------------------------
(***************************************************************************)
(* The operators.                                                          *)
(***************************************************************************)

\* There is a largest threshold: the configs are finitely many.
LEMMA CapType == Cap \in Nat
<1> DEFINE C == {d \in Configs : Checked(d)}
           F == [c \in C |-> {c.check.down, c.check.up, c.check.passiveDown,
                              c.check.passiveUp}]
           U == UNION {F[c] : c \in C}
<1>1. IsFiniteSet(C)
  BY ReloadConstants, FS_Subset
<1>2. \A c \in C : IsFiniteSet(F[c]) /\ F[c] \in SUBSET Nat
  <2> TAKE c \in C
  <2>1. c.check.down \in Nat /\ c.check.up \in Nat
        /\ c.check.passiveDown \in Nat /\ c.check.passiveUp \in Nat
    BY ReloadConstants
  <2> DEFINE w == c.check.down  x == c.check.up
             y == c.check.passiveDown  z == c.check.passiveUp
  <2>2. F[c] = (({w} \cup {x}) \cup {y}) \cup {z}
    OBVIOUS
  <2> HIDE DEF w, x, y, z, F
  <2>3. IsFiniteSet({w}) /\ IsFiniteSet({w} \cup {x})
    BY FS_Singleton, FS_AddElement
  <2>4. IsFiniteSet(({w} \cup {x}) \cup {y})
    BY <2>3, FS_AddElement
  <2>5. IsFiniteSet((({w} \cup {x}) \cup {y}) \cup {z})
    BY <2>4, FS_AddElement
  <2> QED
    BY <2>1, <2>2, <2>5 DEF w, x, y, z
<1> HIDE DEF F
<1>3. IsFiniteSet(U)
  BY <1>1, <1>2, UnionFinite
<1>4. U \in SUBSET Nat
  BY <1>2
<1>5. U = UNION {{c.check.down, c.check.up, c.check.passiveDown,
                  c.check.passiveUp} : c \in C}
  BY DEF F
<1> DEFINE S == {1} \cup U
<1>6. Cap = Max(S)
  BY <1>5 DEF Cap
<1>7. IsFiniteSet(S) /\ S \in SUBSET Int /\ S # {} /\ S \in SUBSET Nat
  <2>1. 1 \in S /\ S \in SUBSET Nat
    BY <1>4
  <2>2. S = U \cup {1}
    OBVIOUS
  <2> HIDE DEF S, U
  <2>3. IsFiniteSet(S)
    BY <1>3, <2>2, FS_AddElement
  <2> QED
    BY <2>1, <2>3
<1> HIDE DEF S
<1>8. \E m \in S : \A x \in S : x <= m
  BY <1>7, LargestExists
<1>9. \E m \in S : \A x \in S : m >= x
  BY <1>7, <1>8
<1>10. Max(S) \in S
  BY <1>9 DEF Max
<1> QED
  BY <1>6, <1>7, <1>10

\* A saturating counter stays within its cap.
LEMMA BumpType == ASSUME NEW n \in 0 .. Cap PROVE Bump(n) \in 0 .. Cap
BY CapType DEF Bump, Min

\* The health operations give healths; only a success can make an endpoint
\* healthy again.
LEMMA HealthOperations ==
  ASSUME NEW h \in Health, NEW t
  PROVE  /\ record_success(h, t) \in Health
         /\ record_failure(h, t) \in Health
         /\ mark_unhealthy(h) \in Health
         /\ ~mark_unhealthy(h).healthy
         /\ ~h.healthy => ~record_failure(h, t).healthy
<1>1. h.successes \in 0 .. Cap /\ h.failures \in 0 .. Cap /\ h.healthy \in BOOLEAN
  BY DEF Health
<1>2. Bump(h.successes) \in 0 .. Cap /\ Bump(h.failures) \in 0 .. Cap /\ 0 \in 0 .. Cap
  BY <1>1, BumpType, CapType
<1> DEFINE s == h.healthy \/ Bump(h.successes) >= t
           f == h.healthy /\ Bump(h.failures) < t
<1>3. s \in BOOLEAN /\ f \in BOOLEAN
  OBVIOUS
<1>4. ~h.healthy => ~f
  OBVIOUS
<1> HIDE DEF s, f
<1>5. record_success(h, t) \in Health
  <2>1. record_success(h, t) = [healthy |-> s, successes |-> Bump(h.successes),
                                failures |-> 0]
    BY DEF record_success, s
  <2> QED
    BY <1>2, <1>3, <2>1 DEF Health
<1>6. record_failure(h, t) \in Health /\ (~h.healthy => ~record_failure(h, t).healthy)
  <2>1. record_failure(h, t) = [healthy |-> f, successes |-> 0,
                                failures |-> Bump(h.failures)]
    BY DEF record_failure, f
  <2> QED
    BY <1>2, <1>3, <1>4, <2>1 DEF Health
<1>7. mark_unhealthy(h) \in Health /\ ~mark_unhealthy(h).healthy
  BY <1>2 DEF mark_unhealthy, Health
<1> QED
  BY <1>5, <1>6, <1>7

\* A registry starts healthy.
LEMMA FreshType == Fresh \in Health
BY CapType DEF Fresh, Health

\* What is published counts endpoints.
LEMMA CountsType ==
  ASSUME NEW c \in Configs, NEW health
  PROVE  endpoint_counts(c, health) \in Counts
<1>1. c.eps \subseteq Endpoints /\ IsFiniteSet(Endpoints)
  BY ReloadConstants
<1> DEFINE up == {e \in c.eps : health[e].healthy}
           m == Cardinality(up)
           n == Cardinality(c.eps)
           k == Cardinality(Endpoints)
<1>2. m \in Nat /\ m <= k
  BY <1>1, CountPart
<1>3. n \in Nat /\ n <= k /\ k \in Nat
  BY <1>1, CountPart
<1>4. endpoint_counts(c, health) =
        IF Checked(c) THEN [healthy |-> m, total |-> n] ELSE [healthy |-> 0, total |-> 0]
  BY DEF endpoint_counts
<1>5. Counts = [healthy : 0 .. k, total : 0 .. k]
  BY DEF Counts
<1> HIDE DEF m, n, k
<1>6. m \in 0 .. k /\ n \in 0 .. k /\ 0 \in 0 .. k
  BY <1>2, <1>3
<1>7. [healthy |-> m, total |-> n] \in Counts /\ [healthy |-> 0, total |-> 0] \in Counts
  BY <1>5, <1>6
<1> QED
  BY <1>4, <1>7

-----------------------------------------------------------------------------
(***************************************************************************)
(* Steps that leave the reload alone.                                      *)
(***************************************************************************)

\* An observation keeps the registries typed, and what is known to be down
\* stays down unless a success takes it off the list.
LEMMA ObserveKeeps ==
  ASSUME TypeOK, SteadyDown, CarriedDown, UNCHANGED reload,
         NEW g \in Gens, NEW e \in Endpoints, NEW ok \in BOOLEAN, NEW up, NEW down,
         Observe(g, e, ok, up, down)
  PROVE  /\ reg' \in [Gens -> [Endpoints -> Health]]
         /\ steady' \subseteq Endpoints
         /\ SteadyDown' /\ CarriedDown'
<1> DEFINE h == IF ok THEN record_success(reg[g][e], up)
                ELSE record_failure(reg[g][e], down)
<1>1. reg[g][e] \in Health /\ token \in Gens /\ gen \in Gens
  BY DEF TypeOK
<1>2. h \in Health /\ (~ok /\ ~reg[g][e].healthy => ~h.healthy)
  BY <1>1, HealthOperations
<1>3. /\ reg' = [reg EXCEPT ![g][e] = h]
      /\ steady' = IF ok /\ g \in {token, gen} THEN steady \ {e} ELSE steady
  BY DEF Observe
<1> HIDE DEF h
<1>4. reg' \in [Gens -> [Endpoints -> Health]]
  BY <1>2, <1>3 DEF TypeOK
<1>5. steady' \subseteq steady
  BY <1>3
<1>6. \A x \in steady', G \in {token, gen} :
        x \in Endpoints /\ (~reg[G][x].healthy => ~reg'[G][x].healthy)
  <2> TAKE x \in steady', G \in {token, gen}
  <2>1. x \in Endpoints /\ G \in Gens
    BY <1>1, <1>5 DEF TypeOK
  <2>2. CASE G = g /\ x = e
    <3>1. ~ok
      BY <1>3, <2>2
    <3>2. reg'[G][x] = h
      BY <1>3, <2>1, <2>2 DEF TypeOK
    <3> QED
      BY <1>2, <2>1, <2>2, <3>1, <3>2
  <2>3. CASE G # g \/ x # e
    <3>1. reg'[G][x] = reg[G][x]
      BY <1>3, <2>1, <2>3 DEF TypeOK
    <3> QED
      BY <2>1, <3>1
  <2> QED
    BY <2>2, <2>3
<1>7. SteadyDown'
  BY <1>5, <1>6 DEF SteadyDown, reload
<1>8. CarriedDown'
  BY <1>5, <1>6 DEF CarriedDown, reload
<1> QED
  BY <1>4, <1>5, <1>7, <1>8 DEF TypeOK

\* The rest of the invariant is about the reload alone.
LEMMA ReloadUntouched ==
  ASSUME ReloadInv, UNCHANGED reload, TasksTyped',
         reg' \in [Gens -> [Endpoints -> Health]], gauge' \in Counts,
         sick' \subseteq Endpoints, steady' \subseteq Endpoints,
         SteadyDown', CarriedDown'
  PROVE  ReloadInv'
<1>1. TypeOK'
  BY DEF ReloadInv, TypeOK, reload
<1>2. Stage' /\ MetaStage'
  BY DEF ReloadInv, Stage, MetaStage, reload
<1>3. SlotStage' /\ MetaAfterSwap'
  BY DEF ReloadInv, SlotStage, MetaAfterSwap, reload
<1> QED
  BY <1>1, <1>2, <1>3 DEF ReloadInv

\* Nothing known to be down changes when only tasks, gauges or the world do.
LEMMA SteadyUntouched ==
  ASSUME SteadyDown, CarriedDown, UNCHANGED <<reload, reg, steady>>
  PROVE  SteadyDown' /\ CarriedDown'
BY DEF SteadyDown, CarriedDown, reload

\* Either gauge may be written on its own.
LEMMA GaugeWritten ==
  ASSUME NEW x \in Counts
  PROVE  /\ x.healthy \in 0 .. Cardinality(Endpoints) /\ x.total \in 0 .. Cardinality(Endpoints)
         /\ \A n \in 0 .. Cardinality(Endpoints) :
              [x EXCEPT !.healthy = n] \in Counts /\ [x EXCEPT !.total = n] \in Counts
BY DEF Counts

\* A step of the probe task of one generation.
LEMMA ProberInv ==
  ASSUME ReloadInv, NEW g \in Gens, Prober(g)
  PROVE  ReloadInv'
<1>1. /\ TypeOK /\ TasksTyped /\ SteadyDown /\ CarriedDown
      /\ prober[g] \in ProberState /\ conf[g] \in Configs
      /\ conf[g].eps \in SUBSET Endpoints
  BY ReloadConstants DEF ReloadInv, TypeOK, TasksTyped
<1>2. CASE BeginRound(g) \/ StopProber(g) \/ ProbeAnswered(g) \/ RefreshGauges(g)
  <2> DEFINE c == endpoint_counts(conf[g], reg[g])
  <2>1. UNCHANGED <<reload, reg, req, gauge, sick, steady>>
    BY <1>2 DEF BeginRound, StopProber, ProbeAnswered, RefreshGauges
  <2>2. PICK p \in ProberState : prober' = [prober EXCEPT ![g] = p]
    <3>1. CASE BeginRound(g)
      <4>1. Round(g) \in ProberState
        BY <1>1 DEF Round, ProberState, Following
      <4> QED
        BY <3>1, <4>1 DEF BeginRound
    <3>2. CASE StopProber(g)
      <4>1. NoProber \in ProberState
        BY DEF ProberState
      <4> QED
        BY <3>2, <4>1 DEF StopProber
    <3>3. CASE ProbeAnswered(g)
      <4>1. prober[g].pc = "round" /\ prober[g].left \in SUBSET Endpoints
        BY <1>1, <3>3 DEF ProbeAnswered, ProberState, Following, NoProber
      <4>2. PICK e \in prober[g].left :
              prober' = [prober EXCEPT ![g] =
                IF Cancelled(g) THEN NoProber
                ELSE [pc |-> "record", left |-> prober[g].left \ {e}, ep |-> e,
                      ok |-> e \notin sick]]
        BY <1>1, <3>3 DEF ProbeAnswered, TasksTyped
      <4> DEFINE b == e \notin sick
      <4>3. b \in BOOLEAN
        OBVIOUS
      <4> HIDE DEF b
      <4>4. [pc |-> "record", left |-> prober[g].left \ {e}, ep |-> e, ok |-> b]
              \in ProberState
        BY <4>1, <4>3 DEF ProberState
      <4>5. NoProber \in ProberState
        BY DEF ProberState
      <4> QED
        BY <4>2, <4>4, <4>5 DEF b
    <3>4. CASE RefreshGauges(g)
      <4>1. c \in Counts
        BY <1>1, CountsType
      <4> HIDE DEF c
      <4>2. [pc |-> "publish", counts |-> c, then |-> [pc |-> "wait"]] \in ProberState
        BY <4>1 DEF ProberState, Following
      <4> QED
        BY <3>4, <4>2 DEF RefreshGauges, c
    <3> QED
      BY <1>2, <3>1, <3>2, <3>3, <3>4
  <2>3. TasksTyped'
    BY <1>1, <2>1, <2>2 DEF TasksTyped
  <2> QED
    BY <1>1, <2>1, <2>3, SteadyUntouched, ReloadUntouched DEF TypeOK
<1>3. CASE RecordProbe(g)
  <2> DEFINE e == prober[g].ep
             c == endpoint_counts(conf[g], reg'[g])
             a == AfterRecord(g)
  <2>1. /\ prober[g].pc = "record"
        /\ Observe(g, e, prober[g].ok, conf[g].check.up, conf[g].check.down)
        /\ prober' = [prober EXCEPT ![g] =
             IF Transitioned(g, e)
             THEN [pc |-> "publish", counts |-> c, then |-> a] ELSE a]
        /\ UNCHANGED <<reload, req, gauge, sick>>
    BY <1>3 DEF RecordProbe
  <2>2. /\ prober[g].ep \in Endpoints /\ prober[g].left \in SUBSET Endpoints
        /\ prober[g].ok \in BOOLEAN
    BY <1>1, <2>1 DEF ProberState, Following, NoProber
  <2>3. /\ reg' \in [Gens -> [Endpoints -> Health]] /\ steady' \subseteq Endpoints
        /\ SteadyDown' /\ CarriedDown'
    BY <1>1, <2>1, <2>2, ObserveKeeps
  <2>4. c \in Counts
    BY <1>1, CountsType
  <2>5. a \in Following
    BY <2>2 DEF AfterRecord, Following
  <2> HIDE DEF a, c
  <2>6. [pc |-> "publish", counts |-> c, then |-> a] \in ProberState /\ a \in ProberState
    BY <2>4, <2>5 DEF ProberState
  <2>7. TasksTyped'
    BY <1>1, <2>1, <2>6 DEF TasksTyped
  <2> QED
    BY <1>1, <2>1, <2>3, <2>7, ReloadUntouched DEF TypeOK
<1>4. CASE PublishProbe(g)
  <2> DEFINE p == [pc |-> "total", total |-> prober[g].counts.total, then |-> prober[g].then]
  <2>1. prober[g].pc = "publish" /\ UNCHANGED <<reload, reg, req, sick, steady>>
        /\ gauge' = [gauge EXCEPT !.healthy = prober[g].counts.healthy]
    BY <1>4 DEF PublishProbe
  <2>2. prober[g].counts \in Counts /\ prober[g].then \in Following
    BY <1>1, <2>1 DEF ProberState, Following, NoProber
  <2>3. prober' = [prober EXCEPT ![g] = p]
    BY <1>1, <1>4 DEF PublishProbe, TasksTyped
  <2>4. gauge' \in Counts /\ prober[g].counts.total \in 0 .. Cardinality(Endpoints)
    BY <1>1, <2>1, <2>2, GaugeWritten DEF TypeOK
  <2>5. p \in ProberState
    BY <2>2, <2>4 DEF ProberState
  <2> HIDE DEF p
  <2>6. TasksTyped'
    BY <1>1, <2>1, <2>3, <2>5 DEF TasksTyped
  <2> QED
    BY <1>1, <2>1, <2>4, <2>6, SteadyUntouched, ReloadUntouched DEF TypeOK
<1>5. CASE PublishProbeTotal(g)
  <2>1. prober[g].pc = "total" /\ UNCHANGED <<reload, reg, req, sick, steady>>
        /\ gauge' = [gauge EXCEPT !.total = prober[g].total]
    BY <1>5 DEF PublishProbeTotal
  <2>2. prober[g].total \in 0 .. Cardinality(Endpoints) /\ prober[g].then \in Following
    BY <1>1, <2>1 DEF ProberState, Following, NoProber
  <2>3. prober' = [prober EXCEPT ![g] = prober[g].then]
    BY <1>1, <1>5 DEF PublishProbeTotal, TasksTyped
  <2>4. gauge' \in Counts
    BY <1>1, <2>1, <2>2, GaugeWritten DEF TypeOK
  <2>5. TasksTyped'
    BY <1>1, <2>1, <2>2, <2>3 DEF TasksTyped, ProberState
  <2> QED
    BY <1>1, <2>1, <2>4, <2>5, SteadyUntouched, ReloadUntouched DEF TypeOK
<1> QED
  BY <1>2, <1>3, <1>4, <1>5 DEF Prober

\* A request arrives, is answered or publishes what its end changed.
LEMMA RequestInv ==
  ASSUME ReloadInv, NEW r \in Requests, Arrive(r) \/ Request(r)
  PROVE  ReloadInv'
<1>1. /\ TypeOK /\ TasksTyped /\ SteadyDown /\ CarriedDown
      /\ req[r] \in RequestState /\ Idle \in RequestState
  BY DEF ReloadInv, TasksTyped, RequestState
<1>2. CASE Arrive(r)
  <2>1. UNCHANGED <<reload, reg, prober, gauge, sick, steady>>
    BY <1>2 DEF Arrive
  <2>2. PICK l \in Live : \E e \in Selectable(slot[l]) :
          req' = [req EXCEPT ![r] = [pc |-> "sent", g |-> slot[l], ep |-> e]]
    BY <1>2 DEF Arrive
  <2>3. PICK e \in Selectable(slot[l]) :
          req' = [req EXCEPT ![r] = [pc |-> "sent", g |-> slot[l], ep |-> e]]
    BY <2>2
  <2>4. slot[l] \in Gens /\ e \in Endpoints
    BY <1>1, ReloadConstants DEF TypeOK, Selectable
  <2>5. TasksTyped'
    BY <1>1, <2>1, <2>3, <2>4 DEF TasksTyped, RequestState
  <2> QED
    BY <1>1, <2>1, <2>5, SteadyUntouched, ReloadUntouched DEF TypeOK
<1>3. CASE Respond(r)
  <2> DEFINE g == req[r].g
             e == req[r].ep
             check == conf[g].check
             c == endpoint_counts(conf[g], reg'[g])
  <2>1. req[r].pc = "sent" /\ UNCHANGED <<reload, prober, gauge, sick>>
    BY <1>3 DEF Respond
  <2>2. g \in Gens /\ e \in Endpoints /\ conf[g] \in Configs
    BY <1>1, <2>1 DEF TypeOK, RequestState, Idle
  <2>3. PICK ok \in BOOLEAN :
        \/ req' = [req EXCEPT ![r] = Idle] /\ UNCHANGED <<reg, steady>>
        \/ /\ Observe(g, e, ok, check.passiveUp, check.passiveDown)
           /\ req' = [req EXCEPT ![r] =
                IF Transitioned(g, e)
                THEN [pc |-> "publish", counts |-> c] ELSE Idle]
    BY <1>3 DEF Respond
  <2>4. c \in Counts
    BY <2>2, CountsType
  <2>5. /\ reg' \in [Gens -> [Endpoints -> Health]] /\ steady' \subseteq Endpoints
        /\ SteadyDown' /\ CarriedDown'
    <3>1. CASE UNCHANGED <<reg, steady>>
      BY <1>1, <2>1, <3>1, SteadyUntouched DEF TypeOK
    <3>2. CASE Observe(g, e, ok, check.passiveUp, check.passiveDown)
      <4> HIDE DEF g, e, check
      <4> QED
        BY <1>1, <2>1, <2>2, <2>4, <3>2, ObserveKeeps
    <3> QED
      BY <2>3, <3>1, <3>2
  <2>6. TasksTyped'
    <3> HIDE DEF c
    <3>1. [pc |-> "publish", counts |-> c] \in RequestState
      BY <2>4 DEF RequestState
    <3> QED
      BY <1>1, <2>1, <2>3, <3>1 DEF TasksTyped
  <2> QED
    BY <1>1, <2>1, <2>5, <2>6, ReloadUntouched DEF TypeOK
<1>4. CASE PublishPassive(r)
  <2> DEFINE n == req[r].counts.total
  <2>1. req[r].pc = "publish" /\ UNCHANGED <<reload, reg, prober, sick, steady>>
        /\ gauge' = [gauge EXCEPT !.healthy = req[r].counts.healthy]
    BY <1>4 DEF PublishPassive
  <2>2. req[r].counts \in Counts
    BY <1>1, <2>1 DEF RequestState, Idle
  <2>3. req' = [req EXCEPT ![r] = [pc |-> "total", total |-> n]]
    BY <1>1, <1>4 DEF PublishPassive, TasksTyped
  <2>4. gauge' \in Counts /\ n \in 0 .. Cardinality(Endpoints)
    BY <1>1, <2>1, <2>2, GaugeWritten DEF TypeOK
  <2> HIDE DEF n
  <2>5. TasksTyped'
    BY <1>1, <2>1, <2>3, <2>4 DEF TasksTyped, RequestState
  <2> QED
    BY <1>1, <2>1, <2>4, <2>5, SteadyUntouched, ReloadUntouched DEF TypeOK
<1>5. CASE PublishPassiveTotal(r)
  <2>1. req[r].pc = "total" /\ UNCHANGED <<reload, reg, prober, sick, steady>>
        /\ gauge' = [gauge EXCEPT !.total = req[r].total]
        /\ req' = [req EXCEPT ![r] = Idle]
    BY <1>5 DEF PublishPassiveTotal
  <2>2. req[r].total \in 0 .. Cardinality(Endpoints)
    BY <1>1, <2>1 DEF RequestState, Idle
  <2>3. gauge' \in Counts
    BY <1>1, <2>1, <2>2, GaugeWritten DEF TypeOK
  <2>4. TasksTyped'
    BY <1>1, <2>1 DEF TasksTyped
  <2> QED
    BY <1>1, <2>1, <2>3, <2>4, SteadyUntouched, ReloadUntouched DEF TypeOK
<1>6. CASE EndUnobserved(r)
  <2>1. UNCHANGED <<reload, reg, prober, gauge, sick, steady>>
        /\ req' = [req EXCEPT ![r] = Idle]
    BY <1>6 DEF EndUnobserved
  <2>2. TasksTyped'
    BY <1>1, <2>1 DEF TasksTyped
  <2> QED
    BY <1>1, <2>1, <2>2, SteadyUntouched, ReloadUntouched DEF TypeOK
<1> QED
  BY <1>2, <1>3, <1>4, <1>5, <1>6 DEF Request

\* An endpoint starts or stops failing.
LEMMA FlipInv ==
  ASSUME ReloadInv, NEW e \in Endpoints, Flip(e)
  PROVE  ReloadInv'
<1>1. TypeOK /\ TasksTyped /\ SteadyDown /\ CarriedDown
  BY DEF ReloadInv
<1>2. UNCHANGED <<reload, reg, prober, req, gauge, steady>> /\ sick' \subseteq Endpoints
  BY <1>1 DEF Flip, TypeOK
<1>3. TasksTyped'
  BY <1>1, <1>2 DEF TasksTyped
<1> QED
  BY <1>1, <1>2, <1>3, SteadyUntouched, ReloadUntouched DEF TypeOK

-----------------------------------------------------------------------------
(***************************************************************************)
(* The steps of reload_pipelines, in order.                                *)
(***************************************************************************)

\* A new generation is built beside the one that is served and probed.
LEMMA BeginReloadInv ==
  ASSUME ReloadInv, NEW c \in Configs, BeginReload(c)
  PROVE  ReloadInv'
<1> USE DEF ReloadInv
<1>1. /\ phase = "idle" /\ gen < MaxGen /\ phase' = "build" /\ gen' = gen + 1
      /\ conf' = [conf EXCEPT ![gen + 1] = c]
      /\ reg' = [reg EXCEPT ![gen + 1] = [e \in Endpoints |-> Fresh]]
      /\ steady' = IF Checked(config)
                   THEN {e \in config.eps : ~reg[token][e].healthy} ELSE {}
      /\ UNCHANGED <<config, slot, meta, toCarry, toSwap, token, prober, req,
                     gauge, sick>>
  BY DEF BeginReload
<1>2. /\ gen \in Nat /\ gen = token /\ gen + 1 \in Gens /\ token \in Gens
      /\ config = conf[token] /\ config \in Configs
      /\ config.eps \subseteq Endpoints
  BY <1>1, ReloadConstants DEF TypeOK, Gens, Stage
<1>3. [e \in Endpoints |-> Fresh] \in [Endpoints -> Health]
  BY FreshType
<1>4. TypeOK'
  BY <1>1, <1>2, <1>3 DEF TypeOK
<1>5. TasksTyped'
  BY <1>1 DEF TasksTyped
<1>6. \A g \in Gens : g <= gen =>
        g # gen + 1 /\ conf'[g] = conf[g] /\ reg'[g] = reg[g]
  BY <1>1, <1>2 DEF TypeOK, Gens
<1>7. conf'[token] = conf[token] /\ reg'[token] = reg[token]
  BY <1>2, <1>6 DEF Gens
<1>8. Stage' /\ MetaStage'
  BY <1>1, <1>2, <1>7 DEF Stage, MetaStage
<1>9. SlotStage'
  <2>1. \A l \in Live : slot[l] \in Gens /\ slot[l] <= token
    BY <1>1 DEF TypeOK, SlotStage
  <2>2. \A l \in Live : slot[l] <= gen + 1
    BY <1>2, <2>1 DEF Gens
  <2> QED
    BY <1>1, <2>1, <2>2 DEF SlotStage
<1>10. MetaAfterSwap'
  <2>1. meta.listeners = token
    BY <1>1 DEF MetaStage
  <2> QED
    BY <1>1, <1>7, <2>1 DEF MetaAfterSwap
<1>11. SteadyDown' /\ CarriedDown'
  BY <1>1, <1>7 DEF SteadyDown, CarriedDown
<1> QED
  BY <1>4, <1>5, <1>8, <1>9, <1>10, <1>11

\* What was built is dropped; nobody had been given it.
LEMMA RefuseReloadInv == ASSUME ReloadInv, RefuseReload PROVE ReloadInv'
<1> USE DEF ReloadInv
<1>1. /\ phase = "build" /\ phase' = "idle" /\ gen' = gen - 1
      /\ conf' = [conf EXCEPT ![gen] = conf[0]] /\ steady' = {}
      /\ UNCHANGED <<config, reg, slot, meta, toCarry, toSwap, token, prober,
                     req, gauge, sick>>
  BY DEF RefuseReload
<1>2. /\ gen = token + 1 /\ gen - 1 = token /\ token \in Gens /\ gen \in Gens
      /\ token \in Int /\ 0 \in Gens
  BY <1>1, ReloadConstants DEF TypeOK, Gens, Stage
<1>3. TypeOK'
  BY <1>1, <1>2 DEF TypeOK
<1>4. TasksTyped'
  BY <1>1 DEF TasksTyped
<1>5. conf'[token] = conf[token]
  BY <1>1, <1>2 DEF TypeOK
<1>6. Stage' /\ MetaStage'
  BY <1>1, <1>2, <1>5 DEF Stage, MetaStage
<1>7. SlotStage'
  BY <1>1, <1>2 DEF SlotStage
<1>8. MetaAfterSwap'
  BY <1>1, <1>5 DEF MetaAfterSwap, MetaStage
<1>9. SteadyDown' /\ CarriedDown'
  BY <1>1 DEF SteadyDown, CarriedDown
<1> QED
  BY <1>3, <1>4, <1>6, <1>7, <1>8, <1>9

\* The last fallible step is over.
LEMMA BeginSwapInv == ASSUME ReloadInv, BeginSwap PROVE ReloadInv'
<1> USE DEF ReloadInv
<1>1. /\ phase = "build" /\ phase' = "swap"
      /\ toSwap' = conf[gen].listeners \cap Live
      /\ toCarry' = IF live_generation # {} /\ Checked(config)
                       /\ conf[gen].check = config.check
                    THEN conf[gen].eps \cap config.eps ELSE {}
      /\ UNCHANGED <<config, gen, conf, reg, slot, meta, token, prober, req,
                     gauge, sick, steady>>
  BY DEF BeginSwap
<1>2. config.eps \subseteq Endpoints
  BY ReloadConstants DEF TypeOK
<1>3. TypeOK'
  BY <1>1, <1>2 DEF TypeOK
<1>4. TasksTyped'
  BY <1>1 DEF TasksTyped
<1>5. Stage' /\ MetaStage' /\ MetaAfterSwap'
  BY <1>1 DEF Stage, MetaStage, MetaAfterSwap
<1>6. SlotStage'
  BY <1>1 DEF SlotStage
<1>7. SteadyDown'
  BY <1>1 DEF SteadyDown
<1>8. CarriedDown'
  <2> SUFFICES ASSUME Checked(config), conf[gen].check = config.check,
                      Live \cap config.listeners # {},
                      NEW e \in (steady \cap conf[gen].eps) \ toCarry'
               PROVE  FALSE
    BY <1>1 DEF CarriedDown
  <2>1. PICK l \in Live \cap config.listeners : TRUE
    OBVIOUS
  <2>2. slot[l] = token /\ config = conf[token]
    BY <1>1 DEF SlotStage, Stage
  <2>3. slot[l] \in live_generation
    BY <2>2 DEF live_generation
  <2>4. e \in config.eps
    BY <1>1 DEF SteadyDown
  <2> QED
    BY <1>1, <2>3, <2>4
<1> QED
  BY <1>3, <1>4, <1>5, <1>6, <1>7, <1>8

\* carry_over_health_state looks at one endpoint.
LEMMA CarryEndpointInv ==
  ASSUME ReloadInv, NEW e \in Endpoints, CarryEndpoint(e)
  PROVE  ReloadInv'
<1> USE DEF ReloadInv
<1>1. /\ phase = "swap" /\ e \in toCarry /\ toCarry' = toCarry \ {e}
      /\ UNCHANGED <<config, gen, conf, slot, meta, phase, toSwap, token, prober,
                     req, gauge, sick, steady>>
  BY DEF CarryEndpoint
<1>2. PICK g \in live_generation :
        reg' = IF reg[g][e].healthy THEN reg
               ELSE [reg EXCEPT ![gen][e] = mark_unhealthy(@)]
  BY DEF CarryEndpoint
<1>3. g = token
  BY <1>1 DEF live_generation, SlotStage
<1>4. gen \in Gens /\ token \in Gens /\ gen # token /\ reg[gen][e] \in Health
  BY <1>1 DEF TypeOK, Stage, Gens
<1> DEFINE h == mark_unhealthy(reg[gen][e])
<1>5. h \in Health /\ ~h.healthy
  BY <1>4, HealthOperations
<1>6. reg' = IF reg[token][e].healthy THEN reg ELSE [reg EXCEPT ![gen][e] = h]
  BY <1>2, <1>3, <1>4 DEF TypeOK
<1> HIDE DEF h
<1>7. reg' \in [Gens -> [Endpoints -> Health]] /\ reg'[token] = reg[token]
  BY <1>4, <1>5, <1>6 DEF TypeOK
<1>8. TypeOK'
  BY <1>1, <1>7 DEF TypeOK
<1>9. TasksTyped'
  BY <1>1 DEF TasksTyped
<1>10. Stage' /\ MetaStage' /\ MetaAfterSwap'
  BY <1>1 DEF Stage, MetaStage, MetaAfterSwap
<1>11. SlotStage'
  BY <1>1 DEF SlotStage
<1>12. SteadyDown'
  BY <1>1, <1>7 DEF SteadyDown
<1>13. CarriedDown'
  <2> SUFFICES ASSUME Checked(config), conf[gen].check = config.check,
                      Live \cap config.listeners # {},
                      NEW x \in (steady \cap conf[gen].eps) \ toCarry'
               PROVE  ~reg'[gen][x].healthy
    BY <1>1 DEF CarriedDown
  <2>1. x \in Endpoints /\ ~reg[token][x].healthy
    BY <1>1 DEF SteadyDown, TypeOK
  <2>2. CASE x = e
    <3>1. reg'[gen][e] = h
      BY <1>4, <1>6, <2>1, <2>2 DEF TypeOK
    <3> QED
      BY <1>5, <2>2, <3>1
  <2>3. CASE x # e
    <3>1. ~reg[gen][x].healthy
      BY <1>1, <2>3 DEF CarriedDown
    <3>2. reg'[gen][x] = reg[gen][x]
      BY <1>4, <1>6, <2>1, <2>3 DEF TypeOK
    <3> QED
      BY <3>1, <3>2
  <2> QED
    BY <2>2, <2>3
<1> QED
  BY <1>8, <1>9, <1>10, <1>11, <1>12, <1>13

\* A listener moves to the new pipelines.
LEMMA SwapListenerInv ==
  ASSUME ReloadInv, NEW l \in Live, SwapListener(l)
  PROVE  ReloadInv'
<1> USE DEF ReloadInv
<1>1. /\ phase = "swap" /\ toCarry = {} /\ l \in toSwap /\ toSwap' = toSwap \ {l}
      /\ slot' = [slot EXCEPT ![l] = gen]
      /\ UNCHANGED <<config, gen, conf, reg, meta, phase, toCarry, token, prober,
                     req, gauge, sick, steady>>
  BY DEF SwapListener
<1>2. gen \in Gens /\ gen \in Int /\ token \in Int /\ gen = token + 1
  BY <1>1 DEF TypeOK, Gens, Stage
<1>3. \A m \in Live : slot'[m] = IF m = l THEN gen ELSE slot[m]
  BY <1>1 DEF TypeOK
<1>4. TypeOK'
  BY <1>1, <1>2 DEF TypeOK
<1>5. TasksTyped'
  BY <1>1 DEF TasksTyped
<1>6. Stage' /\ MetaStage'
  BY <1>1 DEF Stage, MetaStage
<1>7. SlotStage'
  BY <1>1, <1>2, <1>3 DEF SlotStage
<1>8. MetaAfterSwap'
  <2>1. meta.listeners = token /\ gen >= token
    BY <1>1, <1>2 DEF MetaStage
  <2> QED
    BY <1>1, <1>3, <2>1 DEF MetaAfterSwap
<1>9. SteadyDown' /\ CarriedDown'
  BY <1>1 DEF SteadyDown, CarriedDown
<1> QED
  BY <1>4, <1>5, <1>6, <1>7, <1>8, <1>9

\* The metadata of the listeners is stored once they are all swapped.
LEMMA StoreListenerMetaInv == ASSUME ReloadInv, StoreListenerMeta PROVE ReloadInv'
<1> USE DEF ReloadInv
<1>1. /\ phase = "swap" /\ toCarry = {} /\ toSwap = {}
      /\ meta' = [meta EXCEPT !.listeners = gen] /\ phase' = "clusterMeta"
      /\ UNCHANGED <<config, gen, conf, reg, slot, toCarry, toSwap, token, prober,
                     req, gauge, sick, steady>>
  BY DEF StoreListenerMeta
<1>2. meta'.listeners = gen /\ meta'.clusters = meta.clusters
      /\ meta' \in [listeners : Gens, clusters : Gens] /\ gen \in Gens /\ gen \in Int
  BY <1>1 DEF TypeOK, Gens
<1>3. TypeOK'
  BY <1>1, <1>2 DEF TypeOK
<1>4. TasksTyped'
  BY <1>1 DEF TasksTyped
<1>5. Stage' /\ MetaStage'
  BY <1>1, <1>2 DEF Stage, MetaStage
<1>6. \A l \in Live \cap conf[gen].listeners : slot[l] = gen
  BY <1>1 DEF SlotStage
<1>7. SlotStage'
  BY <1>1, <1>6 DEF SlotStage
<1>8. MetaAfterSwap'
  BY <1>1, <1>2, <1>6 DEF MetaAfterSwap
<1>9. SteadyDown' /\ CarriedDown'
  BY <1>1 DEF SteadyDown, CarriedDown
<1> QED
  BY <1>3, <1>4, <1>5, <1>7, <1>8, <1>9

\* Then the metadata of the clusters.
LEMMA StoreClusterMetaInv == ASSUME ReloadInv, StoreClusterMeta PROVE ReloadInv'
<1> USE DEF ReloadInv
<1>1. /\ phase = "clusterMeta" /\ phase' = "cancel"
      /\ meta' = [meta EXCEPT !.clusters = gen]
      /\ UNCHANGED <<config, gen, conf, reg, slot, toCarry, toSwap, token, prober,
                     req, gauge, sick, steady>>
  BY DEF StoreClusterMeta
<1>2. meta'.clusters = gen /\ meta'.listeners = meta.listeners
      /\ meta' \in [listeners : Gens, clusters : Gens]
  BY <1>1 DEF TypeOK
<1>3. TypeOK'
  BY <1>1, <1>2 DEF TypeOK
<1>4. TasksTyped'
  BY <1>1 DEF TasksTyped
<1>5. Stage' /\ MetaStage'
  BY <1>1, <1>2 DEF Stage, MetaStage
<1>6. SlotStage' /\ MetaAfterSwap'
  BY <1>1, <1>2 DEF SlotStage, MetaAfterSwap
<1>7. SteadyDown' /\ CarriedDown'
  BY <1>1 DEF SteadyDown, CarriedDown
<1> QED
  BY <1>3, <1>4, <1>5, <1>6, <1>7

\* The probe tokens change hands, and the gauges are seeded.
LEMMA RespawnInv ==
  ASSUME ReloadInv, CancelProbes \/ SeedGauges \/ SeedTotal
  PROVE  ReloadInv'
<1> USE DEF ReloadInv
<1>1. /\ phase \in {"cancel", "seed", "seedTotal"} /\ phase' \in {"seed", "seedTotal", "spawn"}
      /\ UNCHANGED <<config, gen, conf, reg, slot, meta, toCarry, toSwap, prober,
                     req, sick, steady>>
  BY DEF CancelProbes, SeedGauges, SeedTotal
<1>2. token' = gen /\ gen \in Gens
  BY DEF CancelProbes, SeedGauges, SeedTotal, TypeOK, Stage
<1>3. gauge' \in Counts
  <2>1. endpoint_counts(conf[gen], reg[gen]) \in Counts
    BY CountsType DEF TypeOK
  <2>2. gauge \in Counts
    BY DEF TypeOK
  <2> DEFINE c == endpoint_counts(conf[gen], reg[gen])
  <2>3. \/ gauge' = gauge \/ gauge' = [gauge EXCEPT !.healthy = c.healthy]
        \/ gauge' = [gauge EXCEPT !.total = c.total]
    BY DEF CancelProbes, SeedGauges, SeedTotal
  <2> HIDE DEF c
  <2>4. c \in Counts
    BY <2>1 DEF c
  <2> QED
    BY <2>2, <2>3, <2>4, GaugeWritten
<1>4. TypeOK'
  BY <1>1, <1>2, <1>3 DEF TypeOK
<1>5. TasksTyped'
  BY <1>1 DEF TasksTyped
<1>6. Stage' /\ MetaStage'
  BY <1>1, <1>2 DEF Stage, MetaStage
<1>7. SlotStage' /\ MetaAfterSwap'
  BY <1>1 DEF SlotStage, MetaAfterSwap
<1>8. SteadyDown' /\ CarriedDown'
  BY <1>1 DEF SteadyDown, CarriedDown
<1> QED
  BY <1>4, <1>5, <1>6, <1>7, <1>8

\* The new config is the current one, with probes or without.
LEMMA ConcludeInv == ASSUME ReloadInv, SpawnProbes \/ SpawnFails PROVE ReloadInv'
<1> USE DEF ReloadInv
<1>1. /\ phase = "spawn" /\ phase' = "idle" /\ config' = conf[gen] /\ steady' = {}
      /\ UNCHANGED <<gen, conf, reg, slot, meta, toCarry, toSwap, token, req,
                     gauge, sick>>
  BY DEF SpawnProbes, SpawnFails, Conclude
<1>2. gen = token /\ gen \in Gens /\ conf[gen] \in Configs
  BY <1>1 DEF Stage, TypeOK
<1>3. TypeOK'
  BY <1>1, <1>2 DEF TypeOK
<1>4. TasksTyped'
  <2>1. Round(gen) \in ProberState
    BY <1>2, ReloadConstants DEF Round, ProberState, Following
  <2> QED
    BY <1>1, <2>1 DEF SpawnProbes, SpawnFails, TasksTyped
<1>5. Stage' /\ MetaStage'
  BY <1>1, <1>2 DEF Stage, MetaStage
<1>6. SlotStage'
  BY <1>1, <1>2 DEF SlotStage
<1>7. MetaAfterSwap'
  BY <1>1 DEF MetaAfterSwap
<1>8. SteadyDown' /\ CarriedDown'
  BY <1>1 DEF SteadyDown, CarriedDown
<1> QED
  BY <1>3, <1>4, <1>5, <1>6, <1>7, <1>8

-----------------------------------------------------------------------------
(***************************************************************************)
(* The theorems.                                                           *)
(***************************************************************************)

\* The start-up generation is live and probed.
LEMMA ReloadInit == Init => ReloadInv
<1> SUFFICES ASSUME Init PROVE ReloadInv
  OBVIOUS
<1>1. /\ 0 \in Gens /\ 1 \in Gens /\ config \in Configs
      /\ config.eps \subseteq Endpoints /\ conf = [g \in Gens |-> config]
  BY ReloadConstants DEF Init, Gens
<1>2. Fresh \in Health /\ mark_unhealthy(Fresh) \in Health
  BY FreshType, HealthOperations
<1>3. reg \in [Gens -> [Endpoints -> Health]]
  BY <1>2 DEF Init
<1>4. gauge \in Counts
  <2>1. endpoint_counts(config, reg[1]) \in Counts
    BY <1>1, CountsType
  <2> QED
    BY <2>1 DEF Init
<1>5. slot \in [Live -> Gens] /\ meta \in [listeners : Gens, clusters : Gens]
  BY <1>1 DEF Init
<1>6. TypeOK
  BY <1>1, <1>3, <1>4, <1>5 DEF Init, TypeOK
<1>7. TasksTyped
  <2>1. Round(1) \in ProberState /\ NoProber \in ProberState
    BY <1>1 DEF Round, ProberState, Following
  <2> QED
    BY <2>1 DEF Init, TasksTyped, RequestState
<1>8. Stage /\ MetaStage
  BY <1>1 DEF Init, Stage, MetaStage
<1>9. SlotStage /\ MetaAfterSwap
  BY <1>1 DEF Init, SlotStage, MetaAfterSwap
<1>10. SteadyDown /\ CarriedDown
  BY DEF Init, SteadyDown, CarriedDown
<1> QED
  BY <1>6, <1>7, <1>8, <1>9, <1>10 DEF ReloadInv

\* The inductive invariant holds in every state.
THEOREM ReloadInvariant == Spec => []ReloadInv
<1>1. ReloadInv /\ [Next]_vars => ReloadInv'
  <2> SUFFICES ASSUME ReloadInv, [Next]_vars PROVE ReloadInv'
    OBVIOUS
  <2>1. CASE \E e \in Endpoints : Flip(e)
    BY <2>1, FlipInv
  <2>2. CASE \E g \in Gens : Prober(g)
    BY <2>2, ProberInv
  <2>3. CASE \E r \in Requests : Arrive(r) \/ Request(r)
    BY <2>3, RequestInv
  <2>4. CASE \E c \in Configs : BeginReload(c)
    BY <2>4, BeginReloadInv
  <2>5. CASE Reload
    BY <2>5, RefuseReloadInv, BeginSwapInv, CarryEndpointInv, SwapListenerInv,
       StoreListenerMetaInv, StoreClusterMetaInv, RespawnInv, ConcludeInv
       DEF Reload
  <2>6. CASE UNCHANGED vars
    BY <2>6 DEF vars, ReloadInv, TypeOK, TasksTyped, Stage, MetaStage, SlotStage,
       MetaAfterSwap, SteadyDown, CarriedDown
  <2> QED
    BY <2>1, <2>2, <2>3, <2>4, <2>5, <2>6 DEF Next
<1> QED
  BY <1>1, ReloadInit, PTL DEF Spec

\* Between reloads every listener of the current config serves the generation
\* that is probed and described, and the admin metadata is never ahead of a
\* listener, however reloads, refusals, probes and requests interleave.
THEOREM GenerationsCorrect == Spec => []GenerationsAgree
<1>1. ReloadInv => GenerationsAgree
  <2> SUFFICES ASSUME ReloadInv PROVE TypeOK /\ ServedIsProbed /\ MetaAfterSwap
    BY DEF GenerationsAgree
  <2>1. ServedIsProbed
    BY DEF ReloadInv, ServedIsProbed, SlotStage, MetaStage
  <2> QED
    BY <2>1 DEF ReloadInv
<1> QED
  BY <1>1, ReloadInvariant, PTL

\* An endpoint known to be down when the reload began, with no success since,
\* is down in the pipelines a listener moves to: the swap waits for the
\* carry-over, and no observation in either registry loses it.
THEOREM CarryOverCorrect == Spec => KnownDownCarried
<1> DEFINE A == \A l \in Live :
                  (slot'[l] # slot[l] /\ Checked(config) /\ ServedNow # {}
                   /\ conf[gen].check = config.check) =>
                     \A e \in steady \cap conf[gen].eps : ~reg[gen][e].healthy
<1>1. ReloadInv /\ [Next]_vars => [A]_vars
  <2> SUFFICES ASSUME ReloadInv, Next, NEW l \in Live, slot'[l] # slot[l],
                      Checked(config), ServedNow # {},
                      conf[gen].check = config.check,
                      NEW e \in steady \cap conf[gen].eps
               PROVE  ~reg[gen][e].healthy
    OBVIOUS
  <2>1. PICK m \in Live : SwapListener(m)
    <3> USE DEF reload
    <3>1. CASE \E x \in Endpoints : Flip(x)
      BY <3>1 DEF Flip
    <3>2. CASE \E g \in Gens : Prober(g)
      BY <3>2 DEF Prober, BeginRound, StopProber, ProbeAnswered, RecordProbe,
         RefreshGauges, PublishProbe, PublishProbeTotal
    <3>3. CASE \E r \in Requests : Arrive(r) \/ Request(r)
      BY <3>3 DEF Arrive, Request, EndUnobserved, Respond, PublishPassive,
         PublishPassiveTotal
    <3>4. CASE \E c \in Configs : BeginReload(c)
      BY <3>4 DEF BeginReload
    <3>5. CASE Reload
      BY <3>5 DEF Reload, RefuseReload, BeginSwap, CarryEndpoint,
         StoreListenerMeta, StoreClusterMeta, CancelProbes, SeedGauges, SeedTotal,
         SpawnProbes, SpawnFails, Conclude
    <3> QED
      BY <3>1, <3>2, <3>3, <3>4, <3>5 DEF Next
  <2>2. phase = "swap" /\ toCarry = {}
    BY <2>1 DEF SwapListener
  <2>3. Live \cap config.listeners # {}
    BY DEF ServedNow
  <2> QED
    BY <2>2, <2>3 DEF ReloadInv, CarriedDown
<1> QED
  BY <1>1, ReloadInvariant, PTL DEF Spec, KnownDownCarried
==============================================================================
