------------------------------ MODULE HotReload ------------------------------
(***************************************************************************)
(* reload_pipelines (server/src/reload.rs) and the endpoint health it      *)
(* hands from one generation to the next, while the old generation's       *)
(* probes, the requests that already loaded a pipeline and the listeners   *)
(* not yet swapped go on using the old one.                                *)
(*                                                                         *)
(* A generation is one successful build: a registry of endpoint health and *)
(* the pipelines that pin it.  There is one cluster; endpoints are their   *)
(* addresses, by which health is looked up and carried over.  A config is  *)
(* [listeners, check, eps]: the listeners it names, the cluster's          *)
(* health_check (NoCheck when it has none or the cluster is gone) and the  *)
(* cluster's endpoints.  A check is                                        *)
(* [down, up, passiveDown, passiveUp], with 0 for an absent passive        *)
(* threshold.                                                              *)
(***************************************************************************)
EXTENDS Integers, FiniteSets, FiniteSetsExt

CONSTANTS
    Live,           \* listeners bound at start-up, the key set of the slots
    Endpoints,      \* addresses
    Configs,        \* the configurations the file may hold
    NoCheck,        \* "no health_check"
    MaxGen,         \* bound on the generations
    Requests,       \* requests in flight at once
    MaxArrivals,    \* bound on the requests
    MaxFlips        \* bound on how often endpoints fail or recover

VARIABLES
    config,         \* current_config of the watcher
    gen,            \* the newest generation built
    conf,           \* generation -> the config it was built from
    reg,            \* generation -> endpoint -> health
    slot,           \* listener -> the generation its pipeline slot holds
    meta,           \* the generations of the two admin metadata stores
    phase,          \* where reload_pipelines stands
    toCarry,        \* endpoints carry_over_health_state has still to look at
    toSwap,         \* listeners still to be swapped
    token,          \* the generation of the probe token not cancelled
    prober,         \* generation -> its probe task
    req,            \* request -> what it is doing
    gauge,          \* healthy and total endpoints as last published
    sick,           \* the endpoints that really fail
    arrivals, flips,
    steady          \* history: down since this reload began, no success seen

reload == <<config, gen, conf, slot, meta, phase, toCarry, toSwap, token>>
vars == <<config, gen, conf, reg, slot, meta, phase, toCarry, toSwap, token,
          prober, req, gauge, sick, arrivals, flips, steady>>

Gens == 0 .. MaxGen
Checked(c) == c.check # NoCheck
Cap == Max({1} \cup UNION {{c.check.down, c.check.up, c.check.passiveDown,
                            c.check.passiveUp} : c \in {d \in Configs : Checked(d)}})
Counts == [healthy : 0 .. Cardinality(Endpoints), total : 0 .. Cardinality(Endpoints)]

\* Generations 0 and 1 exist from the start; a config names endpoints, and its
\* thresholds are numbers.
ASSUME ReloadConstants ==
    /\ MaxGen \in Nat \ {0}
    /\ IsFiniteSet(Endpoints) /\ IsFiniteSet(Configs)
    /\ \A c \in Configs :
        /\ c.eps \subseteq Endpoints
        /\ Checked(c) => c.check \in [down : Nat, up : Nat,
                                      passiveDown : Nat, passiveUp : Nat]

------------------------------------------------------------------------------
(* core/src/health.rs: one endpoint's state; counters saturate at Cap, the *)
(* largest threshold they are compared with.                               *)

Fresh == [healthy |-> TRUE, successes |-> 0, failures |-> 0]
Bump(n) == Min({n + 1, Cap})

mark_unhealthy(h) == [h EXCEPT !.healthy = FALSE, !.successes = 0]

record_success(h, threshold) ==
    [healthy |-> h.healthy \/ Bump(h.successes) >= threshold,
     successes |-> Bump(h.successes), failures |-> 0]

record_failure(h, threshold) ==
    [healthy |-> h.healthy /\ Bump(h.failures) < threshold,
     successes |-> 0, failures |-> Bump(h.failures)]

\* Of the registry "health" built from config c.
endpoint_counts(c, health) ==
    IF Checked(c)
    THEN [healthy |-> Cardinality({e \in c.eps : health[e].healthy}),
          total |-> Cardinality(c.eps)]
    ELSE [healthy |-> 0, total |-> 0]

------------------------------------------------------------------------------
NoProber == [pc |-> "none"]
Idle == [pc |-> "idle"]

\* Mutant: endpoints already known to be down are not probed.
RoundOfHealthy(g) ==
    [pc |-> "round", left |-> {e \in conf[g].eps : reg[g][e].healthy}]

Round(g) == [pc |-> "round", left |-> conf[g].eps]

(***************************************************************************)
(* Generation 1 is live and probed.  A listener that the config does not   *)
(* name was dropped by an earlier reload: its slot still holds generation  *)
(* 0, whose registry is frozen as it was.                                  *)
(***************************************************************************)
Init ==
    /\ config \in {c \in Configs : Checked(c)}
    /\ gen = 1 /\ token = 1
    /\ conf = [g \in Gens |-> config]
    /\ \E frozen \in {Fresh, mark_unhealthy(Fresh)} :
         reg = [g \in Gens |-> [e \in Endpoints |->
                                  IF g = 0 THEN frozen ELSE Fresh]]
    /\ slot = [l \in Live |-> IF l \in config.listeners THEN 1 ELSE 0]
    /\ meta = [listeners |-> 1, clusters |-> 1]
    /\ phase = "idle" /\ toCarry = {} /\ toSwap = {}
    /\ prober = [g \in Gens |-> IF g = 1 THEN Round(1) ELSE NoProber]
    /\ req = [r \in Requests |-> Idle]
    /\ gauge = endpoint_counts(config, reg[1])
    /\ sick = {} /\ arrivals = 0 /\ flips = 0 /\ steady = {}

\* An endpoint starts or stops failing.
Flip(e) ==
    /\ flips < MaxFlips
    /\ flips' = flips + 1
    /\ sick' = IF e \in sick THEN sick \ {e} ELSE sick \cup {e}
    /\ UNCHANGED <<reload, reg, prober, req, gauge, arrivals, steady>>

------------------------------------------------------------------------------
(* One observation of endpoint e through generation g.                     *)

Observe(g, e, ok, up, down) ==
    LET h == IF ok THEN record_success(reg[g][e], up)
             ELSE record_failure(reg[g][e], down)
    IN  /\ reg' = [reg EXCEPT ![g][e] = h]
        /\ steady' = IF ok /\ g \in {token, gen} THEN steady \ {e} ELSE steady

Transitioned(g, e) == reg'[g][e].healthy # reg[g][e].healthy

------------------------------------------------------------------------------
(* The probe task of one generation (health/runner.rs).  A round probes    *)
(* every endpoint; each answer is dropped once the token is cancelled,     *)
(* else recorded; the gauges follow a transition and the end of a round.   *)
(* Counting and writing either gauge are three steps.                      *)

Cancelled(g) == g # token

BeginRound(g) ==
    /\ prober[g].pc = "wait"
    /\ prober' = [prober EXCEPT ![g] = Round(g)]
    /\ UNCHANGED <<reload, reg, req, gauge, sick, arrivals, flips, steady>>

StopProber(g) ==
    /\ prober[g].pc = "wait" /\ Cancelled(g)
    /\ prober' = [prober EXCEPT ![g] = NoProber]
    /\ UNCHANGED <<reload, reg, req, gauge, sick, arrivals, flips, steady>>

\* An answer arrives and the token is looked at.
ProbeAnswered(g) ==
    /\ prober[g].pc = "round"
    /\ \E e \in prober[g].left :
        prober' = [prober EXCEPT ![g] =
            IF Cancelled(g) THEN NoProber
            ELSE [pc |-> "record", left |-> @.left \ {e}, ep |-> e,
                  ok |-> e \notin sick]]
    /\ UNCHANGED <<reload, reg, req, gauge, sick, arrivals, flips, steady>>

\* Mutant: the gauges are left to the transitions.
AfterRecordNoRefresh(g) ==
    [pc |-> IF prober[g].left = {} THEN "wait" ELSE "round",
     left |-> prober[g].left]

AfterRecord(g) == [pc |-> IF prober[g].left = {} THEN "refresh" ELSE "round",
                   left |-> prober[g].left]

RecordProbe(g) ==
    /\ prober[g].pc = "record"
    /\ LET e == prober[g].ep
           check == conf[g].check
       IN  /\ Observe(g, e, prober[g].ok, check.up, check.down)
           /\ prober' = [prober EXCEPT ![g] =
                IF Transitioned(g, e)
                THEN [pc |-> "publish", counts |-> endpoint_counts(conf[g], reg'[g]),
                      then |-> AfterRecord(g)]
                ELSE AfterRecord(g)]
    /\ UNCHANGED <<reload, req, gauge, sick, arrivals, flips>>

RefreshGauges(g) ==
    /\ prober[g].pc = "refresh"
    /\ prober' = [prober EXCEPT ![g] =
         [pc |-> "publish", counts |-> endpoint_counts(conf[g], reg[g]),
          then |-> [pc |-> "wait"]]]
    /\ UNCHANGED <<reload, reg, req, gauge, sick, arrivals, flips, steady>>

PublishProbe(g) ==
    /\ prober[g].pc = "publish"
    /\ gauge' = [gauge EXCEPT !.healthy = prober[g].counts.healthy]
    /\ prober' = [prober EXCEPT ![g] =
         [pc |-> "total", total |-> @.counts.total, then |-> @.then]]
    /\ UNCHANGED <<reload, reg, req, sick, arrivals, flips, steady>>

PublishProbeTotal(g) ==
    /\ prober[g].pc = "total"
    /\ gauge' = [gauge EXCEPT !.total = prober[g].total]
    /\ prober' = [prober EXCEPT ![g] = @.then]
    /\ UNCHANGED <<reload, reg, req, sick, arrivals, flips, steady>>

Prober(g) ==
    \/ BeginRound(g) \/ StopProber(g) \/ ProbeAnswered(g) \/ RecordProbe(g)
    \/ RefreshGauges(g) \/ PublishProbe(g) \/ PublishProbeTotal(g)

------------------------------------------------------------------------------
(* A request loads its listener's pipeline once and keeps it; its end is   *)
(* an observation in that pipeline's registry (health_util.rs).            *)

Selectable(g) ==
    LET up == {e \in conf[g].eps : reg[g][e].healthy}
    IN  IF up = {} THEN conf[g].eps ELSE up

Arrive(r) ==
    /\ req[r].pc = "idle" /\ arrivals < MaxArrivals
    /\ arrivals' = arrivals + 1
    /\ \E l \in Live :
        /\ Checked(conf[slot[l]])
        /\ \E e \in Selectable(slot[l]) :
            req' = [req EXCEPT ![r] = [pc |-> "sent", g |-> slot[l], ep |-> e]]
    /\ UNCHANGED <<reload, reg, prober, gauge, sick, flips, steady>>

\* No signal about the endpoint: the client ended the request before there was
\* a response, or the upstream was never contacted.
EndUnobserved(r) ==
    /\ req[r].pc = "sent"
    /\ req' = [req EXCEPT ![r] = Idle]
    /\ UNCHANGED <<reload, reg, prober, gauge, sick, arrivals, flips, steady>>

\* record_passive_health.  A request may fare as the probes do or otherwise,
\* and may have been answered before the endpoint changed; an absent
\* threshold records nothing.
Respond(r) ==
    /\ req[r].pc = "sent"
    /\ \E ok \in BOOLEAN :
        LET g == req[r].g
            e == req[r].ep
            check == conf[g].check
        IN  IF (IF ok THEN check.passiveUp ELSE check.passiveDown) = 0
            THEN req' = [req EXCEPT ![r] = Idle] /\ UNCHANGED <<reg, steady>>
            ELSE /\ Observe(g, e, ok, check.passiveUp, check.passiveDown)
                 /\ req' = [req EXCEPT ![r] =
                      IF Transitioned(g, e)
                      THEN [pc |-> "publish", counts |-> endpoint_counts(conf[g], reg'[g])]
                      ELSE Idle]
    /\ UNCHANGED <<reload, prober, gauge, sick, arrivals, flips>>

PublishPassive(r) ==
    /\ req[r].pc = "publish"
    /\ gauge' = [gauge EXCEPT !.healthy = req[r].counts.healthy]
    /\ req' = [req EXCEPT ![r] = [pc |-> "total", total |-> @.counts.total]]
    /\ UNCHANGED <<reload, reg, prober, sick, arrivals, flips, steady>>

PublishPassiveTotal(r) ==
    /\ req[r].pc = "total"
    /\ gauge' = [gauge EXCEPT !.total = req[r].total]
    /\ req' = [req EXCEPT ![r] = Idle]
    /\ UNCHANGED <<reload, reg, prober, sick, arrivals, flips, steady>>

Request(r) ==
    \/ EndUnobserved(r) \/ Respond(r) \/ PublishPassive(r) \/ PublishPassiveTotal(r)

------------------------------------------------------------------------------
(* reload_pipelines.                                                       *)

\* A reload is refused by a protocol, TCP or forward-proxy check, by the
\* pipeline build or by the log baseline: what was built is dropped.
RefuseReload ==
    /\ phase = "build"
    /\ phase' = "idle"
    /\ gen' = gen - 1
    /\ conf' = [conf EXCEPT ![gen] = conf[0]]
    /\ steady' = {}
    /\ UNCHANGED <<config, reg, slot, meta, toCarry, toSwap, token, prober,
                   req, gauge, sick, arrivals, flips>>

\* The new registry starts healthy and is still private.
BeginReload(c) ==
    /\ phase = "idle" /\ gen < MaxGen
    /\ phase' = "build"
    /\ gen' = gen + 1
    /\ conf' = [conf EXCEPT ![gen + 1] = c]
    /\ reg' = [reg EXCEPT ![gen + 1] = [e \in Endpoints |-> Fresh]]
    /\ steady' = IF Checked(config)
                 THEN {e \in config.eps : ~reg[token][e].healthy} ELSE {}
    /\ UNCHANGED <<config, slot, meta, toCarry, toSwap, token, prober, req,
                   gauge, sick, arrivals, flips>>

\* Mutant: any slot is good enough to read health from.
live_generation_any == {slot[l] : l \in {m \in Live : Checked(conf[slot[m]])}}

\* live_health_registry: a slot of a listener that the previous config names.
live_generation ==
    {slot[l] : l \in {m \in Live \cap config.listeners : Checked(conf[slot[m]])}}

\* The last fallible step is over.  Carrying over is for an unchanged check;
\* listeners that were not bound at start-up are skipped.
BeginSwap ==
    /\ phase = "build"
    /\ phase' = "swap"
    /\ toCarry' = IF live_generation # {} /\ Checked(config)
                     /\ conf[gen].check = config.check
                  THEN conf[gen].eps \cap config.eps ELSE {}
    /\ toSwap' = conf[gen].listeners \cap Live
    /\ UNCHANGED <<config, gen, conf, reg, slot, meta, token, prober, req,
                   gauge, sick, arrivals, flips, steady>>

CarryEndpoint(e) ==
    /\ phase = "swap" /\ e \in toCarry
    /\ toCarry' = toCarry \ {e}
    /\ \E g \in live_generation :
        reg' = IF reg[g][e].healthy THEN reg
               ELSE [reg EXCEPT ![gen][e] = mark_unhealthy(@)]
    /\ UNCHANGED <<config, gen, conf, slot, meta, phase, toSwap, token, prober,
                   req, gauge, sick, arrivals, flips, steady>>

SwapListener(l) ==
    /\ phase = "swap" /\ toCarry = {} /\ l \in toSwap
    /\ toSwap' = toSwap \ {l}
    /\ slot' = [slot EXCEPT ![l] = gen]
    /\ UNCHANGED <<config, gen, conf, reg, meta, phase, toCarry, token, prober,
                   req, gauge, sick, arrivals, flips, steady>>

StoreListenerMeta ==
    /\ phase = "swap" /\ toCarry = {} /\ toSwap = {}
    /\ meta' = [meta EXCEPT !.listeners = gen]
    /\ phase' = "clusterMeta"
    /\ UNCHANGED <<config, gen, conf, reg, slot, toCarry, toSwap, token, prober,
                   req, gauge, sick, arrivals, flips, steady>>

StoreClusterMeta ==
    /\ phase = "clusterMeta"
    /\ meta' = [meta EXCEPT !.clusters = gen]
    /\ phase' = "cancel"
    /\ UNCHANGED <<config, gen, conf, reg, slot, toCarry, toSwap, token, prober,
                   req, gauge, sick, arrivals, flips, steady>>

\* Mutant: the fresh token is never swapped in, so the old probes live on.
CancelNothing ==
    /\ phase = "cancel"
    /\ phase' = "seed"
    /\ UNCHANGED <<config, gen, conf, reg, slot, meta, toCarry, toSwap, token,
                   prober, req, gauge, sick, arrivals, flips, steady>>

\* respawn_health_checks: the tokens change hands and the old one is
\* cancelled.
CancelProbes ==
    /\ phase = "cancel"
    /\ token' = gen
    /\ phase' = "seed"
    /\ UNCHANGED <<config, gen, conf, reg, slot, meta, toCarry, toSwap, prober,
                   req, gauge, sick, arrivals, flips, steady>>

\* Gauges of a cluster that lost its check are cleared, the others seeded.
SeedGauges ==
    /\ phase = "seed"
    /\ gauge' = IF Checked(conf[gen]) \/ Checked(config)
                THEN [gauge EXCEPT !.healthy = endpoint_counts(conf[gen], reg[gen]).healthy]
                ELSE gauge
    /\ phase' = "seedTotal"
    /\ UNCHANGED <<config, gen, conf, reg, slot, meta, toCarry, toSwap, token,
                   prober, req, sick, arrivals, flips, steady>>

SeedTotal ==
    /\ phase = "seedTotal"
    /\ gauge' = IF Checked(conf[gen]) \/ Checked(config)
                THEN [gauge EXCEPT !.total = endpoint_counts(conf[gen], reg[gen]).total]
                ELSE gauge
    /\ phase' = "spawn"
    /\ UNCHANGED <<config, gen, conf, reg, slot, meta, toCarry, toSwap, token,
                   prober, req, sick, arrivals, flips, steady>>

Conclude ==
    /\ config' = conf[gen]
    /\ phase' = "idle"
    /\ steady' = {}
    /\ UNCHANGED <<gen, conf, reg, slot, meta, toCarry, toSwap, token, req,
                   gauge, sick, arrivals, flips>>

\* The new probes start with a round at once; an empty registry has none.
SpawnProbes ==
    /\ phase = "spawn"
    /\ prober' = IF Checked(conf[gen]) THEN [prober EXCEPT ![gen] = Round(gen)]
                 ELSE prober
    /\ Conclude

\* The thread's runtime cannot be built: no probes until the next reload.
SpawnFails ==
    /\ phase = "spawn" /\ Checked(conf[gen])
    /\ UNCHANGED prober
    /\ Conclude

Reload ==
    \/ RefuseReload \/ BeginSwap
    \/ \E e \in Endpoints : CarryEndpoint(e)
    \/ \E l \in Live : SwapListener(l)
    \/ StoreListenerMeta \/ StoreClusterMeta \/ CancelProbes
    \/ SeedGauges \/ SeedTotal \/ SpawnProbes \/ SpawnFails

Next ==
    \/ \E e \in Endpoints : Flip(e)
    \/ \E g \in Gens : Prober(g)
    \/ \E r \in Requests : Arrive(r) \/ Request(r)
    \/ \E c \in Configs : BeginReload(c)
    \/ Reload

\* Probe tasks, requests in flight and a reload under way are not abandoned.
Fairness ==
    /\ \A g \in Gens : WF_vars(Prober(g))
    /\ \A r \in Requests : WF_vars(Request(r))
    /\ WF_vars(Reload)

Spec == Init /\ [][Next]_vars /\ Fairness

------------------------------------------------------------------------------
(* Properties.                                                             *)

Health == [healthy : BOOLEAN, successes : 0 .. Cap, failures : 0 .. Cap]

TypeOK ==
    /\ config \in Configs /\ gen \in Gens /\ token \in Gens
    /\ conf \in [Gens -> Configs]
    /\ reg \in [Gens -> [Endpoints -> Health]]
    /\ slot \in [Live -> Gens]
    /\ meta \in [listeners : Gens, clusters : Gens]
    /\ phase \in {"idle", "build", "swap", "clusterMeta", "cancel",
                  "seed", "seedTotal", "spawn"}
    /\ toCarry \subseteq Endpoints /\ toSwap \subseteq Live
    /\ gauge \in Counts /\ sick \subseteq Endpoints /\ steady \subseteq Endpoints

ServedNow == {l \in Live \cap config.listeners : Checked(conf[slot[l]])}

\* Between reloads every listener of the current config serves the
\* generation that is probed, and both metadata stores describe it: only a
\* listener that the config dropped is left behind on an old registry.
ServedIsProbed ==
    phase = "idle" =>
        /\ \A l \in Live \cap config.listeners : slot[l] = token
        /\ meta.listeners = token /\ meta.clusters = token

\* The admin metadata never names a generation that a listener of its config
\* does not serve yet (store after the swap loop).
MetaAfterSwap ==
    \A l \in Live \cap conf[meta.listeners].listeners :
        slot[l] >= meta.listeners

\* The two invariants of a reload, and the types: between reloads everything
\* is of the probed generation, and during one the metadata is never ahead of
\* a listener (reload_config).
GenerationsAgree == TypeOK /\ ServedIsProbed /\ MetaAfterSwap

\* carry_over_health_state: when a listener moves to the new pipelines, an
\* endpoint that the probed registry held down since the reload began, with
\* no success seen since, is down in the new registry too, provided its check
\* is unchanged and the previous config had a listener to read it from.
KnownDownCarried ==
    [][\A l \in Live :
        (slot'[l] # slot[l] /\ Checked(config) /\ ServedNow # {}
         /\ conf[gen].check = config.check) =>
            \A e \in steady \cap conf[gen].eps : ~reg[gen][e].healthy]_vars

Probing == prober[token].pc # "none" /\ Checked(config)

\* Every listener of the current config ends up with the failing endpoints,
\* and only those, out of rotation, also when a transition was recorded in
\* the old registry after the carry-over and so lost: as long as there are
\* probes, they find it again.
HealthConverges ==
    <>[](Probing => \A l \in ServedNow : \A e \in config.eps :
                        reg[slot[l]][e].healthy = (e \notin sick))

\* The gauges end at what the probed registry says, whoever wrote to them
\* last: neither a late write of the old generation nor a pair of which two
\* writers wrote a half each stays.
GaugeCatchesUp ==
    <>[](Probing => gauge = endpoint_counts(conf[token], reg[token]))

\* "clearing removed clusters prevents stale healthy/total values from
\* lingering after config change" (metrics.rs): with no checked cluster left
\* and the reload over, the gauges end at zero.  It does not hold: see README,
\* "Disagreements described and not run".
ClearedStayCleared ==
    <>[]((phase = "idle" /\ ~Checked(config)) => gauge.total = 0)
==============================================================================
