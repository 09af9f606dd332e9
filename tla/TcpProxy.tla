------------------------------ MODULE TcpProxy ------------------------------
(***************************************************************************)
(* The TCP proxy of one listener group (protocol/src/tcp/proxy.rs and the  *)
(* accept loop of hyper.rs), its filters (filter/src/pipeline/tcp.rs and   *)
(* builtins/tcp), the connection limits (connections.rs) and shutdown: what *)
(* a connection takes on its way to the upstream and gives back on each of *)
(* its exits, while pipelines are swapped by a reload.                     *)
(*                                                                         *)
(* One action is the code between two awaits.  Bytes are not modelled,     *)
(* only whether the SNI peek read any; file-descriptor admission is        *)
(* FdAdmission.tla and here refuses when it likes.                         *)
(***************************************************************************)
EXTENDS Naturals, Sequences, FiniteSets

CONSTANTS Sessions,      \* client connections
          Upstreams,     \* endpoints of the balancer's cluster
          Routes,        \* the upstreams of the SNI router
          Chain,         \* the filters: "guard", "router" or "balancer"
          FailsOpen,     \* positions in Chain with failure_mode open
          Static,        \* the listener's own upstream: at most one address
          GlobalMax,     \* runtime.max_connections
          ListenerMax,   \* max_connections of the listener
          Swaps          \* bound on the reloads

\* A guard stands for any filter that neither routes nor balances.
ASSUME TcpConfig ==
  /\ IsFiniteSet(Sessions) /\ IsFiniteSet(Upstreams)
  /\ {GlobalMax, ListenerMax, Swaps} \subseteq Nat
  /\ Chain \in Seq({"guard", "router", "balancer"})
  /\ FailsOpen \subseteq DOMAIN Chain
  /\ Cardinality(Static) <= 1

VARIABLES globalFree,    \* permits left of GLOBAL_LIMIT
          listenerFree,  \* permits left of connection_semaphore
          claims,        \* pending claims of fd admission
          activeGauge,   \* praxis_tcp_active_connections
          live,          \* the pipeline generation in the ArcSwap
          inflight,      \* the balancer's counters, by generation
          stopping,      \* the shutdown watch has flipped
          accepting,     \* the accept loop runs
          tcp            \* session -> where it is and what it holds

limits == <<globalFree, listenerFree, activeGauge>>
tcpVars == <<limits, claims, live, inflight, stopping, accepting, tcp>>

Pipelines == 0..Swaps
Absent == [pc |-> "absent", gen |-> 0, pos |-> 0, upstream |-> {},
           peeked |-> FALSE, dialed |-> FALSE, saw |-> FALSE]

\* Where a connection holds its permits and the gauge.
Served == {"peek", "filters", "connect", "write", "forward", "disconnect"}
Serving == {s \in Sessions : tcp[s].pc \in Served}

TcpInit ==
  /\ globalFree = GlobalMax /\ listenerFree = ListenerMax
  /\ claims = 0 /\ activeGauge = 0
  /\ live = 0
  /\ inflight = [g \in Pipelines |-> [u \in Upstreams |-> 0]]
  /\ stopping = FALSE /\ accepting = TRUE
  /\ tcp = [s \in Sessions |-> Absent]

Move(s, t) == tcp' = [tcp EXCEPT ![s] = t]

-----------------------------------------------------------------------------
(***************************************************************************)
(* Accepting.                                                              *)
(***************************************************************************)

\* accept_until_shutdown: the select is not biased, so a connection may still
\* be accepted after the flip; its receiver is a clone of the loop's and has
\* seen what the loop has seen.
Accept(s) ==
  /\ accepting /\ tcp[s].pc = "absent"
  /\ Move(s, [Absent EXCEPT !.pc = "handshake", !.saw = ~accepting])
  /\ UNCHANGED <<limits, claims, live, inflight, stopping, accepting>>

StopAccepting ==
  /\ stopping /\ accepting
  /\ accepting' = FALSE
  /\ UNCHANGED <<limits, claims, live, inflight, stopping, tcp>>

\* The pipeline is pinned and its connect filters begin.
Pinned(s, t) ==
  Move(s, [t EXCEPT !.pc = "filters", !.gen = live, !.pos = 1,
                    !.upstream = Static])

\* serve_connection up to its first await: memory, descriptors, the global
\* and the listener's permit, the gauge.  Every refusal drops what the gates
\* before it gave.
Admit(s) ==
  LET t == [tcp[s] EXCEPT !.pc = "peek"]
  IN  /\ tcp[s].pc = "handshake"
      /\ globalFree > 0 /\ listenerFree > 0
      /\ globalFree' = globalFree - 1
      /\ listenerFree' = listenerFree - 1
      /\ claims' = claims + 1
      /\ activeGauge' = activeGauge + 1
      /\ IF Static = {} THEN Move(s, t) ELSE Pinned(s, t)
      /\ UNCHANGED <<live, inflight, stopping, accepting>>

\* A failed or late TLS handshake, memory pressure, too few descriptors, or
\* no permit.
Refuse(s) ==
  /\ tcp[s].pc = "handshake"
  /\ Move(s, Absent)
  /\ UNCHANGED <<limits, claims, live, inflight, stopping, accepting>>

\* serve_connection returns: permits, gauge and an admission that never
\* connected are dropped.
Leave(s, t) ==
  /\ globalFree' = globalFree + 1
  /\ listenerFree' = listenerFree + 1
  /\ activeGauge' = activeGauge - 1
  /\ claims' = IF t.dialed THEN claims ELSE claims - 1
  /\ Move(s, Absent)
  /\ UNCHANGED <<live, inflight, stopping, accepting>>

\* Only the connection itself moves on.
Goes(s, t) ==
  /\ Move(s, t)
  /\ UNCHANGED <<limits, claims, live, inflight, stopping, accepting>>

\* peek_sni under SNI_PEEK_TIMEOUT; nothing may have been read.
PeekSni(s) ==
  /\ tcp[s].pc = "peek"
  /\ \/ \E bytes \in BOOLEAN :
          /\ Pinned(s, [tcp[s] EXCEPT !.peeked = bytes])
          /\ UNCHANGED <<limits, claims, live, inflight, stopping, accepting>>
     \/ Leave(s, tcp[s])

-----------------------------------------------------------------------------
(***************************************************************************)
(* Filters.                                                                *)
(***************************************************************************)

\* The disconnect filters begin, from the last.
Disconnecting(t) == [t EXCEPT !.pc = "disconnect", !.pos = Len(Chain)]

\* A filter rejected or failed closed: release_selected_endpoint runs the
\* disconnect filters only if an upstream is set.
RejectConnection(s) ==
  IF tcp[s].upstream = {} THEN Leave(s, tcp[s]) ELSE Goes(s, Disconnecting(tcp[s]))

Filter(s) == Chain[tcp[s].pos]
Passed(s, upstream) == [tcp[s] EXCEPT !.pos = @ + 1, !.upstream = upstream]

\* sni_router: by name, or the default.
RouteBySni(s) == \E u \in Routes : Goes(s, Passed(s, {u}))

\* tcp_load_balancer: the endpoint the strategy picks is counted.
SelectUpstream(s) ==
  \E u \in Upstreams :
    /\ inflight' = [inflight EXCEPT ![tcp[s].gen][u] = @ + 1]
    /\ Move(s, Passed(s, {u}))
    /\ UNCHANGED <<limits, claims, live, stopping, accepting>>

\* on_connect of a filter that lets the connection pass.
ConnectFilter(s) ==
  /\ tcp[s].pc = "filters" /\ tcp[s].pos <= Len(Chain)
  /\ \/ Filter(s) = "guard" /\ Goes(s, Passed(s, tcp[s].upstream))
     \/ Filter(s) = "router" /\ RouteBySni(s)
     \/ Filter(s) = "balancer" /\ SelectUpstream(s)

\* on_connect that fails (a guard, or a balancer without an endpoint) or
\* rejects (a guard, or a router without a route).
ConnectFilterFails(s) ==
  /\ tcp[s].pc = "filters" /\ tcp[s].pos <= Len(Chain)
  /\ \/ /\ tcp[s].pos \in FailsOpen /\ Filter(s) # "router"
        /\ Goes(s, Passed(s, tcp[s].upstream))
     \/ /\ tcp[s].pos \notin FailsOpen \/ Filter(s) # "balancer"
        /\ RejectConnection(s)

\* resolve_connect_result after the last filter.
Resolve(s) ==
  /\ tcp[s].pc = "filters" /\ tcp[s].pos > Len(Chain)
  /\ IF tcp[s].upstream = {} THEN Leave(s, tcp[s])
     ELSE Goes(s, [tcp[s] EXCEPT !.pc = "connect"])

\* strategy.release: saturating, and nothing for an unknown address.
Released(counters, addrs) ==
  [u \in Upstreams |-> IF u \in addrs /\ counters[u] > 0
                         THEN counters[u] - 1 ELSE counters[u]]

\* on_disconnect of the next filter, backwards.  An error stops nothing.
DisconnectFilter(s) ==
  /\ tcp[s].pc = "disconnect" /\ tcp[s].pos > 0
  /\ inflight' = IF Filter(s) # "balancer" THEN inflight
                 ELSE [inflight EXCEPT ![tcp[s].gen] =
                         Released(@, tcp[s].upstream)]
  /\ Move(s, [tcp[s] EXCEPT !.pos = @ - 1])
  /\ UNCHANGED <<limits, claims, live, stopping, accepting>>

Close(s) ==
  /\ tcp[s].pc = "disconnect" /\ tcp[s].pos = 0
  /\ Leave(s, tcp[s])

-----------------------------------------------------------------------------
(***************************************************************************)
(* Upstream.                                                               *)
(***************************************************************************)

\* Mutant: a failed connect returns without the disconnect filters.
ConnectUpstreamOrLeave(s) ==
  /\ tcp[s].pc = "connect"
  /\ \/ Leave(s, tcp[s])
     \/ /\ claims' = claims - 1
        /\ Move(s, [tcp[s] EXCEPT !.dialed = TRUE,
             !.pc = IF tcp[s].peeked THEN "write" ELSE "forward"])
        /\ UNCHANGED <<limits, live, inflight, stopping, accepting>>

\* connect_upstream under UPSTREAM_CONNECT_TIMEOUT: the claim becomes a
\* charge, or the disconnect filters run.
ConnectUpstream(s) ==
  /\ tcp[s].pc = "connect"
  /\ \/ Goes(s, Disconnecting(tcp[s]))
     \/ /\ claims' = claims - 1
        /\ Move(s, [tcp[s] EXCEPT !.dialed = TRUE,
             !.pc = IF tcp[s].peeked THEN "write" ELSE "forward"])
        /\ UNCHANGED <<limits, live, inflight, stopping, accepting>>

\* Mutant: forwarding waits for a flip after its own start.
WritePeekedAndResubscribe(s) ==
  /\ tcp[s].pc = "write"
  /\ \/ Goes(s, [tcp[s] EXCEPT !.pc = "forward", !.saw = stopping])
     \/ Goes(s, Disconnecting(tcp[s]))

\* The peeked bytes go to the upstream first.
WritePeeked(s) ==
  /\ tcp[s].pc = "write"
  /\ \/ Goes(s, [tcp[s] EXCEPT !.pc = "forward"])
     \/ Goes(s, Disconnecting(tcp[s]))

\* forward: a flip its receiver has not seen wins over everything else.
Interrupted(s) == stopping /\ ~tcp[s].saw

ForwardShutdown(s) ==
  /\ tcp[s].pc = "forward" /\ Interrupted(s)
  /\ Goes(s, Disconnecting(tcp[s]))

\* The copy ends, fails, or meets session_timeout or max_duration.
ForwardEnds(s) ==
  /\ tcp[s].pc = "forward" /\ ~Interrupted(s)
  /\ Goes(s, Disconnecting(tcp[s]))

-----------------------------------------------------------------------------

\* A reload swaps the pipeline; connections keep the one they pinned.
SwapPipeline ==
  /\ live < Swaps
  /\ live' = live + 1
  /\ UNCHANGED <<limits, claims, inflight, stopping, accepting, tcp>>

Shutdown ==
  /\ ~stopping
  /\ stopping' = TRUE
  /\ UNCHANGED <<limits, claims, live, inflight, accepting, tcp>>

\* Drained after shutdown.
Down == ~accepting /\ (\A s \in Sessions : tcp[s].pc = "absent") /\ UNCHANGED tcpVars

\* What a polled connection task does by itself: every await ends, by an
\* answer, an error or its timeout, but for forwarding, which only a shutdown
\* is counted on to end.
Progress(s) ==
  \/ Admit(s) \/ Refuse(s) \/ PeekSni(s) \/ ConnectFilter(s)
  \/ ConnectFilterFails(s) \/ Resolve(s) \/ ConnectUpstream(s)
  \/ WritePeeked(s) \/ ForwardShutdown(s) \/ DisconnectFilter(s) \/ Close(s)

TcpNext ==
  \/ \E s \in Sessions : Accept(s) \/ Progress(s) \/ ForwardEnds(s)
  \/ StopAccepting \/ SwapPipeline \/ Shutdown \/ Down

TcpFairness ==
  WF_tcpVars(StopAccepting) /\ \A s \in Sessions : WF_tcpVars(Progress(s))

TcpSpec == TcpInit /\ [][TcpNext]_tcpVars /\ TcpFairness

-----------------------------------------------------------------------------
(***************************************************************************)
(* Properties.                                                             *)
(***************************************************************************)

\* The variables keep their types.
TcpTypeOK ==
  /\ globalFree \in 0..GlobalMax /\ listenerFree \in 0..ListenerMax
  /\ {claims, activeGauge} \subseteq Nat /\ live \in Pipelines
  /\ inflight \in [Pipelines -> [Upstreams -> Nat]]
  /\ {stopping, accepting} \subseteq BOOLEAN
  /\ tcp \in [Sessions ->
       [pc : Served \cup {"absent", "handshake"}, gen : Pipelines,
        pos : 0..Len(Chain) + 1, upstream : SUBSET (Routes \cup Upstreams \cup Static),
        peeked : BOOLEAN, dialed : BOOLEAN, saw : BOOLEAN]]

\* The connections the balancer of generation g counts at u: it selected u in
\* on_connect and its on_disconnect has not run.
SlotHolders(g, u) ==
  {s \in Serving :
    /\ tcp[s].gen = g /\ tcp[s].upstream = {u}
    /\ \E i \in DOMAIN Chain :
         /\ Chain[i] = "balancer"
         /\ tcp[s].pc = "filters" => i < tcp[s].pos
         /\ tcp[s].pc = "disconnect" => i <= tcp[s].pos}

\* At most one balancer, nothing after it routes, and no other route leads to
\* one of its endpoints: the code does not check this, and without it a
\* rejection before the balancer releases a slot that another connection holds,
\* and a route set after it hides the slot from on_disconnect.
Unambiguous ==
  /\ \A i, k \in DOMAIN Chain :
       Chain[i] = "balancer" /\ Chain[k] # "guard" => k <= i
  /\ (Routes \cup Static) \cap Upstreams = {}

\* On whatever path a connection ends, and whatever is swapped meanwhile, it
\* gives back each permit, its claim, the gauge and (in an unambiguous chain)
\* the balancer's slot, once and to the generation it took it from (serve_connection, release_selected_endpoint,
\* execute_tcp_disconnect, TcpActiveConnectionGuard).
ConnectionsAccounted ==
  /\ TcpTypeOK
  /\ globalFree + Cardinality(Serving) = GlobalMax
  /\ listenerFree + Cardinality(Serving) = ListenerMax
  /\ activeGauge = Cardinality(Serving)
  /\ claims = Cardinality({s \in Serving : ~tcp[s].dialed})
  /\ Unambiguous => \A g \in Pipelines, u \in Upstreams :
       inflight[g][u] = Cardinality(SlotHolders(g, u))

\* Shutdown drains the listener: whatever a connection was doing when the
\* watch flipped, one accepted after the flip included, it closes without
\* waiting for its peers (accept_until_shutdown, forward_with_timeout).
ShutdownDrains ==
  stopping ~> ~accepting /\ \A s \in Sessions : tcp[s].pc = "absent"
=============================================================================
