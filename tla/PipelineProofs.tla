--------------------------- MODULE PipelineProofs ---------------------------
(***************************************************************************)
(* Proofs about the two pipelines.  The TCP proxy, for every number of     *)
(* connections, every chain of filters, every limit and any number of      *)
(* reloads: whatever way a connection ends, what it took is given back.    *)
(* The HTTP pipeline, for every tree of filters and branches: which        *)
(* results a branch fires on, which upstream lets a terminal branch        *)
(* through, and which filters see a streamed body.                         *)
(***************************************************************************)
EXTENDS FilterPipeline, TcpProxy, Counting, SequenceTheorems

-----------------------------------------------------------------------------
(***************************************************************************)
(* The TCP proxy: the inductive invariant.                                 *)
(***************************************************************************)

SessionRecord ==
  [pc : Served \cup {"absent", "handshake"}, gen : Pipelines,
   pos : 0..Len(Chain) + 1, upstream : SUBSET (Routes \cup Upstreams \cup Static),
   peeked : BOOLEAN, dialed : BOOLEAN, saw : BOOLEAN]

\* The balancer's on_connect has run for connection t and its on_disconnect
\* has not.
PastBalancer(t) ==
  \E i \in DOMAIN Chain :
    /\ Chain[i] = "balancer"
    /\ t.pc = "filters" => i < t.pos
    /\ t.pc = "disconnect" => i <= t.pos

\* Connection t counts at endpoint u of generation g.
Slot(t, g, u) ==
  t.pc \in Served /\ t.gen = g /\ t.upstream = {u} /\ PastBalancer(t)

\* An endpoint of the balancer is one connection's upstream only because the
\* balancer chose it.
OwnUpstream(t) ==
  t.upstream \cap Upstreams # {} =>
    /\ \E u \in Upstreams : t.upstream = {u}
    /\ t.pc # "disconnect" => PastBalancer(t)

SessionInv(t) ==
  /\ t \in SessionRecord
  /\ t.dialed => t.pc \in {"write", "forward", "disconnect"}
  /\ t.pc \in {"absent", "handshake", "peek"} => t.upstream = {}
  /\ t.pc = "filters" => t.pos >= 1
  /\ t.pc = "disconnect" => t.pos <= Len(Chain)
  /\ Unambiguous => OwnUpstream(t)

TcpInv ==
  /\ globalFree \in Nat /\ listenerFree \in Nat
  /\ claims \in Int /\ activeGauge \in Int /\ live \in Pipelines
  /\ stopping \in BOOLEAN /\ accepting \in BOOLEAN
  /\ inflight \in [Pipelines -> [Upstreams -> Nat]]
  /\ tcp \in [Sessions -> SessionRecord]
  /\ \A s \in Sessions : SessionInv(tcp[s])
  /\ globalFree + Cardinality(Serving) = GlobalMax
  /\ listenerFree + Cardinality(Serving) = ListenerMax
  /\ activeGauge = Cardinality(Serving)
  /\ claims = Cardinality({s \in Serving : ~tcp[s].dialed})
  /\ Unambiguous => \A g \in Pipelines, u \in Upstreams :
       inflight[g][u] = Cardinality(SlotHolders(g, u))

-----------------------------------------------------------------------------
(***************************************************************************)
(* A step turns connection s into t and moves every counter by what t      *)
(* holds more or less.                                                     *)
(***************************************************************************)

Paid(s, t) ==
  /\ globalFree' \in Nat /\ listenerFree' \in Nat
  /\ claims' \in Int /\ activeGauge' \in Int
  /\ globalFree' = globalFree + One(tcp[s].pc \in Served) - One(t.pc \in Served)
  /\ listenerFree' = listenerFree + One(tcp[s].pc \in Served) - One(t.pc \in Served)
  /\ activeGauge' = activeGauge - One(tcp[s].pc \in Served) + One(t.pc \in Served)
  /\ claims' + One(tcp[s].pc \in Served /\ ~tcp[s].dialed)
       = claims + One(t.pc \in Served /\ ~t.dialed)

SlotPaid(s, t) ==
  /\ inflight' \in [Pipelines -> [Upstreams -> Nat]]
  /\ Unambiguous => \A g \in Pipelines, u \in Upstreams :
       inflight'[g][u] + One(Slot(tcp[s], g, u))
         = inflight[g][u] + One(Slot(t, g, u))

\* The number of connections with a property moves with s alone.
LEMMA Recount ==
  ASSUME NEW s \in Sessions, NEW A, NEW B, A \subseteq Sessions,
         B \ {s} = A \ {s}
  PROVE  /\ Cardinality(A) \in Nat /\ Cardinality(B) \in Nat
         /\ Cardinality(B) + One(s \in A) = Cardinality(A) + One(s \in B)
<1>1. IsFiniteSet(A)
  BY CountPart, TcpConfig
<1> QED
  BY <1>1, CountStep, FS_CardinalityType

\* The sets the counters count.
LEMMA HoldersOf ==
  /\ Serving = {s \in Sessions : tcp[s].pc \in Served}
  /\ {s \in Serving : ~tcp[s].dialed}
       = {s \in Sessions : tcp[s].pc \in Served /\ ~tcp[s].dialed}
  /\ \A g \in Pipelines, u \in Upstreams :
       SlotHolders(g, u) = {s \in Sessions : Slot(tcp[s], g, u)}
<1>1. Serving = {s \in Sessions : tcp[s].pc \in Served}
  BY DEF Serving
<1>2. \A g \in Pipelines, u \in Upstreams :
        SlotHolders(g, u) = {s \in Sessions : Slot(tcp[s], g, u)}
  BY DEF SlotHolders, Serving, Slot, PastBalancer
<1> QED
  BY <1>1, <1>2

\* Such a step keeps the invariant if t is as it should be.
LEMMA PaidKeeps ==
  ASSUME TcpInv, NEW s \in Sessions, NEW t, SessionInv(t),
         tcp' = [tcp EXCEPT ![s] = t], Paid(s, t), SlotPaid(s, t),
         live' \in Pipelines, stopping' \in BOOLEAN, accepting' \in BOOLEAN
  PROVE  TcpInv'
<1>1. /\ tcp' \in [Sessions -> SessionRecord]
      /\ tcp'[s] = t /\ \A r \in Sessions : r # s => tcp'[r] = tcp[r]
  BY DEF TcpInv, SessionInv
<1>2. \A r \in Sessions : SessionInv(tcp'[r])
  BY <1>1 DEF TcpInv
<1> DEFINE A == {r \in Sessions : tcp[r].pc \in Served}
           D == {r \in Sessions : tcp[r].pc \in Served /\ ~tcp[r].dialed}
           H(g, u) == {r \in Sessions : Slot(tcp[r], g, u)}
<1>3. /\ Serving = A /\ {r \in Serving : ~tcp[r].dialed} = D
      /\ \A g \in Pipelines, u \in Upstreams : SlotHolders(g, u) = H(g, u)
  BY HoldersOf
<1>4. /\ Serving' = A' /\ {r \in Serving : ~tcp[r].dialed}' = D'
      /\ \A g \in Pipelines, u \in Upstreams : SlotHolders(g, u)' = H(g, u)'
  <2>1. Serving' = A'
    BY DEF Serving
  <2>2. \A g \in Pipelines, u \in Upstreams : SlotHolders(g, u)' = H(g, u)'
    BY DEF SlotHolders, Serving, Slot, PastBalancer
  <2> QED
    BY <2>1, <2>2
<1>5. /\ Cardinality(A) \in Nat /\ Cardinality(A') \in Nat
      /\ Cardinality(A') + One(tcp[s].pc \in Served)
           = Cardinality(A) + One(t.pc \in Served)
  <2>1. A \subseteq Sessions /\ A' \ {s} = A \ {s}
    BY <1>1
  <2>2. (s \in A) = (tcp[s].pc \in Served) /\ (s \in A') = (t.pc \in Served)
    BY <1>1
  <2> HIDE DEF A
  <2>3. /\ Cardinality(A) \in Nat /\ Cardinality(A') \in Nat
        /\ Cardinality(A') + One(s \in A) = Cardinality(A) + One(s \in A')
    BY <2>1, Recount
  <2> QED
    BY <2>2, <2>3
<1>6. /\ Cardinality(D) \in Nat /\ Cardinality(D') \in Nat
      /\ Cardinality(D') + One(tcp[s].pc \in Served /\ ~tcp[s].dialed)
           = Cardinality(D) + One(t.pc \in Served /\ ~t.dialed)
  <2>1. D \subseteq Sessions /\ D' \ {s} = D \ {s}
    BY <1>1
  <2>2. /\ (s \in D) = (tcp[s].pc \in Served /\ ~tcp[s].dialed)
        /\ (s \in D') = (t.pc \in Served /\ ~t.dialed)
    BY <1>1
  <2> HIDE DEF D
  <2>3. /\ Cardinality(D) \in Nat /\ Cardinality(D') \in Nat
        /\ Cardinality(D') + One(s \in D) = Cardinality(D) + One(s \in D')
    BY <2>1, Recount
  <2> QED
    BY <2>2, <2>3
<1>7. ASSUME Unambiguous, NEW g \in Pipelines, NEW u \in Upstreams
      PROVE  inflight'[g][u] = Cardinality(H(g, u)')
  <2>1. H(g, u) \subseteq Sessions /\ H(g, u)' \ {s} = H(g, u) \ {s}
    BY <1>1 DEF Slot, PastBalancer
  <2>2. (s \in H(g, u)) = Slot(tcp[s], g, u) /\ (s \in H(g, u)') = Slot(t, g, u)
    BY <1>1 DEF Slot, PastBalancer
  <2>3. inflight[g][u] = Cardinality(H(g, u))
    <3>1. inflight[g][u] = Cardinality(SlotHolders(g, u))
      BY <1>7 DEF TcpInv
    <3>2. SlotHolders(g, u) = H(g, u)
      BY <1>3
    <3> HIDE DEF H
    <3> QED
      BY <3>1, <3>2
  <2> HIDE DEF H
  <2>4. /\ Cardinality(H(g, u)) \in Nat /\ Cardinality(H(g, u)') \in Nat
        /\ Cardinality(H(g, u)') + One(s \in H(g, u))
             = Cardinality(H(g, u)) + One(s \in H(g, u)')
    BY <2>1, Recount
  <2>5. /\ inflight'[g][u] \in Int
        /\ inflight'[g][u] + One(Slot(tcp[s], g, u))
             = inflight[g][u] + One(Slot(t, g, u))
    BY <1>7 DEF SlotPaid
  <2> QED
    BY <2>2, <2>3, <2>4, <2>5, OneType
<1> HIDE DEF A, D, H
<1>8. /\ globalFree' + Cardinality(A') = GlobalMax
      /\ listenerFree' + Cardinality(A') = ListenerMax
      /\ activeGauge' = Cardinality(A')
  <2> DEFINE earlier == One(tcp[s].pc \in Served)
             after == One(t.pc \in Served)
             m == Cardinality(A)
             n == Cardinality(A')
  <2>1. /\ earlier \in Int /\ after \in Int /\ m \in Int /\ n \in Int
        /\ globalFree \in Int /\ listenerFree \in Int /\ activeGauge \in Int
    BY <1>5, OneType DEF TcpInv
  <2>2. /\ GlobalMax = globalFree + m /\ ListenerMax = listenerFree + m
        /\ activeGauge = m
    BY <1>3 DEF TcpInv
  <2>3. /\ globalFree' = globalFree + earlier - after
        /\ listenerFree' = listenerFree + earlier - after
        /\ activeGauge' = activeGauge - earlier + after
    BY DEF Paid
  <2>4. n + earlier = m + after
    BY <1>5
  <2> HIDE DEF earlier, after, m, n
  <2>5. /\ globalFree' + n = GlobalMax /\ listenerFree' + n = ListenerMax
        /\ activeGauge' = n
    BY <2>1, <2>2, <2>3, <2>4
  <2> QED
    BY <2>5 DEF n
<1>9. claims' = Cardinality(D')
  <2>1. claims = Cardinality(D) /\ claims \in Int /\ claims' \in Int
    BY <1>3 DEF TcpInv, Paid
  <2>2. claims' + One(tcp[s].pc \in Served /\ ~tcp[s].dialed)
          = claims + One(t.pc \in Served /\ ~t.dialed)
    BY DEF Paid
  <2> QED
    BY <1>6, <2>1, <2>2, OneType
<1> QED
  BY <1>1, <1>2, <1>4, <1>7, <1>8, <1>9, ZenonT(60) DEF TcpInv, Paid, SlotPaid

\* No counter moves and s keeps what it holds.
LEMMA GoesStep ==
  ASSUME TcpInv, NEW s \in Sessions, NEW t, SessionInv(t), Goes(s, t),
         (t.pc \in Served) = (tcp[s].pc \in Served), t.dialed = tcp[s].dialed,
         Unambiguous => \A g \in Pipelines, u \in Upstreams :
                          Slot(t, g, u) <=> Slot(tcp[s], g, u)
  PROVE  TcpInv'
<1>1. Paid(s, t)
  <2> DEFINE b == One(tcp[s].pc \in Served)
             c == One(tcp[s].pc \in Served /\ ~tcp[s].dialed)
  <2>1. b \in Int /\ b = One(t.pc \in Served)
    BY OneType
  <2>2. c \in Int /\ c = One(t.pc \in Served /\ ~t.dialed)
    BY OneType
  <2>3. /\ globalFree \in Nat /\ listenerFree \in Nat /\ claims \in Int
        /\ activeGauge \in Int
        /\ globalFree' = globalFree /\ listenerFree' = listenerFree
        /\ claims' = claims /\ activeGauge' = activeGauge
    BY DEF TcpInv, Goes, limits
  <2> HIDE DEF b, c
  <2>4. /\ globalFree = globalFree + b - b /\ listenerFree = listenerFree + b - b
        /\ activeGauge = activeGauge - b + b
    BY <2>1, <2>3
  <2> QED
    BY <2>1, <2>2, <2>3, <2>4 DEF Paid, b, c
<1>2. SlotPaid(s, t)
  <2>1. inflight' = inflight /\ inflight \in [Pipelines -> [Upstreams -> Nat]]
    BY DEF TcpInv, Goes
  <2> QED
    BY <2>1 DEF SlotPaid, One
<1> QED
  BY <1>1, <1>2, PaidKeeps DEF Goes, Move, TcpInv

\* A connection that is gone.
LEMMA AbsentInv ==
  /\ SessionInv(Absent) /\ Absent.pc = "absent" /\ Absent.pc \notin Served
  /\ Absent.dialed = FALSE /\ Absent.upstream = {}
  /\ \A g, u : ~Slot(Absent, g, u)
<1>1. Absent \in SessionRecord
  <2>1. 0 \in Pipelines /\ 0 \in 0..Len(Chain) + 1
    BY TcpConfig DEF Pipelines
  <2> QED
    BY <2>1 DEF Absent, SessionRecord
<1>2. Absent.pc = "absent" /\ Absent.dialed = FALSE /\ Absent.upstream = {}
  BY DEF Absent
<1>3. Absent.pc \notin Served
  BY <1>2 DEF Served
<1> QED
  BY <1>1, <1>2, <1>3 DEF SessionInv, OwnUpstream, Slot

\* serve_connection returns on a path without a balancer's slot.
LEMMA LeaveStep ==
  ASSUME TcpInv, NEW s \in Sessions, Leave(s, tcp[s]), tcp[s].pc \in Served,
         Unambiguous => \A g \in Pipelines, u \in Upstreams : ~Slot(tcp[s], g, u)
  PROVE  TcpInv'
<1>1. tcp[s].dialed \in BOOLEAN
  BY DEF TcpInv, SessionRecord
<1>2. One(tcp[s].pc \in Served) = 1 /\ One(Absent.pc \in Served) = 0
  BY AbsentInv DEF One
<1>3. /\ One(Absent.pc \in Served /\ ~Absent.dialed) = 0
      /\ One(tcp[s].pc \in Served /\ ~tcp[s].dialed)
           = IF tcp[s].dialed THEN 0 ELSE 1
  BY AbsentInv DEF One
<1>4. Paid(s, Absent)
  <2>1. /\ globalFree \in Nat /\ listenerFree \in Nat /\ claims \in Int
        /\ activeGauge \in Int
    BY DEF TcpInv
  <2>2. /\ globalFree' = globalFree + 1 /\ listenerFree' = listenerFree + 1
        /\ activeGauge' = activeGauge - 1
        /\ claims' = IF tcp[s].dialed THEN claims ELSE claims - 1
    BY DEF Leave
  <2> QED
    BY <1>1, <1>2, <1>3, <2>1, <2>2 DEF Paid
<1>5. SlotPaid(s, Absent)
  <2>1. inflight' = inflight /\ inflight \in [Pipelines -> [Upstreams -> Nat]]
    BY DEF TcpInv, Leave
  <2> QED
    BY <2>1, AbsentInv DEF SlotPaid, One
<1> QED
  BY <1>4, <1>5, AbsentInv, PaidKeeps DEF Leave, Move, TcpInv

-----------------------------------------------------------------------------
(***************************************************************************)
(* Every action keeps the invariant.                                       *)
(***************************************************************************)

\* Nothing is accepted and every permit is there.
LEMMA TcpInitInv == TcpInit => TcpInv
<1> SUFFICES ASSUME TcpInit PROVE TcpInv
  OBVIOUS
<1>1. \A s \in Sessions : tcp[s] = Absent
  BY DEF TcpInit
<1>2. /\ tcp \in [Sessions -> SessionRecord]
      /\ \A s \in Sessions : SessionInv(tcp[s])
  BY <1>1, AbsentInv DEF TcpInit, SessionInv
<1>3. Serving = {} /\ {s \in Serving : ~tcp[s].dialed} = {}
  BY <1>1, AbsentInv DEF Serving
<1>4. \A g \in Pipelines, u \in Upstreams : SlotHolders(g, u) = {}
  BY <1>3 DEF SlotHolders
<1>5. Cardinality({}) = 0
  BY FS_EmptySet
<1>6. /\ globalFree = GlobalMax /\ listenerFree = ListenerMax /\ claims = 0
      /\ activeGauge = 0 /\ live \in Pipelines /\ stopping \in BOOLEAN
      /\ accepting \in BOOLEAN /\ globalFree \in Nat /\ listenerFree \in Nat
  <2>1. GlobalMax \in Nat /\ ListenerMax \in Nat /\ 0 \in Pipelines
    BY TcpConfig DEF Pipelines
  <2> QED
    BY <2>1 DEF TcpInit
<1>7. /\ inflight \in [Pipelines -> [Upstreams -> Nat]]
      /\ \A g \in Pipelines, u \in Upstreams : inflight[g][u] = 0
  BY DEF TcpInit
<1>8. \A g \in Pipelines, u \in Upstreams :
        inflight[g][u] = Cardinality(SlotHolders(g, u))
  BY <1>4, <1>5, <1>7
<1>9. /\ globalFree + Cardinality(Serving) = GlobalMax
      /\ listenerFree + Cardinality(Serving) = ListenerMax
      /\ activeGauge = Cardinality(Serving)
      /\ claims = Cardinality({s \in Serving : ~tcp[s].dialed})
      /\ claims \in Int /\ activeGauge \in Int
  BY <1>3, <1>5, <1>6
<1> QED
  BY <1>2, <1>6, <1>7, <1>8, <1>9 DEF TcpInv

\* Until the disconnect filters run, a connection whose upstream is one of the
\* balancer's endpoints holds a slot there.
LEMMA SlotMeans ==
  ASSUME NEW t, OwnUpstream(t), t.pc \in Served, t.pc # "disconnect",
         NEW g, NEW u \in Upstreams
  PROVE  Slot(t, g, u) <=> t.gen = g /\ t.upstream = {u}
BY DEF OwnUpstream, Slot

\* Accept: the connection holds nothing yet.
LEMMA AcceptInv == ASSUME TcpInv, NEW s \in Sessions, Accept(s) PROVE TcpInv'
<1> DEFINE t == [Absent EXCEPT !.pc = "handshake", !.saw = ~accepting]
<1>1. /\ t \in SessionRecord /\ t.pc = "handshake" /\ t.dialed = FALSE
      /\ t.upstream = {}
  BY AbsentInv DEF TcpInv, SessionInv, SessionRecord
<1>2. Goes(s, t)
  BY DEF Accept, Goes
<1> HIDE DEF t
<1>3. SessionInv(t) /\ t.pc \notin Served
  BY <1>1 DEF SessionInv, OwnUpstream, Served
<1>4. tcp[s].pc \notin Served /\ tcp[s].dialed = FALSE
  BY DEF Accept, Served, TcpInv, SessionInv, SessionRecord
<1>5. \A g, u : ~Slot(t, g, u) /\ ~Slot(tcp[s], g, u)
  BY <1>3, <1>4 DEF Slot
<1>6. (t.pc \in Served) = (tcp[s].pc \in Served)
  BY <1>3, <1>4
<1>7. t.dialed = tcp[s].dialed
  BY <1>1, <1>4
<1> QED
  BY <1>2, <1>3, <1>5, <1>6, <1>7, GoesStep

\* Refuse: nothing was taken.
LEMMA RefuseInv == ASSUME TcpInv, NEW s \in Sessions, Refuse(s) PROVE TcpInv'
<1>1. Goes(s, Absent)
  BY DEF Refuse, Goes
<1>2. tcp[s].pc \notin Served /\ tcp[s].dialed = FALSE
  BY DEF Refuse, Served, TcpInv, SessionInv, SessionRecord
<1>3. \A g, u : ~Slot(tcp[s], g, u)
  BY <1>2 DEF Slot
<1>4. (Absent.pc \in Served) = (tcp[s].pc \in Served)
  BY <1>2, AbsentInv
<1>5. Absent.dialed = tcp[s].dialed
  BY <1>2, AbsentInv
<1> QED
  BY <1>1, <1>3, <1>4, <1>5, AbsentInv, GoesStep

\* Where a pinned connection stands.
LEMMA PinnedInv ==
  ASSUME TcpInv, NEW t \in SessionRecord, t.dialed = FALSE
  PROVE  LET k == [t EXCEPT !.pc = "filters", !.gen = live, !.pos = 1,
                            !.upstream = Static]
         IN  /\ SessionInv(k) /\ k.pc = "filters" /\ k.dialed = FALSE
             /\ Unambiguous => \A g \in Pipelines, u \in Upstreams : ~Slot(k, g, u)
<1> DEFINE k == [t EXCEPT !.pc = "filters", !.gen = live, !.pos = 1,
                          !.upstream = Static]
<1>1. /\ live \in Pipelines /\ 1 \in 0..Len(Chain) + 1
      /\ "filters" \in Served \cup {"absent", "handshake"}
  BY TcpConfig DEF TcpInv, Served
<1>2. /\ k \in SessionRecord /\ k.pc = "filters" /\ k.pos = 1
      /\ k.upstream = Static /\ k.dialed = FALSE
  BY <1>1 DEF SessionRecord
<1> HIDE DEF k
<1>3. Unambiguous => k.upstream \cap Upstreams = {}
  BY <1>2 DEF Unambiguous
<1>4. SessionInv(k)
  BY <1>2, <1>3 DEF SessionInv, OwnUpstream
<1>5. Unambiguous => \A g \in Pipelines, u \in Upstreams : ~Slot(k, g, u)
  BY <1>3 DEF Slot
<1> QED
  BY <1>2, <1>4, <1>5 DEF k

\* Admit: both permits, the claim and the gauge come together.
LEMMA AdmitInv == ASSUME TcpInv, NEW s \in Sessions, Admit(s) PROVE TcpInv'
<1> DEFINE x == tcp[s]
           p == [x EXCEPT !.pc = "peek"]
           q == [p EXCEPT !.pc = "filters", !.gen = live, !.pos = 1,
                          !.upstream = Static]
           t == IF Static = {} THEN p ELSE q
<1>1. /\ x \in SessionRecord /\ x.pc = "handshake" /\ x.dialed = FALSE
      /\ x.upstream = {} /\ x.pc \notin Served
  BY DEF Admit, TcpInv, SessionInv, SessionRecord, Served
<1>2. /\ p \in SessionRecord /\ p.pc = "peek" /\ p.dialed = FALSE
      /\ p.upstream = {}
  BY <1>1 DEF SessionRecord, Served
<1>3. tcp' = [tcp EXCEPT ![s] = t]
  BY DEF Admit, Move, Pinned
<1> HIDE DEF p
<1>4. /\ SessionInv(q) /\ q.pc = "filters" /\ q.dialed = FALSE
      /\ Unambiguous => \A g \in Pipelines, u \in Upstreams : ~Slot(q, g, u)
  BY <1>2, PinnedInv
<1> HIDE DEF q
<1>5. SessionInv(p) /\ \A g \in Pipelines, u \in Upstreams : ~Slot(p, g, u)
  BY <1>2 DEF SessionInv, OwnUpstream, Slot
<1>6. /\ SessionInv(t) /\ t.pc \in Served /\ t.dialed = FALSE
      /\ Unambiguous => \A g \in Pipelines, u \in Upstreams : ~Slot(t, g, u)
  BY <1>2, <1>4, <1>5 DEF Served
<1> HIDE DEF t
<1>7. Paid(s, t)
  <2>1. /\ One(x.pc \in Served) = 0 /\ One(t.pc \in Served) = 1
        /\ One(x.pc \in Served /\ ~x.dialed) = 0
        /\ One(t.pc \in Served /\ ~t.dialed) = 1
    BY <1>1, <1>6 DEF One
  <2>2. /\ globalFree \in Nat /\ listenerFree \in Nat /\ claims \in Int
        /\ activeGauge \in Int /\ globalFree > 0 /\ listenerFree > 0
        /\ globalFree' = globalFree - 1 /\ listenerFree' = listenerFree - 1
        /\ claims' = claims + 1 /\ activeGauge' = activeGauge + 1
    BY DEF TcpInv, Admit
  <2> QED
    BY <2>1, <2>2 DEF Paid
<1>8. SlotPaid(s, t)
  <2>1. inflight' = inflight /\ inflight \in [Pipelines -> [Upstreams -> Nat]]
    BY DEF TcpInv, Admit
  <2>2. \A g, u : ~Slot(x, g, u)
    BY <1>1 DEF Slot
  <2> QED
    BY <1>6, <2>1, <2>2 DEF SlotPaid, One
<1> QED
  BY <1>3, <1>6, <1>7, <1>8, PaidKeeps DEF Admit, TcpInv

\* PeekSni: the pipeline is pinned, or the connection leaves with no upstream.
LEMMA PeekSniInv == ASSUME TcpInv, NEW s \in Sessions, PeekSni(s) PROVE TcpInv'
<1> DEFINE x == tcp[s]
<1>1. /\ x \in SessionRecord /\ x.pc = "peek" /\ x.dialed = FALSE
      /\ x.upstream = {} /\ x.pc \in Served
  BY DEF PeekSni, TcpInv, SessionInv, SessionRecord, Served
<1>2. \A g \in Pipelines, u \in Upstreams : ~Slot(x, g, u)
  BY <1>1 DEF Slot
<1>3. CASE Leave(s, x)
  BY <1>1, <1>2, <1>3, LeaveStep
<1>4. ASSUME NEW bytes \in BOOLEAN, Pinned(s, [x EXCEPT !.peeked = bytes]),
             UNCHANGED <<limits, claims, live, inflight, stopping, accepting>>
      PROVE  TcpInv'
  <2> DEFINE p == [x EXCEPT !.peeked = bytes]
             q == [p EXCEPT !.pc = "filters", !.gen = live, !.pos = 1,
                            !.upstream = Static]
  <2>1. p \in SessionRecord /\ p.dialed = FALSE
    BY <1>1 DEF SessionRecord
  <2>2. Goes(s, q)
    BY <1>4 DEF Pinned, Goes
  <2> HIDE DEF p
  <2>3. /\ SessionInv(q) /\ q.pc = "filters" /\ q.dialed = FALSE
        /\ Unambiguous => \A g \in Pipelines, u \in Upstreams : ~Slot(q, g, u)
    BY <2>1, PinnedInv
  <2>4. q.pc \in Served
    BY <2>3 DEF Served
  <2> HIDE DEF q
  <2> QED
    BY <1>1, <1>2, <2>2, <2>3, <2>4, GoesStep
<1> QED
  BY <1>3, <1>4 DEF PeekSni

\* The disconnect filters begin from the last: every balancer is still ahead.
LEMMA DisconnectStep ==
  ASSUME TcpInv, NEW s \in Sessions, Goes(s, Disconnecting(tcp[s])),
         tcp[s].pc \in {"filters", "connect", "write", "forward"}
  PROVE  TcpInv'
<1> DEFINE x == tcp[s]
           t == Disconnecting(x)
<1>1. x \in SessionRecord /\ SessionInv(x) /\ x.pc \in Served
  BY DEF TcpInv, SessionInv, Served
<1>2. /\ Len(Chain) \in Nat /\ Len(Chain) \in 0..Len(Chain) + 1
      /\ DOMAIN Chain = 1..Len(Chain)
  BY TcpConfig
<1>3. /\ t \in SessionRecord /\ t.pc = "disconnect" /\ t.pos = Len(Chain)
      /\ t.gen = x.gen /\ t.upstream = x.upstream /\ t.dialed = x.dialed
  BY <1>1, <1>2 DEF Disconnecting, SessionRecord, Served
<1> HIDE DEF t
<1>4. t.pc \in Served
  BY <1>3 DEF Served
<1>5. SessionInv(t)
  BY <1>1, <1>2, <1>3 DEF SessionInv, OwnUpstream
<1>6. ASSUME Unambiguous, NEW g \in Pipelines, NEW u \in Upstreams
      PROVE  Slot(t, g, u) <=> Slot(x, g, u)
  <2>1. PastBalancer(x) => PastBalancer(t)
    BY <1>2, <1>3 DEF PastBalancer
  <2>2. OwnUpstream(x)
    BY <1>1, <1>6 DEF SessionInv
  <2>3. x.pc # "disconnect"
    OBVIOUS
  <2>4. Slot(x, g, u) <=> x.gen = g /\ x.upstream = {u}
    BY <1>1, <2>2, <2>3, SlotMeans
  <2> QED
    BY <1>3, <1>4, <2>1, <2>4 DEF Slot
<1> QED
  BY <1>1, <1>3, <1>4, <1>5, <1>6, GoesStep DEF t

\* A filter lets the connection pass with upstream U.  When U is not one of the
\* balancer's endpoints, or is the upstream the connection had, no slot moves.
LEMMA PassedInv ==
  ASSUME TcpInv, NEW s \in Sessions, tcp[s].pc = "filters",
         tcp[s].pos <= Len(Chain),
         NEW U \in SUBSET (Routes \cup Upstreams \cup Static)
  PROVE  LET t == Passed(s, U)
         IN  /\ t \in SessionRecord /\ t.pc = "filters" /\ t.pos = tcp[s].pos + 1
             /\ t.upstream = U /\ t.gen = tcp[s].gen /\ t.dialed = tcp[s].dialed
             /\ t.dialed = FALSE
             /\ tcp[s].pos \in DOMAIN Chain /\ DOMAIN Chain = 1..Len(Chain)
             /\ Chain[tcp[s].pos] \in {"guard", "router", "balancer"}
<1> DEFINE x == tcp[s]
<1>1. x \in SessionRecord /\ SessionInv(x)
  BY DEF TcpInv
<1>2. Len(Chain) \in Nat /\ DOMAIN Chain = 1..Len(Chain)
  BY TcpConfig
<1>7. x.pos \in Int /\ x.pos >= 1
  BY <1>1, <1>2 DEF SessionInv, SessionRecord
<1>3. x.pos + 1 \in 0..Len(Chain) + 1 /\ x.pos \in DOMAIN Chain
  BY <1>2, <1>7
<1>4. Chain[x.pos] \in {"guard", "router", "balancer"}
  BY <1>3, TcpConfig
<1>5. /\ Passed(s, U) \in SessionRecord /\ Passed(s, U).pc = x.pc
      /\ Passed(s, U).pos = x.pos + 1 /\ Passed(s, U).upstream = U
      /\ Passed(s, U).gen = x.gen /\ Passed(s, U).dialed = x.dialed
  BY <1>1, <1>3 DEF Passed, SessionRecord
<1>6. x.dialed = FALSE
  BY <1>1 DEF SessionInv, SessionRecord
<1> QED
  BY <1>2, <1>3, <1>4, <1>5, <1>6

\* A guard, or a filter that fails open, leaves the upstream as it was.
LEMMA PassUnchanged ==
  ASSUME TcpInv, NEW s \in Sessions, tcp[s].pc = "filters",
         tcp[s].pos <= Len(Chain), Goes(s, Passed(s, tcp[s].upstream))
  PROVE  TcpInv'
<1> DEFINE x == tcp[s]
           t == Passed(s, x.upstream)
<1>1. x \in SessionRecord /\ SessionInv(x) /\ x.upstream \in SUBSET (Routes \cup Upstreams \cup Static)
  BY DEF TcpInv, SessionRecord
<1>2. /\ t \in SessionRecord /\ t.pc = "filters" /\ t.pos = x.pos + 1
      /\ t.upstream = x.upstream /\ t.gen = x.gen /\ t.dialed = x.dialed
      /\ t.dialed = FALSE
  BY <1>1, PassedInv
<1>7. DOMAIN Chain = 1..Len(Chain) /\ Len(Chain) \in Nat
  BY TcpConfig
<1>8. x.pos \in Int /\ x.pos >= 1
  BY <1>1, <1>7 DEF SessionRecord, SessionInv
<1> HIDE DEF t
<1>3. "filters" \in Served
  BY DEF Served
<1>4. Unambiguous => OwnUpstream(t)
  BY <1>1, <1>2, <1>7, <1>8 DEF SessionInv, OwnUpstream, PastBalancer
<1>5. SessionInv(t)
  BY <1>2, <1>4, <1>8 DEF SessionInv
<1>6. ASSUME Unambiguous, NEW g \in Pipelines, NEW u \in Upstreams
      PROVE  Slot(t, g, u) <=> Slot(x, g, u)
  <2>1. OwnUpstream(x)
    BY <1>1, <1>6 DEF SessionInv
  <2>2. /\ Slot(x, g, u) <=> x.gen = g /\ x.upstream = {u}
        /\ Slot(t, g, u) <=> t.gen = g /\ t.upstream = {u}
    BY <1>2, <1>3, <1>4, <1>6, <2>1, SlotMeans
  <2> QED
    BY <1>2, <2>2
<1> QED
  BY <1>2, <1>3, <1>5, <1>6, GoesStep DEF t

\* Before the balancer a connection has none of its endpoints: nothing but a
\* guard comes after it in an unambiguous chain.
LEMMA NoSlotYet ==
  ASSUME TcpInv, Unambiguous, NEW s \in Sessions, tcp[s].pc = "filters",
         tcp[s].pos \in DOMAIN Chain, Chain[tcp[s].pos] # "guard"
  PROVE  /\ tcp[s].upstream \cap Upstreams = {}
         /\ \A g \in Pipelines, u \in Upstreams : ~Slot(tcp[s], g, u)
<1> DEFINE x == tcp[s]
<1>1. DOMAIN Chain = 1..Len(Chain) /\ Len(Chain) \in Nat
  BY TcpConfig
<1>2. ~PastBalancer(x)
  BY <1>1 DEF PastBalancer, Unambiguous
<1>3. OwnUpstream(x)
  BY DEF TcpInv, SessionInv
<1> QED
  BY <1>2, <1>3 DEF OwnUpstream, Slot

\* ConnectFilter: a guard, the router, or the balancer with its slot.
LEMMA ConnectFilterInv ==
  ASSUME TcpInv, NEW s \in Sessions, ConnectFilter(s) PROVE TcpInv'
<1> DEFINE x == tcp[s]
<1>1. /\ x \in SessionRecord /\ SessionInv(x) /\ x.pc = "filters"
      /\ x.pos <= Len(Chain) /\ x.pc \in Served
  BY DEF TcpInv, ConnectFilter, Served
<1>2. DOMAIN Chain = 1..Len(Chain) /\ Len(Chain) \in Nat
  BY TcpConfig
<1>3. x.pos \in DOMAIN Chain /\ x.gen \in Pipelines /\ x.dialed = FALSE
  BY <1>1, <1>2 DEF SessionInv, SessionRecord
<1>4. ASSUME Filter(s) = "router", NEW r \in Routes, Goes(s, Passed(s, {r}))
      PROVE  TcpInv'
  <2> DEFINE t == Passed(s, {r})
  <2>1. /\ t \in SessionRecord /\ t.pc = "filters" /\ t.pos = x.pos + 1
        /\ t.upstream = {r} /\ t.gen = x.gen /\ t.dialed = FALSE
    <3>1. {r} \in SUBSET (Routes \cup Upstreams \cup Static)
      BY <1>4
    <3> QED
      BY <1>1, <3>1, PassedInv
  <2> HIDE DEF t
  <2>2. Unambiguous => r \notin Upstreams
    BY DEF Unambiguous
  <2>3. SessionInv(t)
    <3>1. t.pos >= 1
      BY <1>2, <1>3, <2>1
    <3> QED
      BY <2>1, <2>2, <3>1 DEF SessionInv, OwnUpstream
  <2>4. ASSUME Unambiguous, NEW g \in Pipelines, NEW u \in Upstreams
        PROVE  ~Slot(t, g, u) /\ ~Slot(x, g, u)
    <3>1. ~Slot(t, g, u)
      BY <2>1, <2>2, <2>4 DEF Slot
    <3>2. ~Slot(x, g, u)
      BY <1>1, <1>3, <1>4, <2>4, NoSlotYet DEF Filter
    <3> QED
      BY <3>1, <3>2
  <2>5. (t.pc \in Served) = (x.pc \in Served)
    BY <1>1, <2>1
  <2> QED
    BY <1>3, <1>4, <2>1, <2>3, <2>4, <2>5, GoesStep DEF t
<1>5. ASSUME Filter(s) = "balancer", SelectUpstream(s) PROVE TcpInv'
  <2>1. PICK v \in Upstreams :
          /\ inflight' = [inflight EXCEPT ![x.gen][v] = @ + 1]
          /\ Move(s, Passed(s, {v}))
          /\ UNCHANGED <<limits, claims, live, stopping, accepting>>
    BY <1>5 DEF SelectUpstream
  <2> DEFINE t == Passed(s, {v})
  <2>2. /\ t \in SessionRecord /\ t.pc = "filters" /\ t.pos = x.pos + 1
        /\ t.upstream = {v} /\ t.gen = x.gen /\ t.dialed = FALSE
    <3>1. {v} \in SUBSET (Routes \cup Upstreams \cup Static)
      BY <2>1
    <3> QED
      BY <1>1, <3>1, PassedInv
  <2>3. tcp' = [tcp EXCEPT ![s] = t]
    BY <2>1 DEF Move
  <2> HIDE DEF t
  <2>4. PastBalancer(t)
    BY <1>2, <1>3, <1>5, <2>2 DEF PastBalancer, Filter
  <2>5. SessionInv(t)
    <3>1. t.pos >= 1
      BY <1>2, <1>3, <2>2
    <3> QED
      BY <2>2, <2>4, <3>1 DEF SessionInv, OwnUpstream
  <2>6. Paid(s, t)
    <3>1. One(x.pc \in Served) = 1 /\ One(t.pc \in Served) = 1
      BY <1>1, <2>2 DEF One
    <3>2. /\ One(x.pc \in Served /\ ~x.dialed) = 1
          /\ One(t.pc \in Served /\ ~t.dialed) = 1
      BY <1>1, <1>3, <2>2 DEF One
    <3>3. /\ globalFree \in Nat /\ listenerFree \in Nat /\ claims \in Int
          /\ activeGauge \in Int
          /\ globalFree' = globalFree /\ listenerFree' = listenerFree
          /\ claims' = claims /\ activeGauge' = activeGauge
      BY <2>1 DEF TcpInv, limits
    <3> QED
      BY <3>1, <3>2, <3>3 DEF Paid
  <2>7. SlotPaid(s, t)
    <3>1. inflight \in [Pipelines -> [Upstreams -> Nat]]
      BY DEF TcpInv
    <3>2. /\ inflight' \in [Pipelines -> [Upstreams -> Nat]]
          /\ \A g \in Pipelines, u \in Upstreams :
               inflight'[g][u] = IF g = x.gen /\ u = v THEN inflight[g][u] + 1
                                 ELSE inflight[g][u]
      BY <1>3, <2>1, <3>1
    <3>3. ASSUME Unambiguous, NEW g \in Pipelines, NEW u \in Upstreams
          PROVE  inflight'[g][u] + One(Slot(x, g, u))
                   = inflight[g][u] + One(Slot(t, g, u))
      <4>1. ~Slot(x, g, u)
        BY <1>1, <1>3, <1>5, <3>3, NoSlotYet DEF Filter
      <4>2. Slot(t, g, u) <=> g = x.gen /\ u = v
        BY <1>1, <2>2, <2>4 DEF Slot
      <4>3. inflight[g][u] \in Nat
        BY <3>1
      <4> QED
        BY <3>2, <4>1, <4>2, <4>3 DEF One
    <3> QED
      BY <3>2, <3>3 DEF SlotPaid
  <2> QED
    BY <2>1, <2>3, <2>5, <2>6, <2>7, PaidKeeps DEF TcpInv
<1> QED
  BY <1>1, <1>4, <1>5, PassUnchanged DEF ConnectFilter, RouteBySni

\* A connection with no upstream holds no slot and leaves.
LEMMA LeaveUnrouted ==
  ASSUME TcpInv, NEW s \in Sessions, Leave(s, tcp[s]), tcp[s].pc \in Served,
         tcp[s].upstream = {}
  PROVE  TcpInv'
<1>1. \A g \in Pipelines, u \in Upstreams : ~Slot(tcp[s], g, u)
  BY DEF Slot
<1> QED
  BY <1>1, LeaveStep

\* ConnectFilterFails: fail open, or out through release_selected_endpoint.
LEMMA ConnectFilterFailsInv ==
  ASSUME TcpInv, NEW s \in Sessions, ConnectFilterFails(s) PROVE TcpInv'
<1>1. tcp[s].pc = "filters" /\ tcp[s].pos <= Len(Chain) /\ tcp[s].pc \in Served
  BY DEF ConnectFilterFails, Served
<1>2. CASE Goes(s, Passed(s, tcp[s].upstream))
  BY <1>1, <1>2, PassUnchanged
<1>3. CASE RejectConnection(s)
  BY <1>1, <1>3, LeaveUnrouted, DisconnectStep DEF RejectConnection
<1> QED
  BY <1>2, <1>3 DEF ConnectFilterFails

\* A move within the part of serve_connection that holds everything, not into
\* the disconnect filters.
LEMMA OnwardStep ==
  ASSUME TcpInv, NEW s \in Sessions, NEW t \in SessionRecord, Goes(s, t),
         tcp[s].pc \in {"filters", "write"}, t.pc \in {"connect", "forward"},
         t.pc = "connect" => tcp[s].dialed = FALSE,
         t.gen = tcp[s].gen, t.upstream = tcp[s].upstream, t.dialed = tcp[s].dialed
  PROVE  TcpInv'
<1> DEFINE x == tcp[s]
<1>1. SessionInv(x) /\ x.pc \in Served /\ t.pc \in Served
  BY DEF TcpInv, Served
<1>2. PastBalancer(x) => PastBalancer(t)
  BY DEF PastBalancer
<1>3. SessionInv(t)
  BY <1>1, <1>2 DEF SessionInv, OwnUpstream
<1>4. ASSUME Unambiguous, NEW g \in Pipelines, NEW u \in Upstreams
      PROVE  Slot(t, g, u) <=> Slot(x, g, u)
  <2>1. OwnUpstream(x) /\ OwnUpstream(t) /\ x.pc # "disconnect" /\ t.pc # "disconnect"
    BY <1>1, <1>3, <1>4 DEF SessionInv
  <2>2. /\ Slot(x, g, u) <=> x.gen = g /\ x.upstream = {u}
        /\ Slot(t, g, u) <=> t.gen = g /\ t.upstream = {u}
    BY <1>1, <2>1, SlotMeans
  <2> QED
    BY <2>2
<1>5. (t.pc \in Served) = (x.pc \in Served)
  BY <1>1
<1> QED
  BY <1>3, <1>4, <1>5, GoesStep

\* Resolve: on to the upstream, or out when no filter set one.
LEMMA ResolveInv == ASSUME TcpInv, NEW s \in Sessions, Resolve(s) PROVE TcpInv'
<1> DEFINE x == tcp[s]
           t == [x EXCEPT !.pc = "connect"]
<1>1. /\ x \in SessionRecord /\ SessionInv(x) /\ x.pc = "filters" /\ x.pc \in Served
  BY DEF TcpInv, Resolve, Served
<1>2. CASE x.upstream = {}
  BY <1>1, <1>2, LeaveUnrouted DEF Resolve
<1>3. CASE x.upstream # {}
  <2>1. Goes(s, t)
    BY <1>3 DEF Resolve
  <2>2. /\ t \in SessionRecord /\ t.pc = "connect" /\ t.gen = x.gen
        /\ t.upstream = x.upstream /\ t.dialed = x.dialed /\ x.dialed = FALSE
    BY <1>1 DEF SessionInv, SessionRecord, Served
  <2> HIDE DEF t
  <2> QED
    BY <1>1, <2>1, <2>2, OnwardStep
<1> QED
  BY <1>2, <1>3

\* WritePeeked: the peeked bytes go to the upstream, or the write fails and
\* the disconnect filters begin; what the connection holds stays.
LEMMA WritePeekedInv ==
  ASSUME TcpInv, NEW s \in Sessions, WritePeeked(s) PROVE TcpInv'
<1> DEFINE x == tcp[s]
           t == [x EXCEPT !.pc = "forward"]
<1>1. x \in SessionRecord /\ x.pc = "write"
  BY DEF TcpInv, WritePeeked
<1>2. CASE Goes(s, Disconnecting(x))
  BY <1>1, <1>2, DisconnectStep
<1>3. CASE Goes(s, t)
  <2>1. /\ t \in SessionRecord /\ t.pc = "forward" /\ t.gen = x.gen
        /\ t.upstream = x.upstream /\ t.dialed = x.dialed
    BY <1>1 DEF SessionRecord, Served
  <2> HIDE DEF t
  <2> QED
    BY <1>1, <1>3, <2>1, OnwardStep
<1> QED
  BY <1>2, <1>3 DEF WritePeeked

\* Forwarding ends, by a shutdown or otherwise.
LEMMA ForwardInv ==
  ASSUME TcpInv, NEW s \in Sessions, ForwardShutdown(s) \/ ForwardEnds(s)
  PROVE  TcpInv'
BY DisconnectStep DEF ForwardShutdown, ForwardEnds

\* ConnectUpstream: the claim becomes a charge, or the disconnect filters run.
LEMMA ConnectUpstreamInv ==
  ASSUME TcpInv, NEW s \in Sessions, ConnectUpstream(s) PROVE TcpInv'
<1> DEFINE x == tcp[s]
           q == IF x.peeked THEN "write" ELSE "forward"
           t == [x EXCEPT !.dialed = TRUE, !.pc = q]
<1>1. /\ x \in SessionRecord /\ SessionInv(x) /\ x.pc = "connect"
      /\ x.pc \in Served
  BY DEF TcpInv, ConnectUpstream, Served
<1>2. x.dialed = FALSE
  BY <1>1 DEF SessionInv, SessionRecord
<1>3. CASE Goes(s, Disconnecting(x))
  BY <1>1, <1>3, DisconnectStep
<1>4. CASE ~Goes(s, Disconnecting(x))
  <2>1. /\ claims' = claims - 1 /\ tcp' = [tcp EXCEPT ![s] = t]
        /\ UNCHANGED <<limits, live, inflight, stopping, accepting>>
    BY <1>4 DEF ConnectUpstream, Move
  <2>2. q \in {"write", "forward"} /\ q \in Served
    BY DEF Served
  <2> HIDE DEF q
  <2>3. /\ t \in SessionRecord /\ t.pc = q /\ t.dialed = TRUE /\ t.gen = x.gen
        /\ t.upstream = x.upstream
    BY <1>1, <2>2 DEF SessionRecord
  <2> HIDE DEF t
  <2>4. PastBalancer(x) => PastBalancer(t)
    BY <2>2, <2>3 DEF PastBalancer
  <2>5. SessionInv(t)
    BY <1>1, <2>2, <2>3, <2>4 DEF SessionInv, OwnUpstream
  <2>6. Paid(s, t)
    <3>1. /\ One(x.pc \in Served) = 1 /\ One(t.pc \in Served) = 1
          /\ One(x.pc \in Served /\ ~x.dialed) = 1
          /\ One(t.pc \in Served /\ ~t.dialed) = 0
      BY <1>1, <1>2, <2>2, <2>3 DEF One
    <3>2. /\ globalFree \in Nat /\ listenerFree \in Nat /\ claims \in Int
          /\ activeGauge \in Int
          /\ globalFree' = globalFree /\ listenerFree' = listenerFree
          /\ claims' = claims - 1 /\ activeGauge' = activeGauge
      BY <2>1 DEF TcpInv, limits
    <3> QED
      BY <3>1, <3>2 DEF Paid
  <2>7. SlotPaid(s, t)
    <3>1. inflight' = inflight /\ inflight \in [Pipelines -> [Upstreams -> Nat]]
      BY <2>1 DEF TcpInv
    <3>2. ASSUME Unambiguous, NEW g \in Pipelines, NEW u \in Upstreams
          PROVE  Slot(t, g, u) <=> Slot(x, g, u)
      <4>1. OwnUpstream(x) /\ OwnUpstream(t)
        BY <1>1, <2>5, <3>2 DEF SessionInv
      <4>2. x.pc # "disconnect" /\ t.pc # "disconnect" /\ t.pc \in Served
        BY <1>1, <2>2, <2>3
      <4>3. /\ Slot(x, g, u) <=> x.gen = g /\ x.upstream = {u}
            /\ Slot(t, g, u) <=> t.gen = g /\ t.upstream = {u}
        BY <1>1, <4>1, <4>2, SlotMeans
      <4> QED
        BY <2>3, <4>3
    <3> QED
      BY <3>1, <3>2 DEF SlotPaid, One
  <2> QED
    BY <2>1, <2>5, <2>6, <2>7, PaidKeeps DEF TcpInv
<1> QED
  BY <1>3, <1>4

\* A slot that is held has been counted.
LEMMA SlotCounted ==
  ASSUME TcpInv, Unambiguous, NEW s \in Sessions, NEW g \in Pipelines,
         NEW u \in Upstreams, Slot(tcp[s], g, u)
  PROVE  inflight[g][u] > 0
<1> DEFINE H == SlotHolders(g, u)
<1>1. H = {r \in Sessions : Slot(tcp[r], g, u)}
  BY HoldersOf
<1>2. s \in H /\ IsFiniteSet(H)
  BY <1>1, CountPart, TcpConfig
<1>3. inflight[g][u] = Cardinality(H)
  BY DEF TcpInv
<1> HIDE DEF H
<1>4. Cardinality({}) = 0
  BY FS_EmptySet
<1>5. Cardinality({}) < Cardinality(H)
  BY <1>2, CountStrict
<1> QED
  BY <1>3, <1>4, <1>5

\* DisconnectFilter: the one balancer of the chain takes its slot back.
LEMMA DisconnectFilterInv ==
  ASSUME TcpInv, NEW s \in Sessions, DisconnectFilter(s) PROVE TcpInv'
<1> DEFINE x == tcp[s]
           t == [x EXCEPT !.pos = @ - 1]
<1>1. /\ x \in SessionRecord /\ SessionInv(x) /\ x.pc = "disconnect"
      /\ x.pc \in Served /\ x.pos > 0
  BY DEF TcpInv, DisconnectFilter, Served
<1>2. DOMAIN Chain = 1..Len(Chain) /\ Len(Chain) \in Nat
  BY TcpConfig
<1>3. /\ x.pos \in DOMAIN Chain /\ x.pos \in Int /\ x.gen \in Pipelines
      /\ x.dialed \in BOOLEAN /\ x.pos - 1 \in 0..Len(Chain) + 1
  BY <1>1, <1>2 DEF SessionInv, SessionRecord
<1>4. /\ t \in SessionRecord /\ t.pc = "disconnect" /\ t.pos = x.pos - 1
      /\ t.gen = x.gen /\ t.upstream = x.upstream /\ t.dialed = x.dialed
  BY <1>1, <1>3 DEF SessionRecord
<1>5. tcp' = [tcp EXCEPT ![s] = t]
  BY DEF DisconnectFilter, Move
<1> HIDE DEF t
<1>6. SessionInv(t)
  BY <1>1, <1>2, <1>3, <1>4 DEF SessionInv, OwnUpstream
<1>7. Paid(s, t)
  <2> DEFINE b == One(x.pc \in Served)
             c == One(x.pc \in Served /\ ~x.dialed)
  <2>1. b \in Int /\ b = One(t.pc \in Served)
    BY <1>1, <1>4, OneType
  <2>2. c \in Int /\ c = One(t.pc \in Served /\ ~t.dialed)
    BY <1>1, <1>4, OneType
  <2>3. /\ globalFree \in Nat /\ listenerFree \in Nat /\ claims \in Int
        /\ activeGauge \in Int
        /\ globalFree' = globalFree /\ listenerFree' = listenerFree
        /\ claims' = claims /\ activeGauge' = activeGauge
    BY DEF TcpInv, DisconnectFilter, limits
  <2> HIDE DEF b, c
  <2>4. /\ globalFree = globalFree + b - b /\ listenerFree = listenerFree + b - b
        /\ activeGauge = activeGauge - b + b
    BY <2>1, <2>3
  <2> QED
    BY <2>1, <2>2, <2>3, <2>4 DEF Paid, b, c
<1>8. inflight \in [Pipelines -> [Upstreams -> Nat]]
  BY DEF TcpInv
<1>9. SlotPaid(s, t)
  <2>1. CASE Filter(s) # "balancer"
    <3>1. inflight' = inflight
      BY <2>1 DEF DisconnectFilter
    <3>2. PastBalancer(t) <=> PastBalancer(x)
      BY <1>1, <1>2, <1>3, <1>4, <2>1 DEF PastBalancer, Filter
    <3>3. \A g \in Pipelines, u \in Upstreams : Slot(t, g, u) <=> Slot(x, g, u)
      BY <1>1, <1>4, <3>2 DEF Slot
    <3> QED
      BY <1>8, <3>1, <3>3 DEF SlotPaid, One
  <2>2. CASE Filter(s) = "balancer"
    <3>1. inflight' = [inflight EXCEPT ![x.gen] = Released(@, x.upstream)]
      BY <2>2 DEF DisconnectFilter
    <3>2. /\ inflight' \in [Pipelines -> [Upstreams -> Nat]]
          /\ \A g \in Pipelines, u \in Upstreams :
               inflight'[g][u] =
                 IF g = x.gen /\ u \in x.upstream /\ inflight[g][u] > 0
                   THEN inflight[g][u] - 1 ELSE inflight[g][u]
      <4>1. /\ Released(inflight[x.gen], x.upstream) \in [Upstreams -> Nat]
            /\ \A u \in Upstreams :
                 Released(inflight[x.gen], x.upstream)[u] =
                   IF u \in x.upstream /\ inflight[x.gen][u] > 0
                     THEN inflight[x.gen][u] - 1 ELSE inflight[x.gen][u]
        BY <1>3, <1>8 DEF Released
      <4> HIDE DEF Released
      <4> QED
        BY <1>3, <1>8, <3>1, <4>1
    <3>3. ASSUME Unambiguous, NEW g \in Pipelines, NEW u \in Upstreams
          PROVE  inflight'[g][u] + One(Slot(x, g, u))
                   = inflight[g][u] + One(Slot(t, g, u))
      <4>1. ~PastBalancer(t)
        BY <1>2, <1>3, <1>4, <2>2, <3>3 DEF PastBalancer, Filter, Unambiguous
      <4>2. PastBalancer(x)
        BY <1>1, <1>2, <1>3, <2>2 DEF PastBalancer, Filter
      <4>3. ~Slot(t, g, u)
        BY <4>1 DEF Slot
      <4>4. Slot(x, g, u) <=> x.gen = g /\ x.upstream = {u}
        BY <1>1, <4>2 DEF Slot
      <4>5. u \in x.upstream => x.upstream = {u}
        BY <1>1, <3>3 DEF SessionInv, OwnUpstream
      <4>6. Slot(x, g, u) => inflight[g][u] > 0
        BY <3>3, SlotCounted
      <4>7. inflight[g][u] \in Nat
        BY <1>8
      <4> QED
        BY <3>2, <4>3, <4>4, <4>5, <4>6, <4>7 DEF One
    <3> QED
      BY <3>2, <3>3 DEF SlotPaid
  <2> QED
    BY <2>1, <2>2
<1> QED
  BY <1>5, <1>6, <1>7, <1>9, PaidKeeps DEF DisconnectFilter, TcpInv

\* Close: the disconnect filters have all run.
LEMMA CloseInv == ASSUME TcpInv, NEW s \in Sessions, Close(s) PROVE TcpInv'
<1>1. tcp[s].pc = "disconnect" /\ tcp[s].pc \in Served /\ tcp[s].pos = 0
  BY DEF Close, Served
<1>2. DOMAIN Chain = 1..Len(Chain) /\ Len(Chain) \in Nat
  BY TcpConfig
<1>3. ~PastBalancer(tcp[s])
  BY <1>1, <1>2 DEF PastBalancer
<1> QED
  BY <1>1, <1>3, LeaveStep DEF Close, Slot

\* What moves no connection moves no counter.
LEMMA ElsewhereInv ==
  ASSUME TcpInv, UNCHANGED <<limits, claims, inflight, tcp>>,
         live' \in Pipelines, stopping' \in BOOLEAN, accepting' \in BOOLEAN
  PROVE  TcpInv'
<1>1. /\ Serving' = Serving
      /\ {s \in Serving : ~tcp[s].dialed}' = {s \in Serving : ~tcp[s].dialed}
      /\ \A g \in Pipelines, u \in Upstreams : SlotHolders(g, u)' = SlotHolders(g, u)
  BY DEF Serving, SlotHolders
<1>2. /\ tcp' = tcp /\ inflight' = inflight /\ claims' = claims
      /\ globalFree' = globalFree /\ listenerFree' = listenerFree
      /\ activeGauge' = activeGauge
  BY DEF limits
<1> QED
  BY <1>1, <1>2 DEF TcpInv

-----------------------------------------------------------------------------
(***************************************************************************)
(* The theorem.                                                            *)
(***************************************************************************)

\* The invariant is inductive.
LEMMA TcpNextInv == TcpInv /\ [TcpNext]_tcpVars => TcpInv'
<1> SUFFICES ASSUME TcpInv, [TcpNext]_tcpVars PROVE TcpInv'
  OBVIOUS
<1>1. ASSUME NEW s \in Sessions, Accept(s) \/ Progress(s) \/ ForwardEnds(s)
      PROVE  TcpInv'
  BY <1>1, AcceptInv, AdmitInv, RefuseInv, PeekSniInv, ConnectFilterInv,
     ConnectFilterFailsInv, ResolveInv, ConnectUpstreamInv, WritePeekedInv,
     ForwardInv, DisconnectFilterInv, CloseInv
  DEF Progress
<1>2. CASE StopAccepting \/ Shutdown
  BY <1>2, ElsewhereInv DEF StopAccepting, Shutdown, TcpInv
<1>3. CASE SwapPipeline
  <2>1. live' \in Pipelines
    BY <1>3, TcpConfig DEF SwapPipeline, TcpInv, Pipelines
  <2> QED
    BY <1>3, <2>1, ElsewhereInv DEF SwapPipeline, TcpInv
<1>4. CASE Down \/ UNCHANGED tcpVars
  BY <1>4, ElsewhereInv DEF Down, tcpVars, TcpInv
<1> QED
  BY <1>1, <1>2, <1>3, <1>4 DEF TcpNext

\* Every state the proxy reaches satisfies the inductive invariant.
THEOREM TcpInvariant == TcpSpec => []TcpInv
<1> QED
  BY TcpInitInv, TcpNextInv, PTL DEF TcpSpec

\* For every number of connections, every chain of filters, every limit and
\* any number of reloads: on whatever path a connection ends it gives back each
\* permit, its claim, the gauge and (in an unambiguous chain) the balancer's
\* slot, once and to the generation it took it from (serve_connection,
\* release_selected_endpoint, execute_tcp_disconnect).
THEOREM ConnectionsCorrect == TcpSpec => []ConnectionsAccounted
<1>1. ASSUME TcpInv PROVE ConnectionsAccounted
  <2>1. /\ Cardinality(Serving) \in Nat
        /\ Cardinality({s \in Serving : ~tcp[s].dialed}) \in Nat
    <3>1. IsFiniteSet(Serving) /\ Cardinality(Serving) \in Nat
      BY CountPart, TcpConfig DEF Serving
    <3>2. {s \in Serving : ~tcp[s].dialed} \subseteq Serving
      OBVIOUS
    <3> QED
      BY <3>1, <3>2, CountPart
  <2>2. GlobalMax \in Nat /\ ListenerMax \in Nat
    BY TcpConfig
  <2>3. globalFree \in 0..GlobalMax /\ listenerFree \in 0..ListenerMax
    BY <1>1, <2>1, <2>2 DEF TcpInv
  <2>4. {claims, activeGauge} \subseteq Nat
    BY <1>1, <2>1 DEF TcpInv
  <2>5. TcpTypeOK
    BY <1>1, <2>3, <2>4 DEF TcpTypeOK, TcpInv, SessionRecord
  <2> QED
    BY <1>1, <2>5 DEF ConnectionsAccounted, TcpInv
<1> QED
  BY <1>1, TcpInvariant, PTL

-----------------------------------------------------------------------------
(***************************************************************************)
(* The HTTP pipeline: the inductive invariant.                             *)
(***************************************************************************)

TypeNames == {TypeName[f] : f \in Filters}

\* What filter f publishes in its latest run.
Fresh(f) == [by |-> f, stale |-> FALSE]

ResultMap == [TypeNames -> {NoOne} \cup [by : Filters, stale : BOOLEAN]]

BranchFrame == [host : Filters, b : Nat, k : Nat, snap : {NoOne} \cup ResultMap]

\* No two filters of a pipeline share a type name, under which results are
\* filed.
DistinctTypes == \A f, g \in Filters : TypeName[f] = TypeName[g] => f = g

\* Every result of r is the latest of the filter that published it.
Own(r) ==
  DistinctTypes => \A t \in TypeNames : r[t] # NoOne =>
    \E f \in Filters : TypeName[f] = t /\ r[t] = Fresh(f)

\* Every result of r is the latest of one of the first n hosts of s.
Backed(r, s, n) ==
  DistinctTypes => \A t \in TypeNames : r[t] # NoOne =>
    \E j \in 1 .. n : TypeName[s[j].host] = t /\ r[t] = Fresh(s[j].host)

\* An evaluation is that of a filter in a branch of every host below it.
Nested(s) == \A i, j \in 1 .. Len(s) : i < j => s[j].host \in Under(s[i].host)

\* A snapshot holds what the hosts had published when it was taken.
Snapped(s) == \A i \in 1 .. Len(s) : s[i].snap # NoOne => Backed(s[i].snap, s, i)

EvalTypes ==
  /\ stack \in Seq(BranchFrame) /\ results \in ResultMap /\ held \in ResultMap

EvalInv ==
  /\ EvalTypes /\ Nested(stack) /\ Snapped(stack) /\ Own(held)
  /\ pc = "preread" => stack = <<>> /\ Own(results)
  /\ pc = "request" => Backed(results, stack, Len(stack))

\* An upstream that was not there when the host had run was selected by one
\* of the filters in its branches.
SelectedBelow ==
  stack # <<>> => upstream = before \/ upstream.by \in Under(stack[1].host)

\* A streamed request has had its request phase set up, and its body hooks are
\* those of filters marked as executed, which are those that ran.
MarksInv ==
  /\ ran \in Seq(Filters) /\ executed = ToSet(ran)
  /\ ~buffered => tracked /\ called \subseteq executed

EvalSound == EvalInv /\ SelectedBelow

\* A filter owns its branches: what lies under a filter is closed downwards,
\* and the filter itself is not in it.
LEMMA UnderRules ==
  ASSUME NEW f \in Filters
  PROVE  /\ \A g \in Below(f) : g \in Filters /\ g \in Under(f)
         /\ \A h \in Under(f) : h \in Filters /\ \A g \in Below(h) : g \in Under(f)
         /\ f \notin Under(f)
         /\ Under(f) \subseteq Subtree[f]
<1>1. \A e \in Filters : Below(e) \subseteq Filters /\ e \notin Under(e)
  BY BuildChecks DEF WellBuilt
<1>2. \A e \in Filters : Subtree[e] = {g \in Filters : \A S \in Closed : e \in S => g \in S}
  BY DEF Subtree
<1>3. \A S \in Closed : \A h \in S : Below(h) \subseteq S
  BY DEF Closed
<1>4. ASSUME NEW g \in Below(f) PROVE g \in Filters /\ g \in Under(f)
  <2>1. g \in Filters /\ g \in Subtree[g]
    BY <1>1, <1>2
  <2> QED
    BY <2>1 DEF Under
<1>5. ASSUME NEW h \in Under(f)
      PROVE  h \in Filters /\ h \in Subtree[f] /\ \A g \in Below(h) : g \in Under(f)
  <2>1. PICK e \in Below(f) : h \in Subtree[e]
    BY DEF Under
  <2>2. e \in Filters /\ h \in Filters
    BY <1>1, <1>2, <2>1
  <2>3. ASSUME NEW g \in Below(h) PROVE g \in Under(f)
    <3>1. g \in Filters
      BY <1>1, <2>2
    <3>2. \A S \in Closed : e \in S => g \in S
      BY <1>2, <1>3, <2>1, <2>2
    <3>3. g \in Subtree[e]
      BY <1>2, <2>2, <3>1, <3>2
    <3> QED
      BY <3>3 DEF Under
  <2>4. \A S \in Closed : f \in S => h \in S
    BY <1>2, <1>3, <2>1, <2>2
  <2>5. h \in Subtree[f]
    BY <1>2, <2>2, <2>4
  <2> QED
    BY <2>2, <2>3, <2>5
<1> QED
  BY <1>1, <1>4, <1>5

\* Frames that keep their hosts and snapshots keep what is said of them.
LEMMA SameFrames ==
  ASSUME NEW s \in Seq(BranchFrame), NEW p \in Seq(BranchFrame), Len(p) <= Len(s),
         \A i \in 1 .. Len(p) : p[i].host = s[i].host /\ p[i].snap = s[i].snap,
         Nested(s), Snapped(s)
  PROVE  /\ Nested(p) /\ Snapped(p)
         /\ Len(p) = Len(s) => \A r : Backed(r, s, Len(s)) => Backed(r, p, Len(p))
<1>1. Len(s) \in Nat /\ Len(p) \in Nat
  OBVIOUS
<1>2. \A i \in 1 .. Len(p) : i \in 1 .. Len(s)
  BY <1>1
<1>3. Nested(p)
  BY <1>2 DEF Nested
<1>4. ASSUME NEW r, NEW n \in 0 .. Len(p), Backed(r, s, n) PROVE Backed(r, p, n)
  <2>1. \A j \in 1 .. n : p[j].host = s[j].host
    BY <1>1
  <2> QED
    BY <1>4, <2>1 DEF Backed
<1>5. Snapped(p)
  <2> SUFFICES ASSUME NEW i \in 1 .. Len(p), p[i].snap # NoOne PROVE Backed(p[i].snap, p, i)
    BY DEF Snapped
  <2>1. Backed(s[i].snap, s, i) /\ p[i].snap = s[i].snap
    BY <1>2 DEF Snapped
  <2>2. i \in 0 .. Len(p)
    BY <1>1
  <2> QED
    BY <1>4, <2>1, <2>2
<1>6. ASSUME Len(p) = Len(s), NEW r, Backed(r, s, Len(s)) PROVE Backed(r, p, Len(p))
  BY <1>1, <1>4, <1>6
<1> QED
  BY <1>3, <1>5, <1>6

\* The fields of a frame.
LEMMA FrameFields ==
  ASSUME NEW x \in BranchFrame
  PROVE  x.host \in Filters /\ x.b \in Nat /\ x.k \in Nat /\ x.snap \in {NoOne} \cup ResultMap
BY DEF BranchFrame

\* The last frame is exchanged for another.
LEMMA TopChanges ==
  ASSUME NEW s \in Seq(BranchFrame), s # <<>>, NEW x \in BranchFrame
  PROVE  LET p == [s EXCEPT ![Len(s)] = x]
         IN  /\ p \in Seq(BranchFrame) /\ Len(p) = Len(s) /\ p # <<>> /\ p[Len(s)] = x
             /\ \A i \in 1 .. Len(s) : i # Len(s) => p[i] = s[i]
             /\ Len(s) \in Nat /\ Len(s) >= 1
OBVIOUS

\* The last frame is dropped.
LEMMA FrontOf ==
  ASSUME NEW s \in Seq(BranchFrame), s # <<>>
  PROVE  /\ Front(s) \in Seq(BranchFrame) /\ Len(Front(s)) = Len(s) - 1
         /\ \A i \in 1 .. Len(Front(s)) : Front(s)[i] = s[i]
         /\ Len(s) \in Nat /\ Len(s) >= 1
<1>1. PICK n \in Nat : n = Len(s) /\ n >= 1 /\ \A i \in 1 .. n : s[i] \in BranchFrame
  OBVIOUS
<1>2. n - 1 \in Int /\ 1 \in Int /\ \A i \in 1 .. (n - 1) : s[i] \in BranchFrame
  BY <1>1
<1>3. /\ SubSeq(s, 1, n - 1) \in Seq(BranchFrame)
      /\ Len(SubSeq(s, 1, n - 1)) = IF 1 <= n - 1 THEN (n - 1) - 1 + 1 ELSE 0
      /\ \A i \in 1 .. (n - 1) - 1 + 1 : SubSeq(s, 1, n - 1)[i] = s[1 + i - 1]
  BY <1>2, SubSeqProperties
<1>4. Front(s) = SubSeq(s, 1, n - 1)
  BY <1>1 DEF Front
<1>5. Len(Front(s)) = n - 1
  BY <1>1, <1>3, <1>4
<1>6. \A i \in 1 .. (n - 1) : 1 + i - 1 = i /\ i \in 1 .. (n - 1) - 1 + 1
  BY <1>1
<1> QED
  BY <1>1, <1>3, <1>4, <1>5, <1>6

\* A frame goes on to another filter of its chain, or another branch.
LEMMA FrameGoesOn ==
  ASSUME NEW x \in BranchFrame, NEW n \in Nat, NEW m \in Nat
  PROVE  LET y == [x EXCEPT !.k = n]
             z == [x EXCEPT !.b = m]
         IN  /\ y \in BranchFrame /\ y.host = x.host /\ y.snap = x.snap
             /\ z \in BranchFrame /\ z.host = x.host /\ z.snap = x.snap
BY DEF BranchFrame

\* A step along the main path, or along the chain of the last frame.
LEMMA AdvanceKeeps ==
  ASSUME NEW s \in Seq(BranchFrame), Advance(s)
  PROVE  /\ stack' \in Seq(BranchFrame) /\ Len(stack') = Len(s)
         /\ \A i \in 1 .. Len(s) : stack'[i].host = s[i].host /\ stack'[i].snap = s[i].snap
<1>1. CASE s = <<>>
  <2>1. stack' = s
    BY <1>1 DEF Advance
  <2> QED
    BY <2>1
<1>2. CASE s # <<>>
  <2> DEFINE n == Len(s)
             x == [s[n] EXCEPT !.k = @ + 1]
  <2>1. n \in Nat /\ n >= 1 /\ s[n] \in BranchFrame
    BY <1>2
  <2>2. s[n].k + 1 \in Nat
    BY <2>1, FrameFields
  <2>3. x \in BranchFrame /\ x.host = s[n].host /\ x.snap = s[n].snap
    BY <2>1, <2>2, FrameGoesOn
  <2>4. stack' = [s EXCEPT ![n] = x]
    BY <1>2, <2>1 DEF Advance
  <2> HIDE DEF x
  <2>5. /\ stack' \in Seq(BranchFrame) /\ Len(stack') = n /\ stack'[n] = x
        /\ \A i \in 1 .. n : i # n => stack'[i] = s[i]
    BY <1>2, <2>3, <2>4, TopChanges
  <2> QED
    BY <2>3, <2>5
<1> QED
  BY <1>1, <1>2

\* Results that have been cleared.
LEMMA ClearedResults ==
  /\ NoResults \in ResultMap /\ Own(NoResults)
  /\ \A s, n : Backed(NoResults, s, n)
<1>1. NoResults = [t \in TypeNames |-> NoOne]
  BY DEF NoResults, TypeNames
<1>2. \A t \in TypeNames : NoResults[t] = NoOne
  BY <1>1
<1> QED
  BY <1>1, <1>2 DEF ResultMap, Own, Backed

\* No evaluation in progress.
LEMMA NoFrames == <<>> \in Seq(BranchFrame) /\ Nested(<<>>) /\ Snapped(<<>>)
BY DEF Nested, Snapped

\* A step of the request phase that keeps the frames it leaves.
LEMMA FramesKept ==
  ASSUME EvalSound, pc = "request", pc' = pc,
         UNCHANGED <<held, before, upstream>>,
         stack' \in Seq(BranchFrame), Len(stack') <= Len(stack),
         \A i \in 1 .. Len(stack') :
           stack'[i].host = stack[i].host /\ stack'[i].snap = stack[i].snap,
         results' = NoResults \/ (results' = results /\ Len(stack') = Len(stack))
  PROVE  EvalSound'
<1>1. /\ stack \in Seq(BranchFrame) /\ results \in ResultMap /\ held \in ResultMap
      /\ Nested(stack) /\ Snapped(stack) /\ Own(held)
      /\ Backed(results, stack, Len(stack)) /\ SelectedBelow
  BY DEF EvalSound, EvalInv, EvalTypes
<1> DEFINE p == stack'
           s == stack
<1>2. /\ p \in Seq(BranchFrame) /\ s \in Seq(BranchFrame) /\ Len(p) <= Len(s)
      /\ \A i \in 1 .. Len(p) : p[i].host = s[i].host /\ p[i].snap = s[i].snap
      /\ Nested(s) /\ Snapped(s)
  BY <1>1
<1> HIDE DEF p, s
<1>3. /\ Nested(p) /\ Snapped(p)
      /\ Len(p) = Len(s) => \A r : Backed(r, s, Len(s)) => Backed(r, p, Len(p))
  BY <1>2, SameFrames
<1>4. Backed(results', p, Len(p))
  BY <1>1, <1>3, ClearedResults DEF p, s
<1>5. EvalTypes'
  BY <1>1, <1>2, ClearedResults DEF EvalTypes, p
<1>6. SelectedBelow'
  <2>1. SUFFICES ASSUME p # <<>>
                 PROVE  upstream' = before' \/ upstream'.by \in Under(p[1].host)
    BY DEF SelectedBelow, p
  <2>2. 1 \in 1 .. Len(p) /\ s # <<>>
    BY <1>2, <2>1
  <2>3. p[1].host = s[1].host
    BY <1>2, <2>2
  <2> QED
    BY <1>1, <2>2, <2>3 DEF SelectedBelow, s
<1>7. EvalInv'
  BY <1>1, <1>3, <1>4, <1>5 DEF EvalInv, p
<1> QED
  BY <1>6, <1>7 DEF EvalSound

\* The last frame of an evaluation.
LEMMA CurrentFrame ==
  ASSUME EvalSound, stack # <<>>
  PROVE  /\ Current = stack[Len(stack)] /\ Current \in BranchFrame
         /\ Len(stack) \in Nat /\ Len(stack) >= 1
<1>1. stack \in Seq(BranchFrame)
  BY DEF EvalSound, EvalInv, EvalTypes
<1>2. Current = stack[Len(stack)]
  BY DEF Current, Last
<1> QED
  BY <1>1, <1>2

\* Steps of the request phase that run no filter and fire no branch.
LEMMA WalkKeeps ==
  ASSUME EvalSound,
         \/ \E f \in Filters : SkipByConditions(f)
         \/ PassBranch \/ EndBranches \/ RejoinNext \/ RejoinSkipTo \/ RejoinReEnter
  PROVE  EvalSound'
<1>1. stack \in Seq(BranchFrame) /\ Len(stack) \in Nat
  BY DEF EvalSound, EvalInv, EvalTypes
<1>2. pc = "request" /\ pc' = pc /\ UNCHANGED <<held, before, upstream>>
  BY DEF SkipByConditions, Turn, PassBranch, EndBranches, RejoinNext, RejoinSkipTo,
      RejoinReEnter, ChainEnded, Evaluating
<1>3. ASSUME NEW s \in Seq(BranchFrame), Len(s) <= Len(stack), Advance(s),
             \A i \in 1 .. Len(s) : s[i] = stack[i],
             results' = NoResults \/ (results' = results /\ Len(s) = Len(stack))
      PROVE  EvalSound'
  <2>1. /\ stack' \in Seq(BranchFrame) /\ Len(stack') = Len(s)
        /\ \A i \in 1 .. Len(s) : stack'[i].host = s[i].host /\ stack'[i].snap = s[i].snap
    BY <1>3, AdvanceKeeps
  <2>2. \A i \in 1 .. Len(stack') :
          stack'[i].host = stack[i].host /\ stack'[i].snap = stack[i].snap
    BY <1>3, <2>1
  <2>3. Len(stack') <= Len(stack)
        /\ (results' = NoResults \/ (results' = results /\ Len(stack') = Len(stack)))
    BY <1>3, <2>1
  <2> QED
    BY <1>2, <2>1, <2>2, <2>3, FramesKept
<1>4. ASSUME stack # <<>>, Advance(Front(stack)), results' = NoResults PROVE EvalSound'
  <2>1. /\ Front(stack) \in Seq(BranchFrame) /\ Len(Front(stack)) = Len(stack) - 1
        /\ \A i \in 1 .. Len(Front(stack)) : Front(stack)[i] = stack[i]
    BY <1>1, <1>4, FrontOf
  <2>2. Len(Front(stack)) <= Len(stack)
    BY <1>1, <2>1
  <2> QED
    BY <1>3, <1>4, <2>1, <2>2
<1>5. ASSUME stack' = <<>>, results' = NoResults PROVE EvalSound'
  <2>1. /\ stack' \in Seq(BranchFrame) /\ Len(stack') = 0
    BY <1>5
  <2>2. Len(stack') <= Len(stack) /\ 1 .. Len(stack') = {}
    BY <1>1, <2>1
  <2> QED
    BY <1>2, <1>5, <2>1, <2>2, FramesKept
<1>6. ASSUME stack # <<>>, NEW x \in BranchFrame, x.host = Current.host, x.snap = Current.snap,
             stack' = [stack EXCEPT ![Len(stack)] = x], results' = results
      PROVE  EvalSound'
  <2>1. Current = stack[Len(stack)]
    BY <1>6, CurrentFrame
  <2>2. /\ stack' \in Seq(BranchFrame) /\ Len(stack') = Len(stack) /\ stack'[Len(stack)] = x
        /\ \A i \in 1 .. Len(stack) : i # Len(stack) => stack'[i] = stack[i]
    BY <1>1, <1>6, TopChanges
  <2>3. \A i \in 1 .. Len(stack') :
          stack'[i].host = stack[i].host /\ stack'[i].snap = stack[i].snap
    BY <1>6, <2>1, <2>2
  <2>4. Len(stack') <= Len(stack)
    BY <1>1, <2>2
  <2> QED
    BY <1>2, <1>6, <2>2, <2>3, <2>4, FramesKept
<1>7. ASSUME NEW f \in Filters, SkipByConditions(f) PROVE EvalSound'
  <2>1. Advance(stack) /\ results' = results
    BY <1>7 DEF SkipByConditions
  <2> QED
    BY <1>1, <1>3, <2>1
<1>8. CASE PassBranch
  <2>1. stack # <<>> /\ stack' = [stack EXCEPT ![Len(stack)].b = @ + 1] /\ results' = results
    BY <1>8 DEF PassBranch, Evaluating
  <2>2. Current = stack[Len(stack)] /\ Current \in BranchFrame /\ Current.b + 1 \in Nat
    BY <2>1, CurrentFrame, FrameFields
  <2> DEFINE x == [Current EXCEPT !.b = @ + 1]
  <2>3. x \in BranchFrame /\ x.host = Current.host /\ x.snap = Current.snap
    BY <2>2 DEF BranchFrame
  <2>4. stack' = [stack EXCEPT ![Len(stack)] = x]
    BY <1>1, <2>1, <2>2
  <2> QED
    BY <1>6, <2>1, <2>3, <2>4
<1>9. CASE EndBranches
  BY <1>4, <1>9 DEF EndBranches, Evaluating, ResultsCleared
<1>10. CASE RejoinNext
  <2>1. /\ stack # <<>> /\ results' = results
        /\ stack' = [stack EXCEPT ![Len(stack)].b = @ + 1, ![Len(stack)].k = 0]
    BY <1>10 DEF RejoinNext, ChainEnded
  <2>2. Current = stack[Len(stack)] /\ Current \in BranchFrame /\ Current.b + 1 \in Nat
    BY <2>1, CurrentFrame, FrameFields
  <2> DEFINE x == [Current EXCEPT !.b = @ + 1, !.k = 0]
  <2>3. x \in BranchFrame /\ x.host = Current.host /\ x.snap = Current.snap
    BY <2>2 DEF BranchFrame
  <2>4. stack' = [stack EXCEPT ![Len(stack)] = x]
    BY <1>1, <2>1, <2>2
  <2> QED
    BY <1>6, <2>1, <2>3, <2>4
<1>11. CASE RejoinSkipTo
  BY <1>4, <1>5, <1>11 DEF RejoinSkipTo, ChainEnded, ResultsCleared
<1>12. CASE RejoinReEnter
  BY <1>4, <1>5, <1>12 DEF RejoinReEnter, ChainEnded, ResultsCleared
<1> QED
  BY <1>7, <1>8, <1>9, <1>10, <1>11, <1>12

\* A branch that fires reads the results from then on as they are now.
LEMMA FireKeeps ==
  ASSUME EvalSound, FireBranch
  PROVE  EvalSound'
<1>1. /\ stack \in Seq(BranchFrame) /\ results \in ResultMap /\ held \in ResultMap
      /\ Nested(stack) /\ Snapped(stack) /\ Own(held) /\ SelectedBelow
  BY DEF EvalSound, EvalInv, EvalTypes
<1>2. /\ pc = "request" /\ pc' = pc /\ stack # <<>> /\ UNCHANGED <<results, held, before, upstream>>
      /\ stack' = [stack EXCEPT ![Len(stack)].k = 1,
                                ![Len(stack)].snap = IF @ = NoOne THEN results ELSE @]
  BY DEF FireBranch, Evaluating
<1>3. Backed(results, stack, Len(stack))
  BY <1>2 DEF EvalSound, EvalInv
<1>4. /\ Current = stack[Len(stack)] /\ Current \in BranchFrame
      /\ Len(stack) \in Nat /\ Len(stack) >= 1
  BY <1>2, CurrentFrame
<1> DEFINE s == stack
           n == Len(stack)
           v == IF Current.snap = NoOne THEN results ELSE Current.snap
           x == [host |-> Current.host, b |-> Current.b, k |-> 1, snap |-> v]
           p == stack'
<1>5. x \in BranchFrame /\ x.host = Current.host /\ x.snap = v
  BY <1>1, <1>4, FrameFields DEF BranchFrame
<1>6. p = [s EXCEPT ![n] = x]
  <2>1. Current = [host |-> Current.host, b |-> Current.b, k |-> Current.k, snap |-> Current.snap]
    BY <1>4 DEF BranchFrame
  <2> DEFINE w == [Current EXCEPT !.k = 1]
             z == [Current EXCEPT !.k = 1, !.snap = IF @ = NoOne THEN results ELSE @]
  <2>3. w = [host |-> Current.host, b |-> Current.b, k |-> 1, snap |-> Current.snap]
    BY <2>1
  <2>4. w.snap = Current.snap
    BY <2>3
  <2>5. z = [w EXCEPT !.snap = v]
    BY <2>4
  <2>2. z = x
    <3> HIDE DEF w, z, v
    <3> QED
      BY <2>3, <2>5
  <2> QED
    BY <1>1, <1>2, <1>4, <2>2
<1> HIDE DEF x
<1>7. /\ p \in Seq(BranchFrame) /\ Len(p) = n /\ p # <<>> /\ p[n] = x
      /\ \A i \in 1 .. n : i # n => p[i] = s[i]
  <2>1. s \in Seq(BranchFrame) /\ s # <<>> /\ x \in BranchFrame /\ p = [s EXCEPT ![Len(s)] = x]
        /\ n = Len(s)
    BY <1>1, <1>2, <1>5, <1>6
  <2> HIDE DEF p, s, n
  <2> QED
    BY ONLY <2>1, TopChanges
<1>8. \A i \in 1 .. n : p[i].host = s[i].host
  BY <1>4, <1>5, <1>7
<1> HIDE DEF p, s, n, v
<1>9. ASSUME NEW r, NEW m \in 0 .. n, Backed(r, s, m) PROVE Backed(r, p, m)
  <2>1. \A j \in 1 .. m : p[j].host = s[j].host
    BY <1>4, <1>8 DEF n
  <2> QED
    BY <1>9, <2>1 DEF Backed
<1>10. Nested(p)
  BY <1>1, <1>7, <1>8 DEF Nested, s, n
<1>11. Backed(results, p, n)
  BY <1>3, <1>4, <1>9 DEF s, n
<1>12. Snapped(p)
  <2> SUFFICES ASSUME NEW i \in 1 .. n, p[i].snap # NoOne PROVE Backed(p[i].snap, p, i)
    BY <1>7 DEF Snapped
  <2>1. i \in 0 .. n
    BY <1>4 DEF n
  <2>2. \A j \in 1 .. n : s[j].snap # NoOne => Backed(s[j].snap, s, j)
    BY <1>1 DEF Snapped, s, n
  <2>3. CASE i # n
    BY <1>7, <1>9, <2>1, <2>2, <2>3
  <2>4. CASE i = n
    <3>1. p[i].snap = v
      BY <1>5, <1>7, <2>4
    <3>2. CASE s[n].snap = NoOne
      BY <1>4, <1>11, <2>4, <3>1, <3>2 DEF v, s, n
    <3>3. CASE s[n].snap # NoOne
      <4>1. v = s[n].snap /\ Backed(s[n].snap, s, n)
        BY <1>4, <2>2, <2>4, <3>3 DEF v, s, n
      <4> QED
        BY <1>9, <2>1, <2>4, <3>1, <4>1
    <3> QED
      BY <3>2, <3>3
  <2> QED
    BY <2>3, <2>4
<1>13. EvalTypes'
  BY <1>1, <1>2, <1>7 DEF EvalTypes, p
<1>14. EvalInv'
  BY <1>1, <1>2, <1>7, <1>10, <1>11, <1>12, <1>13 DEF EvalInv, p
<1>15. SelectedBelow'
  <2>1. 1 \in 1 .. n
    BY <1>4 DEF n
  <2>2. p[1].host = s[1].host
    BY <1>8, <2>1
  <2> QED
    BY <1>1, <1>2, <2>2 DEF SelectedBelow, p, s
<1> QED
  BY <1>14, <1>15 DEF EvalSound

\* A filter whose turn comes in a chain lies under every host, and is none.
LEMMA TurnBelow ==
  ASSUME EvalSound, NEW f \in Filters, Turn(f), stack # <<>>
  PROVE  \A i \in 1 .. Len(stack) : f \in Under(stack[i].host) /\ f # stack[i].host
<1>1. /\ Current = stack[Len(stack)] /\ Current \in BranchFrame
      /\ Len(stack) \in Nat /\ Len(stack) >= 1
  BY CurrentFrame
<1>2. /\ stack \in Seq(BranchFrame) /\ Nested(stack)
  BY DEF EvalSound, EvalInv, EvalTypes
<1>3. f \in Below(Current.host)
  <2>1. /\ Current.b \in DOMAIN Branches[Current.host]
        /\ Current.k \in DOMAIN CurrentBranch.filters
        /\ f = CurrentBranch.filters[Current.k]
    BY DEF Turn
  <2>2. f \in ToSet(Branches[Current.host][Current.b].filters)
    BY <2>1 DEF ToSet, CurrentBranch
  <2> QED
    BY <2>1, <2>2 DEF Below
<1>4. \A i \in 1 .. Len(stack) : stack[i].host \in Filters
  BY <1>2, FrameFields
<1> SUFFICES ASSUME NEW i \in 1 .. Len(stack)
             PROVE  f \in Under(stack[i].host) /\ f # stack[i].host
  OBVIOUS
<1>5. f \in Under(stack[i].host)
  <2>1. CASE i = Len(stack)
    BY <1>1, <1>3, <1>4, <2>1, UnderRules
  <2>2. CASE i # Len(stack)
    <3>1. i < Len(stack) /\ Len(stack) \in 1 .. Len(stack)
      BY <1>1, <2>2
    <3>2. Current.host \in Under(stack[i].host)
      BY <1>1, <1>2, <3>1 DEF Nested
    <3> QED
      BY <1>3, <1>4, <3>2, UnderRules
  <2> QED
    BY <2>1, <2>2
<1>6. stack[i].host \notin Under(stack[i].host)
  BY <1>4, UnderRules
<1> QED
  BY <1>5, <1>6

\* Results handed back keep their type.
LEMMA HandedTypes ==
  ASSUME EvalSound, NEW f \in Filters
  PROVE  HandedBack(f) \in ResultMap
<1> DEFINE D == {NoOne} \cup [by : Filters, stale : BOOLEAN]
<1>1. results \in [TypeNames -> D] /\ held \in [TypeNames -> D] /\ TypeName[f] \in TypeNames
  BY DEF EvalSound, EvalInv, EvalTypes, ResultMap, TypeNames
<1>2. \A t \in TypeNames : results[t] # NoOne => [results[t] EXCEPT !.stale = TRUE] \in D
  <2> SUFFICES ASSUME NEW t \in TypeNames, results[t] # NoOne
               PROVE  [results[t] EXCEPT !.stale = TRUE] \in D
    OBVIOUS
  <2>1. results[t] \in [by : Filters, stale : BOOLEAN]
    BY <1>1
  <2>2. PICK x \in [by : Filters, stale : BOOLEAN] : x = results[t]
    BY <2>1
  <2>3. [x EXCEPT !.stale = TRUE] \in [by : Filters, stale : BOOLEAN]
    BY ZenonT(60)
  <2> QED
    BY <2>2, <2>3
<1>3. CASE stack = <<>> /\ held[TypeName[f]] # NoOne
  <2>1. HandedBack(f) = [results EXCEPT ![TypeName[f]] = held[TypeName[f]]]
    BY <1>3 DEF HandedBack
  <2> HIDE DEF D
  <2>2. HandedBack(f) \in [TypeNames -> D]
    BY <1>1, <2>1
  <2> QED
    BY <2>2 DEF ResultMap, D
<1>4. CASE ~(stack = <<>> /\ held[TypeName[f]] # NoOne)
  <2>1. HandedBack(f) =
          [t \in TypeNames |->
             IF results[t] # NoOne /\ results[t].by = f
             THEN [results[t] EXCEPT !.stale = TRUE] ELSE results[t]]
    BY <1>1, <1>4 DEF HandedBack
  <2> HIDE DEF D
  <2>2. HandedBack(f) \in [TypeNames -> D]
    BY <1>1, <1>2, <2>1
  <2> QED
    BY <2>2 DEF ResultMap, D
<1> QED
  BY <1>3, <1>4

\* When f's turn comes, what is handed back is f's own, and the other results
\* are still those of the hosts: f is none of them, so none of them is stale.
LEMMA HandedOwn ==
  ASSUME EvalSound, NEW f \in Filters, Turn(f), DistinctTypes,
         NEW t \in TypeNames, HandedBack(f)[t] # NoOne
  PROVE  \/ TypeName[f] = t /\ HandedBack(f)[t] = Fresh(f)
         \/ \E j \in 1 .. Len(stack) :
              TypeName[stack[j].host] = t /\ HandedBack(f)[t] = Fresh(stack[j].host)
<1>1. /\ stack \in Seq(BranchFrame) /\ results \in ResultMap /\ held \in ResultMap
      /\ Own(held) /\ pc = "request" /\ Backed(results, stack, Len(stack))
  BY DEF EvalSound, EvalInv, EvalTypes, Turn
<1>2. \A u \in TypeNames : results[u] # NoOne =>
        \E j \in 1 .. Len(stack) :
          TypeName[stack[j].host] = u /\ results[u] = Fresh(stack[j].host)
  BY <1>1 DEF Backed
<1>3. DOMAIN results = TypeNames /\ TypeName[f] \in TypeNames
  BY <1>1 DEF ResultMap, TypeNames
<1>4. \A j \in 1 .. Len(stack) : f # stack[j].host
  <2>1. CASE stack = <<>>
    BY <2>1
  <2>2. CASE stack # <<>>
    BY <2>2, TurnBelow
  <2> QED
    BY <2>1, <2>2
<1>5. \A u \in TypeNames : results[u] # NoOne => results[u].by # f
  <2>1. \A g : Fresh(g).by = g
    BY DEF Fresh
  <2> QED
    BY <1>2, <1>4, <2>1
<1>6. HandedBack(f)[t] = results[t] \/
        (t = TypeName[f] /\ held[t] # NoOne /\ HandedBack(f)[t] = held[t])
  <2>1. CASE stack = <<>> /\ held[TypeName[f]] # NoOne
    <3>1. HandedBack(f) = [results EXCEPT ![TypeName[f]] = held[TypeName[f]]]
      BY <2>1 DEF HandedBack
    <3> QED
      BY <1>3, <2>1, <3>1
  <2>2. CASE ~(stack = <<>> /\ held[TypeName[f]] # NoOne)
    <3>1. HandedBack(f) =
            [u \in TypeNames |->
               IF results[u] # NoOne /\ results[u].by = f
               THEN [results[u] EXCEPT !.stale = TRUE] ELSE results[u]]
      BY <1>3, <2>2 DEF HandedBack
    <3> QED
      BY <1>5, <3>1
  <2> QED
    BY <2>1, <2>2
<1>7. CASE HandedBack(f)[t] = results[t]
  BY <1>2, <1>7
<1>8. CASE t = TypeName[f] /\ held[t] # NoOne /\ HandedBack(f)[t] = held[t]
  <2>1. PICK g \in Filters : TypeName[g] = t /\ held[t] = Fresh(g)
    BY <1>1, <1>8 DEF Own
  <2>2. g = f
    BY <1>8, <2>1 DEF DistinctTypes
  <2> QED
    BY <1>8, <2>1, <2>2
<1> QED
  BY <1>6, <1>7, <1>8

\* A held result that is handed back leaves the others held.
LEMMA HeldRuns ==
  ASSUME EvalSound, NEW f \in Filters, held' \in {held, [held EXCEPT ![TypeName[f]] = NoOne]}
  PROVE  held' \in ResultMap /\ Own(held')
<1> DEFINE D == {NoOne} \cup [by : Filters, stale : BOOLEAN]
<1>1. held \in [TypeNames -> D] /\ NoOne \in D /\ TypeName[f] \in TypeNames /\ Own(held)
  BY DEF EvalSound, EvalInv, EvalTypes, ResultMap, TypeNames
<1> HIDE DEF D
<1>2. held' \in [TypeNames -> D]
  BY <1>1
<1>3. \A t \in TypeNames : held'[t] # NoOne => held'[t] = held[t]
  BY <1>1
<1>4. Own(held')
  BY <1>1, <1>3 DEF Own
<1> QED
  BY <1>2, <1>4 DEF ResultMap, D

\* A filter runs: its own evaluation begins above those it is part of, or the
\* request phase ends.
LEMMA RunKeeps ==
  ASSUME EvalSound, NEW f \in Filters, NEW action, NEW publish \in BOOLEAN,
         NEW select, RunFilter(f, action, publish, select)
  PROVE  EvalSound'
<1>1. /\ stack \in Seq(BranchFrame) /\ results \in ResultMap /\ held \in ResultMap
      /\ Nested(stack) /\ Snapped(stack) /\ Own(held) /\ SelectedBelow
  BY DEF EvalSound, EvalInv, EvalTypes
<1>2. /\ Turn(f) /\ pc = "request"
      /\ results' = IF publish THEN [HandedBack(f) EXCEPT ![TypeName[f]] = Fresh(f)]
                               ELSE HandedBack(f)
      /\ held' = IF stack = <<>> THEN [held EXCEPT ![TypeName[f]] = NoOne] ELSE held
      /\ upstream' = IF select = NoOne THEN upstream ELSE [by |-> f, address |-> select]
      /\ before' = IF stack = <<>> THEN upstream' ELSE before
      /\ IF Passes(f, action) THEN pc' = pc /\ stack' = Append(stack, Frame(f))
         ELSE pc' \in {"answer", "logging"} /\ stack' = <<>>
  BY DEF RunFilter, Turn, Fresh
<1>3. held' \in ResultMap /\ Own(held')
  BY <1>2, HeldRuns
<1>4. HandedBack(f) \in ResultMap
  BY HandedTypes
<1>5. results' \in ResultMap
  <2> DEFINE D == {NoOne} \cup [by : Filters, stale : BOOLEAN]
  <2>1. Fresh(f) \in [by : Filters, stale : BOOLEAN]
    BY DEF Fresh
  <2>2. HandedBack(f) \in [TypeNames -> D] /\ Fresh(f) \in D
    BY <1>4, <2>1 DEF ResultMap
  <2> HIDE DEF D
  <2>3. results' \in [TypeNames -> D]
    BY <1>2, <2>2
  <2> QED
    BY <2>3 DEF ResultMap, D
<1>6. CASE ~Passes(f, action)
  <2>1. pc' # "request" /\ pc' # "preread" /\ stack' = <<>>
    BY <1>2, <1>6
  <2>2. EvalTypes' /\ Nested(stack') /\ Snapped(stack')
    BY <1>3, <1>5, <2>1, NoFrames DEF EvalTypes
  <2> QED
    BY <1>3, <2>1, <2>2 DEF EvalSound, EvalInv, SelectedBelow
<1>7. CASE Passes(f, action)
  <2> DEFINE s == stack
             n == Len(stack)
             p == stack'
  <2>1. pc' = "request" /\ p = Append(s, Frame(f))
    BY <1>2, <1>7
  <2>2. Frame(f) \in BranchFrame /\ Frame(f).host = f /\ Frame(f).snap = NoOne
    BY DEF Frame, BranchFrame
  <2>3. n \in Nat
    BY <1>1
  <2>4. /\ p \in Seq(BranchFrame) /\ Len(p) = n + 1 /\ p[n + 1] = Frame(f)
        /\ \A i \in 1 .. n : p[i] = s[i]
    <3>1. s \in Seq(BranchFrame) /\ n = Len(s)
      BY <1>1
    <3> HIDE DEF p, s, n
    <3> QED
      BY <2>1, <2>2, <2>3, <3>1
  <2>5. \A i \in 1 .. n : f \in Under(s[i].host)
    <3>1. CASE stack = <<>>
      BY <3>1
    <3>2. CASE stack # <<>>
      BY <1>2, <3>2, TurnBelow
    <3> QED
      BY <3>1, <3>2
  <2> HIDE DEF p, s, n
  <2>6. Nested(p)
    <3> SUFFICES ASSUME NEW i \in 1 .. n + 1, NEW j \in 1 .. n + 1, i < j
                 PROVE  p[j].host \in Under(p[i].host)
      BY <2>4 DEF Nested
    <3>1. i \in 1 .. n
      BY <2>3
    <3>2. CASE j = n + 1
      BY <2>2, <2>4, <2>5, <3>1, <3>2
    <3>3. CASE j # n + 1
      <4>1. j \in 1 .. n
        BY <2>3, <3>3
      <4> QED
        BY <1>1, <2>4, <3>1, <4>1 DEF Nested, s, n
    <3> QED
      BY <3>2, <3>3
  <2>7. ASSUME NEW r, NEW m \in 0 .. n, Backed(r, s, m) PROVE Backed(r, p, m)
    <3>1. \A j \in 1 .. m : p[j] = s[j]
      BY <2>3, <2>4
    <3> QED
      BY <2>7, <3>1 DEF Backed
  <2>8. Snapped(p)
    <3> SUFFICES ASSUME NEW i \in 1 .. n + 1, p[i].snap # NoOne PROVE Backed(p[i].snap, p, i)
      BY <2>4 DEF Snapped
    <3>1. i # n + 1
      BY <2>2, <2>4
    <3>2. i \in 1 .. n /\ i \in 0 .. n
      BY <2>3, <3>1
    <3>3. Backed(s[i].snap, s, i) /\ p[i] = s[i]
      BY <1>1, <2>4, <3>2 DEF Snapped, s, n
    <3> QED
      BY <2>7, <3>2, <3>3
  <2>9. Backed(results', p, n + 1)
    <3> SUFFICES ASSUME DistinctTypes, NEW t \in TypeNames, results'[t] # NoOne
                 PROVE  \E j \in 1 .. n + 1 :
                          TypeName[p[j].host] = t /\ results'[t] = Fresh(p[j].host)
      BY DEF Backed
    <3>1. TypeName[f] \in TypeNames /\ DOMAIN HandedBack(f) = TypeNames
      BY <1>4 DEF TypeNames, ResultMap
    <3>2. CASE t = TypeName[f] /\ results'[t] = Fresh(f)
      <4>1. n + 1 \in 1 .. n + 1
        BY <2>3
      <4> QED
        BY <2>2, <2>4, <3>2, <4>1
    <3>3. CASE ~(t = TypeName[f] /\ results'[t] = Fresh(f))
      <4>1. results'[t] = HandedBack(f)[t]
        BY <1>2, <3>1, <3>3
      <4>2. PICK j \in 1 .. n : TypeName[s[j].host] = t /\ results'[t] = Fresh(s[j].host)
        BY <1>2, <3>3, <4>1, HandedOwn DEF s, n
      <4>3. j \in 1 .. n + 1 /\ p[j] = s[j]
        BY <2>3, <2>4
      <4> QED
        BY <4>2, <4>3
    <3> QED
      BY <3>2, <3>3
  <2>10. SelectedBelow'
    <3> SUFFICES upstream' = before' \/ upstream'.by \in Under(p[1].host)
      BY DEF SelectedBelow, p
    <3>1. CASE stack = <<>>
      BY <1>2, <3>1
    <3>2. CASE stack # <<>>
      <4>1. 1 \in 1 .. n
        BY <1>1, <3>2 DEF n
      <4>2. p[1] = s[1] /\ f \in Under(s[1].host)
        BY <2>4, <2>5, <4>1
      <4> QED
        BY <1>1, <1>2, <3>2, <4>2 DEF SelectedBelow, s
    <3> QED
      BY <3>1, <3>2
  <2>11. EvalTypes'
    BY <1>3, <1>5, <2>4 DEF EvalTypes, p
  <2>12. EvalInv'
    BY <1>3, <2>1, <2>4, <2>6, <2>8, <2>9, <2>11 DEF EvalInv, p
  <2> QED
    BY <2>10, <2>12 DEF EvalSound
<1> QED
  BY <1>6, <1>7

\* Results the pre-read's hooks publish are their own.
LEMMA PreReadKeeps ==
  ASSUME EvalSound, NEW stop, NEW skip, NEW finished, NEW published \in SUBSET BodyFilters,
         PreRead(skip, stop, finished, published)
  PROVE  EvalSound'
<1> DEFINE D == {NoOne} \cup [by : Filters, stale : BOOLEAN]
<1>1. /\ stack = <<>> /\ results \in [TypeNames -> D] /\ held \in ResultMap
      /\ Own(held) /\ Own(results)
  BY DEF EvalSound, EvalInv, EvalTypes, ResultMap, PreRead
<1>2. /\ stack' = <<>> /\ held' = held /\ pc' # "request"
      /\ results' = [t \in TypeNames |->
           IF \E f \in published : TypeName[f] = t
           THEN Fresh(CHOOSE f \in published : TypeName[f] = t)
           ELSE results[t]]
  BY <1>1 DEF PreRead, Fresh
<1>3. published \subseteq Filters
  BY BuildChecks DEF WellBuilt
<1>4. ASSUME NEW t \in TypeNames
      PROVE  results'[t] = results[t] \/
               \E f \in Filters : TypeName[f] = t /\ results'[t] = Fresh(f)
  <2>1. CASE \E f \in published : TypeName[f] = t
    <3> DEFINE g == CHOOSE f \in published : TypeName[f] = t
    <3>1. g \in published /\ TypeName[g] = t
      BY <2>1
    <3>2. results'[t] = Fresh(g)
      BY <1>2, <2>1
    <3> QED
      BY <1>3, <3>1, <3>2
  <2>2. CASE ~\E f \in published : TypeName[f] = t
    BY <1>2, <2>2
  <2> QED
    BY <2>1, <2>2
<1>5. results' \in ResultMap
  <2>1. \A f \in Filters : Fresh(f) \in D
    BY DEF Fresh
  <2> HIDE DEF D
  <2>2. \A t \in TypeNames : results'[t] \in D
    BY <1>1, <1>4, <2>1
  <2>3. results' \in [TypeNames -> D]
    BY <1>2, <2>2
  <2> QED
    BY <2>3 DEF ResultMap, D
<1>6. Own(results')
  BY <1>1, <1>4 DEF Own
<1>7. EvalTypes' /\ Nested(stack') /\ Snapped(stack')
  BY <1>1, <1>2, <1>5, NoFrames DEF EvalTypes
<1> QED
  BY <1>1, <1>2, <1>6, <1>7 DEF EvalSound, EvalInv, SelectedBelow

\* The request phase takes over what the pre-read left.
LEMMA BeginKeeps == EvalSound /\ BeginRequest => EvalSound'
<1> SUFFICES ASSUME EvalSound, BeginRequest PROVE EvalSound'
  OBVIOUS
<1>1. stack = <<>> /\ results \in ResultMap /\ Own(results)
  BY DEF EvalSound, EvalInv, EvalTypes, BeginRequest
<1>2. stack' = <<>> /\ held' = results /\ results' = NoResults /\ pc' = "request"
  BY <1>1 DEF BeginRequest
<1>3. Backed(results', stack', Len(stack')) /\ EvalTypes' /\ Nested(stack') /\ Snapped(stack')
  BY <1>1, <1>2, NoFrames, ClearedResults DEF EvalTypes
<1> QED
  BY <1>1, <1>2, <1>3 DEF EvalSound, EvalInv, SelectedBelow

\* A step that leaves the request phase, or takes place after it.
LEMMA QuietKeeps ==
  ASSUME EvalSound, stack' \in {stack, <<>>}, UNCHANGED <<results, held, before, upstream>>,
         (UNCHANGED <<pc, stack>>) \/ pc' \notin {"preread", "request"}
  PROVE  EvalSound'
<1>1. EvalTypes' /\ Nested(stack') /\ Snapped(stack') /\ Own(held')
  BY NoFrames DEF EvalSound, EvalInv, EvalTypes
<1>2. SelectedBelow'
  BY DEF EvalSound, SelectedBelow
<1>3. CASE pc' \notin {"preread", "request"}
  BY <1>1, <1>2, <1>3 DEF EvalSound, EvalInv
<1>4. CASE UNCHANGED <<pc, stack>>
  BY <1>1, <1>2, <1>4 DEF EvalSound, EvalInv
<1> QED
  BY <1>3, <1>4

\* Every step of a request keeps the evaluation sound.
LEMMA EvalNext == EvalSound /\ [Next]_vars => EvalSound'
<1> SUFFICES ASSUME EvalSound, [Next]_vars PROVE EvalSound'
  OBVIOUS
<1>1. ASSUME NEW stop \in BodyFilters \cup {NoOne}, NEW skip \in SUBSET BodyFilters,
             NEW finished \in SUBSET BodyFilters, NEW published \in SUBSET BodyFilters,
             PreRead(skip, stop, finished, published)
      PROVE  EvalSound'
  BY <1>1, PreReadKeeps
<1>2. CASE BeginRequest
  BY <1>2, BeginKeeps
<1>3. CASE RequestStep
  <2>1. CASE \/ \E f \in Filters : SkipByConditions(f)
             \/ PassBranch \/ EndBranches \/ RejoinNext \/ RejoinSkipTo \/ RejoinReEnter
    BY <2>1, WalkKeeps
  <2>2. ASSUME NEW f \in Filters, NEW action \in {"continue", "reject", "terminal", "error"},
               NEW publish \in BOOLEAN, NEW select \in Addresses \cup {NoOne},
               RunFilter(f, action, publish, select)
        PROVE  EvalSound'
    BY <2>2, RunKeeps
  <2>3. CASE FireBranch
    BY <2>3, FireKeeps
  <2>4. CASE RejoinTerminal
    <3>1. /\ stack' = <<>> /\ UNCHANGED <<results, held, before, upstream>>
          /\ pc' \notin {"preread", "request"}
      BY <2>4 DEF RejoinTerminal
    <3> QED
      BY <3>1, QuietKeeps
  <2>5. CASE EndRequest
    <3>1. /\ stack' = stack /\ UNCHANGED <<results, held, before, upstream>>
          /\ pc' \notin {"preread", "request"}
      BY <2>5 DEF EndRequest, machine
    <3> QED
      BY <3>1, QuietKeeps
  <2> QED
    BY <1>3, <2>1, <2>2, <2>3, <2>4, <2>5 DEF RequestStep
<1>4. ASSUME UNCHANGED <<machine, upstream>>, pc' = pc \/ pc' \notin {"preread", "request"}
      PROVE  EvalSound'
  <2>1. UNCHANGED <<stack, results, held, before, upstream>>
    BY <1>4 DEF machine
  <2> QED
    BY <1>4, <2>1, QuietKeeps
<1>5. ASSUME NEW n \in 0 .. Len(UnwindOrder), NEW skip \in SUBSET ResponseConditioned,
             \/ Answer(n, skip) \/ LoggingCleanup(n)
             \/ \E interim \in BOOLEAN : UpstreamResponse(n, skip, interim)
      PROVE  EvalSound'
  BY <1>4, <1>5 DEF Answer, LoggingCleanup, UpstreamResponse
<1>6. CASE UpstreamFailure \/ Delivered \/ Finished \/ UNCHANGED vars
  BY <1>4, <1>6 DEF UpstreamFailure, Delivered, Finished, vars
<1>7. ASSUME NEW stop \in BodyFilters \cup {NoOne}, NEW finished \in SUBSET BodyFilters,
             \/ StreamChunk(stop, finished)
             \/ \E skip \in SUBSET BodyFilters : ResponseChunk(skip, stop, finished)
      PROVE  EvalSound'
  BY <1>4, <1>7 DEF StreamChunk, ResponseChunk
<1> QED
  BY <1>1, <1>2, <1>3, <1>5, <1>6, <1>7 DEF Next

\* A request begins with no evaluation and no results.
LEMMA EvalInit == Init => EvalSound
<1> SUFFICES ASSUME Init PROVE EvalSound
  OBVIOUS
<1>1. stack = <<>> /\ results = NoResults /\ held = NoResults
  BY DEF Init
<1>2. EvalTypes /\ Nested(stack) /\ Snapped(stack)
  BY <1>1, NoFrames, ClearedResults DEF EvalTypes
<1> QED
  BY <1>1, <1>2, ClearedResults DEF EvalSound, EvalInv, SelectedBelow

\* The evaluation of branches is sound throughout a request.
LEMMA EvalInvariant == Spec => []EvalSound
<1> QED
  BY EvalInit, EvalNext, PTL DEF Spec

\* A terminal rejoin forwards a request only to an upstream that was selected
\* in the branches of the host it rejoins from, however deep, and whatever was
\* selected before (branch_selected_upstream, map_nested_outcome).
THEOREM TerminalCorrect == Spec => TerminalFailsClosed
<1>1. ASSUME EvalSound, RejoinTerminal, pc' = "open"
      PROVE  upstream.by \in Subtree[Current.host] \ {Current.host}
  <2>1. stack # <<>> /\ Len(stack) = 1 /\ upstream # before
    BY <1>1 DEF RejoinTerminal, ChainEnded, BranchSelectedUpstream
  <2>2. Current = stack[1] /\ Current \in BranchFrame
    BY <1>1, <2>1, CurrentFrame
  <2>3. upstream.by \in Under(Current.host)
    BY <1>1, <2>1, <2>2 DEF EvalSound, SelectedBelow
  <2>4. Current.host \in Filters
    BY <2>2, FrameFields
  <2> QED
    BY <2>3, <2>4, UnderRules
<1>2. EvalSound /\ [Next]_vars =>
        [(RejoinTerminal /\ pc' = "open") =>
           upstream.by \in Subtree[Current.host] \ {Current.host}]_vars
  BY <1>1
<1> QED
  BY <1>2, EvalInvariant, PTL DEF Spec, TerminalFailsClosed

\* In a pipeline no two filters of which share a type name, a branch that is
\* conditioned on a result fires only on what its host published when it last
\* ran, through nesting, re-entrance, siblings and the results handed back
\* from the pre-read (should_branch_fire).
THEOREM FiresCorrect == DistinctTypes /\ Spec => FiresOnOwnResult
<1>1. ASSUME DistinctTypes, EvalSound, FireBranch, CurrentBranch.cond = "is"
      PROVE  HostResult = [by |-> Current.host, stale |-> FALSE]
  <2> DEFINE T == TypeName[Current.host]
             r == IF Current.snap = NoOne THEN results ELSE Current.snap
  <2>1. stack # <<>> /\ pc = "request" /\ r[T] # NoOne /\ HostResult = r[T]
    BY <1>1 DEF FireBranch, Evaluating, ShouldFire, HostResult
  <2>2. /\ Current = stack[Len(stack)] /\ Current \in BranchFrame
        /\ Len(stack) \in Nat /\ Len(stack) >= 1
    BY <1>1, <2>1, CurrentFrame
  <2>3. Current.host \in Filters /\ T \in TypeNames
    BY <2>2, FrameFields DEF TypeNames
  <2>4. Backed(results, stack, Len(stack)) /\ Snapped(stack) /\ stack \in Seq(BranchFrame)
    BY <1>1, <2>1 DEF EvalSound, EvalInv, EvalTypes
  <2>5. Backed(r, stack, Len(stack))
    BY <2>2, <2>4 DEF Snapped
  <2> HIDE DEF r, T
  <2>6. PICK j \in 1 .. Len(stack) : TypeName[stack[j].host] = T /\ r[T] = Fresh(stack[j].host)
    BY <1>1, <2>1, <2>3, <2>5 DEF Backed
  <2>7. stack[j].host \in Filters
    BY <2>4, FrameFields
  <2>8. stack[j].host = Current.host
    BY <1>1, <2>3, <2>6, <2>7 DEF DistinctTypes, T
  <2> QED
    BY <2>1, <2>6, <2>8 DEF Fresh
<1>2. DistinctTypes /\ EvalSound /\ [Next]_vars =>
        [(FireBranch /\ CurrentBranch.cond = "is") =>
           HostResult = [by |-> Current.host, stale |-> FALSE]]_vars
  BY <1>1
<1> SUFFICES ASSUME DistinctTypes PROVE Spec => FiresOnOwnResult
  OBVIOUS
<1>3. EvalSound /\ [Next]_vars =>
        [(FireBranch /\ CurrentBranch.cond = "is") =>
           HostResult = [by |-> Current.host, stale |-> FALSE]]_vars
  BY <1>2
<1> QED
  BY <1>3, EvalInvariant, PTL DEF Spec, FiresOnOwnResult

\* A sequence without its n-th element, and then another at its end.
LEMMA RemovedAt ==
  ASSUME NEW S, NEW s \in Seq(S), NEW n \in 1 .. Len(s)
  PROVE  /\ RemoveAt(s, n) \in Seq(S)
         /\ ToSet(RemoveAt(s, n)) = {s[i] : i \in 1 .. Len(s) \ {n}}
<1> DEFINE a == SubSeq(s, 1, n - 1)
           b == SubSeq(s, n + 1, Len(s))
           r == a \o b
<1>1. PICK l \in Nat : l = Len(s) /\ \A i \in 1 .. l : s[i] \in S
  OBVIOUS
<1>2. n \in Nat /\ 1 <= n /\ n <= l
  BY <1>1
<1>3. a \in Seq(S) /\ Len(a) = n - 1 /\ \A i \in 1 .. n - 1 : a[i] = s[i]
  <2>1. n - 1 \in Int /\ 1 \in Int /\ \A i \in 1 .. (n - 1) : s[i] \in S
    BY <1>1, <1>2
  <2>2. /\ a \in Seq(S) /\ Len(a) = IF 1 <= n - 1 THEN (n - 1) - 1 + 1 ELSE 0
        /\ \A i \in 1 .. (n - 1) - 1 + 1 : a[i] = s[1 + i - 1]
    BY <2>1, SubSeqProperties
  <2>3. \A i \in 1 .. n - 1 : 1 + i - 1 = i /\ i \in 1 .. (n - 1) - 1 + 1
    BY <1>2
  <2>4. Len(a) = n - 1
    BY <1>2, <2>2
  <2> QED
    BY <2>2, <2>3, <2>4
<1>4. b \in Seq(S) /\ Len(b) = l - n /\ \A i \in 1 .. l - n : b[i] = s[n + i]
  <2>1. n + 1 \in Int /\ l \in Int /\ \A i \in (n + 1) .. l : s[i] \in S
    BY <1>1, <1>2
  <2>2. /\ b \in Seq(S) /\ Len(b) = IF n + 1 <= l THEN l - (n + 1) + 1 ELSE 0
        /\ \A i \in 1 .. l - (n + 1) + 1 : b[i] = s[n + 1 + i - 1]
    BY <1>1, <2>1, SubSeqProperties
  <2>3. \A i \in 1 .. l - n : n + 1 + i - 1 = n + i /\ i \in 1 .. l - (n + 1) + 1
    BY <1>2
  <2>4. Len(b) = l - n
    BY <1>2, <2>2
  <2> QED
    BY <2>2, <2>3, <2>4
<1> HIDE DEF a, b
<1>5. /\ r \in Seq(S) /\ Len(r) = l - 1
      /\ \A i \in 1 .. l - 1 : r[i] = IF i <= n - 1 THEN a[i] ELSE b[i - (n - 1)]
  <2>1. /\ r \in Seq(S) /\ Len(r) = Len(a) + Len(b)
        /\ \A i \in 1 .. Len(a) + Len(b) : r[i] = IF i <= Len(a) THEN a[i] ELSE b[i - Len(a)]
    BY ONLY <1>3, <1>4, ConcatProperties DEF r
  <2>2. Len(a) + Len(b) = l - 1
    BY <1>2, <1>3, <1>4
  <2> QED
    BY <1>3, <2>1, <2>2
<1> HIDE DEF r
<1>6. \A i \in 1 .. l - 1 : \E j \in 1 .. l : j # n /\ r[i] = s[j]
  <2> SUFFICES ASSUME NEW i \in 1 .. l - 1 PROVE \E j \in 1 .. l : j # n /\ r[i] = s[j]
    OBVIOUS
  <2>1. CASE i <= n - 1
    <3>1. i \in 1 .. n - 1 /\ i \in 1 .. l /\ i # n
      BY <1>2, <2>1
    <3> QED
      BY <1>3, <1>5, <2>1, <3>1
  <2>2. CASE ~(i <= n - 1)
    <3>1. i - (n - 1) \in 1 .. l - n /\ n + (i - (n - 1)) = i + 1 /\ i + 1 \in 1 .. l /\ i + 1 # n
      BY <1>2, <2>2
    <3>2. r[i] = s[i + 1]
      BY <1>4, <1>5, <2>2, <3>1
    <3> QED
      BY <3>1, <3>2
  <2> QED
    BY <2>1, <2>2
<1>7. \A j \in 1 .. l : j # n => \E i \in 1 .. l - 1 : r[i] = s[j]
  <2> SUFFICES ASSUME NEW j \in 1 .. l, j # n PROVE \E i \in 1 .. l - 1 : r[i] = s[j]
    OBVIOUS
  <2>1. CASE j < n
    <3>1. j \in 1 .. n - 1 /\ j \in 1 .. l - 1 /\ j <= n - 1
      BY <1>2, <2>1
    <3> QED
      BY <1>3, <1>5, <3>1
  <2>2. CASE ~(j < n)
    <3> DEFINE i == j - 1
    <3>1. /\ i \in 1 .. l - 1 /\ ~(i <= n - 1) /\ i - (n - 1) \in 1 .. l - n
          /\ n + (i - (n - 1)) = j
      BY <1>2, <2>2
    <3> HIDE DEF i
    <3> QED
      BY <1>4, <1>5, <3>1
  <2> QED
    BY <2>1, <2>2
<1>8. RemoveAt(s, n) = r
  BY DEF RemoveAt, a, b, r
<1>9. ToSet(r) = {r[i] : i \in 1 .. l - 1}
  BY <1>5 DEF ToSet
<1>10. {r[i] : i \in 1 .. l - 1} = {s[i] : i \in 1 .. l \ {n}}
  <2> DEFINE J == 1 .. l \ {n}
  <2>1. \A i \in 1 .. l - 1 : \E j \in J : r[i] = s[j]
    BY <1>6
  <2>2. \A j \in J : \E i \in 1 .. l - 1 : r[i] = s[j]
    BY <1>7
  <2> HIDE DEF J
  <2>3. ASSUME NEW e PROVE e \in {r[i] : i \in 1 .. l - 1} <=> e \in {s[j] : j \in J}
    <3> DEFINE I == 1 .. l - 1
    <3>1. /\ \A i \in I : \E j \in J : r[i] = s[j]
          /\ \A j \in J : \E i \in I : r[i] = s[j]
      BY <2>1, <2>2
    <3> HIDE DEF I
    <3>2. e \in {r[i] : i \in I} => e \in {s[j] : j \in J}
      BY ONLY <3>1
    <3>3. e \in {s[j] : j \in J} => e \in {r[i] : i \in I}
      BY ONLY <3>1
    <3> QED
      BY <3>2, <3>3 DEF I
  <2>4. {r[i] : i \in 1 .. l - 1} = {s[j] : j \in J}
    BY <2>3, Zenon
  <2> QED
    BY <2>4 DEF J
<1> QED
  BY <1>1, <1>5, <1>8, <1>9, <1>10

\* The filters that ran, once f has.
LEMMA RanSet ==
  ASSUME ran \in Seq(Filters), NEW f \in Filters
  PROVE  RanLast(f) \in Seq(Filters) /\ ToSet(RanLast(f)) = ToSet(ran) \cup {f}
<1> DEFINE earlier == {i \in DOMAIN ran : ran[i] = f}
           n == CHOOSE i \in earlier : TRUE
           s == IF earlier = {} THEN ran ELSE RemoveAt(ran, n)
<1>1. RanLast(f) = Append(s, f)
  BY DEF RanLast
<1>2. DOMAIN ran = 1 .. Len(ran) /\ Len(ran) \in Nat
  OBVIOUS
<1>3. s \in Seq(Filters) /\ ToSet(s) \cup {f} = ToSet(ran) \cup {f}
  <2>1. CASE earlier = {}
    BY <2>1
  <2>2. CASE earlier # {}
    <3>1. n \in 1 .. Len(ran) /\ ran[n] = f
      BY <1>2, <2>2
    <3> HIDE DEF n
    <3>2. /\ RemoveAt(ran, n) \in Seq(Filters)
          /\ ToSet(RemoveAt(ran, n)) = {ran[i] : i \in 1 .. Len(ran) \ {n}}
      BY <3>1, RemovedAt
    <3>3. ToSet(ran) = {ran[i] : i \in 1 .. Len(ran)}
      BY <1>2 DEF ToSet
    <3>4. s = RemoveAt(ran, n)
      BY <2>2 DEF n
    <3> HIDE DEF s
    <3> QED
      BY <3>1, <3>2, <3>3, <3>4
  <2> QED
    BY <2>1, <2>2
<1> HIDE DEF s
<1>4. /\ Append(s, f) \in Seq(Filters) /\ Len(s) \in Nat /\ DOMAIN s = 1 .. Len(s)
      /\ DOMAIN Append(s, f) = 1 .. Len(s) + 1 /\ Append(s, f)[Len(s) + 1] = f
      /\ \A i \in 1 .. Len(s) : Append(s, f)[i] = s[i]
  BY <1>3
<1>5. \A i \in 1 .. Len(s) + 1 : i \in 1 .. Len(s) \/ i = Len(s) + 1
  BY <1>4
<1>6. \A i \in 1 .. Len(s) : i \in 1 .. Len(s) + 1
  BY <1>4
<1>7. Len(s) + 1 \in 1 .. Len(s) + 1
  BY <1>4
<1>8. ToSet(Append(s, f)) = ToSet(s) \cup {f}
  BY <1>4, <1>5, <1>6, <1>7 DEF ToSet
<1> QED
  BY <1>1, <1>3, <1>4, <1>8

\* The marks are set in the step in which a filter runs, and the body hooks
\* read them.
LEMMA MarksNext == MarksInv /\ [Next]_vars => MarksInv'
<1> SUFFICES ASSUME MarksInv, [Next]_vars PROVE MarksInv'
  OBVIOUS
<1>1. ASSUME UNCHANGED <<buffered, executed, ran, called>>, tracked' \in {tracked, TRUE}
      PROVE  MarksInv'
  BY <1>1 DEF MarksInv
<1>2. ASSUME NEW skip, NEW stop, NEW finished, RequestChunk(skip, stop, finished),
             UNCHANGED <<buffered, marks>>
      PROVE  MarksInv'
  <2>1. tracked => called' \subseteq executed
    BY <1>2 DEF RequestChunk, RequestHooks, Eligible
  <2> QED
    BY <1>2, <2>1 DEF MarksInv, marks
<1>3. ASSUME NEW f \in Filters, NEW action, NEW publish, NEW select,
             RunFilter(f, action, publish, select)
      PROVE  MarksInv'
  <2>1. UNCHANGED <<buffered, tracked, called>>
    BY <1>3 DEF RunFilter, body
  <2>2. \/ executed' = executed \cup {f} /\ ran' = RanLast(f)
        \/ UNCHANGED <<executed, ran>>
    BY <1>3 DEF RunFilter
  <2>3. ran \in Seq(Filters) /\ executed = ToSet(ran)
    BY DEF MarksInv
  <2>4. ran' \in Seq(Filters) /\ executed' = ToSet(ran') /\ executed \subseteq executed'
    BY <2>2, <2>3, RanSet
  <2> QED
    BY <2>1, <2>4 DEF MarksInv
<1>4. ASSUME NEW stop, NEW skip, NEW finished, NEW published,
             PreRead(skip, stop, finished, published)
      PROVE  MarksInv'
  BY <1>2, <1>4 DEF PreRead
<1>5. CASE BeginRequest
  BY <1>1, <1>5 DEF BeginRequest
<1>6. CASE RequestStep
  <2>1. ASSUME NEW f \in Filters, SkipByConditions(f) PROVE MarksInv'
    BY <1>1, <2>1 DEF SkipByConditions, marks, body
  <2>2. CASE FireBranch \/ PassBranch \/ EndBranches \/ RejoinNext \/ RejoinTerminal \/ RejoinSkipTo
    BY <1>1, <2>2 DEF FireBranch, PassBranch, EndBranches, RejoinNext, RejoinTerminal,
        RejoinSkipTo, marks, body
  <2>3. CASE RejoinReEnter
    BY <1>1, <2>3 DEF RejoinReEnter, MarksOnReEnter, body
  <2>4. CASE EndRequest
    BY <1>1, <2>4 DEF EndRequest, machine, marks, body
  <2> QED
    BY <1>3, <1>6, <2>1, <2>2, <2>3, <2>4 DEF RequestStep
<1>7. ASSUME NEW n \in 0 .. Len(UnwindOrder), NEW skip \in SUBSET ResponseConditioned,
             \/ Answer(n, skip) \/ LoggingCleanup(n)
             \/ \E interim \in BOOLEAN : UpstreamResponse(n, skip, interim)
      PROVE  MarksInv'
  BY <1>1, <1>7 DEF Answer, LoggingCleanup, UpstreamResponse, machine, marks
<1>8. CASE UpstreamFailure \/ Delivered \/ Finished \/ UNCHANGED vars
  BY <1>1, <1>8 DEF UpstreamFailure, Delivered, Finished, vars, machine, marks, body
<1>9. ASSUME NEW stop \in BodyFilters \cup {NoOne}, NEW finished \in SUBSET BodyFilters,
             StreamChunk(stop, finished)
      PROVE  MarksInv'
  BY <1>2, <1>9 DEF StreamChunk, machine
<1>10. ASSUME NEW stop \in BodyFilters \cup {NoOne}, NEW finished \in SUBSET BodyFilters,
              NEW skip \in SUBSET BodyFilters, ResponseChunk(skip, stop, finished)
       PROVE  MarksInv'
  BY <1>1, <1>10 DEF ResponseChunk, machine, marks
<1> QED
  BY <1>4, <1>5, <1>6, <1>7, <1>8, <1>9, <1>10 DEF Next

\* The body hooks of a streamed request run only for filters whose on_request
\* has returned, in whatever order chunks, responses, rejoins and re-entrances
\* come (execute_http_request_body and executed_filter_indices).
THEOREM BodyCorrect == Spec => []BodyAfterRequest
<1>1. Init => MarksInv
  <2>1. <<>> \in Seq(Filters) /\ ToSet(<<>>) = {}
    BY DEF ToSet
  <2> QED
    BY <2>1 DEF Init, MarksInv
<1>2. MarksInv => BodyAfterRequest
  BY DEF MarksInv, BodyAfterRequest
<1> QED
  BY <1>1, <1>2, MarksNext, PTL DEF Spec
=============================================================================
