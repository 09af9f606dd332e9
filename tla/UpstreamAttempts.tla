-------------------------- MODULE UpstreamAttempts --------------------------
(***************************************************************************)
(* The life of proxied requests between the load balancer's selection and  *)
(* the logging hook: endpoint selection, the upstream attempts, the retry  *)
(* decision at each way an attempt can end, and the return of what the     *)
(* request holds (the in-flight counter of an endpoint, the active-request *)
(* counter of the cluster).  Sources: crates/filter/.../load_balancer and  *)
(* crates/protocol/src/http/pingora/handler.                               *)
(*                                                                         *)
(* One action is one hook invocation; hooks of one request run one after   *)
(* the other, hooks of different requests interleave and share the two     *)
(* counters.  Which hook comes next is decided by Pingora and by the peer, *)
(* and is the environment here.  The balancing strategy is any strategy    *)
(* that counts in-flight requests, alone or inside a composite: which of   *)
(* its groups a composite turns to and which candidate is picked there,    *)
(* both a matter of health and load, are left open.                        *)
(*                                                                         *)
(* The four BOOLEAN constants say what the deployment can meet: request-   *)
(* body filters, upstreams that send interim (1xx) responses, response     *)
(* filters that reject or a response condition on the load balancer, and   *)
(* request filters that answer by themselves.                              *)
(***************************************************************************)
EXTENDS Naturals, FiniteSets

CONSTANTS Requests, Endpoints,
          Groups,           \* what the inner strategies select among: all
                            \* endpoints, a zone, a tier or a subset; {} when
                            \* the strategy may find none (no_endpoint)
          MaxRetries,       \* RetryPolicy::effective_max_retries
          MaxAttempts,      \* Pingora's own cap on attempts (external)
          Retriable,        \* outcomes an operator's policy retries
          BodyLimit,        \* retry_body_limit_bytes, in chunks
          ReplayBuffer,     \* MAX_RETRY_BODY_LIMIT_BYTES = Pingora's buffer
          MaxBody,          \* bound on the chunks of a body
          AllowNonIdempotent,
          BodyFilters, Interims, ResponseRejects, Terminals

Outcomes == {"connect", "reset", "refused", "status", "other"}

ASSUME AttemptsConfig ==
  /\ IsFiniteSet(Requests)
  /\ Endpoints # {}
  /\ Groups \subseteq SUBSET Endpoints
  /\ {MaxRetries, MaxAttempts, BodyLimit, ReplayBuffer, MaxBody} \subseteq Nat
  /\ BodyLimit <= ReplayBuffer            \* RetryBodyLimit's validation
  /\ Retriable \subseteq Outcomes \ {"other"}
  /\ {AllowNonIdempotent, BodyFilters, Interims, ResponseRejects, Terminals} \subseteq BOOLEAN

VARIABLES req,     \* PingoraRequestCtx of each request, with its history
          load,    \* in-flight counters (Strategy)
          active   \* ClusterRetryState.active_requests

vars == <<req, load, active>>

Phases == {"idle", "routed", "dialing", "connected", "retrying", "streaming",
           "ending", "done"}
Statuses == {"none", "ok", "5xx"}
Errors == {"none", "downstream", "other"}

\* An Option<Upstream> is a set of at most one endpoint.
Opt == {{}} \cup {{e} : e \in Endpoints}

\* Each inner strategy counts for itself: a counter per group and endpoint.
Slots == UNION {{G} \X G : G \in Groups}

Fresh == [pc |-> "idle", upstream |-> {}, saved |-> {}, attempted |-> {},
          retries |-> 0, reselect |-> FALSE, index |-> {}, contacted |-> FALSE,
          state |-> FALSE, released |-> FALSE, phase_done |-> FALSE,
          selected |-> FALSE, configured |-> FALSE, idempotent |-> FALSE,
          read |-> 0, writer |-> FALSE, written |-> FALSE, rejected |-> FALSE,
          status |-> "none", error |-> "none",
          \* history: attempts made, the endpoint of the last one and of all of
          \* them, what the last one answered, whether a final response passed
          \* the response phase, whether the last retry was decided for a stale
          \* pooled connection, and what passive health was told
          attempts |-> 0, dialed |-> {}, tried |-> {}, verdict |-> "none",
          answered |-> FALSE, stale |-> FALSE, observed |-> {}]

Init == /\ req = [r \in Requests |-> Fresh]
        /\ load = [s \in Slots |-> 0]
        /\ active = 0

Context ==
  [pc : Phases, upstream : Opt, saved : Opt, attempted : SUBSET Endpoints,
   retries : 0..MaxRetries, reselect : BOOLEAN, index : Opt,
   contacted : BOOLEAN, state : BOOLEAN, released : BOOLEAN,
   phase_done : BOOLEAN, selected : BOOLEAN, configured : BOOLEAN,
   idempotent : BOOLEAN, read : 0..MaxBody, writer : BOOLEAN,
   written : BOOLEAN, rejected : BOOLEAN, status : Statuses, error : Errors,
   attempts : 0..MaxAttempts, dialed : Opt,
   tried : SUBSET Endpoints, verdict : Statuses,
   answered : BOOLEAN, stale : BOOLEAN,
   observed : SUBSET (Endpoints \X BOOLEAN)]

\* The variables keep their types: the retry count never passes
\* effective_max_retries (PingoraRequestCtx, should_retry).
TypeOK ==
  /\ req \in [Requests -> Context]
  /\ load \in [Slots -> Nat]
  /\ active \in Nat

-----------------------------------------------------------------------------
(***************************************************************************)
(* Counters and selection.                                                 *)
(***************************************************************************)

\* saturating_sub(1)
Less(n) == IF n = 0 THEN 0 ELSE n - 1

\* Strategy::release of every endpoint in es: a composite cannot know which
\* inner strategy served the request and forwards the release to all.
Released(es) == [s \in Slots |-> IF s[2] \in es THEN Less(load[s]) ELSE load[s]]

\* Strategy::select counts in the inner strategy that selected.
Taken(s) == [load EXCEPT ![s] = @ + 1]

\* Mutant: the exclusion set is ignored.
CandidatesAll(exclude) == Slots

\* Strategy::select_weighted, per group: its endpoints that are not excluded,
\* or every one of them when all are excluded.  A composite calls it on the
\* group it settles for, so it falls back inside that group although another
\* one may hold endpoints not excluded.  Health only narrows the choice.
Candidates(exclude) ==
  {s \in Slots : s[2] \notin exclude \/ s[1] \subseteq exclude}

\* The upstream that filter_context! shows to the filters.
Shown(q) == IF q.upstream # {} THEN q.upstream ELSE q.saved

\* LoadBalancerFilter::on_response, when the response pipeline reaches it.
BalancerOnResponse(q, reached) ==
  /\ load' = IF reached /\ q.selected THEN Released(Shown(q)) ELSE load
  /\ active' = IF reached /\ q.selected /\ q.state THEN Less(active) ELSE active

\* Whether the pipeline, run in reverse, reaches the load balancer: a filter
\* after it in the chain may reject the response first, or a condition of its
\* own skip it; and whether some filter, before or after it, rejects.
Reaches == IF ResponseRejects THEN BOOLEAN ELSE {TRUE}
Rejections == IF ResponseRejects THEN BOOLEAN ELSE {FALSE}

\* Replace the context of r.
Put(r, q) == req' = [req EXCEPT ![r] = q]

-----------------------------------------------------------------------------
(***************************************************************************)
(* Request phase.                                                          *)
(***************************************************************************)

\* LoadBalancerFilter::on_request with a strategy selection; what it leaves
\* on the context is written back by the request pipeline.
Select(r) ==
  /\ req[r].pc = "idle"
  /\ \E s \in Candidates({}), configured, idempotent \in BOOLEAN :
       /\ Put(r, [Fresh EXCEPT !.pc = "routed", !.upstream = {s[2]}, !.index = {s[2]},
                    !.attempted = {s[2]}, !.state = TRUE, !.selected = TRUE,
                    !.configured = configured, !.idempotent = idempotent])
       /\ load' = Taken(s)
  /\ active' = active + 1

\* The same with an endpoint pinned by session affinity: no strategy
\* selection, no retry state, no reselector, the legacy retry policy.
SelectPinned(r) ==
  /\ req[r].pc = "idle"
  /\ \E e \in Endpoints, idempotent \in BOOLEAN :
       Put(r, [Fresh EXCEPT !.pc = "routed", !.upstream = {e}, !.index = {e},
                            !.idempotent = idempotent])
  /\ UNCHANGED <<load, active>>

\* A filter after the load balancer rejects the request; the response phase
\* is left to the logging hook.
RejectRequest(r) ==
  /\ req[r].pc = "routed"
  /\ Put(r, [req[r] EXCEPT !.pc = "ending", !.written = TRUE])
  /\ UNCHANGED <<load, active>>

\* prepare_terminal_response: a request filter answers by itself.  The
\* response pipeline runs at once; its released flag is not written back.
TerminalResponse(r) ==
  /\ Terminals
  /\ req[r].pc = "routed"
  /\ \E reached \in Reaches, status \in {"ok", "5xx"} :
       /\ Put(r, [req[r] EXCEPT !.pc = "ending", !.phase_done = TRUE,
                    !.status = status, !.upstream = Shown(req[r]),
                    !.written = TRUE, !.answered = TRUE])
       /\ BalancerOnResponse(req[r], reached)

-----------------------------------------------------------------------------
(***************************************************************************)
(* Attempts.                                                               *)
(***************************************************************************)

\* Mutant: passive health keeps the index of the first selection.
ReselectKeepingIndex(q, e) ==
  [q EXCEPT !.attempted = @ \cup {e}, !.saved = {e}]

\* What prepare_attempt does with the endpoint the reselector picked.
Reselected(q, e) ==
  [q EXCEPT !.attempted = @ \cup {e}, !.index = {e}, !.saved = {e}]

\* Dialing marks the request as having contacted an upstream.
Dial(q) == [q EXCEPT !.pc = "dialing", !.reselect = FALSE, !.contacted = TRUE,
              !.attempts = @ + 1, !.dialed = q.saved, !.tried = @ \cup q.saved,
              !.verdict = "none"]

\* prepare_attempt with reselect_on_retry: the reselector picks an endpoint
\* outside the attempted ones and the previous one, if still held, is freed.
PrepareReselected(r) ==
  LET q == req[r] IN
  /\ q.pc = "retrying" /\ q.reselect /\ q.selected /\ q.attempts < MaxAttempts
  /\ \E s \in Candidates(q.attempted) :
       /\ load' = [d \in Slots |->
                     LET n == IF d = s THEN load[d] + 1 ELSE load[d]
                     IN  IF d[2] \in q.saved THEN Less(n) ELSE n]
       /\ Put(r, Dial(Reselected(q, s[2])))
  /\ UNCHANGED active

\* Without a reselected endpoint: the saved upstream of a retry, or the
\* upstream in the context, which moves out of it.
Moved(q) ==
  IF q.saved # {} THEN q ELSE [q EXCEPT !.saved = q.upstream, !.upstream = {}]

\* prepare_attempt when the reselector finds no endpoint: the upstream that a
\* body filter's context wrote back is dialed again, uncounted, and passive
\* health keeps its index; without one there is nothing to dial.
PrepareNone(r) ==
  LET q == req[r] IN
  /\ q.pc = "retrying" /\ q.reselect /\ q.selected /\ q.attempts < MaxAttempts
  /\ {} \in Groups
  /\ Put(r, IF Moved(q).saved = {}
            THEN [q EXCEPT !.pc = "ending", !.error = "other", !.reselect = FALSE]
            ELSE Dial(Moved(q)))
  /\ UNCHANGED <<load, active>>

\* prepare_attempt otherwise: the first attempt, or a retry without a
\* reselector or outside the policy.
PrepareSame(r) ==
  LET q == req[r] IN
  /\ q.pc \in {"routed", "retrying"} /\ ~(q.reselect /\ q.selected)
  /\ q.attempts < MaxAttempts
  /\ Moved(q).saved # {}
  /\ Put(r, Dial(Moved(q)))
  /\ UNCHANGED <<load, active>>

Connect(r) ==
  /\ req[r].pc = "dialing"
  /\ Put(r, [req[r] EXCEPT !.pc = "connected"])
  /\ UNCHANGED <<load, active>>

\* Pingora's retry buffer holds less than was read.
Truncated(q) == q.read > ReplayBuffer

\* replay_body_size: request_body_bytes counts only while body filters run.
ReplayBodySize(q) == IF BodyFilters THEN q.read ELSE 0

\* should_retry, up to the deadline and the retry budget, which may refuse
\* at any time: a FALSE outcome is always possible.  The default policy has
\* the largest body limit and retries connect failures only.
ShouldRetry(q, outcome) ==
  /\ outcome \in IF q.configured THEN Retriable ELSE {"connect"}
  /\ q.retries < MaxRetries
  /\ ~q.writer
  /\ ReplayBodySize(q) <= IF q.configured THEN BodyLimit ELSE ReplayBuffer
  /\ q.idempotent \/ (q.configured /\ AllowNonIdempotent)

\* Mutant: the saved upstream is cleared but its counter is not released.
ClearKeepingLoad(q) == {}

\* The endpoint whose counter clear_for_reselection releases.
ClearForReselection(q) == IF q.selected THEN q.saved ELSE {}

\* The context after a retry was decided (connect_failure_retry and
\* response_status_retry): under a configured policy the saved upstream is
\* cleared for reselection.
Retrying(q) ==
  [q EXCEPT !.retries = @ + 1, !.reselect = q.configured,
            !.attempted = @ \cup q.saved, !.stale = FALSE,
            !.saved = IF q.configured THEN {} ELSE @]

Retry(r, q) ==
  /\ Put(r, [Retrying(q) EXCEPT !.pc = "retrying"])
  /\ load' = IF q.configured THEN Released(ClearForReselection(q)) ELSE load
  /\ UNCHANGED active

\* The request ends with an error and no further attempt.
End(r, q, error) ==
  /\ Put(r, [q EXCEPT !.pc = "ending", !.error = error])
  /\ UNCHANGED <<load, active>>

\* Pingora stops at its own cap even when the hook asked for another attempt.
GiveUp(r) ==
  /\ req[r].pc = "retrying" /\ req[r].attempts = MaxAttempts
  /\ End(r, req[r], "other")

\* fail_to_connect
FailToConnect(r) ==
  LET q == req[r] IN
  /\ q.pc = "dialing"
  /\ \/ ~Truncated(q) /\ ShouldRetry(q, "connect") /\ Retry(r, q)
     \/ End(r, q, "other")

\* request_body_filter: a chunk is read and forwarded.  With body filters the
\* context the filters saw is written back, upstream included, and the
\* request may now hold output that was not retained for a replay.
ReadBody(r) ==
  LET q == req[r] IN
  /\ q.pc = "connected" /\ q.read < MaxBody
  /\ \E writer \in IF BodyFilters THEN {q.writer, TRUE} ELSE {q.writer} :
       Put(r, [q EXCEPT !.read = @ + 1, !.writer = writer,
                        !.upstream = IF BodyFilters THEN Shown(q) ELSE @])
  /\ UNCHANGED <<load, active>>

\* A body filter rejects the request while it is being forwarded: the error is
\* marked as the client's, which H2 needs to propagate it.
RejectBody(r) ==
  LET q == req[r] IN
  /\ BodyFilters
  /\ q.pc = "connected"
  /\ End(r, [q EXCEPT !.rejected = TRUE, !.upstream = Shown(q)], "downstream")

\* Mutant: a final response already written does not stop a replay.
FinalUnlessWritten(q) ==
  q.rejected \/ q.writer \/ ReplayBodySize(q) > ReplayBuffer

\* The first test of error_while_proxy: nothing may be replayed any more.
Final(q) ==
  \/ q.rejected \/ q.writer \/ ReplayBodySize(q) > ReplayBuffer \/ q.written

\* error_while_proxy for an error of the transfer itself, of either side.
\* ReusedOnly errors of a reused connection skip the retry policy.
ErrorWhileProxy(r) ==
  LET q == req[r] IN
  /\ q.pc \in {"connected", "streaming"}
  /\ \/ \E outcome \in {"reset", "refused", "status", "other"} :
          ~Final(q) /\ ~Truncated(q) /\ ShouldRetry(q, outcome) /\ Retry(r, q)
     \/ /\ ~Final(q) /\ ~Truncated(q)
        /\ Put(r, [q EXCEPT !.pc = "retrying", !.stale = TRUE])
        /\ UNCHANGED <<load, active>>
     \/ \E error \in {"downstream", "other"} : End(r, q, error)

-----------------------------------------------------------------------------
(***************************************************************************)
(* Response phase.                                                         *)
(***************************************************************************)

\* run_response_filters: the context is written back, except the upstream,
\* which is dropped.
ResponsePhase(q, reached, rejected) ==
  [q EXCEPT !.phase_done = TRUE, !.upstream = {},
            !.released = @ \/ (reached /\ q.selected /\ q.state),
            !.rejected = rejected, !.error = IF rejected THEN "other" ELSE @]

\* An interim response runs the response phase like a final one, without a
\* status of its own.
Interim(r) ==
  LET q == req[r] IN
  /\ Interims
  /\ q.pc = "connected"
  /\ \E reached \in Reaches, rejected \in Rejections :
       /\ Put(r, [ResponsePhase(q, reached, rejected) EXCEPT
                    !.pc = IF rejected THEN "ending" ELSE @])
       /\ BalancerOnResponse(q, reached)

\* maybe_retry_response, then error_while_proxy with a decided retry, which
\* is refused when nothing may be replayed.
StatusRetry(r) ==
  LET q == [req[r] EXCEPT !.status = "5xx", !.verdict = "5xx"] IN
  /\ q.pc = "connected"
  /\ ShouldRetry(q, "status")
  /\ IF Final(q) \/ Truncated(q)
     THEN /\ Put(r, [Retrying(q) EXCEPT !.pc = "ending", !.error = "other"])
          /\ load' = IF q.configured THEN Released(ClearForReselection(q)) ELSE load
          /\ UNCHANGED active
     ELSE Retry(r, q)

\* A final response that is not retried runs the response filters.  When one
\* rejects it, error_while_proxy ends the request.
Respond(r) ==
  \E status \in {"ok", "5xx"}, reached \in Reaches, rejected \in Rejections :
    LET q == [req[r] EXCEPT !.status = status, !.verdict = status] IN
    /\ q.pc = "connected"
    /\ Put(r, [ResponsePhase(q, reached, rejected) EXCEPT !.answered = TRUE,
                 !.written = ~rejected,
                 !.pc = IF rejected THEN "ending" ELSE "streaming"])
    /\ BalancerOnResponse(q, reached)

\* The response body has been delivered.
Finish(r) ==
  /\ req[r].pc = "streaming"
  /\ End(r, req[r], "none")

\* record_passive_health_outcome: endpoint and whether it failed.
Observe(q) ==
  IF ~q.contacted \/ (q.status = "none" /\ q.error = "downstream") THEN {}
  ELSE {<<e, q.status = "5xx" \/ q.error = "other">> : e \in q.index}

\* Whether release_retry_state leaves the cluster's active requests.
ReleaseRetryState(q) == q.state /\ ~q.released

\* logging: passive health, release_retry_state, then logging_cleanup, which
\* runs the response filters when the response phase never ran.
Logging(r) ==
  LET q     == req[r]
      leave == ReleaseRetryState(q)
      held  == q.state /\ ~leave
  IN  /\ q.pc = "ending"
      /\ \E reached \in IF q.phase_done THEN {FALSE} ELSE Reaches :
           /\ load' = IF reached /\ q.selected THEN Released(Shown(q)) ELSE load
           /\ active' = LET n == IF leave THEN Less(active) ELSE active
                        IN  IF reached /\ q.selected /\ held THEN Less(n) ELSE n
      /\ Put(r, [q EXCEPT !.pc = "done", !.observed = Observe(q), !.state = held,
                          !.released = @ \/ leave])

Step(r) ==
  \/ RejectRequest(r) \/ TerminalResponse(r)
  \/ PrepareReselected(r) \/ PrepareNone(r) \/ PrepareSame(r) \/ Connect(r)
  \/ FailToConnect(r) \/ RejectBody(r) \/ ErrorWhileProxy(r) \/ GiveUp(r)
  \/ StatusRetry(r) \/ Respond(r) \/ Finish(r) \/ Logging(r)

Next == \E r \in Requests :
          Select(r) \/ SelectPinned(r) \/ Step(r) \/ ReadBody(r) \/ Interim(r)

Spec == Init /\ [][Next]_vars

-----------------------------------------------------------------------------
(***************************************************************************)
(* Properties.                                                             *)
(***************************************************************************)

\* Requests that selected through the strategy, whose final response has not
\* passed the response phase and that have not been logged.
InFlight == {r \in Requests : /\ req[r].selected /\ ~req[r].answered
                              /\ req[r].pc # "done"}

\* The endpoint a request in flight is on: the one being attempted, or the
\* one selected for its first attempt; none while it waits to reselect.
On(q) == IF q.attempts = 0 THEN q.upstream ELSE q.saved

\* No endpoint is counted by two inner strategies: every simple strategy and
\* the tiers of priority, not a zone or a subset beside all endpoints.
DisjointGroups == \A s, t \in Slots : s[2] = t[2] => s = t

\* No in-flight counter exceeds the number of requests on its endpoint, and
\* unless two inner strategies count the same endpoint it is exactly that
\* number, through retries, reselection, rejections and errors: the counter
\* taken by select is given back once, to the same endpoint (load_balancer
\* on_response, clear_for_reselection, logging_cleanup).
LoadExact ==
  \A s \in Slots :
    LET n == Cardinality({r \in InFlight : s[2] \in On(req[r])})
    IN  load[s] <= n /\ (DisjointGroups => load[s] = n)

\* ClusterRetryState.active_requests is exactly the number of requests in
\* flight: whichever of on_response and release_retry_state runs first
\* leaves, and only that one.
ActiveExact == active = Cardinality(InFlight)

\* Both counters of an endpoint, least-connections load and active
\* connections, are exact, and the types hold (load_balancer, upstream.rs).
CountersExact == TypeOK /\ LoadExact /\ ActiveExact

\* A request is attempted again only when nothing of the response was
\* committed or rejected, its body can be replayed whole, and its method may
\* be repeated or the upstream never processed it (should_retry,
\* error_while_proxy, resolve_reused_only_retry).
ReplaySafe ==
  [][\A r \in Requests :
       req[r].attempts > 0 /\ req'[r].attempts > req[r].attempts =>
         /\ ~req[r].written /\ ~req[r].rejected
         /\ ~Truncated(req[r]) /\ ~req[r].writer
         /\ req[r].idempotent \/ req[r].stale \/ AllowNonIdempotent]_vars

\* Under a configured policy a retry returns to an endpoint this request has
\* tried only when it tried the whole group the strategy selects from, or the
\* strategy found no endpoint at all, whatever the counters and the body
\* filters did meanwhile (attempted_endpoints, Strategy::select_weighted).
AlternateFirst ==
  [][\A r \in Requests :
       LET q == req[r] IN
       q.attempts > 0 /\ req'[r].attempts > q.attempts /\ q.reselect =>
         \/ req'[r].dialed \cap q.tried = {}
         \/ \E G \in Groups : req'[r].dialed \subseteq G /\ G \subseteq q.tried
         \/ {} \in Groups /\ req'[r].dialed = q.upstream]_vars

\* Passive health is told about the endpoint of the last attempt, never
\* about one that the request left or did not dial (reselected_endpoint_index,
\* upstream_contacted).
ObservedWasDialed ==
  \A r \in Requests : \A o \in req[r].observed : o[1] \in req[r].dialed

\* Once every request is logged no counter is left behind: on_response or the
\* logging hook released each one.
LoadDrains ==
  (\A r \in Requests : req[r].pc \in {"idle", "done"}) =>
    \A s \in Slots : load[s] = 0

\* A failure is recorded against an endpoint only when its own attempt
\* answered with a 5xx or ended in an error that is not the client's.  It does
\* not hold: see README, "Disagreements described and not run".
FailureEarned ==
  \A r \in Requests : \A o \in req[r].observed :
    o[2] => req[r].verdict = "5xx" \/ req[r].error = "other"
=============================================================================
