----------------------- MODULE UpstreamAttemptsProofs -----------------------
(***************************************************************************)
(* Proofs about upstream attempts and retries, for every finite set of     *)
(* requests, every set of endpoints and every retry policy: replays are    *)
(* safe, untried endpoints of a group come first, passive health names the *)
(* endpoint that was dialed unless the strategy may find none, and, in a   *)
(* deployment without what the README's disagreements need, the shared     *)
(* counters are exact.                                                     *)
(***************************************************************************)
EXTENDS UpstreamAttempts, Counting

-----------------------------------------------------------------------------
(***************************************************************************)
(* The inductive invariant, of the context q of one request.               *)
(***************************************************************************)

\* The endpoints a context names: until the first attempt the selected one
\* waits in upstream; from then on index names the endpoint last dialed, as
\* long as the strategy finds one for every retry, and saved does until a
\* configured retry clears it.  What body filters write back was tried.
Route(q) ==
  /\ q.configured => q.selected
  /\ q.reselect => q.configured
  /\ q.pc = "idle" => ~q.selected
  /\ q.pc \in {"idle", "routed"} => q.attempts = 0
  /\ q.pc \in {"dialing", "connected", "retrying", "streaming"} => q.attempts > 0
  /\ q.pc = "routed" => /\ q.upstream = q.index /\ q.upstream # {}
                        /\ q.selected => q.attempted = q.upstream
  /\ q.attempts = 0 =>
       ~q.contacted /\ ~q.reselect /\ q.saved = {} /\ q.tried = {}
  /\ q.attempts > 0 =>
       /\ {} \notin Groups => q.index = q.dialed
       /\ q.dialed # {} /\ q.dialed \subseteq q.tried /\ q.upstream \subseteq q.tried
       /\ q.selected => q.tried = q.attempted
  /\ q.pc \in {"dialing", "connected", "streaming"} => q.saved = q.dialed /\ ~q.reselect
  /\ q.pc = "retrying" => q.saved = IF q.reselect THEN {} ELSE q.dialed

\* What is committed when: a response is written only in the streaming phase,
\* and a request on its way to another attempt may be replayed.
Commitment(q) ==
  /\ q.pc \in {"idle", "routed", "dialing", "connected", "retrying"} =>
       ~q.written /\ ~q.rejected
  /\ q.pc = "streaming" => q.written
  /\ q.pc = "retrying" => /\ ~Truncated(q) /\ ~q.writer
                          /\ q.idempotent \/ q.stale \/ AllowNonIdempotent

\* Passive health is told at the end.
Observation(q) ==
  /\ q.pc # "done" => q.observed = {}
  /\ {} \notin Groups => \A o \in q.observed : o[1] \in q.dialed

Good(q) == q \in Context /\ Route(q) /\ Commitment(q) /\ Observation(q)

AttemptsInv == TypeOK /\ \A r \in Requests : Good(req[r])

\* A deployment without body filters, interim responses, rejecting response
\* filters or request filters that answer by themselves.
Plain == ~BodyFilters /\ ~Interims /\ ~ResponseRejects /\ ~Terminals

\* There the upstream moves to saved with the first attempt and never back,
\* and the flags that decide who releases the counters follow the response.
Ledger(q) ==
  /\ q.attempts > 0 => q.upstream = {}
  /\ q.pc # "done" => /\ (q.state <=> q.selected) /\ (q.phase_done <=> q.answered)
                      /\ q.released <=> (q.answered /\ q.selected)
  /\ q.answered => q.pc \in {"streaming", "ending", "done"}
  /\ q.pc = "streaming" => q.answered

LedgerInv == AttemptsInv /\ (\A r \in Requests : Ledger(req[r])) /\ CountersExact

-----------------------------------------------------------------------------
(***************************************************************************)
(* What each hook makes of a context.                                      *)
(***************************************************************************)

\* An attempt is added only on the way back from a retry decision, and a
\* reselected one avoids the endpoints already tried while its group has
\* others.
Follows(q, x) ==
  q.attempts > 0 /\ x.attempts > q.attempts =>
    /\ q.pc = "retrying"
    /\ q.reselect => \/ x.dialed \cap q.tried = {}
                     \/ \E G \in Groups : x.dialed \subseteq G /\ G \subseteq q.tried
                     \/ {} \in Groups /\ x.dialed = q.upstream

\* The upstream shown to the filters is an endpoint of the context.
LEMMA ShownType == ASSUME NEW q \in Context PROVE Shown(q) \in Opt
BY DEF Shown, Context

\* The context of a request that has not begun.
LEMMA FreshGood == Good(Fresh)
<1>1. Fresh \in Context
  BY AttemptsConfig DEF Fresh, Context, Phases, Opt, Statuses, Errors
<1>2. Route(Fresh) /\ Commitment(Fresh) /\ Observation(Fresh)
  BY DEF Fresh, Route, Commitment, Observation
<1> QED
  BY <1>1, <1>2 DEF Good

\* What a retry decision leaves in the context.
LEMMA RetryingType ==
  ASSUME NEW q \in Context, q.retries + 1 \in 0..MaxRetries
  PROVE  Retrying(q) \in Context
<1> DEFINE n == q.retries + 1
           a == q.attempted \cup q.saved
           s == IF q.configured THEN {} ELSE q.saved
           c == q.configured
<1>1. a \in SUBSET Endpoints /\ s \in Opt /\ c \in BOOLEAN
  BY DEF Context, Opt
<1>2. Retrying(q) = [q EXCEPT !.retries = n, !.reselect = c, !.attempted = a,
                              !.stale = FALSE, !.saved = s]
  BY DEF Retrying, Context
<1> HIDE DEF n, a, s, c
<1>3. n \in 0..MaxRetries
  BY DEF n
<1> DEFINE p == [q EXCEPT !.retries = n, !.reselect = c, !.attempted = a]
<1>4. p \in Context
  BY <1>1, <1>3, ZenonT(60) DEF Context
<1>5. Retrying(q) = [p EXCEPT !.stale = FALSE, !.saved = s]
  BY <1>2 DEF Context
<1> HIDE DEF p
<1>6. [p EXCEPT !.stale = FALSE, !.saved = s] \in Context
  BY <1>1, <1>4, ZenonT(60) DEF Context
<1> QED
  BY <1>5, <1>6

\* A filter after the load balancer rejects the request.
LEMMA RejectRequestGood ==
  ASSUME NEW q, NEW x, Good(q), q.pc = "routed",
         x = [q EXCEPT !.pc = "ending", !.written = TRUE]
  PROVE  Good(x) /\ x.attempts = q.attempts
<1>1. q \in Context /\ q.attempts \in Nat
  BY AttemptsConfig DEF Good, Context
<1>2. x \in Context
  BY <1>1, ZenonT(60) DEF Context, Phases, Statuses, Errors
<1>3. Route(x)
  BY <1>1 DEF Good, Route, Context
<1>4. Commitment(x)
  BY <1>1 DEF Good, Commitment, Context, Truncated
<1>5. Observation(x)
  BY <1>1 DEF Good, Observation, Context
<1>6. x.attempts = q.attempts
  BY <1>1 DEF Context
<1> QED
  BY <1>2, <1>3, <1>4, <1>5, <1>6 DEF Good

\* A request filter answers by itself.
LEMMA TerminalGood ==
  ASSUME NEW q, NEW x, Good(q), q.pc = "routed", NEW status \in {"ok", "5xx"},
         x = [q EXCEPT !.pc = "ending", !.phase_done = TRUE, !.status = status,
                       !.upstream = Shown(q), !.written = TRUE, !.answered = TRUE]
  PROVE  Good(x) /\ x.attempts = q.attempts
<1>1. q \in Context /\ q.attempts \in Nat /\ Shown(q) \in Opt
  BY AttemptsConfig, ShownType DEF Good, Context
<1>2. x \in Context
  BY <1>1, ZenonT(60) DEF Context, Phases, Statuses, Errors
<1>3. Route(x)
  BY <1>1 DEF Good, Route, Context
<1>4. Commitment(x)
  BY <1>1 DEF Good, Commitment, Context, Truncated
<1>5. Observation(x)
  BY <1>1 DEF Good, Observation, Context
<1>6. x.attempts = q.attempts
  BY <1>1 DEF Context
<1> QED
  BY <1>2, <1>3, <1>4, <1>5, <1>6 DEF Good

\* The connection is established.
LEMMA ConnectGood ==
  ASSUME NEW q, NEW x, Good(q), q.pc = "dialing",
         x = [q EXCEPT !.pc = "connected"]
  PROVE  Good(x) /\ x.attempts = q.attempts
<1>1. q \in Context /\ q.attempts \in Nat
  BY AttemptsConfig DEF Good, Context
<1>2. x \in Context
  BY <1>1 DEF Context, Phases, Statuses, Errors
<1>3. Route(x)
  BY <1>1 DEF Good, Route, Context
<1>4. Commitment(x)
  BY <1>1 DEF Good, Commitment, Context, Truncated
<1>5. Observation(x)
  BY <1>1 DEF Good, Observation, Context
<1>6. x.attempts = q.attempts
  BY <1>1 DEF Context
<1> QED
  BY <1>2, <1>3, <1>4, <1>5, <1>6 DEF Good

\* The request ends with an error, or without.
LEMMA EndGood ==
  ASSUME NEW q, NEW x, Good(q), q.pc # "done", NEW error \in Errors,
         x = [q EXCEPT !.pc = "ending", !.error = error]
  PROVE  Good(x) /\ x.attempts = q.attempts
<1>1. q \in Context /\ q.attempts \in Nat
  BY AttemptsConfig DEF Good, Context
<1>2. x \in Context
  BY <1>1, ZenonT(60) DEF Context, Phases, Statuses, Errors
<1>3. Route(x)
  BY <1>1 DEF Good, Route, Context
<1>4. Commitment(x)
  BY <1>1 DEF Good, Commitment, Context, Truncated
<1>5. Observation(x)
  BY <1>1 DEF Good, Observation, Context
<1>6. x.attempts = q.attempts
  BY <1>1 DEF Context
<1> QED
  BY <1>2, <1>3, <1>4, <1>5, <1>6 DEF Good

\* No endpoint is left for a retry, and the request ends.
LEMMA NoneEnds ==
  ASSUME NEW q, NEW x, Good(q), q.pc = "retrying",
         x = [q EXCEPT !.pc = "ending", !.error = "other", !.reselect = FALSE]
  PROVE  Good(x) /\ x.attempts = q.attempts
<1>1. q \in Context /\ q.attempts \in Nat
  BY AttemptsConfig DEF Good, Context
<1>2. x \in Context
  BY <1>1, ZenonT(60) DEF Context, Phases, Statuses, Errors
<1>3. Route(x)
  BY <1>1 DEF Good, Route, Context
<1>4. Commitment(x)
  BY <1>1 DEF Good, Commitment, Context, Truncated
<1>5. Observation(x)
  BY <1>1 DEF Good, Observation, Context
<1>6. x.attempts = q.attempts
  BY <1>1 DEF Context
<1> QED
  BY <1>2, <1>3, <1>4, <1>5, <1>6 DEF Good

\* A context after a chunk of the body.
Chunked(q, read, writer, upstream) ==
  [q EXCEPT !.read = read, !.writer = writer, !.upstream = upstream]

\* A chunk of the body is forwarded.
LEMMA ReadBodyGood ==
  ASSUME NEW q, NEW x, Good(q), q.pc = "connected",
         NEW read \in 0..MaxBody, NEW writer \in BOOLEAN, NEW upstream \in Opt,
         upstream \subseteq q.tried, x = Chunked(q, read, writer, upstream)
  PROVE  Good(x) /\ x.attempts = q.attempts
<1>0. x = [q EXCEPT !.read = read, !.writer = writer, !.upstream = upstream]
  BY DEF Chunked
<1>1. q \in Context /\ q.attempts \in Nat
  BY AttemptsConfig DEF Good, Context
<1>2. x \in Context
  BY <1>0, <1>1, ZenonT(60) DEF Context
<1>3. Route(x)
  BY <1>0, <1>1 DEF Good, Route, Context
<1>4. Commitment(x)
  BY <1>0, <1>1 DEF Good, Commitment, Context, Truncated
<1>5. Observation(x)
  BY <1>0, <1>1 DEF Good, Observation, Context
<1>6. x.attempts = q.attempts
  BY <1>0, <1>1 DEF Context
<1> QED
  BY <1>2, <1>3, <1>4, <1>5, <1>6 DEF Good

\* A body filter rejects the request.
LEMMA RejectBodyGood ==
  ASSUME NEW q, NEW x, Good(q), q.pc = "connected",
         x = [[q EXCEPT !.rejected = TRUE, !.upstream = Shown(q)]
                EXCEPT !.pc = "ending", !.error = "downstream"]
  PROVE  Good(x) /\ x.attempts = q.attempts
<1>1. q \in Context /\ q.attempts \in Nat /\ Shown(q) \in Opt
  BY AttemptsConfig, ShownType DEF Good, Context
<1>2. x \in Context
  BY <1>1, ZenonT(60) DEF Context, Phases, Statuses, Errors
<1>3. Route(x)
  BY <1>1 DEF Good, Route, Context, Shown
<1>4. Commitment(x)
  BY <1>1 DEF Good, Commitment, Context, Truncated
<1>5. Observation(x)
  BY <1>1 DEF Good, Observation, Context
<1>6. x.attempts = q.attempts
  BY <1>1 DEF Context
<1> QED
  BY <1>2, <1>3, <1>4, <1>5, <1>6 DEF Good

\* A stale pooled connection is retried outside the policy.
LEMMA StaleGood ==
  ASSUME NEW q, NEW x, Good(q), q.pc \in {"connected", "streaming"},
         ~Final(q), ~Truncated(q),
         x = [q EXCEPT !.pc = "retrying", !.stale = TRUE]
  PROVE  Good(x) /\ x.attempts = q.attempts
<1>1. q \in Context /\ q.attempts \in Nat
  BY AttemptsConfig DEF Good, Context
<1>2. x \in Context
  BY <1>1, ZenonT(60) DEF Context, Phases, Statuses, Errors, Final
<1>3. Route(x)
  BY <1>1 DEF Good, Route, Context, Final
<1>4. Commitment(x)
  BY <1>1 DEF Good, Commitment, Context, Truncated, Final
<1>5. Observation(x)
  BY <1>1 DEF Good, Observation, Context, Final
<1>6. x.attempts = q.attempts
  BY <1>1 DEF Context, Final
<1> QED
  BY <1>2, <1>3, <1>4, <1>5, <1>6 DEF Good

\* The upstream answers with a status.
LEMMA StatusGood ==
  ASSUME NEW q, NEW x, Good(q), q.pc = "connected", NEW status \in {"ok", "5xx"},
         x = [q EXCEPT !.status = status, !.verdict = status]
  PROVE  Good(x) /\ x.attempts = q.attempts
<1>1. q \in Context /\ q.attempts \in Nat
  BY AttemptsConfig DEF Good, Context
<1>2. x \in Context
  BY <1>1, ZenonT(60) DEF Context, Phases, Statuses, Errors
<1>3. Route(x)
  BY <1>1 DEF Good, Route, Context
<1>4. Commitment(x)
  BY <1>1 DEF Good, Commitment, Context, Truncated
<1>5. Observation(x)
  BY <1>1 DEF Good, Observation, Context
<1>6. x.attempts = q.attempts
  BY <1>1 DEF Context
<1> QED
  BY <1>2, <1>3, <1>4, <1>5, <1>6 DEF Good

\* A retry is decided under the policy.
LEMMA RetryGood ==
  ASSUME NEW q, NEW x, Good(q), q.pc \in {"dialing", "connected"},
         NEW outcome, ShouldRetry(q, outcome), ~Truncated(q),
         x = [Retrying(q) EXCEPT !.pc = "retrying"]
  PROVE  Good(x) /\ x.attempts = q.attempts
<1>1. q \in Context /\ q.attempts \in Nat /\ q.retries + 1 \in 0..MaxRetries /\ {} \in Opt
  BY AttemptsConfig DEF Good, Context, ShouldRetry, Opt
<1>2. x \in Context
  <2>1. Retrying(q) \in Context
    BY <1>1, RetryingType
  <2> QED
    BY <2>1 DEF Context, Phases, Errors
<1>3. Route(x)
  BY <1>1 DEF Good, Route, Context, Retrying, ShouldRetry
<1>4. Commitment(x)
  BY <1>1 DEF Good, Commitment, Context, Truncated, Retrying, ShouldRetry
<1>5. Observation(x)
  BY <1>1 DEF Good, Observation, Context, Retrying, ShouldRetry
<1>6. x.attempts = q.attempts
  BY <1>1 DEF Context, Retrying, ShouldRetry
<1> QED
  BY <1>2, <1>3, <1>4, <1>5, <1>6 DEF Good

\* A retry is decided and then refused, since the body cannot be replayed.
LEMMA RefusedRetryGood ==
  ASSUME NEW q, NEW x, Good(q), q.pc = "connected",
         NEW outcome, ShouldRetry(q, outcome),
         x = [Retrying(q) EXCEPT !.pc = "ending", !.error = "other"]
  PROVE  Good(x) /\ x.attempts = q.attempts
<1>1. q \in Context /\ q.attempts \in Nat /\ q.retries + 1 \in 0..MaxRetries /\ {} \in Opt
  BY AttemptsConfig DEF Good, Context, ShouldRetry, Opt
<1>2. x \in Context
  <2>1. Retrying(q) \in Context
    BY <1>1, RetryingType
  <2> QED
    BY <2>1, ZenonT(60) DEF Context, Phases, Errors
<1>3. Route(x)
  BY <1>1 DEF Good, Route, Context, Retrying
<1>4. Commitment(x)
  BY <1>1 DEF Good, Commitment, Context, Truncated, Retrying
<1>5. Observation(x)
  BY <1>1 DEF Good, Observation, Context, Retrying
<1>6. x.attempts = q.attempts
  BY <1>1 DEF Context, Retrying
<1> QED
  BY <1>2, <1>3, <1>4, <1>5, <1>6 DEF Good

\* The response phase of a response that the filters let pass.
LEMMA PassedGood ==
  ASSUME NEW q, NEW x, Good(q), q.pc = "connected",
         NEW upstream \in Opt, upstream = {}, NEW released \in BOOLEAN,
         x = [q EXCEPT !.phase_done = TRUE, !.upstream = upstream, !.released = released,
                       !.rejected = FALSE, !.error = q.error]
  PROVE  Good(x) /\ x.attempts = q.attempts
<1>1. q \in Context /\ q.attempts \in Nat
  BY AttemptsConfig DEF Good, Context
<1>2. x \in Context
  <2> DEFINE p == [q EXCEPT !.phase_done = TRUE, !.upstream = upstream,
                            !.released = released]
  <2>1. x = [p EXCEPT !.rejected = FALSE]
    BY <1>1 DEF Context
  <2>2. p \in Context
    BY <1>1, ZenonT(60) DEF Context
  <2> HIDE DEF p
  <2>3. [p EXCEPT !.rejected = FALSE] \in Context
    BY <2>2, ZenonT(60) DEF Context
  <2> QED
    BY <2>1, <2>3
<1>3. Route(x)
  BY <1>1 DEF Good, Route, Context
<1>4. Commitment(x)
  BY <1>1 DEF Good, Commitment, Context, Truncated
<1>5. Observation(x)
  BY <1>1 DEF Good, Observation, Context
<1>6. x.attempts = q.attempts
  BY <1>1 DEF Context
<1> QED
  BY <1>2, <1>3, <1>4, <1>5, <1>6 DEF Good

\* The response phase of a response that a filter rejects.
LEMMA RejectedGood ==
  ASSUME NEW q, NEW x, Good(q), q.pc = "connected",
         NEW upstream \in Opt, upstream = {}, NEW released \in BOOLEAN, NEW answered \in BOOLEAN,
         x = [q EXCEPT !.phase_done = TRUE, !.upstream = upstream, !.released = released,
                       !.rejected = TRUE, !.error = "other", !.answered = answered,
                       !.written = FALSE, !.pc = "ending"]
  PROVE  Good(x) /\ x.attempts = q.attempts
<1>1. q \in Context /\ q.attempts \in Nat
  BY AttemptsConfig DEF Good, Context
<1>2. x \in Context
  <2> DEFINE p == [q EXCEPT !.phase_done = TRUE, !.upstream = upstream,
                            !.released = released, !.rejected = TRUE]
  <2>1. p \in Context
    BY <1>1, ZenonT(60) DEF Context
  <2> DEFINE o == [p EXCEPT !.answered = answered, !.written = FALSE]
  <2>2. x = [o EXCEPT !.error = "other", !.pc = "ending"]
    BY <1>1 DEF Context
  <2> HIDE DEF p
  <2>3. o \in Context
    BY <2>1, ZenonT(60) DEF Context
  <2> HIDE DEF o
  <2>4. [o EXCEPT !.error = "other", !.pc = "ending"] \in Context
    BY <2>3, ZenonT(60) DEF Context, Phases, Errors
  <2> QED
    BY <2>2, <2>4
<1>3. Route(x)
  BY <1>1 DEF Good, Route, Context
<1>4. Commitment(x)
  BY <1>1 DEF Good, Commitment, Context, Truncated
<1>5. Observation(x)
  BY <1>1 DEF Good, Observation, Context
<1>6. x.attempts = q.attempts
  BY <1>1 DEF Context
<1> QED
  BY <1>2, <1>3, <1>4, <1>5, <1>6 DEF Good

\* A final response that passed is being delivered.
LEMMA StreamGood ==
  ASSUME NEW q, NEW x, Good(q), q.pc = "connected",
         x = [q EXCEPT !.answered = TRUE, !.written = TRUE, !.pc = "streaming"]
  PROVE  Good(x) /\ x.attempts = q.attempts
<1>1. q \in Context
  BY DEF Good
<1>2. x \in Context
  BY <1>1, ZenonT(60) DEF Context, Phases
<1>3. Route(x)
  BY <1>1 DEF Good, Route, Context
<1>4. Commitment(x)
  BY <1>1 DEF Good, Commitment, Context, Truncated
<1>5. Observation(x)
  BY <1>1 DEF Good, Observation, Context
<1>6. x.attempts = q.attempts
  BY <1>1 DEF Context
<1> QED
  BY <1>2, <1>3, <1>4, <1>5, <1>6 DEF Good

\* The logging hook tells passive health about the endpoint last dialed.
LEMMA LoggingGood ==
  ASSUME NEW q, NEW x, Good(q), q.pc = "ending",
         NEW state \in BOOLEAN, NEW released \in BOOLEAN,
         x = [q EXCEPT !.pc = "done", !.observed = Observe(q), !.state = state,
                       !.released = released]
  PROVE  Good(x) /\ x.attempts = q.attempts
<1>1. q \in Context /\ q.attempts \in Nat
  BY AttemptsConfig DEF Good, Context
<1> DEFINE b == q.status = "5xx" \/ q.error = "other"
<1>2. Observe(q) \in SUBSET (Endpoints \X BOOLEAN)
  <2>1. q.index \in SUBSET Endpoints
    BY <1>1 DEF Context, Opt
  <2>2. Observe(q) \subseteq {<<e, b>> : e \in q.index}
    BY DEF Observe
  <2>3. b \in BOOLEAN
    OBVIOUS
  <2> HIDE DEF b
  <2>4. {<<e, b>> : e \in q.index} \in SUBSET (Endpoints \X BOOLEAN)
    BY <2>1, <2>3
  <2> QED
    BY <2>2, <2>4
<1>3. {} \notin Groups => \A o \in Observe(q) : o[1] \in q.dialed
  <2>1. Observe(q) # {} => q.attempts > 0
    BY <1>1 DEF Observe, Good, Route
  <2>2. \A o \in Observe(q) : o[1] \in q.index
    BY DEF Observe
  <2> QED
    BY <2>1, <2>2 DEF Good, Route
<1> DEFINE O == Observe(q)
<1> HIDE DEF O
<1>4. x = [q EXCEPT !.pc = "done", !.observed = O, !.state = state,
                    !.released = released]
  BY DEF O
<1>5. /\ O \in SUBSET (Endpoints \X BOOLEAN)
      /\ {} \notin Groups => \A o \in O : o[1] \in q.dialed
  BY <1>2, <1>3 DEF O
<1>6. x \in Context
  <2> DEFINE p == [q EXCEPT !.pc = "done", !.observed = O]
  <2>1. x = [p EXCEPT !.state = state, !.released = released]
    BY <1>1, <1>4 DEF Context
  <2>2. p \in Context
    BY <1>1, <1>5 DEF Context, Phases
  <2> HIDE DEF p
  <2>3. [p EXCEPT !.state = state, !.released = released] \in Context
    BY <2>2, ZenonT(60) DEF Context
  <2> QED
    BY <2>1, <2>3
<1>7. Route(x)
  BY <1>1, <1>4 DEF Good, Route, Context
<1>8. Commitment(x)
  BY <1>1, <1>4 DEF Good, Commitment, Context, Truncated
<1>9. Observation(x)
  BY <1>1, <1>4, <1>5 DEF Observation, Context
<1>10. x.attempts = q.attempts
  BY <1>1, <1>4 DEF Context
<1> QED
  BY <1>6, <1>7, <1>8, <1>9, <1>10 DEF Good

\* The load balancer selects an endpoint.
LEMMA SelectGood ==
  ASSUME NEW x, NEW e \in Endpoints, NEW configured \in BOOLEAN,
         NEW idempotent \in BOOLEAN,
         x = [Fresh EXCEPT !.pc = "routed", !.upstream = {e}, !.index = {e},
                !.attempted = {e}, !.state = TRUE, !.selected = TRUE,
                !.configured = configured, !.idempotent = idempotent]
  PROVE  Good(x) /\ x.attempts = 0
<1>1. Fresh \in Context
  BY FreshGood DEF Good
<1>2. {e} \in Opt /\ {e} \in SUBSET Endpoints
  BY DEF Opt
<1> DEFINE s == {e}
           p == [Fresh EXCEPT !.pc = "routed", !.upstream = s, !.index = s,
                              !.attempted = s]
           k == [p EXCEPT !.state = TRUE, !.selected = TRUE]
           o == [k EXCEPT !.configured = configured, !.idempotent = idempotent]
<1>3. x = o
  BY DEF Fresh
<1>4. o \in Context
  <2> HIDE DEF s
  <2>1. s \in Opt /\ s \in SUBSET Endpoints
    BY <1>2 DEF s
  <2>2. p \in Context
    BY <1>1, <2>1, ZenonT(60) DEF Context, Phases
  <2> HIDE DEF p
  <2>3. k \in Context
    BY <2>2, ZenonT(60) DEF Context
  <2> HIDE DEF k
  <2> QED
    BY <2>3, ZenonT(60) DEF Context
<1>5. Route(o)
  BY DEF Route, Fresh
<1>6. Commitment(o)
  BY DEF Commitment, Fresh
<1>7. Observation(o)
  BY DEF Observation, Fresh
<1>8. o.attempts = 0
  BY DEF Fresh
<1> QED
  BY <1>3, <1>4, <1>5, <1>6, <1>7, <1>8 DEF Good

\* Session affinity pins an endpoint.
LEMMA PinGood ==
  ASSUME NEW x, NEW e \in Endpoints, NEW idempotent \in BOOLEAN,
         x = [Fresh EXCEPT !.pc = "routed", !.upstream = {e}, !.index = {e},
                           !.idempotent = idempotent]
  PROVE  Good(x) /\ x.attempts = 0
<1> DEFINE s == {e}
           p == [Fresh EXCEPT !.pc = "routed", !.upstream = s, !.index = s,
                              !.idempotent = idempotent]
<1>1. Fresh \in Context /\ s \in Opt /\ x = p
  BY FreshGood DEF Good, Opt
<1>2. p \in Context
  <2> HIDE DEF s
  <2> QED
    BY <1>1, ZenonT(60) DEF Context, Phases
<1>3. Route(p)
  BY DEF Route, Fresh
<1>4. Commitment(p) /\ Observation(p) /\ p.attempts = 0
  BY DEF Commitment, Observation, Fresh
<1> QED
  BY <1>1, <1>2, <1>3, <1>4 DEF Good

\* An attempt is dialed at the endpoint that saved names.
LEMMA DialFields ==
  ASSUME NEW p \in Context, p.attempts < MaxAttempts
  PROVE  /\ Dial(p) \in Context
         /\ Dial(p).pc = "dialing" /\ Dial(p).attempts = p.attempts + 1
         /\ ~Dial(p).reselect /\ Dial(p).contacted
         /\ Dial(p).dialed = p.saved /\ Dial(p).tried = p.tried \cup p.saved
         /\ Dial(p).upstream = p.upstream /\ Dial(p).saved = p.saved
         /\ Dial(p).index = p.index /\ Dial(p).attempted = p.attempted
         /\ Dial(p).selected = p.selected /\ Dial(p).configured = p.configured
         /\ Dial(p).written = p.written /\ Dial(p).rejected = p.rejected
         /\ Dial(p).observed = p.observed /\ Dial(p).answered = p.answered
         /\ Dial(p).state = p.state /\ Dial(p).released = p.released
         /\ Dial(p).phase_done = p.phase_done
<1> DEFINE n == p.attempts + 1
           t == p.tried \cup p.saved
           s == p.saved
           o == [p EXCEPT !.pc = "dialing", !.reselect = FALSE, !.contacted = TRUE]
<1>1. n \in 0..MaxAttempts /\ t \in SUBSET Endpoints /\ s \in Opt
  BY AttemptsConfig DEF Context, Opt
<1>2. Dial(p) = [o EXCEPT !.attempts = n, !.dialed = s, !.tried = t,
                          !.verdict = "none"]
  BY DEF Dial, Context
<1>3. o \in Context
  BY ZenonT(60) DEF Context, Phases
<1>4. Dial(p) \in Context
  <2> HIDE DEF o, n, t, s
  <2>1. [o EXCEPT !.attempts = n, !.dialed = s, !.tried = t, !.verdict = "none"]
          \in Context
    BY <1>1, <1>3, ZenonT(60) DEF Context, Statuses
  <2> QED
    BY <1>2, <2>1
<1> QED
  BY <1>4 DEF Dial, Context

\* A dialed context whose endpoint passive health and the attempted ones know.
LEMMA DialGood ==
  ASSUME NEW p \in Context, p.attempts < MaxAttempts,
         p.configured => p.selected, ~p.written, ~p.rejected, p.observed = {},
         p.saved # {}, {} \notin Groups => p.index = p.saved,
         p.upstream \subseteq p.tried \cup p.saved,
         p.selected => p.attempted = p.tried \cup p.saved
  PROVE  Good(Dial(p))
<1> DEFINE x == Dial(p)
<1>1. /\ x \in Context
      /\ x.pc = "dialing" /\ x.attempts = p.attempts + 1
      /\ ~x.reselect /\ x.dialed = p.saved /\ x.tried = p.tried \cup p.saved
      /\ x.saved = p.saved /\ x.index = p.index /\ x.attempted = p.attempted
      /\ x.selected = p.selected /\ x.configured = p.configured
      /\ x.upstream = p.upstream
      /\ x.written = p.written /\ x.rejected = p.rejected
      /\ x.observed = p.observed /\ p.attempts \in Nat
  BY DialFields, AttemptsConfig DEF Context
<1> HIDE DEF x
<1>2. Route(x)
  BY <1>1 DEF Route
<1>3. Commitment(x) /\ Observation(x)
  BY <1>1 DEF Commitment, Observation
<1> QED
  BY <1>1, <1>2, <1>3 DEF Good, x

\* A slot is an endpoint of a group.
LEMMA SlotType ==
  ASSUME NEW s \in Slots
  PROVE  s[1] \in Groups /\ s[2] \in s[1] /\ s[2] \in Endpoints /\ s = <<s[1], s[2]>>
BY AttemptsConfig DEF Slots

\* A retry goes to the endpoint the reselector picked.
LEMMA ReselectGood ==
  ASSUME NEW q, Good(q), q.pc = "retrying", q.reselect, q.attempts < MaxAttempts,
         NEW s \in Candidates(q.attempted)
  PROVE  /\ Good(Dial(Reselected(q, s[2]))) /\ Follows(q, Dial(Reselected(q, s[2])))
         /\ Reselected(q, s[2]) \in Context /\ s \in Slots
<1> DEFINE e == s[2]
           p == Reselected(q, e)
<1>0. s \in Slots /\ e \in Endpoints /\ e \in s[1] /\ s[1] \in Groups
  BY SlotType DEF Candidates
<1>1. q \in Context /\ q.attempts \in Nat /\ e \in Endpoints /\ q.selected
  BY <1>0, AttemptsConfig DEF Good, Context, Route
<1>2. /\ q.attempts > 0 /\ q.tried = q.attempted /\ q.attempted \subseteq Endpoints
      /\ q.observed = {} /\ ~q.written /\ ~q.rejected /\ q.saved = {}
      /\ q.upstream \subseteq q.tried
  BY <1>1 DEF Good, Route, Commitment, Observation, Context
<1>10. e \notin q.attempted \/ s[1] \subseteq q.attempted
  BY DEF Candidates
<1> HIDE DEF e
<1>3. p \in Context
  <2> DEFINE t == {e}
             a == q.attempted \cup t
  <2>1. t \in Opt /\ a \in SUBSET Endpoints
    BY <1>1, <1>2 DEF Opt
  <2>2. p = [q EXCEPT !.attempted = a, !.index = t, !.saved = t]
    BY <1>1 DEF Reselected, Context
  <2> HIDE DEF t, a, p
  <2>3. [q EXCEPT !.attempted = a, !.index = t, !.saved = t] \in Context
    BY <1>1, <2>1, ZenonT(60) DEF Context
  <2> QED
    BY <2>2, <2>3
<1>4. /\ p.attempted = q.attempted \cup {e} /\ p.index = {e} /\ p.saved = {e}
      /\ p.attempts = q.attempts /\ p.configured = q.configured
      /\ p.selected = q.selected /\ p.written = q.written
      /\ p.rejected = q.rejected /\ p.observed = q.observed /\ p.tried = q.tried
      /\ p.upstream = q.upstream
  BY <1>1 DEF Reselected, Context
<1> HIDE DEF p
<1>5. Good(Dial(p))
  BY <1>1, <1>2, <1>3, <1>4, DialGood
<1>6. Dial(p).dialed = {e}
  BY <1>3, <1>4, DialFields
<1>7. Follows(q, Dial(p))
  BY <1>0, <1>2, <1>6, <1>10 DEF Follows
<1> QED
  BY <1>0, <1>3, <1>5, <1>7 DEF p, e

\* The strategy found no endpoint: the upstream written back is dialed again,
\* or the request ends.
LEMMA NoneGood ==
  ASSUME NEW q, Good(q), q.pc = "retrying", q.reselect, {} \in Groups,
         q.attempts < MaxAttempts
  PROVE  /\ q.saved = {}
         /\ Moved(q).saved = q.upstream
         /\ q.upstream # {} => /\ Good(Dial(Moved(q)))
                               /\ Follows(q, Dial(Moved(q)))
<1> DEFINE p == [q EXCEPT !.saved = q.upstream, !.upstream = {}]
<1>1. q \in Context /\ q.attempts \in Nat
  BY AttemptsConfig DEF Good, Context
<1>2. /\ q.saved = {} /\ q.attempts > 0 /\ (q.selected => q.tried = q.attempted)
      /\ q.upstream \subseteq q.tried /\ (q.configured => q.selected)
      /\ ~q.written /\ ~q.rejected /\ q.observed = {}
  BY <1>1 DEF Good, Route, Commitment, Observation
<1>3. Moved(q) = p
  BY <1>2 DEF Moved
<1>4. /\ p.saved = q.upstream /\ p.upstream = {} /\ p.attempts = q.attempts
      /\ p.configured = q.configured /\ p.selected = q.selected
      /\ p.written = q.written /\ p.rejected = q.rejected /\ p.observed = q.observed
      /\ p.tried = q.tried /\ p.attempted = q.attempted
  BY <1>1 DEF Context
<1>5. p \in Context
  <2> DEFINE u == q.upstream
             v == {}
  <2>1. u \in Opt /\ v \in Opt
    BY <1>1 DEF Context, Opt
  <2>2. p = [q EXCEPT !.saved = u, !.upstream = v]
    OBVIOUS
  <2> HIDE DEF u, v, p
  <2>3. [q EXCEPT !.saved = u, !.upstream = v] \in Context
    BY <1>1, <2>1, ZenonT(60) DEF Context
  <2> QED
    BY <2>2, <2>3
<1> HIDE DEF p
<1>6. ASSUME q.upstream # {} PROVE Good(Dial(p)) /\ Follows(q, Dial(p))
  <2>1. Good(Dial(p))
    BY <1>2, <1>4, <1>5, <1>6, DialGood
  <2>2. Dial(p).dialed = q.upstream
    BY <1>4, <1>5, DialFields
  <2> QED
    BY <2>1, <2>2 DEF Follows
<1> QED
  BY <1>2, <1>3, <1>4, <1>6

\* The upstream moves to saved with the first attempt.
LEMMA MovedFields ==
  ASSUME NEW q, Good(q), q.pc \in {"routed", "retrying"}, ~(q.reselect /\ q.selected)
  PROVE  /\ Moved(q) \in Context
         /\ {} \notin Groups => Moved(q).index = Moved(q).saved
         /\ Moved(q).saved = IF q.pc = "routed" THEN q.upstream ELSE q.saved
         /\ q.pc = "retrying" => Moved(q) = q
         /\ q.pc = "routed" => Moved(q).upstream = {}
         /\ Moved(q).pc = q.pc /\ Moved(q).attempts = q.attempts
         /\ Moved(q).selected = q.selected /\ Moved(q).configured = q.configured
         /\ Moved(q).attempted = q.attempted /\ Moved(q).tried = q.tried
         /\ Moved(q).written = q.written /\ Moved(q).rejected = q.rejected
         /\ Moved(q).observed = q.observed /\ Moved(q).answered = q.answered
         /\ Moved(q).state = q.state /\ Moved(q).released = q.released
         /\ Moved(q).phase_done = q.phase_done
<1>1. q \in Context /\ q.attempts \in Nat
  BY AttemptsConfig DEF Good, Context
<1>2. CASE q.pc = "routed"
  <2>1. q.saved = {} /\ q.index = q.upstream
    BY <1>2 DEF Good, Route
  <2> DEFINE s == q.upstream
             u == {}
             p == [q EXCEPT !.saved = s, !.upstream = u]
  <2>2. Moved(q) = p
    BY <2>1 DEF Moved
  <2>3. s \in Opt /\ u \in Opt
    BY <1>1 DEF Context, Opt
  <2>4. p \in Context
    <3> HIDE DEF s, u
    <3> QED
      BY <1>1, <2>3, ZenonT(60) DEF Context
  <2>5. /\ p.saved = q.upstream /\ p.upstream = {} /\ p.index = q.index /\ p.pc = q.pc
        /\ p.attempts = q.attempts
        /\ p.selected = q.selected /\ p.configured = q.configured
        /\ p.attempted = q.attempted /\ p.tried = q.tried
        /\ p.written = q.written /\ p.rejected = q.rejected
        /\ p.observed = q.observed /\ p.answered = q.answered
        /\ p.state = q.state /\ p.released = q.released
        /\ p.phase_done = q.phase_done
    BY <1>1 DEF Context
  <2> HIDE DEF p
  <2> QED
    BY <1>2, <2>1, <2>2, <2>4, <2>5
<1>3. CASE q.pc = "retrying"
  <2>1. /\ q.saved = q.dialed /\ q.dialed # {}
        /\ {} \notin Groups => q.index = q.dialed
    BY <1>1, <1>3 DEF Good, Route
  <2> QED
    BY <1>1, <1>3, <2>1 DEF Moved
<1> QED
  BY <1>2, <1>3

\* The first attempt, or a retry at the same endpoint.
LEMMA SameGood ==
  ASSUME NEW q, Good(q), q.pc \in {"routed", "retrying"},
         ~(q.reselect /\ q.selected), q.attempts < MaxAttempts
  PROVE  Good(Dial(Moved(q))) /\ Follows(q, Dial(Moved(q)))
<1> DEFINE p == Moved(q)
<1>1. q \in Context /\ q.attempts \in Nat
  BY AttemptsConfig DEF Good, Context
<1>2. /\ p \in Context /\ ({} \notin Groups => p.index = p.saved)
      /\ p.saved = IF q.pc = "routed" THEN q.upstream ELSE q.saved
      /\ (q.pc = "retrying" => p = q) /\ (q.pc = "routed" => p.upstream = {})
      /\ p.attempts = q.attempts
      /\ p.selected = q.selected /\ p.configured = q.configured
      /\ p.attempted = q.attempted /\ p.tried = q.tried
      /\ p.written = q.written /\ p.rejected = q.rejected
      /\ p.observed = q.observed
  BY MovedFields
<1>3. /\ q.configured => q.selected
      /\ ~q.written /\ ~q.rejected /\ q.observed = {} /\ ~q.reselect
  BY <1>1 DEF Good, Route, Commitment, Observation
<1>4. p.saved # {} /\ (q.selected => q.attempted = q.tried \cup p.saved)
  BY <1>1, <1>2, <1>3 DEF Good, Route
<1>8. p.upstream \subseteq p.tried
  BY <1>1, <1>2 DEF Good, Route
<1> HIDE DEF p
<1>5. Good(Dial(p))
  BY <1>2, <1>3, <1>4, <1>8, DialGood
<1>6. q.attempts > 0 => q.pc = "retrying"
  BY <1>1 DEF Good, Route
<1>7. Follows(q, Dial(p))
  BY <1>3, <1>6 DEF Follows
<1> QED
  BY <1>5, <1>7 DEF p

-----------------------------------------------------------------------------
(***************************************************************************)
(* The hooks.                                                              *)
(***************************************************************************)

\* A hook of r leaves context x behind.
Leaves(r, x) == Put(r, x) /\ Good(x) /\ Follows(req[r], x)

\* A context with as many attempts follows.
LEMMA SameAttempts ==
  ASSUME NEW q, NEW x, q.attempts \in Nat, x.attempts = q.attempts \/ x.attempts = 0
  PROVE  Follows(q, x)
BY DEF Follows

\* The counters stay natural numbers.
LEMMA CountersType ==
  ASSUME TypeOK
  PROVE  /\ \A es : Released(es) \in [Slots -> Nat]
         /\ \A s \in Slots : Taken(s) \in [Slots -> Nat]
         /\ Less(active) \in Nat /\ active + 1 \in Nat
         /\ \A q, reached : BalancerOnResponse(q, reached) =>
              load' \in [Slots -> Nat] /\ active' \in Nat
<1>1. \A n \in Nat : Less(n) \in Nat
  BY DEF Less
<1>2. \A es : Released(es) \in [Slots -> Nat]
  BY <1>1 DEF Released, TypeOK
<1>3. \A s \in Slots : Taken(s) \in [Slots -> Nat]
  BY DEF Taken, TypeOK
<1>4. Less(active) \in Nat /\ active + 1 \in Nat
  BY <1>1 DEF TypeOK
<1>5. \A q, reached : BalancerOnResponse(q, reached) =>
        load' \in [Slots -> Nat] /\ active' \in Nat
  BY <1>2, <1>4 DEF BalancerOnResponse, TypeOK
<1> QED
  BY <1>2, <1>3, <1>4, <1>5

\* The hooks up to the first attempt.
LEMMA RequestPhase ==
  ASSUME AttemptsInv, NEW r \in Requests,
         Select(r) \/ SelectPinned(r) \/ RejectRequest(r) \/ TerminalResponse(r)
  PROVE  (\E x : Leaves(r, x)) /\ load' \in [Slots -> Nat] /\ active' \in Nat
<1> DEFINE q == req[r]
<1>1. Good(q) /\ TypeOK /\ q.attempts \in Nat
  BY AttemptsConfig DEF AttemptsInv, Good, Context
<1>2. CASE Select(r)
  <2>1. PICK s \in Slots, configured \in BOOLEAN, idempotent \in BOOLEAN :
          /\ Put(r, [Fresh EXCEPT !.pc = "routed", !.upstream = {s[2]},
                       !.index = {s[2]}, !.attempted = {s[2]}, !.state = TRUE,
                       !.selected = TRUE, !.configured = configured,
                       !.idempotent = idempotent])
          /\ load' = Taken(s)
    BY <1>2 DEF Select, Candidates
  <2>5. PICK e \in Endpoints : e = s[2]
    BY SlotType
  <2> DEFINE x == [Fresh EXCEPT !.pc = "routed", !.upstream = {e}, !.index = {e},
                       !.attempted = {e}, !.state = TRUE, !.selected = TRUE,
                       !.configured = configured, !.idempotent = idempotent]
  <2>2. Good(x) /\ x.attempts = 0
    BY SelectGood
  <2> HIDE DEF x
  <2>3. Leaves(r, x)
    BY <1>1, <2>1, <2>2, <2>5, SameAttempts DEF Leaves, x
  <2>4. active' = active + 1
    BY <1>2 DEF Select
  <2> QED
    BY <1>1, <2>1, <2>3, <2>4, CountersType
<1>3. CASE SelectPinned(r)
  <2>1. PICK e \in Endpoints, idempotent \in BOOLEAN :
          Put(r, [Fresh EXCEPT !.pc = "routed", !.upstream = {e}, !.index = {e},
                               !.idempotent = idempotent])
    BY <1>3 DEF SelectPinned
  <2> DEFINE x == [Fresh EXCEPT !.pc = "routed", !.upstream = {e}, !.index = {e},
                               !.idempotent = idempotent]
  <2>2. Good(x) /\ x.attempts = 0
    BY PinGood
  <2> HIDE DEF x
  <2>3. Leaves(r, x)
    BY <1>1, <2>1, <2>2, SameAttempts DEF Leaves, x
  <2> QED
    BY <1>1, <1>3, <2>3 DEF SelectPinned, TypeOK
<1>4. CASE RejectRequest(r)
  <2> DEFINE x == [q EXCEPT !.pc = "ending", !.written = TRUE]
  <2>1. Put(r, x) /\ q.pc = "routed" /\ UNCHANGED <<load, active>>
    BY <1>4 DEF RejectRequest
  <2>2. Good(x) /\ x.attempts = q.attempts
    BY <1>1, <2>1, RejectRequestGood
  <2> HIDE DEF x
  <2>3. Leaves(r, x)
    BY <1>1, <2>1, <2>2, SameAttempts DEF Leaves
  <2> QED
    BY <1>1, <2>1, <2>3 DEF TypeOK
<1>5. CASE TerminalResponse(r)
  <2>1. q.pc = "routed"
    BY <1>5 DEF TerminalResponse
  <2>2. PICK reached \in Reaches, status \in {"ok", "5xx"} :
          /\ Put(r, [q EXCEPT !.pc = "ending", !.phase_done = TRUE,
                       !.status = status, !.upstream = Shown(q),
                       !.written = TRUE, !.answered = TRUE])
          /\ BalancerOnResponse(q, reached)
    BY <1>5 DEF TerminalResponse
  <2> DEFINE x == [q EXCEPT !.pc = "ending", !.phase_done = TRUE, !.status = status,
                            !.upstream = Shown(q), !.written = TRUE, !.answered = TRUE]
  <2>3. Good(x) /\ x.attempts = q.attempts
    BY <1>1, <2>1, TerminalGood
  <2> HIDE DEF x
  <2>4. Leaves(r, x)
    BY <1>1, <2>2, <2>3, SameAttempts DEF Leaves, x
  <2>5. load' \in [Slots -> Nat] /\ active' \in Nat
    BY <1>1, <2>2, CountersType
  <2> QED
    BY <2>4, <2>5
<1> QED
  BY <1>2, <1>3, <1>4, <1>5

\* The hooks that prepare an attempt.
LEMMA PreparePhase ==
  ASSUME AttemptsInv, NEW r \in Requests,
         PrepareReselected(r) \/ PrepareNone(r) \/ PrepareSame(r) \/ Connect(r)
  PROVE  (\E x : Leaves(r, x)) /\ load' \in [Slots -> Nat] /\ active' \in Nat
<1> DEFINE q == req[r]
<1>1. Good(q) /\ TypeOK /\ q.attempts \in Nat
  BY AttemptsConfig DEF AttemptsInv, Good, Context
<1>2. CASE PrepareReselected(r)
  <2>1. q.pc = "retrying" /\ q.reselect /\ q.attempts < MaxAttempts /\ UNCHANGED active
    BY <1>2 DEF PrepareReselected
  <2>2. PICK s \in Candidates(q.attempted) :
          /\ load' = [d \in Slots |->
                        LET n == IF d = s THEN load[d] + 1 ELSE load[d]
                        IN  IF d[2] \in q.saved THEN Less(n) ELSE n]
          /\ Put(r, Dial(Reselected(q, s[2])))
    BY <1>2 DEF PrepareReselected
  <2>3. Leaves(r, Dial(Reselected(q, s[2])))
    BY <1>1, <2>1, <2>2, ReselectGood DEF Leaves
  <2>4. load' \in [Slots -> Nat]
    BY <1>1, <2>2 DEF Less, TypeOK
  <2> QED
    BY <1>1, <2>1, <2>3, <2>4 DEF TypeOK
<1>3. CASE PrepareSame(r)
  <2>1. /\ q.pc \in {"routed", "retrying"} /\ ~(q.reselect /\ q.selected)
        /\ q.attempts < MaxAttempts /\ Put(r, Dial(Moved(q)))
        /\ UNCHANGED <<load, active>>
    BY <1>3 DEF PrepareSame, Moved
  <2>2. Leaves(r, Dial(Moved(q)))
    BY <1>1, <2>1, SameGood DEF Leaves
  <2> QED
    BY <1>1, <2>1, <2>2 DEF TypeOK
<1>5. CASE PrepareNone(r)
  <2>1. /\ q.pc = "retrying" /\ q.reselect /\ {} \in Groups /\ q.attempts < MaxAttempts
        /\ Put(r, IF Moved(q).saved = {}
                  THEN [q EXCEPT !.pc = "ending", !.error = "other", !.reselect = FALSE]
                  ELSE Dial(Moved(q)))
        /\ UNCHANGED <<load, active>>
    BY <1>5 DEF PrepareNone
  <2>2. /\ Moved(q).saved = q.upstream
        /\ q.upstream # {} => Good(Dial(Moved(q))) /\ Follows(q, Dial(Moved(q)))
    BY <1>1, <2>1, NoneGood
  <2>3. CASE q.upstream # {}
    <3>1. Leaves(r, Dial(Moved(q)))
      BY <2>1, <2>2, <2>3 DEF Leaves
    <3> QED
      BY <1>1, <2>1, <3>1 DEF TypeOK
  <2>4. CASE q.upstream = {}
    <3> DEFINE x == [q EXCEPT !.pc = "ending", !.error = "other", !.reselect = FALSE]
    <3>1. Put(r, x)
      BY <2>1, <2>2, <2>4
    <3>2. Good(x) /\ x.attempts = q.attempts
      BY <1>1, <2>1, NoneEnds
    <3> HIDE DEF x
    <3>3. Leaves(r, x)
      BY <1>1, <3>1, <3>2, SameAttempts DEF Leaves
    <3> QED
      BY <1>1, <2>1, <3>3 DEF TypeOK
  <2> QED
    BY <2>3, <2>4
<1>4. CASE Connect(r)
  <2> DEFINE x == [q EXCEPT !.pc = "connected"]
  <2>1. Put(r, x) /\ q.pc = "dialing" /\ UNCHANGED <<load, active>>
    BY <1>4 DEF Connect
  <2>2. Good(x) /\ x.attempts = q.attempts
    BY <1>1, <2>1, ConnectGood
  <2> HIDE DEF x
  <2>3. Leaves(r, x)
    BY <1>1, <2>1, <2>2, SameAttempts DEF Leaves
  <2> QED
    BY <1>1, <2>1, <2>3 DEF TypeOK
<1> QED
  BY <1>2, <1>3, <1>4, <1>5

\* A retry that was decided for r, whose context is q by then.
LEMMA RetryStep ==
  ASSUME AttemptsInv, NEW r \in Requests, NEW q, Good(q),
         q.attempts = req[r].attempts, q.pc \in {"dialing", "connected"},
         NEW outcome, ShouldRetry(q, outcome), ~Truncated(q), Retry(r, q)
  PROVE  (\E x : Leaves(r, x)) /\ load' \in [Slots -> Nat] /\ active' \in Nat
<1> DEFINE x == [Retrying(q) EXCEPT !.pc = "retrying"]
<1>1. TypeOK /\ req[r].attempts \in Nat
  BY AttemptsConfig DEF AttemptsInv, Good, Context
<1>2. Good(x) /\ x.attempts = q.attempts
  BY RetryGood
<1>3. Put(r, x)
  BY DEF Retry
<1>4. load' \in [Slots -> Nat] /\ active' \in Nat
  BY <1>1, CountersType DEF Retry, TypeOK
<1> HIDE DEF x
<1>5. Leaves(r, x)
  BY <1>1, <1>2, <1>3, SameAttempts DEF Leaves
<1> QED
  BY <1>4, <1>5

\* The end of a request.
LEMMA EndStep ==
  ASSUME AttemptsInv, NEW r \in Requests, req[r].pc # "done",
         NEW error \in Errors, End(r, req[r], error)
  PROVE  (\E x : Leaves(r, x)) /\ load' \in [Slots -> Nat] /\ active' \in Nat
<1> DEFINE q == req[r]
           x == [q EXCEPT !.pc = "ending", !.error = error]
<1>1. Good(q) /\ TypeOK /\ q.attempts \in Nat
  BY AttemptsConfig DEF AttemptsInv, Good, Context
<1>2. Good(x) /\ x.attempts = q.attempts
  BY <1>1, EndGood
<1>3. Put(r, x) /\ UNCHANGED <<load, active>>
  BY DEF End
<1> HIDE DEF x
<1>4. Leaves(r, x)
  BY <1>1, <1>2, <1>3, SameAttempts DEF Leaves
<1> QED
  BY <1>1, <1>3, <1>4 DEF TypeOK

\* The hooks of an attempt under way.
LEMMA AttemptPhase ==
  ASSUME AttemptsInv, NEW r \in Requests,
         FailToConnect(r) \/ ErrorWhileProxy(r) \/ GiveUp(r) \/ Finish(r)
         \/ ReadBody(r) \/ RejectBody(r)
  PROVE  (\E x : Leaves(r, x)) /\ load' \in [Slots -> Nat] /\ active' \in Nat
<1> DEFINE q == req[r]
<1>1. Good(q) /\ TypeOK /\ q.attempts \in Nat /\ q \in Context
  BY AttemptsConfig DEF AttemptsInv, Good, Context
<1>2. CASE FailToConnect(r)
  <2>1. q.pc = "dialing"
    BY <1>2 DEF FailToConnect
  <2>2. CASE ~Truncated(q) /\ ShouldRetry(q, "connect") /\ Retry(r, q)
    BY <1>1, <2>1, <2>2, RetryStep
  <2>3. CASE End(r, q, "other")
    BY <2>1, <2>3, EndStep DEF Errors
  <2> QED
    BY <1>2, <2>2, <2>3 DEF FailToConnect
<1>3. CASE ErrorWhileProxy(r)
  <2>1. q.pc \in {"connected", "streaming"}
    BY <1>3 DEF ErrorWhileProxy
  <2>2. ASSUME NEW outcome, ~Final(q), ~Truncated(q), ShouldRetry(q, outcome),
               Retry(r, q)
        PROVE  (\E x : Leaves(r, x)) /\ load' \in [Slots -> Nat] /\ active' \in Nat
    <3>1. q.pc = "connected"
      BY <1>1, <2>1, <2>2 DEF Final, Good, Commitment
    <3> QED
      BY <1>1, <2>2, <3>1, RetryStep
  <2>3. ASSUME ~Final(q), ~Truncated(q),
               Put(r, [q EXCEPT !.pc = "retrying", !.stale = TRUE]),
               UNCHANGED <<load, active>>
        PROVE  (\E x : Leaves(r, x)) /\ load' \in [Slots -> Nat] /\ active' \in Nat
    <3> DEFINE x == [q EXCEPT !.pc = "retrying", !.stale = TRUE]
    <3>1. Good(x) /\ x.attempts = q.attempts
      BY <1>1, <2>1, <2>3, StaleGood
    <3>2. Put(r, x)
      BY <2>3
    <3> HIDE DEF x
    <3>3. Leaves(r, x)
      BY <1>1, <3>1, <3>2, SameAttempts DEF Leaves
    <3> QED
      BY <1>1, <2>3, <3>3 DEF TypeOK
  <2>4. ASSUME NEW error \in {"downstream", "other"}, End(r, q, error)
        PROVE  (\E x : Leaves(r, x)) /\ load' \in [Slots -> Nat] /\ active' \in Nat
    BY <2>1, <2>4, EndStep DEF Errors
  <2> QED
    BY <1>3, <2>2, <2>3, <2>4 DEF ErrorWhileProxy
<1>4. CASE GiveUp(r)
  BY <1>4, EndStep DEF GiveUp, Errors
<1>5. CASE Finish(r)
  BY <1>5, EndStep DEF Finish, Errors
<1>6. CASE ReadBody(r)
  <2>1. q.pc = "connected" /\ q.read < MaxBody /\ UNCHANGED <<load, active>>
    BY <1>6 DEF ReadBody
  <2>2. PICK writer \in {q.writer, TRUE} :
          Put(r, [q EXCEPT !.read = q.read + 1, !.writer = writer,
                           !.upstream = IF BodyFilters THEN Shown(q) ELSE q.upstream])
    BY <1>1, <1>6 DEF ReadBody
  <2> DEFINE n == q.read + 1
             u == IF BodyFilters THEN Shown(q) ELSE q.upstream
             x == [q EXCEPT !.read = n, !.writer = writer, !.upstream = u]
  <2>3. n \in 0..MaxBody /\ u \in Opt /\ writer \in BOOLEAN
    <3>1. n \in 0..MaxBody
      BY <1>1, <2>1, AttemptsConfig DEF Context
    <3>2. Shown(q) \in Opt /\ q.upstream \in Opt
      BY <1>1, ShownType DEF Context
    <3>3. q.writer \in BOOLEAN
      BY <1>1 DEF Context
    <3>4. writer \in BOOLEAN
      BY <2>2, <3>3
    <3> QED
      BY <3>1, <3>2, <3>4
  <2>4. Put(r, x)
    BY <2>2
  <2>7. u \subseteq q.tried
    BY <1>1, <2>1 DEF Good, Route, Shown
  <2> HIDE DEF n, u
  <2>8. x = Chunked(q, n, writer, u)
    BY DEF Chunked
  <2>9. Good(q) /\ q.pc = "connected"
    BY <1>1, <2>1
  <2> HIDE DEF x
  <2>5. Good(x) /\ x.attempts = q.attempts
    BY ONLY <2>3, <2>7, <2>8, <2>9, ReadBodyGood
  <2>6. Leaves(r, x)
    BY <1>1, <2>4, <2>5, SameAttempts DEF Leaves
  <2> QED
    BY <1>1, <2>1, <2>6 DEF TypeOK
<1>7. CASE RejectBody(r)
  <2> DEFINE x == [[q EXCEPT !.rejected = TRUE, !.upstream = Shown(q)]
                     EXCEPT !.pc = "ending", !.error = "downstream"]
  <2>1. q.pc = "connected" /\ Put(r, x) /\ UNCHANGED <<load, active>>
    BY <1>7 DEF RejectBody, End
  <2>2. Good(x) /\ x.attempts = q.attempts
    BY <1>1, <2>1, RejectBodyGood
  <2> HIDE DEF x
  <2>3. Leaves(r, x)
    BY <1>1, <2>1, <2>2, SameAttempts DEF Leaves
  <2> QED
    BY <1>1, <2>1, <2>3 DEF TypeOK
<1> QED
  BY <1>2, <1>3, <1>4, <1>5, <1>6, <1>7

\* A context after the hooks of a response.
AfterPhase(q, rejected, released) ==
  [q EXCEPT !.phase_done = TRUE, !.upstream = {}, !.released = released,
            !.rejected = rejected, !.error = IF rejected THEN "other" ELSE @]

\* The response phase of context q, which the filters let pass or reject.
LEMMA ResponsePhaseForm ==
  ASSUME NEW q \in Context, NEW reached \in BOOLEAN, NEW rejected \in BOOLEAN
  PROVE  \E released \in BOOLEAN :
           ResponsePhase(q, reached, rejected) = AfterPhase(q, rejected, released)
<1> DEFINE b == q.released \/ (reached /\ q.selected /\ q.state)
<1>1. b \in BOOLEAN
  OBVIOUS
<1>2. ResponsePhase(q, reached, rejected) =
        [q EXCEPT !.phase_done = TRUE, !.upstream = {}, !.released = b,
                  !.rejected = rejected, !.error = IF rejected THEN "other" ELSE @]
  BY DEF ResponsePhase, Context
<1>3. ResponsePhase(q, reached, rejected) = AfterPhase(q, rejected, b)
  BY <1>2 DEF AfterPhase
<1> HIDE DEF b
<1> QED
  BY ONLY <1>1, <1>3

\* The hooks of a response and the logging hook.
LEMMA ResponseHooks ==
  ASSUME AttemptsInv, NEW r \in Requests,
         Interim(r) \/ StatusRetry(r) \/ Respond(r) \/ Logging(r)
  PROVE  (\E x : Leaves(r, x)) /\ load' \in [Slots -> Nat] /\ active' \in Nat
<1> DEFINE p == req[r]
<1>1. Good(p) /\ TypeOK /\ p.attempts \in Nat /\ p \in Context
  BY AttemptsConfig DEF AttemptsInv, Good, Context
<1>2. {} \in Opt /\ \A b \in Reaches \cup Rejections : b \in BOOLEAN
  BY DEF Opt, Reaches, Rejections
<1>3. CASE Interim(r)
  <2>1. p.pc = "connected"
    BY <1>3 DEF Interim
  <2>2. PICK reached \in Reaches, rejected \in Rejections :
          /\ Put(r, [ResponsePhase(p, reached, rejected) EXCEPT
                       !.pc = IF rejected THEN "ending" ELSE @])
          /\ BalancerOnResponse(p, reached)
    BY <1>3 DEF Interim
  <2>3. load' \in [Slots -> Nat] /\ active' \in Nat
    BY <1>1, <2>2, CountersType
  <2>4. PICK released \in BOOLEAN :
           ResponsePhase(p, reached, rejected) =
             [p EXCEPT !.phase_done = TRUE, !.upstream = {}, !.released = released,
                       !.rejected = rejected, !.error = IF rejected THEN "other" ELSE @]
    <3>1. p \in Context /\ reached \in BOOLEAN /\ rejected \in BOOLEAN
      BY <1>2, <1>1
    <3>2. \E released \in BOOLEAN :
            ResponsePhase(p, reached, rejected) = AfterPhase(p, rejected, released)
      BY ONLY <3>1, ResponsePhaseForm
    <3> QED
      BY <3>2 DEF AfterPhase
  <2>5. CASE ~rejected
    <3> DEFINE x == [p EXCEPT !.phase_done = TRUE, !.upstream = {},
                       !.released = released, !.rejected = FALSE, !.error = p.error]
    <3>1. [ResponsePhase(p, reached, rejected) EXCEPT !.pc = IF rejected THEN "ending" ELSE @] = x
      <4>1. rejected = FALSE
        BY <1>2, <2>5
      <4> QED
        BY <1>1, <2>4, <4>1 DEF Context
    <3>2. Good(x) /\ x.attempts = p.attempts
      BY <1>1, <1>2, <2>1, PassedGood
    <3> HIDE DEF x
    <3>3. Leaves(r, x)
      BY <1>1, <2>2, <3>1, <3>2, SameAttempts DEF Leaves
    <3> QED
      BY <2>3, <3>3
  <2>6. CASE rejected
    <3> DEFINE a == p.answered
               x == [p EXCEPT !.phase_done = TRUE, !.upstream = {},
                       !.released = released, !.rejected = TRUE, !.error = "other",
                       !.answered = a, !.written = FALSE, !.pc = "ending"]
    <3>1. a \in BOOLEAN /\ ~p.written
      BY <1>1, <2>1 DEF Context, Good, Commitment
    <3>2. p.written = FALSE
      BY <1>1, <3>1 DEF Context
    <3>3. [ResponsePhase(p, reached, rejected) EXCEPT !.pc = IF rejected THEN "ending" ELSE @] = x
      <4> DEFINE z == [p EXCEPT !.answered = p.answered, !.written = p.written]
      <4>1. z = p
        BY <1>1 DEF Context
      <4> DEFINE y == [z EXCEPT !.phase_done = TRUE, !.upstream = {},
                         !.released = released, !.rejected = TRUE, !.error = "other"]
      <4>2. [y EXCEPT !.pc = "ending"] = x
        BY <1>1, <3>2 DEF Context
      <4>3. ResponsePhase(p, reached, rejected) = y
        <5> HIDE DEF z
        <5> QED
          BY <2>4, <2>6, <4>1
      <4> HIDE DEF y
      <4> QED
        BY <2>6, <4>2, <4>3
    <3>4. Good(x) /\ x.attempts = p.attempts
      <4> DEFINE u == {}
      <4>1. u \in Opt /\ u = {} /\ x.attempts = p.attempts
        BY <1>1, <1>2 DEF Context
      <4>2. x = [p EXCEPT !.phase_done = TRUE, !.upstream = u,
                   !.released = released, !.rejected = TRUE, !.error = "other",
                   !.answered = a, !.written = FALSE, !.pc = "ending"]
        OBVIOUS
      <4> HIDE DEF u, x, a
      <4> QED
        BY <1>1, <2>1, <3>1, <4>1, <4>2, RejectedGood
    <3> HIDE DEF x
    <3>5. Leaves(r, x)
      BY <1>1, <2>2, <3>3, <3>4, SameAttempts DEF Leaves
    <3> QED
      BY <2>3, <3>5
  <2> QED
    BY <2>5, <2>6
<1>4. CASE StatusRetry(r)
  <2> DEFINE s == "5xx"
             q == [p EXCEPT !.status = s, !.verdict = s]
  <2>1. q.pc = "connected" /\ ShouldRetry(q, "status")
    BY <1>4 DEF StatusRetry
  <2>2. p.pc = "connected"
    BY <1>1, <2>1 DEF Context
  <2>3. Good(q) /\ q.attempts = p.attempts
    BY <1>1, <2>2, StatusGood
  <2>4. \/ /\ Put(r, [Retrying(q) EXCEPT !.pc = "ending", !.error = "other"])
           /\ load' = IF q.configured THEN Released(ClearForReselection(q)) ELSE load
           /\ UNCHANGED active
        \/ ~Truncated(q) /\ Retry(r, q)
    BY <1>4 DEF StatusRetry
  <2> HIDE DEF q
  <2>5. CASE ~Truncated(q) /\ Retry(r, q)
    BY <2>1, <2>3, <2>5, RetryStep
  <2>6. CASE /\ Put(r, [Retrying(q) EXCEPT !.pc = "ending", !.error = "other"])
             /\ load' = IF q.configured THEN Released(ClearForReselection(q)) ELSE load
             /\ UNCHANGED active
    <3> DEFINE x == [Retrying(q) EXCEPT !.pc = "ending", !.error = "other"]
    <3>1. Good(x) /\ x.attempts = q.attempts
      BY <2>1, <2>3, RefusedRetryGood
    <3>2. Put(r, x)
      BY <2>6
    <3> HIDE DEF x
    <3>3. Leaves(r, x)
      BY <1>1, <2>3, <3>1, <3>2, SameAttempts DEF Leaves
    <3> QED
      BY <1>1, <2>6, <3>3, CountersType DEF TypeOK
  <2> QED
    BY <2>4, <2>5, <2>6
<1>5. CASE Respond(r)
  <2>1. PICK status \in {"ok", "5xx"}, reached \in Reaches, rejected \in Rejections :
          LET q == [p EXCEPT !.status = status, !.verdict = status] IN
          /\ q.pc = "connected"
          /\ Put(r, [ResponsePhase(q, reached, rejected) EXCEPT !.answered = TRUE,
                       !.written = ~rejected,
                       !.pc = IF rejected THEN "ending" ELSE "streaming"])
          /\ BalancerOnResponse(q, reached)
    BY <1>5 DEF Respond
  <2> DEFINE q == [p EXCEPT !.status = status, !.verdict = status]
  <2>2. q.pc = "connected" /\ p.pc = "connected"
    BY <1>1, <2>1 DEF Context
  <2>3. Good(q) /\ q.attempts = p.attempts
    BY <1>1, <2>2, StatusGood
  <2>4. /\ Put(r, [ResponsePhase(q, reached, rejected) EXCEPT !.answered = TRUE,
                       !.written = ~rejected,
                       !.pc = IF rejected THEN "ending" ELSE "streaming"])
        /\ BalancerOnResponse(q, reached)
    BY <2>1
  <2> HIDE DEF q
  <2>5. load' \in [Slots -> Nat] /\ active' \in Nat
    BY <1>1, <2>4, CountersType
  <2>6. q \in Context
    BY <2>3 DEF Good
  <2>7. PICK released \in BOOLEAN :
           ResponsePhase(q, reached, rejected) =
             [q EXCEPT !.phase_done = TRUE, !.upstream = {}, !.released = released,
                       !.rejected = rejected, !.error = IF rejected THEN "other" ELSE @]
    <3>1. q \in Context /\ reached \in BOOLEAN /\ rejected \in BOOLEAN
      BY <1>2, <2>6
    <3>2. \E released \in BOOLEAN :
            ResponsePhase(q, reached, rejected) = AfterPhase(q, rejected, released)
      BY ONLY <3>1, ResponsePhaseForm
    <3> QED
      BY <3>2 DEF AfterPhase
  <2>8. CASE ~rejected
    <3> DEFINE y == [q EXCEPT !.phase_done = TRUE, !.upstream = {},
                       !.released = released, !.rejected = FALSE, !.error = q.error]
               x == [y EXCEPT !.answered = TRUE, !.written = TRUE, !.pc = "streaming"]
    <3>1. ResponsePhase(q, reached, rejected) = y /\ rejected = FALSE
      BY <1>2, <2>6, <2>7, <2>8 DEF Context
    <3>2. Good(y) /\ y.attempts = q.attempts
      BY <1>2, <2>2, <2>3, PassedGood
    <3>3. y.pc = "connected"
      BY <2>2, <2>6 DEF Context
    <3> HIDE DEF y
    <3>4. Good(x) /\ x.attempts = y.attempts
      BY <3>2, <3>3, StreamGood
    <3>5. Put(r, x)
      BY <2>4, <3>1
    <3> HIDE DEF x
    <3>6. Leaves(r, x)
      BY <1>1, <2>3, <3>2, <3>4, <3>5, SameAttempts DEF Leaves
    <3> QED
      BY <2>5, <3>6
  <2>9. CASE rejected
    <3> DEFINE a == TRUE
               x == [q EXCEPT !.phase_done = TRUE, !.upstream = {},
                       !.released = released, !.rejected = TRUE, !.error = "other",
                       !.answered = a, !.written = FALSE, !.pc = "ending"]
    <3>1. rejected = TRUE
      BY <1>2, <2>9
    <3>2. [ResponsePhase(q, reached, rejected) EXCEPT !.answered = TRUE, !.written = ~rejected,
             !.pc = IF rejected THEN "ending" ELSE "streaming"] = x
      BY <2>6, <2>7, <3>1 DEF Context
    <3>3. Good(x) /\ x.attempts = q.attempts
      BY <1>2, <2>2, <2>3, RejectedGood
    <3> HIDE DEF x
    <3>4. Leaves(r, x)
      BY <1>1, <2>3, <2>4, <3>2, <3>3, SameAttempts DEF Leaves
    <3> QED
      BY <2>5, <3>4
  <2> QED
    BY <2>8, <2>9
<1>6. CASE Logging(r)
  <2> DEFINE leave == ReleaseRetryState(p)
             held == p.state /\ ~leave
             b == p.released \/ leave
             x == [p EXCEPT !.pc = "done", !.observed = Observe(p), !.state = held,
                            !.released = b]
  <2>1. p.pc = "ending" /\ Put(r, x)
    BY <1>1, <1>6 DEF Logging, Context
  <2>2. load' \in [Slots -> Nat] /\ active' \in Nat
    <3>1. Less(active) \in Nat /\ Less(Less(active)) \in Nat
      BY <1>1 DEF Less, TypeOK
    <3> QED
      BY <1>1, <1>6, <3>1, CountersType DEF Logging, TypeOK
  <2>3. held \in BOOLEAN /\ b \in BOOLEAN
    OBVIOUS
  <2> HIDE DEF leave, held, b
  <2>4. Good(x) /\ x.attempts = p.attempts
    BY <1>1, <2>1, <2>3, LoggingGood
  <2> HIDE DEF x
  <2>5. Leaves(r, x)
    BY <1>1, <2>1, <2>4, SameAttempts DEF Leaves
  <2> QED
    BY <2>2, <2>5
<1> QED
  BY <1>3, <1>4, <1>5, <1>6

\* Every hook leaves a good context, that of its own request only.
LEMMA HookStep ==
  ASSUME AttemptsInv, NEW r \in Requests,
         Select(r) \/ SelectPinned(r) \/ Step(r) \/ ReadBody(r) \/ Interim(r)
  PROVE  (\E x : Leaves(r, x)) /\ load' \in [Slots -> Nat] /\ active' \in Nat
BY RequestPhase, PreparePhase, AttemptPhase, ResponseHooks DEF Step

\* So every context stays good, and follows the one before.
LEMMA NextStep ==
  ASSUME AttemptsInv, [Next]_vars
  PROVE  /\ AttemptsInv'
         /\ \A r \in Requests : Follows(req[r], req'[r])
<1>1. CASE Next
  <2>1. PICK r \in Requests :
          Select(r) \/ SelectPinned(r) \/ Step(r) \/ ReadBody(r) \/ Interim(r)
    BY <1>1 DEF Next
  <2>2. load' \in [Slots -> Nat] /\ active' \in Nat
    BY <2>1, HookStep
  <2>3. PICK x : Leaves(r, x)
    BY <2>1, HookStep
  <2>4. \A s \in Requests : req'[s] = IF s = r THEN x ELSE req[s]
    BY <2>3 DEF Leaves, Put, AttemptsInv, TypeOK
  <2>5. x \in Context
    BY <2>3 DEF Leaves, Good
  <2>6. TypeOK'
    BY <2>2, <2>3, <2>5 DEF Leaves, Put, AttemptsInv, TypeOK
  <2>7. \A s \in Requests : Follows(req[s], req[s])
    BY AttemptsConfig, SameAttempts DEF AttemptsInv, Good, Context
  <2>8. \A s \in Requests : Good(req'[s])
    BY <2>3, <2>4 DEF Leaves, AttemptsInv
  <2>9. \A s \in Requests : Follows(req[s], req'[s])
    BY <2>3, <2>4, <2>7 DEF Leaves
  <2> QED
    BY <2>6, <2>8, <2>9 DEF AttemptsInv
<1>2. CASE UNCHANGED vars
  <2>1. AttemptsInv'
    BY <1>2 DEF vars, AttemptsInv, TypeOK
  <2>2. \A s \in Requests : Follows(req[s], req[s])
    BY AttemptsConfig, SameAttempts DEF AttemptsInv, Good, Context
  <2> QED
    BY <1>2, <2>1, <2>2 DEF vars
<1> QED
  BY <1>1, <1>2

\* It holds at the start.
LEMMA AttemptsInit == Init => AttemptsInv
<1>1. Good(Fresh) /\ Fresh \in Context
  BY FreshGood DEF Good
<1> QED
  BY <1>1 DEF Init, AttemptsInv, TypeOK

-----------------------------------------------------------------------------
(***************************************************************************)
(* The theorems about one request.                                         *)
(***************************************************************************)

\* Every context stays good, in every deployment.
THEOREM AttemptsInvariant == Spec => []AttemptsInv
<1>1. AttemptsInv /\ [Next]_vars => AttemptsInv'
  BY NextStep
<1> QED
  BY <1>1, AttemptsInit, PTL DEF Spec

\* Passive health is told about the endpoint of the last attempt, through
\* reselection, pinning, body filters and interim responses, whatever the
\* strategy, as long as it finds an endpoint for every retry; the README's
\* disagreements describe what happens when it does not.
THEOREM ObservationsCorrect ==
  ASSUME {} \notin Groups
  PROVE  Spec => []ObservedWasDialed
<1>1. AttemptsInv => ObservedWasDialed
  BY DEF AttemptsInv, Good, Observation, ObservedWasDialed
<1> QED
  BY <1>1, AttemptsInvariant, PTL

\* Whatever ends an attempt, the next one replays nothing that was committed,
\* rejected or read past the replay buffer, and repeats a request that is not
\* idempotent only where the operator allows it or the upstream never saw it.
THEOREM ReplaysCorrect == Spec => ReplaySafe
<1> DEFINE A == \A r \in Requests :
                  req[r].attempts > 0 /\ req'[r].attempts > req[r].attempts =>
                    /\ ~req[r].written /\ ~req[r].rejected
                    /\ ~Truncated(req[r]) /\ ~req[r].writer
                    /\ req[r].idempotent \/ req[r].stale \/ AllowNonIdempotent
<1>1. AttemptsInv /\ [Next]_vars => A
  <2> SUFFICES ASSUME AttemptsInv, [Next]_vars, NEW r \in Requests,
                      req[r].attempts > 0, req'[r].attempts > req[r].attempts
               PROVE  /\ ~req[r].written /\ ~req[r].rejected
                      /\ ~Truncated(req[r]) /\ ~req[r].writer
                      /\ req[r].idempotent \/ req[r].stale \/ AllowNonIdempotent
    OBVIOUS
  <2>1. req[r].pc = "retrying"
    BY NextStep DEF Follows
  <2>2. Commitment(req[r])
    BY DEF AttemptsInv, Good
  <2> QED
    BY <2>1, <2>2 DEF Commitment
<1>2. AttemptsInv /\ [Next]_vars => [A]_vars
  BY <1>1
<1> QED
  BY <1>2, AttemptsInvariant, PTL DEF Spec, ReplaySafe

\* Under a configured policy, and for every grouping of the endpoints, no
\* endpoint is tried again before all of the group the strategy turned to were.
THEOREM AlternatesCorrect == Spec => AlternateFirst
<1> DEFINE A == \A r \in Requests :
                  LET q == req[r] IN
                  q.attempts > 0 /\ req'[r].attempts > q.attempts /\ q.reselect =>
                    \/ req'[r].dialed \cap q.tried = {}
                    \/ \E G \in Groups :
                         req'[r].dialed \subseteq G /\ G \subseteq q.tried
                    \/ {} \in Groups /\ req'[r].dialed = q.upstream
<1>1. AttemptsInv /\ [Next]_vars => A
  BY NextStep DEF Follows
<1>2. AttemptsInv /\ [Next]_vars => [A]_vars
  BY <1>1
<1> QED
  BY <1>2, AttemptsInvariant, PTL DEF Spec, AlternateFirst

-----------------------------------------------------------------------------
(***************************************************************************)
(* The shared counters, in a plain deployment.                             *)
(***************************************************************************)

\* A request in flight, and the endpoint whose counter it holds.
Flying(q) == q.selected /\ ~q.answered /\ q.pc # "done"
Held(q, e) == Flying(q) /\ e \in On(q)
Holders(e) == {r \in Requests : Held(req[r], e)}

\* The counters as the invariants count.
LEMMA CountersForm ==
  /\ LoadExact <=> \A s \in Slots :
                     /\ load[s] <= Cardinality(Holders(s[2]))
                     /\ DisjointGroups => load[s] = Cardinality(Holders(s[2]))
  /\ ActiveExact <=> active = Cardinality(InFlight)
  /\ InFlight = {r \in Requests : Flying(req[r])}
<1>1. InFlight = {r \in Requests : Flying(req[r])}
  BY DEF InFlight, Flying
<1>2. \A e : {r \in InFlight : e \in On(req[r])} = Holders(e)
  BY <1>1 DEF Holders, Held
<1> QED
  BY <1>1, <1>2 DEF LoadExact, ActiveExact

\* How a counter of endpoint e may move while r's context becomes x: by what
\* r's part in it did, or, where two strategies count e, by less.
Moves(r, x, s) ==
  LET h == One(Held(req[r], s[2]))
      k == One(Held(x, s[2]))
  IN  /\ load'[s] = 0 \/ load'[s] + h <= load[s] + k
      /\ DisjointGroups => load'[s] + h = load[s] + k

\* Only r's context changes: the counters are exact again when each moved so.
LEMMA CountersStep ==
  ASSUME TypeOK, LoadExact, ActiveExact, NEW r \in Requests, NEW x, Put(r, x),
         load' \in [Slots -> Nat], active' \in Nat,
         \A s \in Slots : Moves(r, x, s),
         active' + One(Flying(req[r])) = active + One(Flying(x))
  PROVE  LoadExact' /\ ActiveExact'
<1>1. \A s \in Requests : req'[s] = IF s = r THEN x ELSE req[s]
  BY DEF Put, TypeOK
<1>2. IsFiniteSet(Requests)
  BY AttemptsConfig
<1>3. ASSUME NEW c \in Slots
      PROVE  /\ load'[c] <= Cardinality(Holders(c[2])')
             /\ DisjointGroups => load'[c] = Cardinality(Holders(c[2])')
  <2> DEFINE e == c[2]
             A == Holders(e)
             B == {s \in Requests : Held(req'[s], e)}
             m == Cardinality(A)
             n == Cardinality(B)
             h == One(Held(req[r], e))
             k == One(Held(x, e))
  <2>1. IsFiniteSet(A) /\ A \subseteq Requests
    BY <1>2, FS_Subset DEF Holders
  <2>2. B \ {r} = A \ {r}
    BY <1>1 DEF Holders
  <2>3. IsFiniteSet(B)
    BY <2>1, <2>2, CountStep
  <2>4. n + One(r \in A) = m + One(r \in B)
    BY <2>1, <2>2, CountStep
  <2>5. One(r \in A) = h /\ One(r \in B) = k
    BY <1>1 DEF Holders, One
  <2>6. h \in {0, 1} /\ k \in {0, 1}
    BY OneType
  <2>7. m \in Nat /\ n \in Nat
    BY <2>1, <2>3, FS_CardinalityType
  <2>8. /\ load[c] <= m /\ (DisjointGroups => load[c] = m)
        /\ load'[c] \in Nat /\ load[c] \in Nat
    BY CountersForm DEF TypeOK
  <2>9. /\ load'[c] = 0 \/ load'[c] + h <= load[c] + k
        /\ DisjointGroups => load'[c] + h = load[c] + k
    BY DEF Moves
  <2>10. Holders(e)' = B
    BY DEF Holders, Held, Flying, On
  <2> HIDE DEF m, n, h, k, A, B
  <2> DEFINE v == load'[c]
             w == load[c]
  <2>12. /\ v \in Nat /\ w \in Nat /\ w <= m /\ (DisjointGroups => w = m)
         /\ v = 0 \/ v + h <= w + k
         /\ DisjointGroups => v + h = w + k
    BY <2>8, <2>9
  <2> HIDE DEF v, w
  <2>11. v <= n /\ (DisjointGroups => v = n)
    BY <2>4, <2>5, <2>6, <2>7, <2>12
  <2> QED
    BY <2>10, <2>11 DEF n, v
<1>4. active' = Cardinality(InFlight')
  <2> DEFINE A == InFlight
             B == {s \in Requests : Flying(req'[s])}
             m == Cardinality(A)
             n == Cardinality(B)
             h == One(Flying(req[r]))
             k == One(Flying(x))
             v == active'
             w == active
  <2>1. IsFiniteSet(A) /\ A \subseteq Requests
    BY <1>2, FS_Subset DEF InFlight
  <2>2. B \ {r} = A \ {r}
    BY <1>1, CountersForm
  <2>3. IsFiniteSet(B)
    BY <2>1, <2>2, CountStep
  <2>4. n + One(r \in A) = m + One(r \in B)
    BY <2>1, <2>2, CountStep
  <2>5. One(r \in A) = h /\ One(r \in B) = k
    BY <1>1, CountersForm DEF One
  <2>6. h \in {0, 1} /\ k \in {0, 1}
    BY OneType
  <2>7. m \in Nat /\ n \in Nat
    BY <2>1, <2>3, FS_CardinalityType
  <2>8. w = m /\ v \in Nat /\ w \in Nat
    BY CountersForm DEF TypeOK
  <2>9. v + h = w + k
    OBVIOUS
  <2>10. InFlight' = B
    BY DEF InFlight, Flying
  <2> HIDE DEF m, n, h, k, A, B, v, w
  <2>11. v = n
    BY <2>4, <2>5, <2>6, <2>7, <2>8, <2>9
  <2> QED
    BY <2>10, <2>11 DEF n, v
<1> QED
  BY <1>3, <1>4 DEF LoadExact, ActiveExact, InFlight, Holders, Held, Flying, DisjointGroups

\* What r holds is counted, so that giving it back is a subtraction.
LEMMA HeldCounted ==
  ASSUME TypeOK, LoadExact, ActiveExact, NEW r \in Requests
  PROVE  /\ Flying(req[r]) => active > 0 /\ Less(active) = active - 1
         /\ DisjointGroups =>
              \A s \in Slots : Held(req[r], s[2]) =>
                load[s] > 0 /\ Less(load[s]) = load[s] - 1
<1>1. IsFiniteSet(Requests)
  BY AttemptsConfig
<1>2. ASSUME Flying(req[r]) PROVE active > 0
  <2>1. r \in InFlight /\ InFlight \subseteq Requests
    BY <1>2, CountersForm
  <2>2. 0 < Cardinality(InFlight)
    <3>1. Cardinality({}) = 0
      BY FS_EmptySet
    <3>2. IsFiniteSet(InFlight)
      BY <1>1, <2>1, FS_Subset
    <3> QED
      BY <2>1, <3>1, <3>2, CountStrict
  <2> QED
    BY <2>2 DEF ActiveExact
<1>3. ASSUME DisjointGroups, NEW s \in Slots, Held(req[r], s[2]) PROVE load[s] > 0
  <2> DEFINE e == s[2]
  <2>1. r \in Holders(e) /\ Holders(e) \subseteq Requests
    BY <1>3 DEF Holders
  <2>2. 0 < Cardinality(Holders(e))
    <3>1. Cardinality({}) = 0
      BY FS_EmptySet
    <3>2. IsFiniteSet(Holders(e))
      BY <1>1, <2>1, FS_Subset
    <3> QED
      BY <2>1, <3>1, <3>2, CountStrict
  <2>3. load[s] = Cardinality(Holders(e))
    BY <1>3, CountersForm
  <2> QED
    BY <2>2, <2>3
<1> QED
  BY <1>2, <1>3 DEF Less, TypeOK

\* A hook that moves neither counter keeps what r holds.
LEMMA KeepStep ==
  ASSUME TypeOK, LoadExact, ActiveExact, NEW r \in Requests, NEW x, Put(r, x),
         UNCHANGED <<load, active>>, Flying(x) <=> Flying(req[r]),
         Flying(x) => On(x) = On(req[r])
  PROVE  LoadExact' /\ ActiveExact'
<1>1. load' \in [Slots -> Nat] /\ active' \in Nat
  BY DEF TypeOK
<1>2. ASSUME NEW s \in Slots PROVE Moves(r, x, s)
  <2>1. Held(x, s[2]) <=> Held(req[r], s[2])
    BY DEF Held
  <2>2. load[s] \in Nat
    BY DEF TypeOK
  <2> QED
    BY <2>1, <2>2 DEF One, Moves
<1>3. active' + One(Flying(req[r])) = active + One(Flying(x))
  BY DEF One
<1> QED
  BY <1>1, <1>2, <1>3, CountersStep

\* r takes a slot: with its first selection it joins the cluster's active
\* requests, with a reselection it is one of them.
LEMMA TakeStep ==
  ASSUME TypeOK, LoadExact, ActiveExact, NEW r \in Requests, NEW x, Put(r, x),
         NEW s \in Slots, load' = Taken(s), Flying(x), On(x) = {s[2]},
         Flying(req[r]) => On(req[r]) = {},
         active' = IF Flying(req[r]) THEN active ELSE active + 1
  PROVE  LoadExact' /\ ActiveExact'
<1>1. load' \in [Slots -> Nat] /\ active' \in Nat /\ active \in Nat
  BY CountersType DEF TypeOK
<1>2. ASSUME NEW d \in Slots PROVE Moves(r, x, d)
  <2>1. ~Held(req[r], d[2]) /\ (Held(x, d[2]) <=> d[2] = s[2])
    BY DEF Held
  <2>2. load'[d] = IF d = s THEN load[d] + 1 ELSE load[d]
    BY DEF Taken, TypeOK
  <2>3. load[d] \in Nat
    BY DEF TypeOK
  <2>4. DisjointGroups => (d[2] = s[2] <=> d = s)
    BY DEF DisjointGroups
  <2>5. d = s => d[2] = s[2]
    OBVIOUS
  <2> DEFINE v == load'[d]
             w == load[d]
             h == One(Held(req[r], d[2]))
             k == One(Held(x, d[2]))
  <2>6. /\ w \in Nat /\ h = 0 /\ (k = IF d[2] = s[2] THEN 1 ELSE 0)
        /\ v = IF d = s THEN w + 1 ELSE w
    BY <2>1, <2>2, <2>3 DEF One
  <2> HIDE DEF v, w, h, k
  <2>7. v + h <= w + k /\ (DisjointGroups => v + h = w + k)
    BY <2>4, <2>5, <2>6
  <2> QED
    BY <2>7 DEF Moves, v, w, h, k
<1>3. active' + One(Flying(req[r])) = active + One(Flying(x))
  BY <1>1 DEF One
<1> QED
  BY <1>1, <1>2, <1>3, CountersStep

\* r gives its endpoint back: it waits for another one, or is answered or
\* logged and leaves the active requests too.
LEMMA GiveStep ==
  ASSUME TypeOK, LoadExact, ActiveExact, NEW r \in Requests, NEW x, Put(r, x),
         Flying(req[r]), load' = Released(On(req[r])), Flying(x) => On(x) = {},
         active' = IF Flying(x) THEN active ELSE Less(active)
  PROVE  LoadExact' /\ ActiveExact'
<1>1. load' \in [Slots -> Nat] /\ active' \in Nat /\ active \in Nat
  BY CountersType DEF TypeOK
<1>2. ASSUME NEW d \in Slots PROVE Moves(r, x, d)
  <2>1. ~Held(x, d[2]) /\ (Held(req[r], d[2]) <=> d[2] \in On(req[r]))
    BY DEF Held
  <2>2. load'[d] = IF d[2] \in On(req[r]) THEN Less(load[d]) ELSE load[d]
    BY DEF Released
  <2>3. DisjointGroups /\ Held(req[r], d[2]) => load[d] > 0
    BY HeldCounted
  <2>4. load[d] \in Nat
    BY DEF TypeOK
  <2> DEFINE v == load'[d]
             w == load[d]
             h == One(Held(req[r], d[2]))
             k == One(Held(x, d[2]))
  <2>6. /\ w \in Nat /\ k = 0 /\ (h = IF Held(req[r], d[2]) THEN 1 ELSE 0)
        /\ (v = IF Held(req[r], d[2]) THEN Less(w) ELSE w)
        /\ DisjointGroups /\ Held(req[r], d[2]) => w > 0
    BY <2>1, <2>2, <2>3, <2>4 DEF One
  <2> HIDE DEF v, w, h, k
  <2>7. /\ v = 0 \/ v + h <= w + k
        /\ DisjointGroups => v + h = w + k
    BY <2>6 DEF Less
  <2> QED
    BY <2>7 DEF Moves, v, w, h, k
<1>3. active' + One(Flying(req[r])) = active + One(Flying(x))
  <2>1. Less(active) = active - 1
    BY HeldCounted
  <2> DEFINE v == active'
             w == active
  <2>2. v \in Nat /\ w \in Nat /\ v = IF Flying(x) THEN w ELSE w - 1
    BY <1>1, <2>1
  <2> HIDE DEF v, w
  <2>3. v + One(Flying(req[r])) = w + One(Flying(x))
    BY <2>2 DEF One
  <2> QED
    BY <2>3 DEF v, w
<1> QED
  BY <1>1, <1>2, <1>3, CountersStep

\* The endpoint of a context is the one shown to the filters.
LEMMA ShownIsOn ==
  ASSUME NEW q, Good(q), Ledger(q), Flying(q)
  PROVE  Shown(q) = On(q)
<1>1. q.attempts \in Nat
  BY AttemptsConfig DEF Good, Context
<1> QED
  BY <1>1 DEF Good, Route, Ledger, Shown, On

\* What a hook of r has to show of the context and the counters it leaves.
Balanced(r) ==
  /\ \E x : Put(r, x) /\ Ledger(x)
  /\ LoadExact' /\ ActiveExact'

\* What it may start from.
Books(r) ==
  /\ Plain /\ TypeOK /\ LoadExact /\ ActiveExact
  /\ Good(req[r]) /\ Ledger(req[r])

\* A hook that moves no counter and neither the endpoint nor the flags.
LEMMA KeepBalanced ==
  ASSUME NEW r \in Requests, Books(r), NEW x, Put(r, x), UNCHANGED <<load, active>>,
         req[r].pc # "done", x.pc \notin {"idle", "done"},
         x.pc = "streaming" => req[r].pc = "streaming",
         req[r].pc = "streaming" => x.pc \in {"streaming", "ending"},
         req[r].pc = "ending" => x.pc = "ending",
         x.selected = req[r].selected, x.answered = req[r].answered,
         x.state = req[r].state, x.released = req[r].released,
         x.phase_done = req[r].phase_done, x.attempts = req[r].attempts,
         x.upstream = req[r].upstream, x.saved = req[r].saved
  PROVE  Balanced(r)
<1> DEFINE q == req[r]
<1>1. Ledger(q)
  BY DEF Books
<1>2. Ledger(x)
  BY <1>1 DEF Ledger
<1>3. (Flying(x) <=> Flying(q)) /\ On(x) = On(q)
  BY DEF Flying, On
<1> QED
  BY <1>2, <1>3, KeepStep DEF Balanced, Books

\* The first selection.
LEMMA SelectBalanced ==
  ASSUME NEW r \in Requests, Books(r), Select(r) \/ SelectPinned(r)
  PROVE  Balanced(r)
<1>1. TypeOK /\ LoadExact /\ ActiveExact /\ Good(req[r])
  BY DEF Books
<1>2. ~Flying(req[r])
  BY <1>1 DEF Select, SelectPinned, Good, Route, Flying
<1>3. CASE Select(r)
  <2>1. PICK s \in Slots, configured \in BOOLEAN, idempotent \in BOOLEAN :
          /\ Put(r, [Fresh EXCEPT !.pc = "routed", !.upstream = {s[2]},
                       !.index = {s[2]}, !.attempted = {s[2]}, !.state = TRUE,
                       !.selected = TRUE, !.configured = configured,
                       !.idempotent = idempotent])
          /\ load' = Taken(s)
    BY <1>3 DEF Select, Candidates
  <2>7. PICK e \in Endpoints : e = s[2]
    BY SlotType
  <2> DEFINE x == [Fresh EXCEPT !.pc = "routed", !.upstream = {e}, !.index = {e},
                       !.attempted = {e}, !.state = TRUE, !.selected = TRUE,
                       !.configured = configured, !.idempotent = idempotent]
  <2>2. /\ x.pc = "routed" /\ x.attempts = 0 /\ x.upstream = {e} /\ x.selected = TRUE
        /\ x.state = TRUE /\ x.answered = FALSE /\ x.phase_done = FALSE
        /\ x.released = FALSE
    BY DEF Fresh
  <2>3. active' = active + 1
    BY <1>3 DEF Select
  <2>4. Put(r, x)
    BY <2>1, <2>7
  <2> HIDE DEF x
  <2>5. Ledger(x)
    BY <2>2 DEF Ledger
  <2>6. Flying(x) /\ On(x) = {s[2]}
    BY <2>2, <2>7 DEF Flying, On
  <2> QED
    BY <1>1, <1>2, <2>1, <2>3, <2>4, <2>5, <2>6, TakeStep DEF Balanced
<1>4. CASE SelectPinned(r)
  <2>1. PICK e \in Endpoints, idempotent \in BOOLEAN :
          Put(r, [Fresh EXCEPT !.pc = "routed", !.upstream = {e}, !.index = {e},
                               !.idempotent = idempotent])
    BY <1>4 DEF SelectPinned
  <2> DEFINE x == [Fresh EXCEPT !.pc = "routed", !.upstream = {e}, !.index = {e},
                               !.idempotent = idempotent]
  <2>2. /\ x.pc = "routed" /\ x.attempts = 0 /\ x.selected = FALSE
        /\ x.state = FALSE /\ x.answered = FALSE /\ x.phase_done = FALSE
        /\ x.released = FALSE
    BY DEF Fresh
  <2>3. UNCHANGED <<load, active>>
    BY <1>4 DEF SelectPinned
  <2>4. Put(r, x)
    BY <2>1
  <2> HIDE DEF x
  <2>5. Ledger(x)
    BY <2>2 DEF Ledger
  <2>6. ~Flying(x)
    BY <2>2 DEF Flying
  <2> QED
    BY <1>1, <1>2, <2>3, <2>4, <2>5, <2>6, KeepStep DEF Balanced
<1> QED
  BY <1>3, <1>4

\* The hooks that prepare an attempt.
LEMMA PrepareBalanced ==
  ASSUME NEW r \in Requests, Books(r), PrepareReselected(r) \/ PrepareNone(r) \/ PrepareSame(r)
  PROVE  Balanced(r)
<1> DEFINE q == req[r]
<1>1. TypeOK /\ LoadExact /\ ActiveExact /\ Good(q) /\ Ledger(q) /\ q \in Context
      /\ q.attempts \in Nat
  BY AttemptsConfig DEF Books, Good, Context
<1>2. CASE PrepareReselected(r)
  <2>1. /\ q.pc = "retrying" /\ q.reselect /\ q.selected /\ q.attempts < MaxAttempts
        /\ UNCHANGED active
    BY <1>2 DEF PrepareReselected
  <2>2. PICK s \in Candidates(q.attempted) :
          /\ load' = [d \in Slots |->
                        LET n == IF d = s THEN load[d] + 1 ELSE load[d]
                        IN  IF d[2] \in q.saved THEN Less(n) ELSE n]
          /\ Put(r, Dial(Reselected(q, s[2])))
    BY <1>2 DEF PrepareReselected
  <2>3. q.saved = {} /\ q.attempts > 0 /\ ~q.answered /\ q.upstream = {}
    BY <1>1, <2>1 DEF Good, Route, Ledger
  <2> DEFINE p == Reselected(q, s[2])
             x == Dial(p)
  <2>4. p \in Context /\ s \in Slots
    BY <1>1, <2>1, ReselectGood
  <2>5. /\ p.saved = {s[2]} /\ p.attempts = q.attempts /\ p.selected = q.selected
        /\ p.answered = q.answered /\ p.state = q.state /\ p.released = q.released
        /\ p.phase_done = q.phase_done /\ p.upstream = q.upstream
    BY <1>1 DEF Reselected, Context
  <2> HIDE DEF p
  <2>6. /\ x.pc = "dialing" /\ x.attempts = p.attempts + 1 /\ x.saved = p.saved
        /\ x.selected = p.selected /\ x.answered = p.answered /\ x.state = p.state
        /\ x.released = p.released /\ x.phase_done = p.phase_done
        /\ x.upstream = p.upstream
    BY <2>1, <2>4, <2>5, DialFields
  <2>7. Put(r, x)
    BY <2>2 DEF p
  <2> HIDE DEF x
  <2>8. Ledger(x) /\ Flying(x) /\ On(x) = {s[2]}
    <3>1. x.attempts > 0
      BY <1>1, <2>5, <2>6
    <3>2. Ledger(x)
      BY <1>1, <2>1, <2>3, <2>5, <2>6 DEF Ledger
    <3>3. Flying(x)
      BY <2>1, <2>3, <2>5, <2>6 DEF Flying
    <3>4. On(x) = {s[2]}
      BY <1>1, <2>5, <2>6, <3>1 DEF On
    <3> QED
      BY <3>2, <3>3, <3>4
  <2>9. Flying(q) /\ On(q) = {}
    BY <2>1, <2>3 DEF Flying, On
  <2>10. load' = Taken(s)
    BY <1>1, <2>2, <2>3, <2>4 DEF Taken, TypeOK
  <2> QED
    BY <1>1, <2>1, <2>4, <2>7, <2>8, <2>9, <2>10, TakeStep DEF Balanced
<1>3. CASE PrepareSame(r)
  <2>1. /\ q.pc \in {"routed", "retrying"} /\ ~(q.reselect /\ q.selected)
        /\ q.attempts < MaxAttempts /\ Put(r, Dial(Moved(q)))
        /\ UNCHANGED <<load, active>>
    BY <1>3 DEF PrepareSame, Moved
  <2> DEFINE p == Moved(q)
             x == Dial(p)
  <2>2. /\ p \in Context /\ p.attempts = q.attempts
        /\ p.saved = IF q.pc = "routed" THEN q.upstream ELSE q.saved
        /\ q.pc = "retrying" => p = q
        /\ q.pc = "routed" => p.upstream = {}
        /\ p.selected = q.selected /\ p.answered = q.answered /\ p.state = q.state
        /\ p.released = q.released /\ p.phase_done = q.phase_done
    BY <1>1, <2>1, MovedFields
  <2> HIDE DEF p
  <2>3. /\ x.pc = "dialing" /\ x.attempts = p.attempts + 1 /\ x.saved = p.saved
        /\ x.selected = p.selected /\ x.answered = p.answered /\ x.state = p.state
        /\ x.released = p.released /\ x.phase_done = p.phase_done
        /\ x.upstream = p.upstream
    BY <2>1, <2>2, DialFields
  <2>4. Put(r, x)
    BY <2>1 DEF p
  <2> HIDE DEF x
  <2>5. (q.pc = "retrying" => q.attempts > 0) /\ (q.pc = "routed" => q.attempts = 0)
    BY <1>1 DEF Good, Route
  <2>6. p.upstream = {}
    BY <1>1, <2>1, <2>2, <2>5 DEF Ledger
  <2>7. Ledger(x)
    BY <1>1, <2>1, <2>2, <2>3, <2>6 DEF Ledger
  <2>8. (Flying(x) <=> Flying(q)) /\ On(x) = On(q)
    BY <1>1, <2>1, <2>2, <2>3, <2>5 DEF Flying, On
  <2> QED
    BY <1>1, <2>1, <2>4, <2>7, <2>8, KeepStep DEF Balanced
<1>4. CASE PrepareNone(r)
  <2>1. /\ q.pc = "retrying" /\ q.reselect /\ {} \in Groups /\ q.attempts < MaxAttempts
        /\ Put(r, IF Moved(q).saved = {}
                  THEN [q EXCEPT !.pc = "ending", !.error = "other", !.reselect = FALSE]
                  ELSE Dial(Moved(q)))
        /\ UNCHANGED <<load, active>>
    BY <1>4 DEF PrepareNone
  <2>2. q.upstream = {}
    BY <1>1, <2>1 DEF Good, Route, Ledger
  <2>3. Moved(q).saved = {}
    BY <1>1, <2>1, <2>2, NoneGood
  <2> DEFINE x == [q EXCEPT !.pc = "ending", !.error = "other", !.reselect = FALSE]
  <2>4. Put(r, x)
    BY <2>1, <2>3
  <2>5. /\ x.pc = "ending" /\ x.upstream = q.upstream /\ x.saved = q.saved
        /\ x.attempts = q.attempts /\ x.selected = q.selected /\ x.answered = q.answered
        /\ x.state = q.state /\ x.released = q.released /\ x.phase_done = q.phase_done
    BY <1>1 DEF Context
  <2> HIDE DEF x
  <2> QED
    BY <2>1, <2>4, <2>5, KeepBalanced
<1> QED
  BY <1>2, <1>3, <1>4

\* The fields of a context after a retry decision.
LEMMA RetryingFields ==
  ASSUME NEW q \in Context
  PROVE  LET x == Retrying(q) IN
         /\ x.saved = (IF q.configured THEN {} ELSE q.saved) /\ x.upstream = q.upstream
         /\ x.attempts = q.attempts /\ x.selected = q.selected /\ x.answered = q.answered
         /\ x.state = q.state /\ x.released = q.released /\ x.phase_done = q.phase_done
BY DEF Retrying, Context

\* A retry decision: a configured one gives the endpoint back, so that the
\* next attempt can take another, and no other one touches the counters.
LEMMA RetryBalanced ==
  ASSUME NEW r \in Requests, Books(r), req[r].pc \in {"dialing", "connected"},
         NEW q, q.selected = req[r].selected, q.saved = req[r].saved,
         q.configured = req[r].configured,
         load' = IF q.configured THEN Released(ClearForReselection(q)) ELSE load,
         UNCHANGED active,
         NEW x, Put(r, x), x.pc \in {"retrying", "ending"},
         x.saved = IF q.configured THEN {} ELSE q.saved,
         x.upstream = req[r].upstream, x.attempts = req[r].attempts,
         x.selected = req[r].selected, x.answered = req[r].answered,
         x.state = req[r].state, x.released = req[r].released,
         x.phase_done = req[r].phase_done
  PROVE  Balanced(r)
<1> DEFINE p == req[r]
<1>1. TypeOK /\ LoadExact /\ ActiveExact /\ Ledger(p)
  BY DEF Books
<1>2. p.attempts > 0 /\ p.attempts \in Nat /\ (p.configured => p.selected)
  BY AttemptsConfig DEF Books, Good, Route, Context
<1>3. ~p.answered
  BY <1>1 DEF Ledger
<1>4. Ledger(x)
  BY <1>1, <1>3 DEF Ledger
<1>5. (Flying(x) <=> Flying(p)) /\ (Flying(p) <=> p.selected)
  BY <1>3 DEF Flying
<1>6. On(p) = p.saved /\ On(x) = x.saved
  BY <1>2 DEF On
<1>7. CASE q.configured
  <2>1. load' = Released(On(p)) /\ On(x) = {} /\ Flying(p) /\ Flying(x)
    BY <1>2, <1>5, <1>6, <1>7 DEF ClearForReselection
  <2> QED
    BY <1>1, <1>4, <2>1, GiveStep DEF Balanced
<1>8. CASE ~q.configured
  <2>1. UNCHANGED <<load, active>> /\ On(x) = On(p)
    BY <1>6, <1>8
  <2> QED
    BY <1>1, <1>4, <1>5, <2>1, KeepStep DEF Balanced
<1> QED
  BY <1>7, <1>8

\* The end of a request leaves its endpoint to the logging hook.
LEMMA EndBalanced ==
  ASSUME NEW r \in Requests, Books(r), req[r].pc \notin {"idle", "done"},
         NEW error, End(r, req[r], error)
  PROVE  Balanced(r)
<1> DEFINE q == req[r]
           x == [q EXCEPT !.pc = "ending", !.error = error]
<1>1. q \in Context
  BY DEF Books, Good
<1>2. /\ x.pc = "ending" /\ x.upstream = q.upstream /\ x.saved = q.saved
      /\ x.attempts = q.attempts /\ x.selected = q.selected /\ x.answered = q.answered
      /\ x.state = q.state /\ x.released = q.released /\ x.phase_done = q.phase_done
  BY <1>1 DEF Context
<1>3. Put(r, x) /\ UNCHANGED <<load, active>>
  BY DEF End
<1> HIDE DEF x
<1> QED
  BY <1>2, <1>3, KeepBalanced

\* The hooks of an attempt under way.
LEMMA AttemptBalanced ==
  ASSUME NEW r \in Requests, Books(r),
         RejectRequest(r) \/ Connect(r) \/ FailToConnect(r) \/ ErrorWhileProxy(r)
         \/ GiveUp(r) \/ Finish(r) \/ ReadBody(r)
  PROVE  Balanced(r)
<1> DEFINE q == req[r]
<1>1. q \in Context /\ Good(q) /\ Ledger(q)
  BY DEF Books, Good
<1>2. ASSUME q.pc \in {"dialing", "connected"}, Retry(r, q) PROVE Balanced(r)
  <2> DEFINE y == Retrying(q)
             x == [y EXCEPT !.pc = "retrying"]
  <2>1. Put(r, x) /\ UNCHANGED active
        /\ load' = IF q.configured THEN Released(ClearForReselection(q)) ELSE load
    BY <1>2 DEF Retry
  <2>2. /\ x.pc = "retrying" /\ x.saved = y.saved /\ x.upstream = y.upstream
        /\ x.attempts = y.attempts /\ x.selected = y.selected /\ x.answered = y.answered
        /\ x.state = y.state /\ x.released = y.released /\ x.phase_done = y.phase_done
    BY <1>1 DEF Retrying, Context
  <2>3. /\ y.saved = (IF q.configured THEN {} ELSE q.saved) /\ y.upstream = q.upstream
        /\ y.attempts = q.attempts /\ y.selected = q.selected /\ y.answered = q.answered
        /\ y.state = q.state /\ y.released = q.released /\ y.phase_done = q.phase_done
    BY <1>1, RetryingFields
  <2> HIDE DEF x, y
  <2> QED
    BY <1>2, <2>1, <2>2, <2>3, RetryBalanced
<1>3. CASE RejectRequest(r)
  <2> DEFINE x == [q EXCEPT !.pc = "ending", !.written = TRUE]
  <2>1. /\ x.pc = "ending" /\ x.upstream = q.upstream /\ x.saved = q.saved
        /\ x.attempts = q.attempts /\ x.selected = q.selected /\ x.answered = q.answered
        /\ x.state = q.state /\ x.released = q.released /\ x.phase_done = q.phase_done
    BY <1>1 DEF Context
  <2>2. q.pc = "routed" /\ Put(r, x) /\ UNCHANGED <<load, active>>
    BY <1>3 DEF RejectRequest
  <2> HIDE DEF x
  <2> QED
    BY <2>1, <2>2, KeepBalanced
<1>4. CASE Connect(r)
  <2> DEFINE x == [q EXCEPT !.pc = "connected"]
  <2>1. /\ x.pc = "connected" /\ x.upstream = q.upstream /\ x.saved = q.saved
        /\ x.attempts = q.attempts /\ x.selected = q.selected /\ x.answered = q.answered
        /\ x.state = q.state /\ x.released = q.released /\ x.phase_done = q.phase_done
    BY <1>1 DEF Context
  <2>2. q.pc = "dialing" /\ Put(r, x) /\ UNCHANGED <<load, active>>
    BY <1>4 DEF Connect
  <2> HIDE DEF x
  <2> QED
    BY <2>1, <2>2, KeepBalanced
<1>5. CASE FailToConnect(r)
  BY <1>2, <1>5, EndBalanced DEF FailToConnect
<1>6. CASE ErrorWhileProxy(r)
  <2>1. q.pc \in {"connected", "streaming"}
    BY <1>6 DEF ErrorWhileProxy
  <2>2. ~Final(q) => q.pc = "connected"
    BY <1>1, <2>1 DEF Final, Good, Commitment
  <2>3. CASE ~Final(q) /\ Retry(r, q)
    BY <1>2, <2>2, <2>3
  <2>4. CASE /\ ~Final(q) /\ Put(r, [q EXCEPT !.pc = "retrying", !.stale = TRUE])
             /\ UNCHANGED <<load, active>>
    <3> DEFINE x == [q EXCEPT !.pc = "retrying", !.stale = TRUE]
    <3>1. /\ x.pc = "retrying" /\ x.upstream = q.upstream /\ x.saved = q.saved
          /\ x.attempts = q.attempts /\ x.selected = q.selected /\ x.answered = q.answered
          /\ x.state = q.state /\ x.released = q.released /\ x.phase_done = q.phase_done
      BY <1>1 DEF Context
    <3>2. Put(r, x)
      BY <2>4
    <3> HIDE DEF x
    <3> QED
      BY <2>2, <2>4, <3>1, <3>2, KeepBalanced
  <2>5. CASE \E error \in {"downstream", "other"} : End(r, q, error)
    BY <2>1, <2>5, EndBalanced
  <2> QED
    BY <1>6, <2>3, <2>4, <2>5 DEF ErrorWhileProxy
<1>7. CASE GiveUp(r) \/ Finish(r)
  BY <1>7, EndBalanced DEF GiveUp, Finish
<1>8. CASE ReadBody(r)
  <2>1. ~BodyFilters
    BY DEF Books, Plain
  <2>2. q.pc = "connected" /\ UNCHANGED <<load, active>>
        /\ Put(r, [q EXCEPT !.read = q.read + 1, !.writer = q.writer,
                            !.upstream = q.upstream])
    BY <1>1, <1>8, <2>1 DEF ReadBody
  <2> DEFINE x == [q EXCEPT !.read = q.read + 1, !.writer = q.writer,
                            !.upstream = q.upstream]
  <2>3. /\ x.pc = q.pc /\ x.upstream = q.upstream /\ x.saved = q.saved
        /\ x.attempts = q.attempts /\ x.selected = q.selected /\ x.answered = q.answered
        /\ x.state = q.state /\ x.released = q.released /\ x.phase_done = q.phase_done
    BY <1>1 DEF Context
  <2>4. Put(r, x)
    BY <2>2
  <2> HIDE DEF x
  <2> QED
    BY <2>2, <2>3, <2>4, KeepBalanced
<1> QED
  BY <1>3, <1>4, <1>5, <1>6, <1>7, <1>8

\* A retryable status, retried or refused a retry.
LEMMA StatusBalanced ==
  ASSUME NEW r \in Requests, Books(r), StatusRetry(r)
  PROVE  Balanced(r)
<1> DEFINE p == req[r]
           q == [p EXCEPT !.status = "5xx", !.verdict = "5xx"]
           y == Retrying(q)
<1>1. p \in Context
  BY DEF Books, Good
<1>2. q \in Context
  BY <1>1, ZenonT(60) DEF Context, Statuses
<1>3. /\ q.pc = p.pc /\ q.upstream = p.upstream /\ q.saved = p.saved
      /\ q.attempts = p.attempts /\ q.selected = p.selected /\ q.answered = p.answered
      /\ q.state = p.state /\ q.released = p.released /\ q.phase_done = p.phase_done
      /\ q.configured = p.configured
  BY <1>1 DEF Context
<1>4. q.pc = "connected" /\ UNCHANGED active
      /\ load' = IF q.configured THEN Released(ClearForReselection(q)) ELSE load
  BY DEF StatusRetry, Retry
<1>5. \/ Put(r, [y EXCEPT !.pc = "retrying"])
      \/ Put(r, [y EXCEPT !.pc = "ending", !.error = "other"])
  BY DEF StatusRetry, Retry
<1> HIDE DEF q
<1>6. PICK x : /\ Put(r, x) /\ x.pc \in {"retrying", "ending"}
               /\ x.saved = y.saved /\ x.upstream = y.upstream
               /\ x.attempts = y.attempts /\ x.selected = y.selected
               /\ x.answered = y.answered /\ x.state = y.state
               /\ x.released = y.released /\ x.phase_done = y.phase_done
  <2>1. CASE Put(r, [y EXCEPT !.pc = "retrying"])
    <3> DEFINE x == [y EXCEPT !.pc = "retrying"]
    <3>1. /\ x.pc = "retrying" /\ x.saved = y.saved /\ x.upstream = y.upstream
          /\ x.attempts = y.attempts /\ x.selected = y.selected
          /\ x.answered = y.answered /\ x.state = y.state
          /\ x.released = y.released /\ x.phase_done = y.phase_done
      BY <1>2 DEF Retrying, Context
    <3>2. Put(r, x)
      BY <2>1
    <3> HIDE DEF x, y
    <3> QED
      BY <3>1, <3>2
  <2>2. CASE Put(r, [y EXCEPT !.pc = "ending", !.error = "other"])
    <3> DEFINE x == [y EXCEPT !.pc = "ending", !.error = "other"]
    <3>1. /\ x.pc = "ending" /\ x.saved = y.saved /\ x.upstream = y.upstream
          /\ x.attempts = y.attempts /\ x.selected = y.selected
          /\ x.answered = y.answered /\ x.state = y.state
          /\ x.released = y.released /\ x.phase_done = y.phase_done
      BY <1>2 DEF Retrying, Context
    <3>2. Put(r, x)
      BY <2>2
    <3> HIDE DEF x, y
    <3> QED
      BY <3>1, <3>2
  <2> QED
    BY <1>5, <2>1, <2>2
<1>7. /\ y.saved = (IF q.configured THEN {} ELSE q.saved) /\ y.upstream = q.upstream
      /\ y.attempts = q.attempts /\ y.selected = q.selected /\ y.answered = q.answered
      /\ y.state = q.state /\ y.released = q.released /\ y.phase_done = q.phase_done
  BY <1>2, RetryingFields
<1> HIDE DEF y
<1> QED
  BY <1>3, <1>4, <1>6, <1>7, RetryBalanced, ZenonT(60)

\* A final response: the load balancer's on_response gives both counters back.
LEMMA RespondBalanced ==
  ASSUME NEW r \in Requests, Books(r), Respond(r)
  PROVE  Balanced(r)
<1> DEFINE p == req[r]
<1>1. TypeOK /\ LoadExact /\ ActiveExact /\ Good(p) /\ Ledger(p) /\ p \in Context
  BY DEF Books, Good
<1>2. Reaches = {TRUE} /\ Rejections = {FALSE}
  BY DEF Books, Plain, Reaches, Rejections
<1>3. PICK status \in {"ok", "5xx"} :
        LET q == [p EXCEPT !.status = status, !.verdict = status] IN
        /\ q.pc = "connected"
        /\ Put(r, [ResponsePhase(q, TRUE, FALSE) EXCEPT !.answered = TRUE,
                     !.written = TRUE, !.pc = "streaming"])
        /\ BalancerOnResponse(q, TRUE)
  BY <1>2 DEF Respond
<1> DEFINE q == [p EXCEPT !.status = status, !.verdict = status]
           x == [ResponsePhase(q, TRUE, FALSE) EXCEPT !.answered = TRUE,
                   !.written = TRUE, !.pc = "streaming"]
<1>4. /\ q.pc = p.pc /\ q.upstream = p.upstream /\ q.saved = p.saved
      /\ q.selected = p.selected /\ q.state = p.state
  BY <1>1 DEF Context
<1>5. /\ x.pc = "streaming" /\ x.upstream = {} /\ x.answered = TRUE
      /\ x.phase_done = TRUE /\ x.selected = p.selected /\ x.state = p.state
      /\ x.released = (p.released \/ (p.selected /\ p.state))
  BY <1>1 DEF Context, ResponsePhase
<1>6. p.pc = "connected" /\ Put(r, x) /\ BalancerOnResponse(q, TRUE)
  BY <1>3, <1>4
<1>7. Shown(q) = Shown(p)
  BY <1>4 DEF Shown
<1> HIDE DEF q, x
<1>8. ~p.answered /\ (p.state <=> p.selected) /\ ~p.released
  BY <1>1, <1>6 DEF Ledger
<1>9. Ledger(x)
  <2>1. x.released <=> (x.answered /\ x.selected)
    BY <1>5, <1>8
  <2> QED
    BY <1>5, <1>8, <2>1 DEF Ledger
<1>10. ~Flying(x)
  BY <1>5 DEF Flying
<1>11. CASE p.selected
  <2>1. Flying(p)
    BY <1>6, <1>8, <1>11 DEF Flying
  <2>2. load' = Released(On(p))
    BY <1>1, <1>4, <1>6, <1>7, <1>11, <2>1, ShownIsOn DEF BalancerOnResponse
  <2>3. active' = Less(active)
    BY <1>4, <1>6, <1>8, <1>11 DEF BalancerOnResponse
  <2> QED
    BY <1>1, <1>6, <1>9, <1>10, <2>1, <2>2, <2>3, GiveStep DEF Balanced
<1>12. CASE ~p.selected
  <2>1. ~Flying(p)
    BY <1>12 DEF Flying
  <2>2. UNCHANGED <<load, active>>
    BY <1>4, <1>6, <1>12 DEF BalancerOnResponse
  <2> QED
    BY <1>1, <1>6, <1>9, <1>10, <2>1, <2>2, KeepStep DEF Balanced
<1> QED
  BY <1>11, <1>12

\* The logging hook: release_retry_state and, when no response phase ran,
\* logging_cleanup give back what the request still holds, and only that.
LEMMA LoggingBalanced ==
  ASSUME NEW r \in Requests, Books(r), Logging(r)
  PROVE  Balanced(r)
<1> DEFINE q == req[r]
           leave == ReleaseRetryState(q)
           held == q.state /\ ~leave
           b == q.released \/ leave
           x == [q EXCEPT !.pc = "done", !.observed = Observe(q), !.state = held,
                          !.released = b]
<1>1. TypeOK /\ LoadExact /\ ActiveExact /\ Good(q) /\ Ledger(q) /\ q \in Context
  BY DEF Books, Good
<1>2. Reaches = {TRUE}
  BY DEF Books, Plain, Reaches
<1>3. q.pc = "ending" /\ Put(r, x)
  BY <1>1 DEF Logging, Context
<1>4. PICK reached \in IF q.phase_done THEN {FALSE} ELSE {TRUE} :
        /\ load' = IF reached /\ q.selected THEN Released(Shown(q)) ELSE load
        /\ active' = LET n == IF leave THEN Less(active) ELSE active
                     IN  IF reached /\ q.selected /\ held THEN Less(n) ELSE n
  BY <1>2 DEF Logging
<1>5. /\ x.pc = "done" /\ x.upstream = q.upstream /\ x.attempts = q.attempts
      /\ x.answered = q.answered
  <2> HIDE DEF held, b
  <2> QED
    BY <1>1 DEF Context
<1> HIDE DEF x
<1>6. Ledger(x)
  BY <1>1, <1>3, <1>5 DEF Ledger
<1>7. ~Flying(x)
  BY <1>5 DEF Flying
<1>8. /\ (q.state <=> q.selected) /\ (q.phase_done <=> q.answered)
      /\ q.released <=> (q.answered /\ q.selected)
  BY <1>1, <1>3 DEF Ledger
<1>9. (leave <=> (q.selected /\ ~q.answered)) /\ (leave => ~held)
  BY <1>8 DEF ReleaseRetryState
<1>10. CASE q.selected /\ ~q.answered
  <2>1. Flying(q)
    BY <1>3, <1>10 DEF Flying
  <2>2. reached = TRUE
    BY <1>4, <1>8, <1>10
  <2>3. Shown(q) = On(q)
    BY <1>1, <2>1, ShownIsOn
  <2>4. load' = Released(On(q))
    BY <1>4, <1>10, <2>2, <2>3
  <2>5. active' = Less(active)
    <3> HIDE DEF leave, held
    <3> QED
      BY <1>4, <1>9, <1>10
  <2> QED
    BY <1>1, <1>3, <1>6, <1>7, <2>1, <2>4, <2>5, GiveStep DEF Balanced
<1>11. CASE ~(q.selected /\ ~q.answered)
  <2>1. ~Flying(q)
    BY <1>11 DEF Flying
  <2>2. ~(reached /\ q.selected)
    BY <1>4, <1>8, <1>11
  <2>3. UNCHANGED <<load, active>>
    <3> HIDE DEF leave, held
    <3> QED
      BY <1>4, <1>9, <1>11, <2>2
  <2> QED
    BY <1>1, <1>3, <1>6, <1>7, <2>1, <2>3, KeepStep DEF Balanced
<1> QED
  BY <1>10, <1>11

\* In a plain deployment every hook keeps the books.
LEMMA HookBalanced ==
  ASSUME NEW r \in Requests, Books(r),
         Select(r) \/ SelectPinned(r) \/ Step(r) \/ ReadBody(r) \/ Interim(r)
  PROVE  Balanced(r)
<1>1. ~(TerminalResponse(r) \/ RejectBody(r) \/ Interim(r))
  BY DEF Books, Plain, TerminalResponse, RejectBody, Interim
<1> QED
  BY <1>1, SelectBalanced, PrepareBalanced, AttemptBalanced, StatusBalanced,
     RespondBalanced, LoggingBalanced DEF Step

\* So the books are kept through every step.
LEMMA LedgerStep ==
  ASSUME Plain, LedgerInv, [Next]_vars
  PROVE  LedgerInv'
<1>1. AttemptsInv'
  BY NextStep DEF LedgerInv
<1>2. CASE Next
  <2>1. PICK r \in Requests :
          Select(r) \/ SelectPinned(r) \/ Step(r) \/ ReadBody(r) \/ Interim(r)
    BY <1>2 DEF Next
  <2>2. Books(r)
    BY DEF Books, LedgerInv, AttemptsInv, CountersExact
  <2>3. Balanced(r)
    BY <2>1, <2>2, HookBalanced
  <2>4. PICK x : Put(r, x) /\ Ledger(x)
    BY <2>3 DEF Balanced
  <2>5. \A s \in Requests : req'[s] = IF s = r THEN x ELSE req[s]
    BY <2>4 DEF Put, LedgerInv, AttemptsInv, TypeOK
  <2>6. \A s \in Requests : Ledger(req'[s])
    BY <2>4, <2>5 DEF LedgerInv
  <2>7. CountersExact'
    BY <1>1, <2>3 DEF Balanced, CountersExact, AttemptsInv
  <2> QED
    BY <1>1, <2>6, <2>7 DEF LedgerInv
<1>3. CASE UNCHANGED vars
  <2>1. UNCHANGED <<req, load, active>>
    BY <1>3 DEF vars
  <2>2. CountersExact'
    BY <2>1 DEF LedgerInv, CountersExact, TypeOK, LoadExact, ActiveExact, InFlight,
                DisjointGroups
  <2>3. \A s \in Requests : Ledger(req'[s])
    BY <2>1 DEF LedgerInv
  <2> QED
    BY <1>1, <2>2, <2>3 DEF LedgerInv
<1> QED
  BY <1>2, <1>3

\* They are kept at the start: nothing is held.
LEMMA LedgerInit == Init => LedgerInv
<1> SUFFICES ASSUME Init PROVE LedgerInv
  OBVIOUS
<1>1. AttemptsInv
  BY AttemptsInit
<1>2. Fresh.selected = FALSE /\ Ledger(Fresh)
  <2>1. /\ Fresh.pc = "idle" /\ Fresh.attempts = 0 /\ Fresh.selected = FALSE
        /\ Fresh.state = FALSE /\ Fresh.answered = FALSE /\ Fresh.phase_done = FALSE
        /\ Fresh.released = FALSE
    BY DEF Fresh
  <2> QED
    BY <2>1 DEF Ledger
<1>3. \A r \in Requests : req[r] = Fresh
  BY DEF Init
<1>4. InFlight = {}
  BY <1>2, <1>3 DEF InFlight
<1>5. Cardinality({}) = 0
  BY FS_EmptySet
<1>6. \A s \in Slots : {r \in InFlight : s[2] \in On(req[r])} = {} /\ load[s] = 0
  BY <1>4 DEF Init
<1>7. LoadExact /\ ActiveExact
  <2>1. ASSUME NEW s \in Slots
        PROVE  LET n == Cardinality({r \in InFlight : s[2] \in On(req[r])})
               IN  load[s] <= n /\ (DisjointGroups => load[s] = n)
    BY <1>5, <1>6
  <2> QED
    BY <1>4, <1>5, <2>1 DEF LoadExact, ActiveExact, Init
<1> QED
  BY <1>1, <1>2, <1>3, <1>7 DEF LedgerInv, CountersExact, AttemptsInv

\* In a deployment without request-body filters, interim responses, response
\* filters that reject and request filters that answer, no in-flight counter is
\* ever above the number of requests on its endpoint, each is exactly that
\* number unless a composite strategy counts an endpoint twice, and the
\* cluster's active counter is the number of requests in flight, through every
\* retry, reselection, error and logging.  Each of the four breaks it: the run
\* reject_leak shows one, the README's disagreements describe the others.
THEOREM CountersCorrect ==
  ASSUME Plain
  PROVE  Spec => []CountersExact
<1>1. LedgerInv /\ [Next]_vars => LedgerInv'
  BY LedgerStep
<1>2. LedgerInv => CountersExact
  BY DEF LedgerInv
<1> QED
  BY <1>1, <1>2, LedgerInit, PTL DEF Spec
=============================================================================
