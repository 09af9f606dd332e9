--------------------------- MODULE FilterPipeline ---------------------------
(***************************************************************************)
(* One HTTP request's way through one filter pipeline                      *)
(* (crates/filter/src/pipeline/{http,evaluate,branch,build_branch}.rs and  *)
(* the handlers of crates/protocol/src/http/pingora/handler that drive     *)
(* it): the StreamBuffer pre-read of the body, the forward request phase   *)
(* with its branch chains, the reverse response phase, the streamed body   *)
(* hooks, and the cleanup the logging hook runs.                           *)
(*                                                                         *)
(* The request phase is an interpreter: `idx' walks the main path and      *)
(* `stack' holds one frame per branch evaluation in progress.  What a      *)
(* filter decides is nondeterministic; a filter is known by its filter_id. *)
(***************************************************************************)
EXTENDS Naturals, Sequences, FiniteSets, SequencesExt

CONSTANTS
  Filters,      \* filter_id of every PipelineFilter, branch chains included
  Main,         \* FilterPipeline::filters, the main path, a sequence
  Branches,     \* PipelineFilter::branches of each filter
  TypeName,     \* HttpFilter::name() of each filter
  Conditioned,  \* filters that carry request conditions
  ResponseConditioned,  \* filters that carry response conditions
  FailOpen,     \* filters with failure_mode: open
  Publishers,   \* filters that may write the result their branches match
  Selectors,    \* filters that may set ctx.upstream
  Addresses,    \* Arc<str> addresses a selecting filter may set it to
  BodyFilters,  \* main-path filters with request- and response-body access
  BodyModes,    \* SUBSET BOOLEAN: whether the body may be pre-read (StreamBuffer)
  MaxDepth,     \* branch nesting bound (build_branch.rs MAX_BRANCH_DEPTH)
  MaxChunks,    \* bound: body chunks in each direction
  MaxInterim,   \* bound: 1xx responses before the final one
  NoOne         \* no filter; no address or selected upstream; no published result

VARIABLES
  buffered,    \* body_capabilities: the request body mode is StreamBuffer
  pc,          \* the handler the request is in
  idx,         \* execute_http_request's idx (1-based)
  stack,       \* frames of the branch evaluations in progress
  iterations,  \* ctx.branch_iterations
  results,     \* ctx.filter_results: by type name, who published the match
  held,        \* pre_read_results
  before,      \* upstream_before
  upstream,    \* ctx.upstream: the filter that selected it, and the Arc
  executed,    \* executed_filter_indices and executed_branch_filters
  tracked,     \* executed_filter_indices has been sized: the request phase ran
  ran,         \* history: filters by their latest on_request that returned
  reentered,   \* history: a ReEnter rejoin was taken
  phaseDone,   \* ctx.response_phase_done
  responded,   \* on_response calls of the latest response phase, in order
  bypassed,    \* filters the latest response phase passed over by their conditions
  complete,    \* the latest response phase reached filter 0 unrejected
  done,        \* ctx.body_done_indices
  called,      \* request-body hooks the latest request chunk ran
  chunks,      \* request chunks handled
  replies,     \* response chunks handled
  interims     \* 1xx responses handled

machine == <<buffered, idx, stack, iterations, results, held, before>>
marks   == <<executed, tracked, ran, reentered>>
reply   == <<phaseDone, responded, bypassed, complete, interims, replies>>
body    == <<done, called, chunks>>
vars    == <<pc, machine, upstream, marks, reply, body>>

-----------------------------------------------------------------------------
(* The pipeline as built.                                                   *)

MainSet == {Main[i] : i \in DOMAIN Main}

AllBranches == UNION {{Branches[f][i] : i \in DOMAIN Branches[f]} : f \in Filters}

BranchNames == {br.name : br \in AllBranches}

(* Filters of f's branch chains, one level down.                            *)
Below(f) == UNION {ToSet(Branches[f][i].filters) : i \in DOMAIN Branches[f]}

(* Sets of filters that hold the branches of all their members.             *)
Closed == {S \in SUBSET Filters : \A f \in S : Below(f) \subseteq S}

(* The filters of f's branches, at any depth, and f itself.                 *)
Subtree == [f \in Filters |-> {g \in Filters : \A S \in Closed : f \in S => g \in S}]

(* The filters of f's branches, at any depth.                               *)
Under(f) == UNION {Subtree[g] : g \in Below(f)}

(* resolve_single_branch: a backward rejoin needs a limit, a rejoin target  *)
(* is a main-path position, a forward one lies past its host.  A filter     *)
(* owns those of its branches, so none lies below itself.                   *)
WellBuilt ==
  /\ MainSet \subseteq Filters /\ NoOne \notin Filters
  /\ \A f \in Filters : Below(f) \subseteq Filters /\ f \notin Under(f)
  /\ \A br \in AllBranches :
       /\ br.rejoin \in {"next", "terminal", "skip", "reenter"}
       /\ br.rejoin \in {"skip", "reenter"} => br.target \in DOMAIN Main
       /\ br.rejoin = "reenter" => br.max \in Nat \ {0}
  /\ \A i \in DOMAIN Main : \A br \in ToSet(Branches[Main[i]]) :
       br.rejoin = "skip" => br.target > i
  /\ BodyFilters \subseteq MainSet
  /\ BodyModes \subseteq BOOLEAN

ASSUME BuildChecks == WellBuilt

(* execute_http_response and unwind_branches: the main path in reverse, and *)
(* each host's branches, in reverse, just before the host.                  *)
Unwind[d \in 0..MaxDepth] ==
  [f \in Filters |->
    IF d = 0 THEN <<f>>
    ELSE FlattenSeq([i \in 1..Len(Branches[f]) |->
           LET chain == Branches[f][Len(Branches[f]) + 1 - i].filters IN
             FlattenSeq([k \in 1..Len(chain) |->
               Unwind[d - 1][chain[Len(chain) + 1 - k]]])]) \o <<f>>]

UnwindOrder ==
  FlattenSeq([i \in 1..Len(Main) |-> Unwind[MaxDepth][Main[Len(Main) + 1 - i]]])

-----------------------------------------------------------------------------
NoResults == [t \in {TypeName[f] : f \in Filters} |-> NoOne]

Init ==
  /\ buffered \in BodyModes
  /\ pc = IF buffered THEN "preread" ELSE "request"
  /\ idx = 1 /\ stack = <<>>
  /\ iterations = [n \in BranchNames |-> 0]
  /\ results = NoResults /\ held = NoResults
  /\ before = NoOne /\ upstream = NoOne
  /\ executed = {} /\ tracked = ~buffered /\ ran = <<>> /\ reentered = FALSE
  /\ phaseDone = FALSE /\ responded = <<>> /\ bypassed = {} /\ complete = FALSE
  /\ done = {} /\ called = {}
  /\ chunks = 0 /\ replies = 0 /\ interims = 0

(* ---- request-body hooks ------------------------------------------------ *)

(* execute_http_request_body and execute_http_response_body: filters done   *)
(* with the body, or bypassed by a request phase that ran, are skipped.     *)
\* Mutant: without the request-phase check.
EligibleUnlessDone(f) == f \notin done

Eligible(f) == f \notin done /\ (tracked => f \in executed)

MainPos(f) == CHOOSE i \in DOMAIN Main : Main[i] = f

(* The hooks a chunk runs when the conditions leave `open' and the hook of  *)
(* `stop' (NoOne: none) rejects or fails closed: forward for a request...   *)
RequestHooks(open, stop) ==
  {f \in open : stop # NoOne => MainPos(f) <= MainPos(stop)}

(* ... and in reverse for a response.                                       *)
ResponseHooks(open, stop) ==
  {f \in open : stop # NoOne => MainPos(f) >= MainPos(stop)}

(* One request chunk through the pipeline.  Conditions are read again only  *)
(* before the request phase has tracked them (as_request_body_filter).      *)
RequestChunk(skip, stop, finished) ==
  LET open == {f \in BodyFilters : Eligible(f)} \ skip IN
  /\ chunks < MaxChunks /\ chunks' = chunks + 1
  /\ skip \subseteq (IF tracked THEN {} ELSE Conditioned)
  /\ stop \in open \cup {NoOne}
  /\ called' = RequestHooks(open, stop)
  /\ finished \subseteq called' \ {stop}
  /\ done' = done \cup finished

(* PreReadPass::feed: a chunk read before the request phase.  Hooks may     *)
(* publish results; a rejection leaves the request phase untracked.         *)
PreRead(skip, stop, finished, published) ==
  /\ pc = "preread"
  /\ RequestChunk(skip, stop, finished)
  /\ published \subseteq called' \cap Publishers
  /\ \A f, g \in published : TypeName[f] = TypeName[g] => f = g
  /\ results' = [t \in DOMAIN results |->
       IF \E f \in published : TypeName[f] = t
       THEN [by |-> CHOOSE f \in published : TypeName[f] = t, stale |-> FALSE]
       ELSE results[t]]
  /\ pc' = IF stop = NoOne THEN "preread" ELSE "logging"
  /\ UNCHANGED <<buffered, idx, stack, iterations, held, before, upstream, marks,
                 reply>>

(* execute_http_request's preamble, after the pre-read saw end of stream.   *)
BeginRequest ==
  /\ pc = "preread"
  /\ pc' = "request"
  /\ held' = results /\ results' = NoResults
  /\ tracked' = TRUE /\ done' = {}
  /\ UNCHANGED <<buffered, idx, stack, iterations, before, upstream, executed, ran,
                 reentered, reply, called, chunks>>

(* ---- the request phase ------------------------------------------------- *)

Frame(f) == [host |-> f, b |-> 1, k |-> 0, snap |-> NoOne]

Current == Last(stack)

CurrentBranch == Branches[Current.host][Current.b]

(* The filter whose turn it is: on the main path, or in a firing branch.    *)
Turn(f) ==
  /\ pc = "request"
  /\ \/ stack = <<>> /\ idx \in DOMAIN Main /\ f = Main[idx]
     \/ /\ stack # <<>>
        /\ Current.b \in DOMAIN Branches[Current.host]
        /\ Current.k \in DOMAIN CurrentBranch.filters
        /\ f = CurrentBranch.filters[Current.k]

(* Step past the current filter: idx += 1, or the branch loop's next.       *)
Advance(frames) ==
  IF frames = <<>> THEN idx' = idx + 1 /\ stack' = frames
  ELSE idx' = idx /\ stack' = [frames EXCEPT ![Len(frames)].k = @ + 1]

(* Skipped by its request conditions: no mark, so no on_response.           *)
SkipByConditions(f) ==
  /\ Turn(f) /\ f \in Conditioned
  /\ Advance(stack)
  /\ UNCHANGED <<pc, buffered, iterations, results, held, before, upstream, marks, reply, body>>

(* Results published in the pre-read return to the main-path filter of that *)
(* type name just before it runs.  A result f left behind from an earlier   *)
(* run is noted as stale: nothing in the code removes it here.              *)
HandedBack(f) ==
  IF stack = <<>> /\ held[TypeName[f]] # NoOne
  THEN [results EXCEPT ![TypeName[f]] = held[TypeName[f]]]
  ELSE [t \in DOMAIN results |->
         IF results[t] # NoOne /\ results[t].by = f THEN [results[t] EXCEPT !.stale = TRUE]
                                                    ELSE results[t]]

(* run_request_filter / branch_request_outcome: Release and BodyDone are    *)
(* Continue, and so is the error of a fail-open filter.                     *)
Passes(f, action) == action = "continue" \/ (action = "error" /\ f \in FailOpen)

(* History: f is the latest to have run.                                    *)
RanLast(f) ==
  LET earlier == {i \in DOMAIN ran : ran[i] = f}
  IN  Append(IF earlier = {} THEN ran ELSE RemoveAt(ran, CHOOSE i \in earlier : TRUE), f)

RunFilter(f, action, publish, select) ==
  /\ Turn(f)
  /\ publish => f \in Publishers
  /\ select # NoOne => f \in Selectors
  /\ LET marked == action # "error" \/ f \in FailOpen IN
     /\ executed' = IF marked THEN executed \cup {f} ELSE executed
     /\ ran' = IF marked THEN RanLast(f) ELSE ran
  /\ results' = IF publish
                THEN [HandedBack(f) EXCEPT ![TypeName[f]] = [by |-> f, stale |-> FALSE]]
                ELSE HandedBack(f)
  /\ held' = IF stack = <<>> THEN [held EXCEPT ![TypeName[f]] = NoOne] ELSE held
  /\ upstream' = IF select = NoOne THEN upstream ELSE [by |-> f, address |-> select]
  /\ before' = IF stack = <<>> THEN upstream' ELSE before
  /\ IF Passes(f, action)
     THEN pc' = pc /\ stack' = Append(stack, Frame(f))
     ELSE /\ pc' = IF action = "terminal" THEN "answer" ELSE "logging"
          /\ stack' = <<>>
  /\ UNCHANGED <<buffered, idx, iterations, tracked, reentered, reply, body>>

(* ---- branch evaluation ------------------------------------------------- *)

(* should_branch_fire reads the host's results, snapshotted once a sibling  *)
(* has run.  A `not' matcher also matches a missing result.                 *)
HostResult ==
  LET r == IF Current.snap = NoOne THEN results ELSE Current.snap
  IN  r[TypeName[Current.host]]

ShouldFire(br) ==
  CASE br.cond = "always" -> TRUE
    [] br.cond = "is"     -> HostResult # NoOne
    [] br.cond = "not"    -> HostResult = NoOne

(* check_reentrance_limit: counts before it compares.                       *)
\* Mutant: never counts.
CountedNever(br) == iterations

Counted(br) ==
  IF br.rejoin = "reenter" THEN [iterations EXCEPT ![br.name] = @ + 1] ELSE iterations

WithinLimit(br) == br.rejoin = "reenter" => iterations[br.name] < br.max

Evaluating == pc = "request" /\ stack # <<>> /\ Current.k = 0

(* A matching branch within its limit starts running its chain.             *)
FireBranch ==
  /\ Evaluating /\ Current.b \in DOMAIN Branches[Current.host]
  /\ ShouldFire(CurrentBranch) /\ WithinLimit(CurrentBranch)
  /\ iterations' = Counted(CurrentBranch)
  /\ stack' = [stack EXCEPT ![Len(stack)].k = 1,
                            ![Len(stack)].snap = IF @ = NoOne THEN results ELSE @]
  /\ UNCHANGED <<pc, buffered, idx, results, held, before, upstream, marks, reply, body>>

(* A branch that does not match, or has used up its limit, is passed over.  *)
PassBranch ==
  /\ Evaluating /\ Current.b \in DOMAIN Branches[Current.host]
  /\ ~(ShouldFire(CurrentBranch) /\ WithinLimit(CurrentBranch))
  /\ iterations' = IF ShouldFire(CurrentBranch) THEN Counted(CurrentBranch) ELSE iterations
  /\ stack' = [stack EXCEPT ![Len(stack)].b = @ + 1]
  /\ UNCHANGED <<pc, buffered, idx, results, held, before, upstream, marks, reply, body>>

(* Results do not outlive the branch evaluation they were published for.    *)
\* Mutant: they do.
ResultsKept == results

ResultsCleared == NoResults

(* No branch left: results are cleared and the parent continues.            *)
EndBranches ==
  /\ Evaluating /\ Current.b \notin DOMAIN Branches[Current.host]
  /\ results' = ResultsCleared
  /\ Advance(Front(stack))
  /\ UNCHANGED <<pc, buffered, iterations, held, before, upstream, marks, reply, body>>

ChainEnded(rejoin) ==
  /\ pc = "request" /\ stack # <<>> /\ Current.k > 0
  /\ Current.k \notin DOMAIN CurrentBranch.filters
  /\ CurrentBranch.rejoin = rejoin

RejoinNext ==
  /\ ChainEnded("next")
  /\ stack' = [stack EXCEPT ![Len(stack)].b = @ + 1, ![Len(stack)].k = 0]
  /\ UNCHANGED <<pc, buffered, idx, iterations, results, held, before, upstream, marks, reply, body>>

(* branch_selected_upstream, by the identity of the address: what was       *)
(* selected before the host's branches were evaluated does not count, and   *)
(* neither does selecting that Arc again.                                   *)
\* Mutant: whoever selected it.
AnyUpstream == upstream # NoOne

BranchSelectedUpstream == upstream # NoOne /\ upstream # before

(* A terminal rejoin: forward if the branch selected an upstream, else 500. *)
(* A nested one always fails closed (map_nested_outcome).                   *)
RejoinTerminal ==
  /\ ChainEnded("terminal")
  /\ pc' = IF Len(stack) = 1 /\ BranchSelectedUpstream THEN "open" ELSE "logging"
  /\ stack' = <<>>
  /\ UNCHANGED <<buffered, idx, iterations, results, held, before, upstream, marks, reply, body>>

(* A jump to a main-path position; a nested branch's jump is discarded.     *)
RejoinSkipTo ==
  /\ ChainEnded("skip")
  /\ results' = ResultsCleared
  /\ IF Len(stack) = 1 THEN idx' = CurrentBranch.target /\ stack' = <<>>
                       ELSE Advance(Front(stack))
  /\ UNCHANGED <<pc, buffered, iterations, held, before, upstream, marks, reply, body>>

(* Marks of the re-entered span are kept.                                   *)
\* Mutant: the re-entered span starts unmarked.
MarksCleared(target) == executed \ {Main[i] : i \in target..Len(Main)}

MarksOnReEnter(target) == executed

RejoinReEnter ==
  /\ ChainEnded("reenter")
  /\ results' = ResultsCleared
  /\ IF Len(stack) = 1
     THEN /\ idx' = CurrentBranch.target /\ stack' = <<>>
          /\ executed' = MarksOnReEnter(CurrentBranch.target)
          /\ reentered' = TRUE
     ELSE Advance(Front(stack)) /\ UNCHANGED <<executed, reentered>>
  /\ UNCHANGED <<pc, buffered, iterations, held, before, upstream, tracked, ran, reply, body>>

(* Past the last filter: FilterAction::Continue.                            *)
EndRequest ==
  /\ pc = "request" /\ stack = <<>> /\ idx > Len(Main)
  /\ pc' = "open"
  /\ UNCHANGED <<machine, upstream, marks, reply, body>>

RequestStep ==
  \/ \E f \in Filters :
       \/ SkipByConditions(f)
       \/ \E action \in {"continue", "reject", "terminal", "error"},
             publish \in BOOLEAN, select \in Addresses \cup {NoOne} :
            RunFilter(f, action, publish, select)
  \/ FireBranch \/ PassBranch \/ EndBranches
  \/ RejoinNext \/ RejoinTerminal \/ RejoinSkipTo \/ RejoinReEnter
  \/ EndRequest

(* ---- the response phase ------------------------------------------------ *)

(* A main-path filter is skipped only on an explicit "did not execute";     *)
(* a branch filter runs only if it is marked.                               *)
Marked(f) == IF f \in MainSet THEN tracked => f \in executed ELSE f \in executed

(* A filter whose host is skipped is not reached.                           *)
Visited(f) == Marked(f) /\ \A h \in Filters : f \in Subtree[h] => Marked(h)

(* execute_http_response: all of it, or as far as the n-th hook, which      *)
(* rejected or failed closed (n = 0: none did).  The hooks of `skip' are    *)
(* passed over by their response conditions (run_response_hook); a host so  *)
(* passed over has its branches unwound all the same.                       *)
ExecuteResponse(n, skip) ==
  LET hooks == SelectSeq(UnwindOrder, LAMBDA f : Visited(f) /\ f \notin skip) IN
  /\ skip \subseteq {f \in ResponseConditioned : Visited(f)}
  /\ n \in 0..Len(hooks)
  /\ bypassed' = skip
  /\ responded' = IF n = 0 THEN hooks ELSE SubSeq(hooks, 1, n)
  /\ complete' = (n = 0)
  /\ done' = {}

(* prepare_terminal_response, for an answer the pipeline itself produced.   *)
Answer(n, skip) ==
  /\ pc = "answer"
  /\ ExecuteResponse(n, skip)
  /\ phaseDone' = TRUE
  /\ pc' = IF n = 0 THEN "answered" ELSE "logging"
  /\ UNCHANGED <<machine, upstream, marks, called, chunks, interims, replies>>

(* response_filter::execute on an upstream response, final or interim.      *)
UpstreamResponse(n, skip, interim) ==
  /\ pc = "open"
  /\ interim => interims < MaxInterim
  /\ interims' = IF interim THEN interims + 1 ELSE interims
  /\ ExecuteResponse(n, skip)
  /\ phaseDone' = TRUE
  /\ pc' = IF n # 0 THEN "logging" ELSE IF interim THEN "open" ELSE "reply"
  /\ UNCHANGED <<machine, upstream, marks, called, chunks, replies>>

(* The upstream could not be reached, or broke off: fail_to_proxy.          *)
UpstreamFailure ==
  /\ pc \in {"open", "reply"}
  /\ pc' = "logging"
  /\ UNCHANGED <<machine, upstream, marks, reply, body>>

(* request_body_filter, in stream mode: pre-read chunks are only drained.   *)
(* The client may go on uploading after the response has begun.             *)
StreamChunk(stop, finished) ==
  /\ pc \in {"open", "reply"} /\ ~buffered
  /\ RequestChunk({}, stop, finished)
  /\ pc' = IF stop = NoOne THEN pc ELSE "logging"
  /\ UNCHANGED <<machine, upstream, marks, reply>>

(* response_body_filter, or run_parent_terminal_body_filters, on one chunk. *)
(* The response conditions are read again, on the header as the response    *)
(* phase left it, so they may leave out other filters than it did.          *)
ResponseChunk(skip, stop, finished) ==
  LET open == {f \in BodyFilters : Eligible(f)} \ skip IN
  /\ skip \subseteq ResponseConditioned
  /\ pc \in {"reply", "answered"} /\ replies < MaxChunks
  /\ replies' = replies + 1
  /\ stop \in open \cup {NoOne}
  /\ finished \subseteq ResponseHooks(open, stop) \ {stop}
  /\ done' = done \cup finished
  /\ pc' = IF stop = NoOne THEN pc ELSE "logging"
  /\ UNCHANGED <<machine, upstream, marks, phaseDone, responded, bypassed, complete,
                 interims, called, chunks>>

Delivered ==
  /\ pc \in {"reply", "answered"}
  /\ pc' = "logging"
  /\ UNCHANGED <<machine, upstream, marks, reply, body>>

(* logging_cleanup: the response phase, if it never executed.  There is no  *)
(* response to read conditions on, so they pass no filter over.             *)
LoggingCleanup(n) ==
  /\ pc = "logging"
  /\ pc' = "end"
  /\ IF phaseDone THEN n = 0 /\ UNCHANGED <<responded, bypassed, complete, done>>
                  ELSE ExecuteResponse(n, {})
  /\ UNCHANGED <<machine, upstream, marks, phaseDone, interims, replies,
                 called, chunks>>

Finished == pc = "end" /\ UNCHANGED vars

Next ==
  \/ \E stop \in BodyFilters \cup {NoOne}, skip, finished, published \in SUBSET BodyFilters :
       PreRead(skip, stop, finished, published)
  \/ BeginRequest
  \/ RequestStep
  \/ \E n \in 0..Len(UnwindOrder), skip \in SUBSET ResponseConditioned :
       \/ Answer(n, skip)
       \/ \E interim \in BOOLEAN : UpstreamResponse(n, skip, interim)
  \/ \E n \in 0..Len(UnwindOrder) : LoggingCleanup(n)
  \/ UpstreamFailure
  \/ \E stop \in BodyFilters \cup {NoOne}, finished \in SUBSET BodyFilters :
       \/ StreamChunk(stop, finished)
       \/ \E skip \in SUBSET BodyFilters : ResponseChunk(skip, stop, finished)
  \/ Delivered
  \/ Finished

(* A request is one task: every hook returns and the task is polled again,  *)
(* so a request phase that can step does step.                              *)
Spec == Init /\ [][Next]_vars /\ WF_vars(RequestStep)

-----------------------------------------------------------------------------
(* Properties.                                                              *)

(* Every pass but the first spends one re-entrance of some branch.          *)
MaxPasses ==
  1 + MapThenSumSet(LAMBDA br : br.max, {br \in AllBranches : br.rejoin = "reenter"})

Published == {NoOne} \cup [by : Filters, stale : BOOLEAN]

(* The variables keep their types; branch_iterations stays within what the  *)
(* limits of the re-entering branches allow together, and the nesting of    *)
(* evaluations within MAX_BRANCH_DEPTH.                                     *)
TypeOK ==
  /\ pc \in {"preread", "request", "answer", "answered", "open", "reply", "logging", "end"}
  /\ idx \in 1..Len(Main) + 1
  /\ \A i \in DOMAIN stack :
       /\ stack[i].host \in Filters
       /\ stack[i].b \in 1..Len(Branches[stack[i].host]) + 1
       /\ stack[i].k \in Nat
  /\ Len(stack) <= MaxDepth
  /\ \A br \in AllBranches :
       iterations[br.name] \in 0..IF br.rejoin = "reenter" THEN MaxPasses ELSE 0
  /\ \A t \in DOMAIN results : results[t] \in Published /\ held[t] \in Published
  /\ {before, upstream} \subseteq {NoOne} \cup [by : Selectors, address : Addresses]
  /\ executed \subseteq Filters /\ tracked \in BOOLEAN /\ ran \in Seq(Filters)
  /\ {buffered, phaseDone, complete, reentered} \subseteq BOOLEAN /\ responded \in Seq(Filters)
  /\ bypassed \subseteq ResponseConditioned
  /\ done \subseteq BodyFilters /\ called \subseteq BodyFilters
  /\ chunks \in 0..MaxChunks /\ replies \in 0..MaxChunks /\ interims \in 0..MaxInterim

(* Once the request phase has run, on_response runs only for filters whose  *)
(* on_request returned, at most once each, and a response phase nothing     *)
(* rejected reaches every one of them but those whose own response          *)
(* conditions did not match -- whatever was skipped, re-entered, rejected   *)
(* in a later pass or answered from inside a branch.                        *)
ResponsePaired ==
  tracked =>
    /\ ToSet(responded) \subseteq ToSet(ran)
    /\ Cardinality(ToSet(responded)) = Len(responded)
    /\ complete => ToSet(responded) = ToSet(ran) \ bypassed

(* Without re-entrance the response phase unwinds the request phase         *)
(* exactly: its on_response calls are the on_request calls backwards, from  *)
(* the last, branch filters before their host, without those the response   *)
(* conditions pass over.                                                    *)
ResponseMirrorsRequest ==
  tracked /\ ~reentered =>
    IsPrefix(responded, Reverse(SelectSeq(ran, LAMBDA f : f \notin bypassed)))

(* A branch conditioned on a result fires only on what its own host         *)
(* published when it last ran (or in the pre-read), never on a result an    *)
(* earlier pass, another filter or a sibling's chain left behind.           *)
FiresOnOwnResult ==
  [][(FireBranch /\ CurrentBranch.cond = "is") =>
        HostResult = [by |-> Current.host, stale |-> FALSE]]_vars

(* A terminal rejoin forwards the request only if the upstream was selected *)
(* inside the branches of the host it rejoins from: an earlier selection    *)
(* must not let a request through with the remaining filters skipped.       *)
TerminalFailsClosed ==
  [][(RejoinTerminal /\ pc' = "open") =>
        upstream.by \in Subtree[Current.host] \ {Current.host}]_vars

(* "A cluster or upstream chosen before the branch does not count": the     *)
(* selecting filter belongs to the terminal branch itself.  It does not     *)
(* hold: see README, "Disagreements described and not run".                 *)
TerminalSelectsItself ==
  [][(RejoinTerminal /\ pc' = "open") =>
        \E f \in ToSet(CurrentBranch.filters) : upstream.by \in Subtree[f]]_vars

(* "Only filters that actually executed during the request phase run in the *)
(* response phase."  It does not hold: see README, same section.            *)
OnlyExecutedRespond == ToSet(responded) \subseteq ToSet(ran)

(* Streamed body hooks only run for filters that saw the request.           *)
BodyAfterRequest == ~buffered => called \subseteq ToSet(ran)

(* Every request phase ends: re-entrance is bounded however branches nest.  *)
RequestPhaseEnds == pc = "request" ~> pc # "request"

=============================================================================
