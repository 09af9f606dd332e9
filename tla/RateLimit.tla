------------------------------ MODULE RateLimit ------------------------------
(***************************************************************************)
(* The per-address rate limiter (rate_limit/mod.rs, limiter.rs and         *)
(* token_bucket.rs): one token bucket per client key, an approximate count *)
(* of the buckets that gates two caps, and an eviction pass that one       *)
(* caller per interval claims.  Every request reads the clock once, at its *)
(* start, and uses that reading to the end, however long it is held up.    *)
(* The map is sharded: every key is taken to lie in a shard of its own, so *)
(* that as much runs at once as the shards' locks ever allow.              *)
(*                                                                         *)
(* Time and tokens are whole units: a bucket gains one token per tick, so  *)
(* Rate is 1 and the fractional tokens of the code stay out.               *)
(***************************************************************************)
EXTENDS Integers, FiniteSets, FiniteSetsExt, Totals

CONSTANTS
    Clients,            \* bucket keys (bucket_key has been applied)
    Observed,           \* the client whose admissions are counted
    LimitThreads,       \* requests handled at once
    Burst,              \* bucket capacity
    SoftCap,            \* MAX_PER_IP_ENTRIES
    HardCap,            \* HARD_CAP_PER_IP_ENTRIES
    EvictionInterval,   \* EVICTION_INTERVAL_NANOS
    MaxInstant            \* bound on time

ASSUME LimitBounds ==
    /\ IsFiniteSet(LimitThreads)
    /\ Observed \in Clients
    /\ Burst \in Nat \ {0} /\ EvictionInterval \in Nat \ {0}
    /\ SoftCap \in Nat /\ HardCap \in Nat \ {0} /\ MaxInstant \in Nat

VARIABLES
    instant,          \* now_nanos
    buckets,        \* client -> bucket, or NoBucket
    entries,        \* the approximate count
    lastEviction,   \* last_eviction_nanos
    call,           \* thread -> the acquisition it is in
    window          \* history: since when admissions are counted, from which
                    \* clock reading on, and how many there were

limitVars == <<instant, buckets, entries, lastEviction, call, window>>

NoBucket == [tracked |-> FALSE]
NoCall == [pc |-> "rest"]
Tracked == {c \in Clients : buckets[c].tracked}

\* Threads between vacant.insert and entries.fetch_add, which hold the lock of
\* the shard they inserted into.
Uncounted == {t \in LimitThreads : call[t].pc = "count"}
Locked(c) == \E t \in Uncounted : call[t].client = c

Full == [tracked |-> TRUE, tokens |-> Burst, last |-> 0]

\* 2 * burst / rate
IdleThreshold == 2 * Burst

LimitInit ==
    /\ instant = 0 /\ entries = 0 /\ lastEviction = 0
    /\ buckets = [c \in Clients |-> NoBucket]
    /\ call = [t \in LimitThreads |-> NoCall]
    /\ window = [open |-> FALSE]

LimitTick ==
    /\ instant < MaxInstant /\ instant' = instant + 1
    /\ UNCHANGED <<buckets, entries, lastEviction, call, window>>

\* An observer starts counting the admissions of the observed client.
OpenWindow ==
    /\ ~window.open
    /\ window' = [open |-> TRUE, since |-> instant, from |-> instant,
                  admitted |-> 0]
    /\ UNCHANGED <<instant, buckets, entries, lastEviction, call>>

------------------------------------------------------------------------------
(* token_bucket.rs                                                         *)

\* A reading of the clock older than the last refill adds nothing.
current_tokens(b, now) == Min({b.tokens + Max({now - b.last, 0}), Burst})

\* The bucket after try_acquire took a token.
spend(b, now) ==
    [tracked |-> TRUE, tokens |-> current_tokens(b, now) - 1,
     last |-> Max({b.last, now})]

\* try_acquire on bucket b of client c: an empty bucket is left alone.
Acquire(c, b, now) ==
    IF current_tokens(b, now) >= 1
    THEN /\ buckets' = [buckets EXCEPT ![c] = spend(b, now)]
         /\ window' = IF window.open /\ c = Observed /\ now >= window.from
                      THEN [window EXCEPT !.admitted = @ + 1] ELSE window
    ELSE /\ buckets' = [buckets EXCEPT ![c] = b]
         /\ UNCHANGED window

------------------------------------------------------------------------------
(* limiter.rs                                                              *)

Step(t, pc) == call' = [call EXCEPT ![t].pc = pc]

Done(t) == call' = [call EXCEPT ![t] = NoCall]

\* try_acquire_for reads the clock.
BeginAcquire(t, c) ==
    /\ call[t].pc = "rest"
    /\ call' = [call EXCEPT ![t] =
         [pc |-> "read", client |-> c, now |-> instant, last |-> 0,
          left |-> {}, evicted |-> 0]]
    /\ UNCHANGED <<instant, buckets, entries, lastEviction, window>>

\* claim_eviction_pass reads when the last pass was.  A pass claimed since the
\* clock was read is taken for one just now.
ReadLast(t) ==
    /\ call[t].pc = "read"
    /\ call' = IF call[t].now - lastEviction < EvictionInterval
               THEN [call EXCEPT ![t].pc = "get"]
               ELSE [call EXCEPT ![t].pc = "claim", ![t].last = lastEviction]
    /\ UNCHANGED <<instant, buckets, entries, lastEviction, window>>

\* On past claim_eviction_pass, with the shards a pass has to visit.
Pass(t, pc, shards) ==
    call' = [call EXCEPT ![t].pc = pc, ![t].left = shards, ![t].last = 0]

\* The compare-exchange of claim_eviction_pass, then the soft cap.
ClaimPass(t) ==
    /\ call[t].pc = "claim"
    /\ IF lastEviction # call[t].last
       THEN Pass(t, "get", {}) /\ UNCHANGED lastEviction
       ELSE /\ lastEviction' = call[t].now
            /\ IF entries <= SoftCap THEN Pass(t, "get", {})
                                    ELSE Pass(t, "retain", Clients)
    /\ UNCHANGED <<instant, buckets, entries, window>>

\* Mutant: half the idle time is taken to be enough.
EvictableSoon(c, now) ==
    buckets[c].tracked /\ now - buckets[c].last >= Burst - 1

Evictable(c, now) ==
    buckets[c].tracked /\ now - buckets[c].last > IdleThreshold

\* A bucket that goes is forgotten to be full at the pass's own reading of
\* the clock: the window counts the requests that read it no earlier.
Forget(c, now) ==
    window' = IF window.open /\ c = Observed
              THEN [window EXCEPT !.from = Max({@, now})] ELSE window

\* retain comes to the next shard and takes its lock.
RetainShard(t, c) ==
    /\ call[t].pc = "retain" /\ c \in call[t].left /\ ~Locked(c)
    /\ IF Evictable(c, call[t].now)
       THEN /\ buckets' = [buckets EXCEPT ![c] = NoBucket]
            /\ Forget(c, call[t].now)
            /\ call' = [call EXCEPT ![t].left = @ \ {c}, ![t].evicted = @ + 1]
       ELSE /\ call' = [call EXCEPT ![t].left = @ \ {c}]
            /\ UNCHANGED <<buckets, window>>
    /\ UNCHANGED <<instant, entries, lastEviction>>

\* All shards visited.
EndRetain(t) ==
    /\ call[t].pc = "retain" /\ call[t].left = {}
    /\ Step(t, IF call[t].evicted = 0 THEN "get" ELSE "subtract")
    /\ UNCHANGED <<instant, buckets, entries, lastEviction, window>>

SubtractEvicted(t) ==
    /\ call[t].pc = "subtract"
    /\ entries' = entries - call[t].evicted
    /\ call' = [call EXCEPT ![t].pc = "get", ![t].evicted = 0]
    /\ UNCHANGED <<instant, buckets, lastEviction, window>>

\* A known client; its bucket cannot go while the reference is held.
GetBucket(t) ==
    /\ call[t].pc = "get"
    /\ LET c == call[t].client
       IN  /\ ~Locked(c)
           /\ IF buckets[c].tracked
              THEN Acquire(c, buckets[c], call[t].now) /\ Done(t)
              ELSE Step(t, "cap") /\ UNCHANGED <<buckets, window>>
    /\ UNCHANGED <<instant, entries, lastEviction>>

\* At the hard cap an unknown client is refused.
CheckCap(t) ==
    /\ call[t].pc = "cap"
    /\ IF entries >= HardCap THEN Done(t) ELSE Step(t, "insert")
    /\ UNCHANGED <<instant, buckets, entries, lastEviction, window>>

\* The entry API: a new bucket, or the one another thread inserted meanwhile.
InsertBucket(t) ==
    /\ call[t].pc = "insert"
    /\ LET c == call[t].client
       IN  /\ ~Locked(c)
           /\ IF buckets[c].tracked
              THEN Acquire(c, buckets[c], call[t].now) /\ Done(t)
              ELSE /\ buckets' = [buckets EXCEPT ![c] = Full]
                   /\ Step(t, "count") /\ UNCHANGED window
    /\ UNCHANGED <<instant, entries, lastEviction>>

\* The new bucket is counted, and acquired from, before its shard is unlocked.
CountBucket(t) ==
    /\ call[t].pc = "count"
    /\ entries' = entries + 1
    /\ Acquire(call[t].client, buckets[call[t].client], call[t].now) /\ Done(t)
    /\ UNCHANGED <<instant, lastEviction>>

LimitStep(t) ==
    \/ \E c \in Clients : BeginAcquire(t, c) \/ RetainShard(t, c)
    \/ ReadLast(t) \/ ClaimPass(t) \/ EndRetain(t) \/ SubtractEvicted(t)
    \/ GetBucket(t) \/ CheckCap(t) \/ InsertBucket(t) \/ CountBucket(t)

LimitNext == LimitTick \/ OpenWindow \/ \E t \in LimitThreads : LimitStep(t)

LimitSpec == LimitInit /\ [][LimitNext]_limitVars

------------------------------------------------------------------------------
(* Properties.                                                             *)

LimitTypeOK ==
    /\ instant \in 0 .. MaxInstant /\ lastEviction \in 0 .. MaxInstant
    /\ entries \in Nat
    /\ \A c \in Tracked : /\ buckets[c].tokens \in 0 .. Burst
                          /\ buckets[c].last \in 0 .. MaxInstant
    /\ \A t \in LimitThreads :
        call[t].pc \in {"rest", "read", "claim", "retain", "subtract", "get", "cap",
                        "insert", "count"}

\* From any moment on, a client is admitted at most Burst times plus once
\* per tick, counting the requests that read the clock since then and since
\* the pass that last evicted its bucket: neither eviction nor a request held
\* up between its reading and its acquisition refills a bucket.
WindowBound ==
    window.open => window.admitted <= Burst + (instant - window.since)

\* "Off by a small amount": the count lags behind the map by the buckets that
\* were inserted and not yet counted, and is ahead of it by those that passes
\* under way have removed and not yet subtracted, so that it is exact again
\* whenever no one is between the two.
CountsEvery ==
    entries + Cardinality(Uncounted)
      = Cardinality(Tracked) + Total(LimitThreads, [t \in LimitThreads |->
                                 IF call[t].pc = "rest" THEN 0 ELSE call[t].evicted])

\* A pass never subtracts more than the count holds, although it may have
\* overtaken insertions that are not counted yet: the counter would wrap, and
\* every new client be refused.  A bucket not yet counted is behind its lock.
NeverWraps ==
    \A t \in LimitThreads : call[t].pc = "subtract" => call[t].evicted <= entries

\* The map outgrows the hard cap by less than one bucket per thread.
HardCapHolds == Cardinality(Tracked) <= HardCap + Cardinality(LimitThreads) - 1

\* The cap holds, and goes on holding because the count it is compared with
\* does not drift from the map (acquire_per_ip, maybe_evict).
CapHolds == CountsEvery /\ NeverWraps /\ HardCapHolds
=============================================================================
