----------------------------- MODULE RetryBudget -----------------------------
(***************************************************************************)
(* The retry budget of one cluster, crates/core/src/retry.rs: a token      *)
(* bucket refilled from the clock by whichever request asks for a retry,   *)
(* without a lock.  Every load, store and compare-exchange on an atomic is *)
(* an action of its own, so refills and acquisitions of several requests   *)
(* interleave at each of them.  A compare_exchange_weak that fails         *)
(* spuriously only repeats its loop and is a stuttering step.              *)
(***************************************************************************)
EXTENDS Naturals, FiniteSets, Totals

CONSTANTS Threads,   \* requests that may be in flight on the cluster
          Retriers,  \* those whose attempts may fail and be retried
          Rate,      \* min_retries_per_second
          Percent,   \* percent, a whole number here
          Second,    \* clock units per second (1000 in the code)
          MaxClock   \* bound on time

ASSUME BudgetConfig ==
  /\ IsFiniteSet(Threads)
  /\ Retriers \subseteq Threads
  /\ Rate \in Nat \ {0}      \* RetryPolicy::validate_timeout_bounds
  /\ Percent \in 0..100
  /\ Second \in Nat \ {0}
  /\ MaxClock \in Nat

VARIABLES clock,     \* now_ms()
          tokens,    \* RetryBudget.tokens
          last,      \* RetryBudget.last_refill_ms
          active,    \* ClusterRetryState.active_requests
          th,        \* progress of each request in try_admit_retry
          admitted,  \* history: retries admitted
          minted,    \* history: tokens accrued by the winning refillers
          wins       \* history: refills that advanced last_refill_ms

history == <<admitted, minted, wins>>
vars == <<clock, tokens, last, active, th, history>>

\* RetryBudget::max_tokens
MaxTokens(n) ==
  LET computed == (n * Percent) \div 100
  IN  IF computed > Rate THEN computed ELSE Rate

Steps == {"out", "in", "counted", "timed", "loaded", "owing", "adding",
          "refilled", "taking"}

\* A request outside try_admit_retry keeps none of its local variables.
Local(pc) == [pc |-> pc, active |-> 0, now |-> 0, last |-> 0, add |-> 0, seen |-> 0]

\* The bucket never exceeds the cap of the highest traffic, so a burst of
\* retries never does either (add_tokens).
TypeOK ==
  /\ clock \in 0..MaxClock
  /\ tokens \in 0..MaxTokens(Cardinality(Threads))
  /\ last \in 0..MaxClock
  /\ active \in 0..Cardinality(Threads)
  /\ th \in [Threads -> [pc : Steps, active : Nat, now : Nat, last : Nat,
                         add : Nat, seen : Nat]]
  /\ {admitted, minted, wins} \subseteq Nat

\* RetryBudget::new
Init ==
  /\ clock = 0 /\ tokens = Rate /\ last = 0 /\ active = 0
  /\ th = [t \in Threads |-> Local("out")]
  /\ admitted = 0 /\ minted = 0 /\ wins = 0

Tick == /\ clock < MaxClock
        /\ clock' = clock + 1
        /\ UNCHANGED <<tokens, last, active, th, history>>

-----------------------------------------------------------------------------

\* ClusterRetryState::enter
Enter(t) ==
  /\ th[t].pc = "out"
  /\ active' = active + 1
  /\ th' = [th EXCEPT ![t] = Local("in")]
  /\ UNCHANGED <<clock, tokens, last, history>>

\* ClusterRetryState::leave
Leave(t) ==
  /\ th[t].pc = "in"
  /\ active' = IF active = 0 THEN 0 ELSE active - 1
  /\ th' = [th EXCEPT ![t] = Local("out")]
  /\ UNCHANGED <<clock, tokens, last, history>>

\* try_admit_retry starts: the active-request count is loaded.
LoadActive(t) ==
  /\ t \in Retriers /\ th[t].pc = "in"
  /\ th' = [th EXCEPT ![t] = [Local("counted") EXCEPT !.active = active]]
  /\ UNCHANGED <<clock, tokens, last, active, history>>

\* refill: the clock is read.
ReadClock(t) ==
  /\ th[t].pc = "counted"
  /\ th' = [th EXCEPT ![t].pc = "timed", ![t].now = clock]
  /\ UNCHANGED <<clock, tokens, last, active, history>>

\* refill_at: last_refill_ms is loaded, by now possibly later than `now`.
LoadLast(t) ==
  /\ th[t].pc = "timed"
  /\ th' = [th EXCEPT ![t].pc = "loaded", ![t].last = last]
  /\ UNCHANGED <<clock, tokens, last, active, history>>

\* saturating_sub
Elapsed(q) == IF q.now > q.last THEN q.now - q.last ELSE 0

Accrued(q) == (Rate * Elapsed(q)) \div Second

Least(m, n) == IF m < n THEN m ELSE n

\* Mutant: the time accounted for is rounded down.
ConsumedRoundedDown(q) == (Accrued(q) * Second) \div Rate

\* The time the accrued tokens account for, rounded up.
Consumed(q) == Least((Accrued(q) * Second + Rate - 1) \div Rate, Elapsed(q))

\* The compare-exchange of last_refill_ms: one refiller wins the interval.
SwapLast(t) ==
  LET q == th[t] IN
  /\ q.pc = "loaded"
  /\ IF Accrued(q) > 0 /\ last = q.last
     THEN /\ last' = last + Consumed(q)
          /\ th' = [th EXCEPT ![t].pc = "owing", ![t].add = Accrued(q)]
          /\ minted' = minted + Accrued(q)
          /\ wins' = wins + 1
     ELSE /\ th' = [th EXCEPT ![t].pc = "owing"]
          /\ UNCHANGED <<last, minted, wins>>
  /\ UNCHANGED <<clock, tokens, active, admitted>>

\* add_tokens: the bucket is loaded.
LoadTokens(t) ==
  /\ th[t].pc = "owing"
  /\ th' = [th EXCEPT ![t].pc = "adding", ![t].seen = tokens]
  /\ UNCHANGED <<clock, tokens, last, active, history>>

\* Mutant: the sum is not clamped.
AddedUncapped(q) == q.seen + q.add

\* What add_tokens wants to store.
Added(q) == Least(q.seen + q.add, MaxTokens(q.active))

\* add_tokens: one round of its loop.
SwapTokens(t) ==
  LET q == th[t] IN
  /\ q.pc = "adding"
  /\ IF Added(q) = q.seen \/ tokens = q.seen
     THEN /\ tokens' = IF Added(q) = q.seen THEN tokens ELSE Added(q)
          /\ th' = [th EXCEPT ![t].pc = "refilled", ![t].add = 0]
     ELSE /\ th' = [th EXCEPT ![t].seen = tokens]
          /\ UNCHANGED tokens
  /\ UNCHANGED <<clock, last, active, history>>

\* try_acquire: the bucket is loaded.
LoadForAcquire(t) ==
  /\ th[t].pc = "refilled"
  /\ th' = [th EXCEPT ![t].pc = "taking", ![t].seen = tokens]
  /\ UNCHANGED <<clock, tokens, last, active, history>>

\* try_acquire: one round of its loop; an empty bucket refuses the retry.
TryAcquire(t) ==
  LET q == th[t] IN
  /\ q.pc = "taking"
  /\ \/ /\ q.seen = 0
        /\ th' = [th EXCEPT ![t] = Local("in")]
        /\ UNCHANGED <<tokens, admitted>>
     \/ /\ q.seen > 0 /\ tokens = q.seen
        /\ tokens' = tokens - 1
        /\ admitted' = admitted + 1
        /\ th' = [th EXCEPT ![t] = Local("in")]
     \/ /\ q.seen > 0 /\ tokens # q.seen
        /\ th' = [th EXCEPT ![t].seen = tokens]
        /\ UNCHANGED <<tokens, admitted>>
  /\ UNCHANGED <<clock, last, active, minted, wins>>

\* One step of a request inside try_admit_retry.
Admit(t) ==
  \/ ReadClock(t) \/ LoadLast(t) \/ SwapLast(t) \/ LoadTokens(t)
  \/ SwapTokens(t) \/ LoadForAcquire(t) \/ TryAcquire(t)

Next == Tick \/ \E t \in Threads : Enter(t) \/ Leave(t) \/ LoadActive(t) \/ Admit(t)

Spec == Init /\ [][Next]_vars

-----------------------------------------------------------------------------

\* Tokens owed by refillers that won their interval and have not added yet.
Owed == Total(Threads, [t \in Threads |-> th[t].add])

\* Retries are never admitted faster than the configured rate: what was
\* admitted, what is in the bucket and what racing refillers still owe it
\* never exceed the initial floor plus the rate times the time accounted for,
\* and that time is never ahead of the clock (refill_at, try_acquire).
NoMinting ==
  /\ Second * (admitted + tokens + Owed) <= Second * Rate + Rate * last
  /\ last <= clock

\* The fraction of a token left over by a refill is carried to the next: each
\* refill accounts for less than one clock unit more than the tokens it
\* accrued, however refillers race (consumed_ms in refill_at).
CarriesRemainder == Rate * last <= Second * minted + (Rate - 1) * wins

\* The retry budget pays out no more than elapsed time earned, and time that
\* earned no whole token yet is not lost (accrue).
BudgetExact == NoMinting /\ CarriesRemainder
=============================================================================
