---------------------------- MODULE StoresProofs ----------------------------
(***************************************************************************)
(* Proofs about the counters and bounded maps that requests share without  *)
(* a common lock, for every number of requests and every configuration:    *)
(* the retry budget, file-descriptor admission, the sticky-session store   *)
(* and the rate limiter.                                                   *)
(***************************************************************************)
EXTENDS MCStores, Counting

-----------------------------------------------------------------------------
(***************************************************************************)
(* The retry budget: arithmetic of accrual.                                *)
(***************************************************************************)

\* Integer division rounds down.
LEMMA DivBounds ==
  ASSUME NEW a \in Nat, NEW b \in Nat \ {0}
  PROVE  /\ a \div b \in Nat
         /\ b * (a \div b) <= a
         /\ a < b * (a \div b) + b
OBVIOUS

\* A product grows with its factor.
LEMMA TimesLeq ==
  ASSUME NEW k \in Nat, NEW m \in Nat, NEW n \in Nat, m <= n
  PROVE  k * m <= k * n /\ m * k <= n * k /\ m * k \in Nat /\ n * k \in Nat
OBVIOUS

\* refill_at: the time a refill accounts for pays for the tokens it accrued,
\* is no more than what elapsed, and is less than one unit too long.
LEMMA AccrualBounds ==
  ASSUME NEW q, Elapsed(q) \in Nat
  PROVE  /\ Accrued(q) \in Nat /\ Consumed(q) \in Nat
         /\ Consumed(q) <= Elapsed(q)
         /\ Second * Accrued(q) <= Rate * Consumed(q)
         /\ Rate * Consumed(q) <= Second * Accrued(q) + (Rate - 1)
<1> DEFINE e == Elapsed(q)
           n == Accrued(q)
           up == (n * Second + Rate - 1) \div Rate
           d == Consumed(q)
<1>1. Rate \in Nat \ {0} /\ Second \in Nat \ {0} /\ Rate - 1 \in Nat
  BY BudgetConfig
<1>2. Rate * e \in Nat
  BY <1>1
<1>3. n \in Nat /\ Second * n <= Rate * e
  BY <1>1, <1>2, DivBounds DEF Accrued
<1> HIDE DEF n, e
<1>4. n * Second + Rate - 1 \in Nat
  BY <1>1, <1>3
<1>5. /\ up \in Nat /\ Rate * up <= n * Second + Rate - 1
      /\ n * Second + Rate - 1 < Rate * up + Rate
  BY <1>1, <1>4, DivBounds
<1>6. d = IF up < e THEN up ELSE e
  BY DEF Consumed, Least, n, e
<1> HIDE DEF up
<1>7. d \in Nat /\ d <= e /\ d <= up
  BY <1>5, <1>6 DEF e
<1>8. Second * n <= Rate * up
  BY <1>1, <1>3, <1>5
<1>9. Second * n <= Rate * d
  BY <1>3, <1>6, <1>8
<1> HIDE DEF d
<1>10. Rate * d <= Rate * up
  BY <1>1, <1>5, <1>7, TimesLeq
<1>11. Rate * d <= Second * n + (Rate - 1)
  BY <1>1, <1>3, <1>5, <1>7, <1>10
<1> QED
  BY <1>3, <1>7, <1>9, <1>11 DEF n, e, d

\* The cap grows with the traffic, and is never below the floor.
LEMMA CapGrows ==
  ASSUME NEW m \in Nat, NEW n \in Nat, m <= n
  PROVE  /\ MaxTokens(m) \in Nat /\ MaxTokens(n) \in Nat
         /\ Rate <= MaxTokens(m) /\ MaxTokens(m) <= MaxTokens(n)
<1>1. Rate \in Nat /\ Percent \in Nat
  BY BudgetConfig
<1>2. m * Percent \in Nat /\ n * Percent \in Nat /\ m * Percent <= n * Percent
  BY <1>1
<1> DEFINE x == m * Percent
           y == n * Percent
<1> HIDE DEF x, y
<1>3. x \div 100 \in Nat /\ y \div 100 \in Nat /\ x \div 100 <= y \div 100
  BY <1>2 DEF x, y
<1> QED
  BY <1>1, <1>3 DEF MaxTokens, x, y

-----------------------------------------------------------------------------
(***************************************************************************)
(* The retry budget: the inductive invariant.                              *)
(***************************************************************************)

Lane == [pc : Steps, active : Nat, now : Nat, last : Nat, add : Nat, seen : Nat]

\* The requests that count as active.
Inside == {t \in Threads : th[t].pc # "out"}

\* The active count is that of the requests inside, each of which has read a
\* count no higher than all of them and a time no later than now.
LanesInv ==
  /\ active = Cardinality(Inside)
  /\ \A t \in Threads : th[t].active <= Cardinality(Threads) /\ th[t].now <= clock

BudgetInv == TypeOK /\ LanesInv /\ BudgetExact

\* A request outside try_admit_retry is well formed.
LEMMA LocalType ==
  ASSUME NEW p \in Steps
  PROVE  /\ Local(p) \in Lane
         /\ Local(p).pc = p /\ Local(p).active = 0 /\ Local(p).now = 0 /\ Local(p).add = 0
BY DEF Local, Lane

\* What is owed changes by what the stepping request owes.
LEMMA OwedMoves ==
  ASSUME TypeOK, NEW t \in Threads, NEW x \in Lane, th' = [th EXCEPT ![t] = x]
  PROVE  /\ Owed \in Nat /\ Owed' \in Nat
         /\ Owed' + th[t].add = Owed + x.add
         /\ th[t].add \in Nat /\ x.add \in Nat /\ th[t].add <= Owed
<1> DEFINE f == [s \in Threads |-> th[s].add]
           g == [s \in Threads |-> th'[s].add]
<1>1. th \in [Threads -> Lane] /\ th' \in [Threads -> Lane]
  BY DEF TypeOK, Lane
<1>2. f \in [Threads -> Nat] /\ g \in [Threads -> Nat]
  BY <1>1 DEF Lane
<1>3. \A s \in Threads \ {t} : g[s] = f[s]
  BY <1>1
<1>4. f[t] = th[t].add /\ g[t] = x.add
  BY <1>1
<1>5. Owed = Total(Threads, f) /\ Owed' = Total(Threads, g)
  BY DEF Owed, Total, Units
<1>6. IsFiniteSet(Threads)
  BY BudgetConfig
<1> HIDE DEF f, g
<1>7. Total(Threads, g) + f[t] = Total(Threads, f) + g[t] /\ f[t] <= Total(Threads, f)
  BY <1>2, <1>3, <1>6, TotalMove
<1>8. Total(Threads, f) \in Nat /\ Total(Threads, g) \in Nat
  BY <1>2, <1>6, TotalType
<1> QED
  BY <1>2, <1>4, <1>5, <1>7, <1>8

\* The types after one request has moved.
LEMMA LaneTypes ==
  ASSUME TypeOK, NEW t \in Threads, NEW x \in Lane, th' = [th EXCEPT ![t] = x],
         clock' = clock, tokens' \in 0 .. MaxTokens(Cardinality(Threads)),
         last' \in 0 .. MaxClock, active' \in 0 .. Cardinality(Threads),
         {admitted', minted', wins'} \subseteq Nat
  PROVE  TypeOK'
<1>1. th' \in [Threads -> Lane]
  BY DEF TypeOK, Lane
<1> QED
  BY <1>1 DEF TypeOK, Lane

\* The local readings after one request has moved.
LEMMA LaneReads ==
  ASSUME TypeOK, LanesInv, NEW t \in Threads, NEW x \in Lane, th' = [th EXCEPT ![t] = x],
         x.active <= Cardinality(Threads), x.now <= clock, clock' = clock
  PROVE  \A s \in Threads : th'[s].active <= Cardinality(Threads) /\ th'[s].now <= clock'
BY DEF TypeOK, LanesInv

\* The requests inside are finitely many.
LEMMA InsideFinite ==
  /\ IsFiniteSet(Threads) /\ Cardinality(Threads) \in Nat
  /\ IsFiniteSet(Inside) /\ Cardinality(Inside) \in Nat
BY BudgetConfig, FS_Subset, FS_CardinalityType DEF Inside

\* A step within try_admit_retry leaves the active count alone.
LEMMA LaneKeeps ==
  ASSUME TypeOK, LanesInv, NEW t \in Threads, NEW x \in Lane, th' = [th EXCEPT ![t] = x],
         th[t].pc # "out", x.pc # "out",
         x.active <= Cardinality(Threads), x.now <= clock, clock' = clock,
         active' = active, tokens' \in 0 .. MaxTokens(Cardinality(Threads)),
         last' \in 0 .. MaxClock, {admitted', minted', wins'} \subseteq Nat
  PROVE  TypeOK' /\ LanesInv'
<1>1. active' \in 0 .. Cardinality(Threads)
  BY DEF TypeOK
<1>2. TypeOK'
  BY <1>1, LaneTypes
<1>3. Inside' = Inside
  BY DEF Inside, TypeOK
<1>4. \A s \in Threads : th'[s].active <= Cardinality(Threads) /\ th'[s].now <= clock'
  BY LaneReads
<1>5. LanesInv'
  BY <1>3, <1>4 DEF LanesInv
<1> QED
  BY <1>2, <1>5

\* What is paid out, held and owed.
Paid == admitted + tokens + Owed

\* A step that pays out nothing anew keeps the budget.
LEMMA PaidKeeps ==
  ASSUME TypeOK, BudgetExact, Paid \in Nat, Paid' \in Nat, Paid' <= Paid,
         last' = last, clock' = clock, minted' = minted, wins' = wins
  PROVE  BudgetExact'
<1> DEFINE m == Paid'
           n == Paid
<1>1. Second \in Nat /\ Rate \in Nat /\ last \in Nat /\ m \in Nat /\ n \in Nat /\ m <= n
  BY BudgetConfig DEF TypeOK
<1>2. Second * n <= Second * Rate + Rate * last /\ last <= clock
  BY DEF BudgetExact, NoMinting, Paid
<1>3. Second * m <= Second * Rate + Rate * last
  <2> HIDE DEF m, n
  <2>1. Second * m <= Second * n
    BY <1>1, TimesLeq
  <2>2. Second * m \in Nat /\ Second * n \in Nat /\ Second * Rate + Rate * last \in Nat
    BY <1>1
  <2> QED
    BY <1>2, <2>1, <2>2
<1>4. NoMinting'
  BY <1>2, <1>3 DEF NoMinting, Paid
<1>5. CarriesRemainder'
  BY DEF BudgetExact, CarriesRemainder
<1> QED
  BY <1>4, <1>5 DEF BudgetExact

\* A step that changes the lane of t alone, and owes no more than before.
LEMMA LaneOnly ==
  ASSUME BudgetInv, NEW t \in Threads, NEW x \in Lane, th' = [th EXCEPT ![t] = x],
         th[t].pc # "out", x.pc # "out", x.active <= Cardinality(Threads), x.now <= clock,
         x.add <= th[t].add,
         UNCHANGED <<clock, tokens, last, active, admitted, minted, wins>>
  PROVE  BudgetInv'
<1>1. TypeOK /\ LanesInv /\ BudgetExact
  BY DEF BudgetInv
<1>2. TypeOK' /\ LanesInv'
  BY <1>1, LaneKeeps DEF TypeOK
<1>3. /\ Owed \in Nat /\ Owed' \in Nat /\ Owed' + th[t].add = Owed + x.add
      /\ th[t].add \in Nat /\ x.add \in Nat
  BY <1>1, OwedMoves
<1>4. admitted \in Nat /\ tokens \in Nat
  BY <1>1, CapGrows, InsideFinite DEF TypeOK
<1>5. Paid \in Nat /\ Paid' \in Nat /\ Paid' <= Paid
  <2> DEFINE m == Owed'
             n == Owed
  <2>1. Paid = admitted + tokens + n /\ Paid' = admitted + tokens + m
    BY DEF Paid
  <2> HIDE DEF m, n
  <2>2. m \in Nat /\ n \in Nat /\ m <= n
    BY <1>3 DEF m, n
  <2> QED
    BY <1>4, <2>1, <2>2
<1>6. BudgetExact'
  BY <1>1, <1>5, PaidKeeps
<1> QED
  BY <1>2, <1>6 DEF BudgetInv

\* The fields of a request's lane.
LEMMA LaneFields ==
  ASSUME BudgetInv, NEW t \in Threads
  PROVE  /\ th \in [Threads -> Lane] /\ th[t] \in Lane
         /\ th[t].active \in Nat /\ th[t].now \in Nat /\ th[t].last \in Nat
         /\ th[t].add \in Nat /\ th[t].seen \in Nat
         /\ th[t].active <= Cardinality(Threads) /\ th[t].now <= clock
         /\ clock \in Nat /\ last \in Nat /\ tokens \in Nat /\ admitted \in Nat
         /\ minted \in Nat /\ wins \in Nat /\ active \in Nat
         /\ tokens \in 0 .. MaxTokens(Cardinality(Threads)) /\ last \in 0 .. MaxClock
         /\ clock \in 0 .. MaxClock
         /\ active \in 0 .. Cardinality(Threads)
<1>1. th \in [Threads -> Lane]
  BY DEF BudgetInv, TypeOK, Lane
<1> QED
  BY <1>1, InsideFinite, CapGrows DEF BudgetInv, TypeOK, LanesInv, Lane

\* The loads: each stores what it read in the request's locals.
LEMMA LoadsKeep ==
  ASSUME BudgetInv, NEW t \in Threads,
         LoadActive(t) \/ ReadClock(t) \/ LoadLast(t) \/ LoadTokens(t) \/ LoadForAcquire(t)
  PROVE  BudgetInv'
<1> USE DEF history
<1>0. /\ th \in [Threads -> Lane] /\ th[t] \in Lane /\ th[t].add \in Nat
      /\ th[t].active <= Cardinality(Threads) /\ th[t].now <= clock
      /\ clock \in Nat /\ last \in Nat /\ tokens \in Nat
      /\ active \in Nat /\ active <= Cardinality(Threads)
  BY LaneFields, InsideFinite
<1> DEFINE q == th[t]
<1>1. CASE LoadActive(t)
  <2> DEFINE x == [Local("counted") EXCEPT !.active = active]
  <2>1. x \in Lane /\ x.pc # "out" /\ x.active = active /\ x.now = 0 /\ x.add = 0
    BY <1>0 DEF Local, Lane, Steps
  <2>2. th' = [th EXCEPT ![t] = x]
    BY <1>1 DEF LoadActive
  <2>3. q.pc # "out" /\ UNCHANGED <<clock, tokens, last, active, admitted, minted, wins>>
    BY <1>1 DEF LoadActive
  <2>4. x.active <= Cardinality(Threads) /\ x.now <= clock /\ x.add <= q.add
    BY <1>0, <2>1
  <2> HIDE DEF x
  <2> QED
    BY <2>1, <2>2, <2>3, <2>4, LaneOnly
<1>2. CASE ReadClock(t)
  <2> DEFINE x == [q EXCEPT !.pc = "timed", !.now = clock]
  <2>1. x \in Lane /\ x.pc # "out" /\ x.active = q.active /\ x.now = clock /\ x.add = q.add
    BY <1>0 DEF Lane, Steps
  <2>2. th' = [th EXCEPT ![t] = x]
    BY <1>0, <1>2 DEF ReadClock
  <2>3. q.pc # "out" /\ UNCHANGED <<clock, tokens, last, active, admitted, minted, wins>>
    BY <1>2 DEF ReadClock
  <2>4. x.active <= Cardinality(Threads) /\ x.now <= clock /\ x.add <= q.add
    BY <1>0, <2>1
  <2> HIDE DEF x
  <2> QED
    BY <2>1, <2>2, <2>3, <2>4, LaneOnly
<1>3. CASE LoadLast(t)
  <2> DEFINE x == [q EXCEPT !.pc = "loaded", !.last = last]
  <2>1. x \in Lane /\ x.pc # "out" /\ x.active = q.active /\ x.now = q.now /\ x.add = q.add
    BY <1>0 DEF Lane, Steps
  <2>2. th' = [th EXCEPT ![t] = x]
    BY <1>0, <1>3 DEF LoadLast
  <2>3. q.pc # "out" /\ UNCHANGED <<clock, tokens, last, active, admitted, minted, wins>>
    BY <1>3 DEF LoadLast
  <2>4. x.active <= Cardinality(Threads) /\ x.now <= clock /\ x.add <= q.add
    BY <1>0, <2>1
  <2> HIDE DEF x
  <2> QED
    BY <2>1, <2>2, <2>3, <2>4, LaneOnly
<1>4. CASE LoadTokens(t)
  <2> DEFINE x == [q EXCEPT !.pc = "adding", !.seen = tokens]
  <2>1. x \in Lane /\ x.pc # "out" /\ x.active = q.active /\ x.now = q.now /\ x.add = q.add
    BY <1>0 DEF Lane, Steps
  <2>2. th' = [th EXCEPT ![t] = x]
    BY <1>0, <1>4 DEF LoadTokens
  <2>3. q.pc # "out" /\ UNCHANGED <<clock, tokens, last, active, admitted, minted, wins>>
    BY <1>4 DEF LoadTokens
  <2>4. x.active <= Cardinality(Threads) /\ x.now <= clock /\ x.add <= q.add
    BY <1>0, <2>1
  <2> HIDE DEF x
  <2> QED
    BY <2>1, <2>2, <2>3, <2>4, LaneOnly
<1>5. CASE LoadForAcquire(t)
  <2> DEFINE x == [q EXCEPT !.pc = "taking", !.seen = tokens]
  <2>1. x \in Lane /\ x.pc # "out" /\ x.active = q.active /\ x.now = q.now /\ x.add = q.add
    BY <1>0 DEF Lane, Steps
  <2>2. th' = [th EXCEPT ![t] = x]
    BY <1>0, <1>5 DEF LoadForAcquire
  <2>3. q.pc # "out" /\ UNCHANGED <<clock, tokens, last, active, admitted, minted, wins>>
    BY <1>5 DEF LoadForAcquire
  <2>4. x.active <= Cardinality(Threads) /\ x.now <= clock /\ x.add <= q.add
    BY <1>0, <2>1
  <2> HIDE DEF x
  <2> QED
    BY <2>1, <2>2, <2>3, <2>4, LaneOnly
<1> QED
  BY <1>1, <1>2, <1>3, <1>4, <1>5

\* The compare-exchange of last_refill_ms: the winner's tokens are paid for
\* by the time it moves last_refill_ms by.
LEMMA SwapLastKeeps ==
  ASSUME BudgetInv, NEW t \in Threads, SwapLast(t)
  PROVE  BudgetInv'
<1> DEFINE q == th[t]
           e == Elapsed(q)
           n == Accrued(q)
           d == Consumed(q)
<1>1. /\ th \in [Threads -> Lane] /\ q \in Lane /\ q.add \in Nat /\ q.pc = "loaded"
      /\ q.active <= Cardinality(Threads) /\ q.now <= clock /\ q.now \in Nat /\ q.last \in Nat
      /\ clock \in Nat /\ last \in Nat /\ tokens \in Nat /\ admitted \in Nat
      /\ minted \in Nat /\ wins \in Nat /\ last \in 0 .. MaxClock /\ clock \in 0 .. MaxClock
      /\ tokens \in 0 .. MaxTokens(Cardinality(Threads))
  BY LaneFields DEF SwapLast
<1>2. TypeOK /\ LanesInv /\ BudgetExact /\ Rate \in Nat \ {0} /\ Second \in Nat \ {0}
  BY BudgetConfig DEF BudgetInv
<1>3. e \in Nat /\ e = IF q.now > q.last THEN q.now - q.last ELSE 0
  BY <1>1 DEF Elapsed
<1>4. /\ n \in Nat /\ d \in Nat /\ d <= e
      /\ Second * n <= Rate * d /\ Rate * d <= Second * n + (Rate - 1)
  BY <1>3, AccrualBounds
<1>5. CASE n > 0 /\ last = q.last
  <2> DEFINE x == [q EXCEPT !.pc = "owing", !.add = n]
  <2>1. /\ last' = last + d /\ minted' = minted + n /\ wins' = wins + 1
        /\ th' = [th EXCEPT ![t] = x]
    BY <1>1, <1>5 DEF SwapLast
  <2>2. clock' = clock /\ tokens' = tokens /\ active' = active /\ admitted' = admitted
    BY DEF SwapLast
  <2> HIDE DEF n, d, e
  <2>3. x \in Lane /\ x.pc # "out" /\ x.active = q.active /\ x.now = q.now /\ x.add = n
    BY <1>1, <1>4 DEF Lane, Steps
  <2> HIDE DEF x
  <2>4. last <= clock
    BY <1>2 DEF BudgetExact, NoMinting
  <2>5. last' \in Nat /\ last' <= clock
    BY <1>1, <1>3, <1>4, <1>5, <2>1, <2>4
  <2>6. last' \in 0 .. MaxClock /\ {admitted', minted', wins'} \subseteq Nat
    <3>1. last' \in 0 .. MaxClock
      BY <1>1, <2>5, BudgetConfig
    <3>2. minted + n \in Nat /\ wins + 1 \in Nat
      BY <1>1, <1>4
    <3> QED
      BY <1>1, <2>1, <2>2, <3>1, <3>2
  <2>7. TypeOK' /\ LanesInv'
    BY <1>1, <1>2, <2>1, <2>2, <2>3, <2>6, LaneKeeps
  <2> DEFINE o == Owed
             p == Owed'
             s == admitted + tokens + o
             u == admitted + tokens + p
  <2>8. o \in Nat /\ p \in Nat /\ p + q.add = o + n
    BY <1>2, <2>1, <2>3, OwedMoves
  <2>9. Second * s <= Second * Rate + Rate * last
    BY <1>2 DEF BudgetExact, NoMinting
  <2>10. Rate * last <= Second * minted + (Rate - 1) * wins
    BY <1>2 DEF BudgetExact, CarriesRemainder
  <2>11. NoMinting'
    <3>1. s \in Nat /\ u \in Nat /\ u <= s + n
      <4> HIDE DEF o, p
      <4> QED
        BY <1>1, <1>4, <2>8
    <3> HIDE DEF s, u
    <3>2. Second * u <= Second * (s + n)
      BY <1>2, <1>4, <3>1, TimesLeq
    <3>3. Second * (s + n) = Second * s + Second * n
      BY <1>2, <1>4, <3>1
    <3>4. Rate * (last + d) = Rate * last + Rate * d
      BY <1>1, <1>2, <1>4
    <3>5. {Second * u, Second * (s + n), Second * s, Second * n, Second * Rate, Rate * last,
           Rate * d, Rate * (last + d)} \subseteq Nat
      BY <1>1, <1>2, <1>4, <3>1
    <3>6. Second * u <= Second * Rate + Rate * (last + d)
      BY <1>4, <2>9, <3>2, <3>3, <3>4, <3>5
    <3>7. Second * (admitted + tokens + Owed)' <= Second * Rate + Rate * last'
      BY <2>1, <2>2, <3>6 DEF u
    <3> QED
      BY <2>2, <2>5, <3>7 DEF NoMinting
  <2>12. CarriesRemainder'
    <3>1. Rate * (last + d) = Rate * last + Rate * d
      BY <1>1, <1>2, <1>4
    <3>2. Second * (minted + n) = Second * minted + Second * n
      BY <1>1, <1>2, <1>4
    <3>3. (Rate - 1) * (wins + 1) = (Rate - 1) * wins + (Rate - 1)
      BY <1>1, <1>2
    <3>4. {Rate * last, Rate * d, Second * minted, Second * n, (Rate - 1) * wins, Rate - 1}
            \subseteq Nat
      BY <1>1, <1>2, <1>4
    <3>5. Rate * (last + d) <= Second * (minted + n) + (Rate - 1) * (wins + 1)
      BY <1>4, <2>10, <3>1, <3>2, <3>3, <3>4
    <3> QED
      BY <2>1, <3>5 DEF CarriesRemainder
  <2> QED
    BY <2>7, <2>11, <2>12 DEF BudgetInv, BudgetExact
<1>6. CASE ~(n > 0 /\ last = q.last)
  <2> DEFINE x == [q EXCEPT !.pc = "owing"]
  <2>1. x \in Lane /\ x.pc # "out" /\ x.active = q.active /\ x.now = q.now /\ x.add = q.add
    BY <1>1 DEF Lane, Steps
  <2>2. th' = [th EXCEPT ![t] = x]
    BY <1>1, <1>6 DEF SwapLast
  <2>3. q.pc # "out" /\ UNCHANGED <<clock, tokens, last, active, admitted, minted, wins>>
    BY <1>6 DEF SwapLast
  <2>4. x.active <= Cardinality(Threads) /\ x.now <= clock /\ x.add <= q.add
    BY <1>1, <2>1
  <2> HIDE DEF x
  <2> QED
    BY <2>1, <2>2, <2>3, <2>4, LaneOnly
<1> QED
  BY <1>5, <1>6

\* A step that moves tokens between the bucket, the requests that owe it and
\* the retries admitted, and makes none.
LEMMA TokensMove ==
  ASSUME BudgetInv, NEW t \in Threads, NEW x \in Lane, th' = [th EXCEPT ![t] = x],
         th[t].pc # "out", x.pc # "out", x.active <= Cardinality(Threads), x.now <= clock,
         tokens' \in 0 .. MaxTokens(Cardinality(Threads)), tokens' \in Nat, admitted' \in Nat,
         admitted' + tokens' + x.add <= admitted + tokens + th[t].add,
         UNCHANGED <<clock, last, active, minted, wins>>
  PROVE  BudgetInv'
<1>1. /\ TypeOK /\ LanesInv /\ BudgetExact /\ tokens \in Nat /\ admitted \in Nat
      /\ minted \in Nat /\ wins \in Nat /\ last \in 0 .. MaxClock
  BY LaneFields DEF BudgetInv
<1>2. TypeOK' /\ LanesInv'
  BY <1>1, LaneKeeps
<1>3. Paid \in Nat /\ Paid' \in Nat /\ Paid' <= Paid
  <2> DEFINE m == Owed'
             n == Owed
             y == th[t].add
             z == x.add
             i == admitted'
             j == tokens'
  <2>1. Paid = admitted + tokens + n /\ Paid' = i + j + m
    BY DEF Paid
  <2>2. /\ m \in Nat /\ n \in Nat /\ y \in Nat /\ z \in Nat /\ m + y = n + z
        /\ i \in Nat /\ j \in Nat /\ i + j + z <= admitted + tokens + y
    BY <1>1, OwedMoves
  <2> HIDE DEF m, n, y, z, i, j
  <2> QED
    BY <1>1, <2>1, <2>2
<1>4. BudgetExact'
  BY <1>1, <1>3, PaidKeeps
<1> QED
  BY <1>2, <1>4 DEF BudgetInv

\* add_tokens: the bucket takes what is owed, up to the cap of the traffic the
\* request saw, or is loaded again.
LEMMA SwapTokensKeeps ==
  ASSUME BudgetInv, NEW t \in Threads, SwapTokens(t)
  PROVE  BudgetInv'
<1> DEFINE q == th[t]
           a == Added(q)
<1>1. /\ th \in [Threads -> Lane] /\ q \in Lane /\ q.add \in Nat /\ q.pc = "adding"
      /\ q.active <= Cardinality(Threads) /\ q.now <= clock /\ q.active \in Nat /\ q.seen \in Nat
      /\ tokens \in Nat /\ admitted \in Nat
      /\ tokens \in 0 .. MaxTokens(Cardinality(Threads)) /\ Cardinality(Threads) \in Nat
  BY LaneFields, InsideFinite DEF SwapTokens
<1>2. MaxTokens(q.active) \in Nat /\ MaxTokens(q.active) <= MaxTokens(Cardinality(Threads))
      /\ MaxTokens(Cardinality(Threads)) \in Nat
  BY <1>1, CapGrows
<1>3. a \in Nat /\ a <= q.seen + q.add /\ a <= MaxTokens(Cardinality(Threads))
  BY <1>1, <1>2 DEF Added, Least
<1>4. UNCHANGED <<clock, last, active, admitted, minted, wins>>
  BY DEF SwapTokens, history
<1> HIDE DEF a
<1>5. CASE a = q.seen \/ tokens = q.seen
  <2> DEFINE x == [q EXCEPT !.pc = "refilled", !.add = 0]
  <2>1. x \in Lane /\ x.pc # "out" /\ x.active = q.active /\ x.now = q.now /\ x.add = 0
    BY <1>1 DEF Lane, Steps
  <2>2. /\ th' = [th EXCEPT ![t] = x]
        /\ tokens' = IF a = q.seen THEN tokens ELSE a
    BY <1>1, <1>5 DEF SwapTokens, a
  <2>3. /\ tokens' \in 0 .. MaxTokens(Cardinality(Threads)) /\ tokens' \in Nat
        /\ tokens' <= tokens + q.add
    BY <1>1, <1>2, <1>3, <1>5, <2>2
  <2> HIDE DEF x
  <2>4. admitted' \in Nat /\ admitted' + tokens' + x.add <= admitted + tokens + q.add
    BY <1>1, <1>4, <2>1, <2>3
  <2>5. q.pc # "out" /\ x.active <= Cardinality(Threads) /\ x.now <= clock
    BY <1>1, <2>1
  <2> QED
    BY <1>4, <2>1, <2>2, <2>3, <2>4, <2>5, TokensMove
<1>6. CASE ~(a = q.seen \/ tokens = q.seen)
  <2> DEFINE x == [q EXCEPT !.seen = tokens]
  <2>1. x \in Lane /\ x.pc # "out" /\ x.active = q.active /\ x.now = q.now /\ x.add = q.add
    BY <1>1 DEF Lane, Steps
  <2>2. th' = [th EXCEPT ![t] = x] /\ tokens' = tokens
    BY <1>1, <1>6 DEF SwapTokens, a
  <2>3. q.pc # "out" /\ UNCHANGED <<clock, tokens, last, active, admitted, minted, wins>>
    BY <1>1, <1>4, <2>2
  <2>4. x.active <= Cardinality(Threads) /\ x.now <= clock /\ x.add <= q.add
    BY <1>1, <2>1
  <2> HIDE DEF x
  <2> QED
    BY <2>1, <2>2, <2>3, <2>4, LaneOnly
<1> QED
  BY <1>5, <1>6

\* try_acquire: a token leaves the bucket for an admitted retry.
LEMMA TryAcquireKeeps ==
  ASSUME BudgetInv, NEW t \in Threads, TryAcquire(t)
  PROVE  BudgetInv'
<1> DEFINE q == th[t]
           x == Local("in")
           y == [q EXCEPT !.seen = tokens]
<1>1. /\ th \in [Threads -> Lane] /\ q \in Lane /\ q.add \in Nat /\ q.pc = "taking"
      /\ q.active <= Cardinality(Threads) /\ q.now <= clock /\ q.seen \in Nat
      /\ tokens \in Nat /\ admitted \in Nat /\ clock \in Nat
      /\ tokens \in 0 .. MaxTokens(Cardinality(Threads)) /\ Cardinality(Threads) \in Nat
  BY LaneFields, InsideFinite DEF TryAcquire
<1>2. x \in Lane /\ x.pc = "in" /\ x.active = 0 /\ x.now = 0 /\ x.add = 0
  BY LocalType DEF Steps
<1>3. UNCHANGED <<clock, last, active, minted, wins>>
  BY DEF TryAcquire
<1> HIDE DEF x
<1>4. /\ q.pc # "out" /\ x.pc # "out" /\ x.active <= Cardinality(Threads) /\ x.now <= clock
      /\ x.add <= q.add
  BY <1>1, <1>2
<1>5. CASE q.seen = 0 /\ th' = [th EXCEPT ![t] = x] /\ UNCHANGED <<tokens, admitted>>
  BY <1>2, <1>3, <1>4, <1>5, LaneOnly
<1>6. CASE /\ q.seen > 0 /\ tokens = q.seen /\ tokens' = tokens - 1
           /\ admitted' = admitted + 1 /\ th' = [th EXCEPT ![t] = x]
  <2>1. /\ tokens' \in 0 .. MaxTokens(Cardinality(Threads)) /\ tokens' \in Nat
        /\ admitted' \in Nat
    BY <1>1, <1>6, CapGrows
  <2>2. admitted' + tokens' + x.add <= admitted + tokens + q.add
    BY <1>1, <1>2, <1>6
  <2> QED
    BY <1>2, <1>3, <1>4, <1>6, <2>1, <2>2, TokensMove
<1>7. CASE /\ th' = [th EXCEPT ![t] = y] /\ UNCHANGED <<tokens, admitted>>
  <2>1. y \in Lane /\ y.pc # "out" /\ y.active = q.active /\ y.now = q.now /\ y.add = q.add
    BY <1>1 DEF Lane, Steps
  <2> HIDE DEF y
  <2>2. y.active <= Cardinality(Threads) /\ y.now <= clock /\ y.add <= q.add
    BY <1>1, <2>1
  <2> QED
    BY <1>1, <1>3, <1>7, <2>1, <2>2, LaneOnly
<1> QED
  BY <1>1, <1>5, <1>6, <1>7 DEF TryAcquire, x

\* ClusterRetryState::enter and leave: the active count follows.
LEMMA EnterLeaveKeeps ==
  ASSUME BudgetInv, NEW t \in Threads, Enter(t) \/ Leave(t)
  PROVE  BudgetInv'
<1> DEFINE p == IF Enter(t) THEN "in" ELSE "out"
           x == Local(p)
<1>1. /\ TypeOK /\ LanesInv /\ BudgetExact /\ th \in [Threads -> Lane] /\ clock \in Nat
      /\ tokens \in Nat /\ admitted \in Nat /\ minted \in Nat /\ wins \in Nat
      /\ last \in 0 .. MaxClock /\ tokens \in 0 .. MaxTokens(Cardinality(Threads))
  BY LaneFields DEF BudgetInv
<1>2. /\ th' = [th EXCEPT ![t] = x]
      /\ UNCHANGED <<clock, tokens, last, admitted, minted, wins>>
  BY DEF Enter, Leave, history
<1>3. x \in Lane /\ x.pc = p /\ x.active = 0 /\ x.now = 0 /\ x.add = 0
  <2>1. p \in Steps
    BY DEF Steps
  <2> HIDE DEF p
  <2> QED
    BY <2>1, LocalType
<1> HIDE DEF x
<1>4. active = Cardinality(Inside) /\ IsFiniteSet(Inside) /\ Cardinality(Inside) \in Nat
      /\ IsFiniteSet(Threads) /\ Cardinality(Threads) \in Nat
  BY <1>1, InsideFinite DEF LanesInv
<1>5. active' = Cardinality(Inside') /\ Inside' \subseteq Threads
  <2>1. th'[t] = x /\ \A s \in Threads \ {t} : th'[s] = th[s]
    BY <1>1, <1>2
  <2>2. CASE Enter(t)
    <3>1. t \notin Inside /\ Inside' = Inside \cup {t} /\ active' = active + 1
      BY <1>3, <2>1, <2>2 DEF Inside, Enter
    <3>2. Cardinality(Inside \cup {t}) = Cardinality(Inside) + 1
      BY <1>4, <3>1, FS_AddElement
    <3> QED
      BY <1>4, <3>1, <3>2 DEF Inside
  <2>3. CASE Leave(t)
    <3>1. /\ t \in Inside /\ Inside' = Inside \ {t}
          /\ active' = IF active = 0 THEN 0 ELSE active - 1
      BY <1>3, <2>1, <2>3 DEF Inside, Enter, Leave
    <3>2. Cardinality(Inside \ {t}) = Cardinality(Inside) - 1 /\ Cardinality(Inside \ {t}) \in Nat
      BY <1>4, <3>1, FS_RemoveElement, FS_CardinalityType
    <3>3. Cardinality(Inside') = Cardinality(Inside \ {t}) /\ Inside' \subseteq Threads
      BY <3>1 DEF Inside
    <3> DEFINE n == Cardinality(Inside)
               m == Cardinality(Inside')
    <3>4. active = n /\ n \in Nat /\ m = n - 1 /\ m \in Nat
      BY <1>4, <3>2, <3>3
    <3> HIDE DEF n, m
    <3>5. active' = m
      BY <3>1, <3>4
    <3> QED
      BY <3>3, <3>5 DEF m
  <2> QED
    BY <2>2, <2>3
<1>6. active' \in 0 .. Cardinality(Threads)
  <2>1. IsFiniteSet(Inside') /\ Cardinality(Inside') <= Cardinality(Threads)
    BY <1>4, <1>5, FS_Subset
  <2>2. Cardinality(Inside') \in Nat
    BY <2>1, FS_CardinalityType
  <2> QED
    BY <1>4, <1>5, <2>1, <2>2
<1>7. TypeOK'
  BY <1>1, <1>2, <1>3, <1>6, LaneTypes
<1>8. LanesInv'
  <2>1. x.active <= Cardinality(Threads) /\ x.now <= clock
    BY <1>1, <1>3, <1>4
  <2>2. \A s \in Threads : th'[s].active <= Cardinality(Threads) /\ th'[s].now <= clock'
    BY <1>1, <1>2, <1>3, <2>1, LaneReads
  <2> QED
    BY <1>5, <2>2 DEF LanesInv
<1>9. Paid \in Nat /\ Paid' \in Nat /\ Paid' <= Paid
  <2> DEFINE m == Owed'
             n == Owed
  <2>1. Paid = admitted + tokens + n /\ Paid' = admitted + tokens + m
    BY <1>2 DEF Paid
  <2>2. m \in Nat /\ n \in Nat /\ m + th[t].add = n + 0 /\ th[t].add \in Nat
    <3>1. /\ Owed \in Nat /\ Owed' \in Nat /\ Owed' + th[t].add = Owed + x.add
          /\ th[t].add \in Nat
      BY <1>1, <1>2, <1>3, OwedMoves
    <3> QED
      BY <1>3, <3>1
  <2> HIDE DEF m, n
  <2> QED
    BY <1>1, <2>1, <2>2
<1>10. BudgetExact'
  BY <1>1, <1>2, <1>9, PaidKeeps
<1> QED
  BY <1>7, <1>8, <1>10 DEF BudgetInv

\* The invariant of the retry budget holds in every state.
LEMMA BudgetInvariant == Spec => []BudgetInv
<1>1. Init => BudgetInv
  <2> SUFFICES ASSUME Init PROVE BudgetInv
    OBVIOUS
  <2>1. Local("out") \in Lane /\ Local("out").pc = "out" /\ Local("out").active = 0
        /\ Local("out").now = 0 /\ Local("out").add = 0
    BY LocalType DEF Steps
  <2>2. /\ Cardinality(Threads) \in Nat /\ Rate \in Nat /\ MaxClock \in Nat /\ Second \in Nat
        /\ MaxTokens(Cardinality(Threads)) \in Nat /\ Rate <= MaxTokens(Cardinality(Threads))
    BY InsideFinite, CapGrows, BudgetConfig
  <2>3. TypeOK
    BY <2>1, <2>2 DEF Init, TypeOK, Lane
  <2>4. Inside = {}
    BY <2>1 DEF Init, Inside
  <2>5. LanesInv
    <3>1. Cardinality(Inside) = 0
      BY <2>4, FS_EmptySet
    <3> QED
      BY <2>1, <2>2, <3>1 DEF Init, LanesInv
  <2>6. Owed = 0
    <3> DEFINE f == [t \in Threads |-> th[t].add]
    <3>1. \A t \in Threads : f[t] = 0
      BY <2>1 DEF Init
    <3> HIDE DEF f
    <3>2. Total(Threads, f) = 0
      BY <3>1, TotalZero
    <3> QED
      BY <3>2 DEF Owed, f
  <2>7. BudgetExact
    BY <2>2, <2>6, BudgetConfig DEF Init, BudgetExact, NoMinting, CarriesRemainder
  <2> QED
    BY <2>3, <2>5, <2>7 DEF BudgetInv
<1>2. BudgetInv /\ [Next]_vars => BudgetInv'
  <2> SUFFICES ASSUME BudgetInv, [Next]_vars PROVE BudgetInv'
    OBVIOUS
  <2>1. ASSUME Tick PROVE BudgetInv'
    <3>1. /\ clock' = clock + 1 /\ clock < MaxClock /\ clock \in Nat /\ last \in Nat
          /\ UNCHANGED <<tokens, last, active, th, admitted, minted, wins>>
      BY <2>1 DEF Tick, history, BudgetInv, TypeOK
    <3>2. TypeOK'
      BY <3>1, BudgetConfig DEF BudgetInv, TypeOK
    <3>3. LanesInv'
      <4>1. \A t \in Threads : th[t].now \in Nat
        BY DEF BudgetInv, TypeOK
      <4> QED
        BY <3>1, <4>1 DEF BudgetInv, LanesInv, Inside
    <3>4. BudgetExact'
      BY <3>1 DEF BudgetInv, BudgetExact, NoMinting, CarriesRemainder, Owed
    <3> QED
      BY <3>2, <3>3, <3>4 DEF BudgetInv
  <2>2. ASSUME NEW t \in Threads, Enter(t) \/ Leave(t) PROVE BudgetInv'
    BY <2>2, EnterLeaveKeeps
  <2>3. ASSUME NEW t \in Threads, LoadActive(t) \/ Admit(t) PROVE BudgetInv'
    BY <2>3, LoadsKeep, SwapLastKeeps, SwapTokensKeeps, TryAcquireKeeps DEF Admit
  <2>4. ASSUME UNCHANGED vars PROVE BudgetInv'
    BY <2>4 DEF vars, history, BudgetInv, TypeOK, LanesInv, Inside, BudgetExact, NoMinting,
                CarriesRemainder, Owed
  <2> QED
    BY <2>1, <2>2, <2>3, <2>4 DEF Next
<1> QED
  BY <1>1, <1>2, PTL DEF Spec

\* Retries are never admitted faster than the configured rate and no
\* fraction of a token is lost, however many requests refill and acquire at
\* once and whatever they read (refill_at, add_tokens, try_acquire).
THEOREM BudgetCorrect == Spec => []BudgetExact
<1>1. BudgetInv => BudgetExact
  BY DEF BudgetInv
<1> QED
  BY <1>1, BudgetInvariant, PTL

-----------------------------------------------------------------------------
(***************************************************************************)
(* File-descriptor admission: what a set of requests may come to hold.     *)
(***************************************************************************)

Linked == {"charged", "served"}                  \* connected: they open no more
Contending == {"claimed", "charges", "admitted"} \* they may, or may come to
Claiming == Contending \cup {"refused", "charged"}

RequestState ==
  [pc : {"admitted"} \cup Linked, held : 0 .. Cost]
  \cup [pc : {"new", "refused", "gone"}, held : {0}]
  \cup [pc : {"claimed"}, held : {0}, claims : Nat]
  \cup [pc : {"charges"}, held : {0}, claims : Nat, charges : Nat]

SamplerState ==
  {Asleep} \cup [pc : {"count", "absorb"}, absorbed : Nat]
           \cup [pc : {"publish"}, absorbed : Nat, open : Nat]

\* What the requests q hold, with all they may open for those of C.
Weights(q, C) ==
  [r \in FdRequests |-> IF q[r].pc \in Linked THEN q[r].held
                        ELSE IF r \in C THEN Cost ELSE 0]

LoadAt(q, C) == Base + Total(FdRequests, Weights(q, C))

\* The fields of a request.
LEMMA RequestFields ==
  ASSUME NEW x \in RequestState
  PROVE  /\ x.held \in 0 .. Cost /\ x.held \in Nat /\ x.held <= Cost
         /\ x.pc \in Contending \cup Linked \cup {"new", "refused", "gone"}
         /\ x.pc \notin {"admitted"} \cup Linked => x.held = 0
         /\ x.pc \in {"claimed", "charges"} => x.claims \in Nat
         /\ x.pc = "charges" => x.charges \in Nat
<1>1. Cost \in Nat
  BY FdBounds
<1> QED
  BY <1>1 DEF RequestState, Contending, Linked

\* Weights are natural numbers.
LEMMA WeightsType ==
  ASSUME NEW q \in [FdRequests -> RequestState], NEW C
  PROVE  /\ Weights(q, C) \in [FdRequests -> Nat] /\ LoadAt(q, C) \in Nat
         /\ Total(FdRequests, Weights(q, C)) \in Nat /\ Base \in Nat /\ Cost \in Nat
<1>1. \A r \in FdRequests : q[r].held \in Nat
  BY RequestFields
<1>2. Weights(q, C) \in [FdRequests -> Nat]
  BY <1>1, FdBounds DEF Weights
<1>3. Total(FdRequests, Weights(q, C)) \in Nat
  BY <1>2, FdBounds, TotalType
<1> QED
  BY <1>2, <1>3, FdBounds DEF LoadAt

\* Each request of C weighs at most Cost more than what is held.
LEMMA LoadMore ==
  ASSUME NEW q \in [FdRequests -> RequestState], NEW C \in SUBSET FdRequests
  PROVE  LoadAt(q, C) <= LoadAt(q, {}) + Cardinality(C) * Cost
<1> DEFINE f == Weights(q, {})
           g == Weights(q, C)
<1>1. /\ f \in [FdRequests -> Nat] /\ g \in [FdRequests -> Nat]
      /\ Total(FdRequests, f) \in Nat /\ Total(FdRequests, g) \in Nat
      /\ Base \in Nat /\ Cost \in Nat
  BY WeightsType
<1>2. \A r \in FdRequests \ C : g[r] <= f[r]
  BY <1>1, RequestFields DEF Weights
<1>3. \A r \in C : g[r] <= Cost
  BY <1>1, RequestFields DEF Weights
<1>4. IsFiniteSet(FdRequests)
  BY FdBounds
<1>5. Cardinality(C) \in Nat
  BY <1>4, FS_Subset, FS_CardinalityType
<1>6. LoadAt(q, {}) = Base + Total(FdRequests, f) /\ LoadAt(q, C) = Base + Total(FdRequests, g)
  BY DEF LoadAt
<1> HIDE DEF f, g
<1>7. Total(FdRequests, g) <= Total(FdRequests, f) + Cardinality(C) * Cost
  BY <1>1, <1>2, <1>3, <1>4, TotalMore
<1> DEFINE k == Cardinality(C) * Cost
<1>8. k \in Nat
  BY <1>1, <1>5
<1> HIDE DEF k
<1>9. Base + Total(FdRequests, g) <= Base + Total(FdRequests, f) + k
  BY <1>1, <1>7, <1>8 DEF k
<1> QED
  BY <1>6, <1>9 DEF k

\* When one request moves, the load changes by its weight.
LEMMA LoadMoves ==
  ASSUME NEW q \in [FdRequests -> RequestState], NEW p \in [FdRequests -> RequestState],
         NEW C, NEW D, NEW r \in FdRequests,
         \A s \in FdRequests \ {r} : p[s] = q[s] /\ (s \in C <=> s \in D)
  PROVE  LoadAt(p, D) + Weights(q, C)[r] = LoadAt(q, C) + Weights(p, D)[r]
<1> DEFINE f == Weights(q, C)
           g == Weights(p, D)
<1>1. /\ f \in [FdRequests -> Nat] /\ g \in [FdRequests -> Nat]
      /\ Total(FdRequests, f) \in Nat /\ Total(FdRequests, g) \in Nat /\ Base \in Nat
  BY WeightsType
<1>2. \A s \in FdRequests \ {r} : g[s] = f[s]
  BY DEF Weights
<1>3. LoadAt(q, C) = Base + Total(FdRequests, f) /\ LoadAt(p, D) = Base + Total(FdRequests, g)
  BY DEF LoadAt
<1> HIDE DEF f, g
<1>4. Total(FdRequests, g) + f[r] = Total(FdRequests, f) + g[r]
  <2> DEFINE S == FdRequests
  <2>1. IsFiniteSet(S) /\ r \in S /\ f \in [S -> Nat] /\ g \in [S -> Nat]
    BY <1>1, FdBounds
  <2>2. \A s \in S \ {r} : g[s] = f[s]
    BY <1>2
  <2> HIDE DEF S
  <2>3. Total(S, g) + f[r] = Total(S, f) + g[r]
    BY <2>1, <2>2, TotalMove
  <2> QED
    BY <2>3 DEF S
<1>5. f[r] \in Nat /\ g[r] \in Nat
  BY <1>1
<1>6. LoadAt(p, D) + f[r] = LoadAt(q, C) + g[r]
  BY <1>1, <1>3, <1>4, <1>5
<1> QED
  BY <1>6 DEF f, g

-----------------------------------------------------------------------------
(***************************************************************************)
(* File-descriptor admission: the inductive invariant.  The claims are     *)
(* ranked in the order in which they were made.  The requests that contend *)
(* up to the rank of the last admission, M, fit the threshold together;    *)
(* and a request that has read the charges, and would be the last admitted,*)
(* foresees all that contend up to its own rank, whatever sample it reads. *)
(***************************************************************************)

\* The contending requests of rank m or less.
Upto(q, rank, m) == {r \in FdRequests : q[r].pc \in Contending /\ rank[r] <= m}

\* The counts a reader of cached_open may find: the one published, and the
\* one about to be.
Samples ==
  {cached} \cup {sampler[s].open : s \in {s \in Samplers : sampler[s].pc = "publish"}}

FdTypes ==
  /\ cached \in Nat /\ connected \in Nat /\ pending \in Nat
  /\ request \in [FdRequests -> RequestState]
  /\ sampler \in [Samplers -> SamplerState]

\* One sampler is awake at most, and no charge it absorbs has gone.
OneSampler ==
  \A s \in Samplers : sampler[s].pc # "asleep" =>
    /\ sampling /\ sampler[s].absorbed <= connected
    /\ \A z \in Samplers \ {s} : sampler[z].pc = "asleep"

\* What is connected shows in the charges or in the sample.
Covered ==
  /\ \A v \in Samples : LoadAt(request, {}) <= v + connected
  /\ \A s \in Samplers :
      /\ sampler[s].pc = "publish" =>
           LoadAt(request, {}) + sampler[s].absorbed <= sampler[s].open + connected
      /\ sampler[s].pc = "absorb" =>
           LoadAt(request, {}) + sampler[s].absorbed <= cached + connected

\* Ranks are taken in turn, and the admitted ones fit.
Ranked(rank, M, top) ==
  /\ M < top
  /\ \A r \in FdRequests : rank[r] < top /\ (request[r].pc = "admitted" => rank[r] <= M)
  /\ LoadAt(request, Upto(request, rank, M)) <= Threshold

\* A claim counts the contenders before it; with the charges it foresees them.
Foreseen(rank, M) ==
  /\ \A r \in FdRequests : request[r].pc \in {"claimed", "charges"} =>
      Cardinality(Upto(request, rank, rank[r])) <= request[r].claims
  /\ \A r \in FdRequests : \A v \in Samples :
      (request[r].pc = "charges" /\ rank[r] > M) =>
        LoadAt(request, Upto(request, rank, rank[r]))
          <= request[r].claims * Cost + request[r].charges + v

Foresight(rank, M, top) ==
  Ranked(rank, M, top) /\ Foreseen(rank, M)

FdInv ==
  /\ FdTypes /\ ClaimsBalanced /\ OneSampler /\ Covered
  /\ \E rank \in [FdRequests -> Nat], M \in Nat, top \in Nat : Foresight(rank, M, top)

\* A request that has only a state and descriptors.
Short(p, h) == [pc |-> p, held |-> h]

\* Updates of such a request.
LEMMA ShortUpdates ==
  ASSUME NEW x \in RequestState, x.pc \notin {"claimed", "charges"}, NEW p, NEW h
  PROVE  /\ x = Short(x.pc, x.held)
         /\ [x EXCEPT !.pc = p] = Short(p, x.held)
         /\ [x EXCEPT !.held = h] = Short(x.pc, h)
<1>1. x \in [pc : {"admitted"} \cup Linked, held : 0 .. Cost]
            \cup [pc : {"new", "refused", "gone"}, held : {0}]
  BY DEF RequestState
<1>2. x = Short(x.pc, x.held)
  BY <1>1 DEF Short
<1> QED
  BY <1>2 DEF Short

\* The requests they are.
LEMMA ShortType ==
  ASSUME NEW p, NEW h,
         \/ p \in {"admitted"} \cup Linked /\ h \in 0 .. Cost
         \/ p \in {"new", "refused", "gone"} /\ h = 0
  PROVE  Short(p, h) \in RequestState /\ Short(p, h).pc = p /\ Short(p, h).held = h
BY DEF Short, RequestState

\* The load, and the contenders of each rank, as a request moves without
\* gaining weight.
LEMMA LoadFalls ==
  ASSUME NEW q \in [FdRequests -> RequestState], NEW r \in FdRequests, NEW x \in RequestState,
         NEW p, p = [q EXCEPT ![r] = x], NEW C, NEW D, C \ {r} = D \ {r},
         x.pc \in Linked => \/ q[r].pc \in Linked /\ x.held <= q[r].held
                            \/ q[r].pc \notin Linked /\ r \in C,
         (x.pc \notin Linked /\ r \in D) => q[r].pc \notin Linked /\ r \in C
  PROVE  LoadAt(p, D) <= LoadAt(q, C) /\ LoadAt(p, D) \in Nat /\ LoadAt(q, C) \in Nat
<1>0. p \in [FdRequests -> RequestState] /\ p[r] = x /\ \A s \in FdRequests \ {r} : p[s] = q[s]
  OBVIOUS
<1> DEFINE a == LoadAt(p, D)
           b == LoadAt(q, C)
           u == Weights(q, C)[r]
           v == Weights(p, D)[r]
<1>1. /\ a + u = b + v /\ a \in Nat /\ b \in Nat /\ u \in Nat /\ v \in Nat
      /\ u = IF q[r].pc \in Linked THEN q[r].held ELSE IF r \in C THEN Cost ELSE 0
      /\ v = IF x.pc \in Linked THEN x.held ELSE IF r \in D THEN Cost ELSE 0
  <2>1. a + u = b + v
    <3>1. \A s \in FdRequests \ {r} : p[s] = q[s] /\ (s \in C <=> s \in D)
      BY <1>0
    <3>2. q \in [FdRequests -> RequestState] /\ p \in [FdRequests -> RequestState]
      BY <1>0
    <3>3. LoadAt(p, D) + Weights(q, C)[r] = LoadAt(q, C) + Weights(p, D)[r]
      BY ONLY <3>1, <3>2, r \in FdRequests, LoadMoves
    <3> QED
      BY <3>3
  <2>2. a \in Nat /\ b \in Nat /\ u \in Nat /\ v \in Nat
    <3>1. Weights(q, C) \in [FdRequests -> Nat] /\ b \in Nat
      BY ONLY q \in [FdRequests -> RequestState], WeightsType
    <3>2. p \in [FdRequests -> RequestState]
      BY <1>0
    <3>3. Weights(p, D) \in [FdRequests -> Nat] /\ a \in Nat
      BY ONLY <3>2, WeightsType
    <3> QED
      BY <3>1, <3>3
  <2>3. /\ u = IF q[r].pc \in Linked THEN q[r].held ELSE IF r \in C THEN Cost ELSE 0
        /\ v = IF x.pc \in Linked THEN x.held ELSE IF r \in D THEN Cost ELSE 0
    BY <1>0 DEF Weights
  <2> QED
    BY <2>1, <2>2, <2>3
<1> HIDE DEF a, b, u, v
<1>2. Cost \in Nat /\ x.held \in Nat /\ x.held <= Cost /\ q[r].held \in Nat
  BY RequestFields, FdBounds
<1>3. v <= u
  BY <1>1, <1>2
<1>4. a <= b
  BY <1>1, <1>3
<1> QED
  BY <1>1, <1>4 DEF a, b

\* Contenders are among the requests.
LEMMA UptoFinite ==
  ASSUME NEW q, NEW rank, NEW m
  PROVE  /\ Upto(q, rank, m) \in SUBSET FdRequests /\ IsFiniteSet(Upto(q, rank, m))
         /\ Cardinality(Upto(q, rank, m)) \in Nat
<1>1. IsFiniteSet(FdRequests)
  BY FdBounds
<1>2. Upto(q, rank, m) \in SUBSET FdRequests
  BY DEF Upto
<1> QED
  BY <1>1, <1>2, CountPart

\* A claim is counted for as long as the request holds it.
LEMMA ClaimsKeep ==
  ASSUME FdTypes, ClaimsBalanced, NEW r \in FdRequests, NEW x \in RequestState,
         request' = [request EXCEPT ![r] = x],
         pending' + One(request[r].pc \in Claiming) = pending + One(x.pc \in Claiming),
         pending' \in Int
  PROVE  ClaimsBalanced' /\ pending' \in Nat
<1> DEFINE A == {s \in FdRequests : request[s].pc \in Claiming}
           B == {s \in FdRequests : request'[s].pc \in Claiming}
<1>1. Claiming = {"claimed", "charges", "refused", "admitted", "charged"}
  BY DEF Claiming, Contending
<1>2. /\ A = {s \in FdRequests : request[s].pc \in
                {"claimed", "charges", "refused", "admitted", "charged"}}
      /\ B = {s \in FdRequests : request'[s].pc \in
                {"claimed", "charges", "refused", "admitted", "charged"}}
  BY <1>1
<1>3. pending = Cardinality(A) /\ (ClaimsBalanced' <=> pending' = Cardinality(B))
  BY <1>2 DEF ClaimsBalanced
<1>4. request \in [FdRequests -> RequestState] /\ IsFiniteSet(FdRequests)
  BY FdBounds DEF FdTypes
<1>5. /\ request'[r] = x /\ \A s \in FdRequests \ {r} : request'[s] = request[s]
  BY <1>4
<1>6. /\ B \ {r} = A \ {r}
      /\ (r \in A <=> request[r].pc \in Claiming) /\ (r \in B <=> x.pc \in Claiming)
  BY <1>5
<1>7. IsFiniteSet(A) /\ Cardinality(A) \in Nat /\ Cardinality(B) \in Nat
  BY <1>4, CountPart
<1> HIDE DEF A, B
<1>8. Cardinality(B) + One(r \in A) = Cardinality(A) + One(r \in B)
  BY <1>6, <1>7, CountStep
<1>9. One(r \in A) = One(request[r].pc \in Claiming) /\ One(r \in B) = One(x.pc \in Claiming)
  BY <1>6 DEF One
<1> DEFINE i == One(request[r].pc \in Claiming)
           j == One(x.pc \in Claiming)
<1>10. i \in {0, 1} /\ j \in {0, 1}
  BY OneType
<1> HIDE DEF i, j
<1>11. pending' = Cardinality(B)
  <2>1. pending' + i = pending + j
    BY DEF i, j
  <2>2. Cardinality(B) + i = Cardinality(A) + j
    BY <1>8, <1>9 DEF i, j
  <2> DEFINE m == pending'
  <2>3. m + i = pending + j /\ m \in Int
    BY <2>1
  <2> HIDE DEF m
  <2>4. m = Cardinality(B)
    BY <1>3, <1>7, <1>10, <2>2, <2>3
  <2> QED
    BY <2>4 DEF m
<1> QED
  BY <1>3, <1>7, <1>11

\* A request moves, with the ranks R, the last admission N and the next rank
\* U: what the others foresaw still holds when it gains no weight but what
\* is charged, and joins no contenders ranked before U.
LEMMA RequestMoves ==
  ASSUME FdTypes, Covered, OneSampler,
         NEW rank \in [FdRequests -> Nat], NEW M \in Nat, NEW top \in Nat,
         Foresight(rank, M, top),
         NEW r \in FdRequests, NEW x \in RequestState, request' = [request EXCEPT ![r] = x],
         cached' = cached, sampling' = sampling, sampler' = sampler,
         connected' \in Nat, connected <= connected',
         LoadAt(request', {}) + connected <= LoadAt(request, {}) + connected',
         NEW R \in [FdRequests -> Nat], NEW N \in Nat, NEW U \in Nat,
         M <= N, N < top, top <= U, R[r] < U,
         \A s \in FdRequests \ {r} : R[s] = rank[s],
         x.pc \in Contending => \/ request[r].pc \in Contending /\ R[r] = rank[r]
                                \/ R[r] >= top,
         x.pc = "admitted" => R[r] <= N,
         x.pc \in Linked => \/ request[r].pc \in Linked /\ x.held <= request[r].held
                            \/ request[r].pc = "admitted",
         LoadAt(request, Upto(request, rank, N)) <= Threshold,
         x.pc \in {"claimed", "charges"} =>
           Cardinality(Upto(request', R, R[r])) <= x.claims,
         (x.pc = "charges" /\ R[r] > N) => \A v \in Samples :
           LoadAt(request', Upto(request', R, R[r])) <= x.claims * Cost + x.charges + v
  PROVE  Covered' /\ OneSampler' /\ Foresight(R, N, U)'
<1>1. /\ request \in [FdRequests -> RequestState] /\ request' \in [FdRequests -> RequestState]
      /\ cached \in Nat /\ connected \in Nat /\ sampler \in [Samplers -> SamplerState]
      /\ request'[r] = x /\ \A s \in FdRequests \ {r} : request'[s] = request[s]
  BY DEF FdTypes
<1>2. Samples' = Samples /\ Samples \subseteq Nat
  BY <1>1 DEF Samples, SamplerState, Asleep
<1>3. Ranked(rank, M, top) /\ Foreseen(rank, M)
  BY DEF Foresight
<1>4. ASSUME NEW m \in Nat, m < top
      PROVE  /\ Upto(request', R, m) \ {r} = Upto(request, rank, m) \ {r}
             /\ r \in Upto(request', R, m) => r \in Upto(request, rank, m)
             /\ Upto(request', R, m) \subseteq Upto(request, rank, m)
  <2>1. Upto(request', R, m) \ {r} = Upto(request, rank, m) \ {r}
    BY <1>1 DEF Upto
  <2>2. r \in Upto(request', R, m) => r \in Upto(request, rank, m)
    BY <1>1, <1>4 DEF Upto
  <2> QED
    BY <2>1, <2>2
<1>5. ASSUME NEW m \in Nat, M <= m, m < top
      PROVE  LoadAt(request', Upto(request', R, m)) <= LoadAt(request, Upto(request, rank, m))
  <2> DEFINE C == Upto(request, rank, m)
             D == Upto(request', R, m)
  <2>1. C \ {r} = D \ {r}
    BY <1>4, <1>5
  <2>2. (request[r].pc = "admitted" => r \in C) /\ (r \in C => request[r].pc \notin Linked)
    BY <1>3, <1>5 DEF Upto, Ranked, Contending, Linked
  <2>3. x.pc \in Linked => \/ request[r].pc \in Linked /\ x.held <= request[r].held
                           \/ request[r].pc \notin Linked /\ r \in C
    BY <2>2 DEF Linked
  <2>4. (x.pc \notin Linked /\ r \in D) => request[r].pc \notin Linked /\ r \in C
    BY <1>4, <1>5, <2>2
  <2> HIDE DEF C, D
  <2>5. LoadAt(request', D) <= LoadAt(request, C)
    <3> DEFINE q == request
               p == request'
    <3>1. /\ q \in [FdRequests -> RequestState] /\ p = [q EXCEPT ![r] = x]
          /\ C \ {r} = D \ {r}
          /\ x.pc \in Linked => \/ q[r].pc \in Linked /\ x.held <= q[r].held
                                \/ q[r].pc \notin Linked /\ r \in C
          /\ (x.pc \notin Linked /\ r \in D) => q[r].pc \notin Linked /\ r \in C
      BY <1>1, <2>1, <2>3, <2>4
    <3> HIDE DEF p, q
    <3>2. LoadAt(p, D) <= LoadAt(q, C)
      BY <3>1, LoadFalls
    <3> QED
      BY <3>2 DEF p, q
  <2> QED
    BY <2>5 DEF C, D
<1>6. \A C, D : LoadAt(request', C) \in Nat /\ LoadAt(request, D) \in Nat
  BY <1>1, WeightsType
<1> DEFINE a == LoadAt(request', {})
           b == LoadAt(request, {})
           e == connected'
<1>7. Covered'
  <2>0. a \in Nat /\ b \in Nat /\ e \in Nat /\ connected <= e /\ a + connected <= b + e
    BY <1>6
  <2> HIDE DEF a, b, e
  <2>1. \A v \in Samples : b <= v + connected
    BY DEF Covered, b
  <2>2. \A v \in Samples : a <= v + e
    BY <1>1, <1>2, <2>0, <2>1
  <2>3. ASSUME NEW s \in Samplers, sampler[s].pc = "publish"
        PROVE  a + sampler[s].absorbed <= sampler[s].open + e
    <3>1. b + sampler[s].absorbed <= sampler[s].open + connected
      BY <2>3 DEF Covered, b
    <3>2. sampler[s].absorbed \in Nat /\ sampler[s].open \in Nat
      BY <1>1, <2>3 DEF SamplerState, Asleep
    <3> QED
      BY <1>1, <2>0, <3>1, <3>2
  <2>4. ASSUME NEW s \in Samplers, sampler[s].pc = "absorb"
        PROVE  a + sampler[s].absorbed <= cached + e
    <3>1. b + sampler[s].absorbed <= cached + connected
      BY <2>4 DEF Covered, b
    <3>2. sampler[s].absorbed \in Nat
      BY <1>1, <2>4 DEF SamplerState, Asleep
    <3> QED
      BY <1>1, <2>0, <3>1, <3>2
  <2> QED
    BY <1>2, <2>2, <2>3, <2>4 DEF Covered, a, e
<1>8. OneSampler'
  <2>1. \A s \in Samplers : sampler[s].pc # "asleep" => sampler[s].absorbed \in Nat
    BY <1>1 DEF SamplerState, Asleep
  <2> QED
    BY <1>1, <2>1 DEF OneSampler
<1>9. Ranked(R, N, U)'
  <2>1. \A s \in FdRequests : R[s] < U /\ (request'[s].pc = "admitted" => R[s] <= N)
    BY <1>1, <1>3 DEF Ranked
  <2> DEFINE f == LoadAt(request', Upto(request', R, N))
             g == LoadAt(request, Upto(request, rank, N))
  <2>2. f \in Nat /\ g \in Nat /\ f <= g /\ g <= Threshold /\ Threshold \in Nat
    BY <1>5, <1>6, FdBounds
  <2> HIDE DEF f, g
  <2>3. f <= Threshold
    BY <2>2
  <2> QED
    BY <2>1, <2>3 DEF Ranked, f
<1>10. ASSUME NEW s \in FdRequests, request'[s].pc \in {"claimed", "charges"}
       PROVE  Cardinality(Upto(request', R, R[s])) <= request'[s].claims
  <2>1. CASE s = r
    BY <1>1, <1>10, <2>1
  <2>2. CASE s # r
    <3>1. R[s] = rank[s] /\ rank[s] \in Nat /\ rank[s] < top /\ request'[s] = request[s]
      BY <1>1, <1>3, <2>2 DEF Ranked
    <3>2. Cardinality(Upto(request, rank, rank[s])) <= request[s].claims
      BY <1>3, <1>10, <3>1 DEF Foreseen
    <3>3. Upto(request', R, rank[s]) \subseteq Upto(request, rank, rank[s])
      BY <1>4, <3>1
    <3>4. Cardinality(Upto(request', R, rank[s])) <= Cardinality(Upto(request, rank, rank[s]))
      BY <3>3, UptoFinite, CountPart
    <3>5. request[s].claims \in Nat
      BY <1>1, <1>10, <3>1, RequestFields
    <3>6. Cardinality(Upto(request', R, rank[s])) \in Nat
          /\ Cardinality(Upto(request, rank, rank[s])) \in Nat
      BY UptoFinite
    <3> QED
      BY <3>1, <3>2, <3>4, <3>5, <3>6
  <2> QED
    BY <2>1, <2>2
<1>11. ASSUME NEW s \in FdRequests, NEW v \in Samples,
              request'[s].pc = "charges", R[s] > N
       PROVE  LoadAt(request', Upto(request', R, R[s]))
                <= request'[s].claims * Cost + request'[s].charges + v
  <2>1. CASE s = r
    BY <1>1, <1>11, <2>1
  <2>2. CASE s # r
    <3>1. /\ R[s] = rank[s] /\ rank[s] \in Nat /\ rank[s] < top /\ request'[s] = request[s]
          /\ M <= rank[s] /\ rank[s] > M
      BY <1>1, <1>3, <1>11, <2>2 DEF Ranked
    <3> DEFINE k == request[s].claims * Cost + request[s].charges + v
    <3>2. LoadAt(request, Upto(request, rank, rank[s])) <= k
      BY <1>3, <1>11, <3>1 DEF Foreseen
    <3>3. k \in Nat
      <4>1. request[s].claims \in Nat /\ request[s].charges \in Nat /\ v \in Nat /\ Cost \in Nat
        BY <1>1, <1>2, <1>11, <3>1, RequestFields, FdBounds
      <4> QED
        BY <4>1
    <3> HIDE DEF k
    <3> DEFINE f == LoadAt(request', Upto(request', R, rank[s]))
               g == LoadAt(request, Upto(request, rank, rank[s]))
    <3>4. f <= g /\ f \in Nat /\ g \in Nat /\ g <= k
      BY <1>5, <1>6, <3>1, <3>2
    <3> HIDE DEF f, g
    <3>5. f <= k
      BY <3>3, <3>4
    <3> QED
      BY <3>1, <3>5 DEF k, f
  <2> QED
    BY <2>1, <2>2
<1>12. Foreseen(R, N)'
  BY <1>2, <1>10, <1>11 DEF Foreseen
<1> QED
  BY <1>7, <1>8, <1>9, <1>12 DEF Foresight

\* Requests that claim nothing new and link to nothing new.
Quiet(r) == Unclaim(r) \/ OpenDescriptor(r) \/ Release(r) \/ Settle(r)
            \/ CloseDescriptor(r) \/ ServeAnother(r)

\* A request that has not claimed is as short as its next state.
LEMMA SetsShort ==
  ASSUME FdTypes, NEW r \in FdRequests, NEW p, Sets(r, p),
         request[r].pc \notin {"claimed", "charges"}
  PROVE  request' = [request EXCEPT ![r] = Short(p, request[r].held)]
<1>1. request[r] \in RequestState
  BY DEF FdTypes
<1>2. [request[r] EXCEPT !.pc = p] = Short(p, request[r].held)
  BY <1>1, ShortUpdates
<1> QED
  BY <1>2 DEF Sets

\* Such a move of r to x.
QuietMove(r, x) ==
  /\ request' = [request EXCEPT ![r] = x]
  /\ x.pc \notin {"claimed", "charges"}
  /\ x.pc \in Contending => x.pc = "admitted" /\ request[r].pc = "admitted"
  /\ x.pc \in Linked => request[r].pc \in Linked /\ x.held <= request[r].held
  /\ pending' + One(request[r].pc \in Claiming) = pending + One(x.pc \in Claiming)
  /\ pending' \in Int
  /\ cached' = cached /\ connected' = connected
  /\ sampling' = sampling /\ sampler' = sampler

\* What they do to the request and to the claims.
LEMMA QuietShape ==
  ASSUME FdTypes, ClaimsBalanced, NEW r \in FdRequests, Quiet(r)
  PROVE  \E x \in RequestState : QuietMove(r, x)
<1>1. /\ request[r] \in RequestState /\ request[r].held \in Nat /\ pending \in Nat
      /\ Cost \in Nat /\ request[r].held <= Cost
      /\ request[r].pc \in {"refused", "gone", "new"} => request[r].held = 0
  BY RequestFields, FdBounds DEF FdTypes, Linked
<1> DEFINE h == request[r].held
<1>2. CASE Unclaim(r)
  <2> DEFINE x == Short("gone", h)
  <2>1. request' = [request EXCEPT ![r] = x] /\ pending' = pending - 1
    BY <1>2, SetsShort DEF Unclaim
  <2>2. x \in RequestState /\ x.pc = "gone" /\ x.held = h
    BY <1>1, <1>2, ShortType DEF Unclaim
  <2> HIDE DEF x
  <2>3. One(request[r].pc \in Claiming) = 1 /\ One(x.pc \in Claiming) = 0
    BY <1>2, <2>2 DEF Unclaim, One, Claiming, Contending
  <2>4. cached' = cached /\ connected' = connected /\ sampling' = sampling /\ sampler' = sampler
    BY <1>2 DEF Unclaim
  <2>9. QuietMove(r, x)
    BY <1>1, <2>1, <2>2, <2>3, <2>4 DEF QuietMove, Contending, Linked
  <2> QED
    BY <2>2, <2>9
<1>3. CASE Release(r)
  <2> DEFINE x == Short("served", h)
  <2>1. request' = [request EXCEPT ![r] = x] /\ pending' = pending - 1
    BY <1>3, SetsShort DEF Release
  <2>2. x \in RequestState /\ x.pc = "served" /\ x.held = h
    BY <1>1, <1>3, ShortType DEF Release, Linked
  <2> HIDE DEF x
  <2>3. One(request[r].pc \in Claiming) = 1 /\ One(x.pc \in Claiming) = 0
        /\ request[r].pc \in Linked
    BY <1>3, <2>2 DEF Release, One, Claiming, Contending, Linked
  <2>4. cached' = cached /\ connected' = connected /\ sampling' = sampling /\ sampler' = sampler
    BY <1>3 DEF Release
  <2>9. QuietMove(r, x)
    BY <1>1, <2>1, <2>2, <2>3, <2>4 DEF QuietMove, Contending, Linked
  <2> QED
    BY <2>2, <2>9
<1>4. CASE Settle(r)
  <2> DEFINE x == Short("gone", h)
  <2>1. request' = [request EXCEPT ![r] = x] /\ pending' = pending - 1
    BY <1>4, SetsShort DEF Settle
  <2>2. x \in RequestState /\ x.pc = "gone" /\ x.held = h
    BY <1>1, <1>4, ShortType DEF Settle
  <2> HIDE DEF x
  <2>3. One(request[r].pc \in Claiming) = 1 /\ One(x.pc \in Claiming) = 0
    BY <1>4, <2>2 DEF Settle, One, Claiming, Contending
  <2>4. cached' = cached /\ connected' = connected /\ sampling' = sampling /\ sampler' = sampler
    BY <1>4 DEF Settle
  <2>9. QuietMove(r, x)
    BY <1>1, <2>1, <2>2, <2>3, <2>4 DEF QuietMove, Contending, Linked
  <2> QED
    BY <2>2, <2>9
<1>5. CASE ServeAnother(r)
  <2> DEFINE x == Short("new", h)
  <2>1. request' = [request EXCEPT ![r] = x] /\ pending' = pending
    BY <1>5, SetsShort DEF ServeAnother
  <2>2. x \in RequestState /\ x.pc = "new" /\ x.held = h
    BY <1>1, <1>5, ShortType DEF ServeAnother
  <2> HIDE DEF x
  <2>3. One(request[r].pc \in Claiming) = 0 /\ One(x.pc \in Claiming) = 0
    BY <1>5, <2>2 DEF ServeAnother, One, Claiming, Contending
  <2>4. cached' = cached /\ connected' = connected /\ sampling' = sampling /\ sampler' = sampler
    BY <1>5 DEF ServeAnother
  <2>9. QuietMove(r, x)
    BY <1>1, <2>1, <2>2, <2>3, <2>4 DEF QuietMove, Contending, Linked
  <2> QED
    BY <2>2, <2>9
<1>6. CASE OpenDescriptor(r) \/ CloseDescriptor(r)
  <2> DEFINE k == IF OpenDescriptor(r) THEN h + 1 ELSE h - 1
             p == request[r].pc
             x == Short(p, k)
  <2>1. p \in {"admitted", "served"} /\ (p = "served" => CloseDescriptor(r) /\ ~OpenDescriptor(r))
    BY <1>6 DEF OpenDescriptor, CloseDescriptor
  <2>2. k \in 0 .. Cost /\ (p = "served" => k <= h)
    BY <1>1, <1>6, <2>1 DEF OpenDescriptor, CloseDescriptor
  <2>3. request' = [request EXCEPT ![r] = [request[r] EXCEPT !.held = k]] /\ pending' = pending
    BY <1>6 DEF OpenDescriptor, CloseDescriptor
  <2>4. cached' = cached /\ connected' = connected /\ sampling' = sampling /\ sampler' = sampler
    BY <1>6 DEF OpenDescriptor, CloseDescriptor
  <2> HIDE DEF k
  <2>5. [request[r] EXCEPT !.held = k] = x
    BY <1>1, <2>1, ShortUpdates
  <2>6. x \in RequestState /\ x.pc = p /\ x.held = k
    BY <2>1, <2>2, ShortType DEF Linked
  <2> HIDE DEF x
  <2>7. One(x.pc \in Claiming) = One(request[r].pc \in Claiming)
        /\ One(x.pc \in Claiming) \in {0, 1}
    BY <2>6, OneType
  <2>8. /\ request' = [request EXCEPT ![r] = x] /\ x.pc \notin {"claimed", "charges"}
        /\ x.pc \in Contending => x.pc = "admitted" /\ request[r].pc = "admitted"
        /\ x.pc \in Linked => request[r].pc \in Linked /\ x.held <= request[r].held
    BY <2>1, <2>2, <2>3, <2>5, <2>6 DEF Contending, Linked
  <2>9. /\ pending' + One(request[r].pc \in Claiming) = pending + One(x.pc \in Claiming)
        /\ pending' \in Int
    BY <1>1, <2>3, <2>7
  <2>10. QuietMove(r, x)
    BY <2>4, <2>8, <2>9, Zenon DEF QuietMove
  <2> QED
    BY <2>6, <2>10
<1> QED
  BY <1>2, <1>3, <1>4, <1>5, <1>6 DEF Quiet

\* A contender's ranks, kept.
LEMMA QuietKeeps ==
  ASSUME FdInv, NEW r \in FdRequests, Quiet(r)
  PROVE  FdInv'
<1>1. FdTypes /\ ClaimsBalanced /\ OneSampler /\ Covered
  BY DEF FdInv
<1>2. PICK rank \in [FdRequests -> Nat], M \in Nat, top \in Nat : Foresight(rank, M, top)
  BY DEF FdInv
<1>0. PICK x \in RequestState : QuietMove(r, x)
  BY <1>1, QuietShape
<1>3. /\ request' = [request EXCEPT ![r] = x]
      /\ x.pc \notin {"claimed", "charges"}
      /\ x.pc \in Contending => x.pc = "admitted" /\ request[r].pc = "admitted"
      /\ x.pc \in Linked => request[r].pc \in Linked /\ x.held <= request[r].held
      /\ pending' + One(request[r].pc \in Claiming) = pending + One(x.pc \in Claiming)
      /\ pending' \in Int
      /\ cached' = cached /\ connected' = connected
      /\ sampling' = sampling /\ sampler' = sampler
  BY <1>0 DEF QuietMove
<1>4. ClaimsBalanced' /\ pending' \in Nat
  BY <1>1, <1>3, ClaimsKeep
<1>5. FdTypes'
  BY <1>1, <1>3, <1>4 DEF FdTypes
<1>6. LoadAt(request', {}) <= LoadAt(request, {})
      /\ LoadAt(request', {}) \in Nat /\ LoadAt(request, {}) \in Nat
  <2> DEFINE q == request
             p == request'
  <2>1. /\ q \in [FdRequests -> RequestState] /\ p = [q EXCEPT ![r] = x]
        /\ x.pc \in Linked => \/ q[r].pc \in Linked /\ x.held <= q[r].held
                              \/ q[r].pc \notin Linked /\ r \in {}
    BY <1>1, <1>3 DEF FdTypes
  <2> HIDE DEF p, q
  <2>2. LoadAt(p, {}) <= LoadAt(q, {}) /\ LoadAt(p, {}) \in Nat /\ LoadAt(q, {}) \in Nat
    <3> DEFINE C == {}
               D == {}
    <3>1. /\ q \in [FdRequests -> RequestState] /\ p = [q EXCEPT ![r] = x]
          /\ C \ {r} = D \ {r}
          /\ x.pc \in Linked => \/ q[r].pc \in Linked /\ x.held <= q[r].held
                                \/ q[r].pc \notin Linked /\ r \in C
          /\ (x.pc \notin Linked /\ r \in D) => q[r].pc \notin Linked /\ r \in C
      BY <2>1
    <3> HIDE DEF C, D
    <3>2. LoadAt(p, D) <= LoadAt(q, C) /\ LoadAt(p, D) \in Nat /\ LoadAt(q, C) \in Nat
      BY <3>1, LoadFalls
    <3> QED
      BY <3>2 DEF C, D
  <2> QED
    BY <2>2 DEF p, q
<1>7. Covered' /\ OneSampler' /\ Foresight(rank, M, top)'
  <2>1. /\ M <= M /\ M < top /\ top <= top /\ rank[r] < top
        /\ x.pc = "admitted" => rank[r] <= M
        /\ LoadAt(request, Upto(request, rank, M)) <= Threshold
    BY <1>2, <1>3 DEF Foresight, Ranked, Contending
  <2>2. /\ x.pc \in Contending => \/ request[r].pc \in Contending /\ rank[r] = rank[r]
                                  \/ rank[r] >= top
        /\ x.pc \in Linked => \/ request[r].pc \in Linked /\ x.held <= request[r].held
                              \/ request[r].pc = "admitted"
    BY <1>3 DEF Contending
  <2>3. /\ x.pc \in {"claimed", "charges"} =>
             Cardinality(Upto(request', rank, rank[r])) <= x.claims
        /\ (x.pc = "charges" /\ rank[r] > M) => \A v \in Samples :
             LoadAt(request', Upto(request', rank, rank[r])) <= x.claims * Cost + x.charges + v
    BY <1>3
  <2>4. /\ connected' \in Nat /\ connected <= connected'
        /\ LoadAt(request', {}) + connected <= LoadAt(request, {}) + connected'
    <3> DEFINE a == LoadAt(request', {})
               b == LoadAt(request, {})
               e == connected'
    <3>1. a <= b /\ a \in Nat /\ b \in Nat /\ e = connected /\ connected \in Nat
      BY <1>1, <1>3, <1>6 DEF FdTypes
    <3> HIDE DEF a, b, e
    <3>2. e \in Nat /\ connected <= e /\ a + connected <= b + e
      BY <3>1
    <3> QED
      BY <3>2 DEF a, b, e
  <2>5. request' = [request EXCEPT ![r] = x] /\ cached' = cached /\ sampling' = sampling
        /\ sampler' = sampler
    BY <1>3
  <2>6. \A s \in FdRequests \ {r} : rank[s] = rank[s]
    OBVIOUS
  <2> QED
    BY <1>1, <1>2, <2>1, <2>2, <2>3, <2>4, <2>5, <2>6, RequestMoves
<1> QED
  BY <1>4, <1>5, <1>7 DEF FdInv

\* What is connected, as a request that is not moves.
LEMMA LinkedLoad ==
  ASSUME FdTypes, NEW r \in FdRequests, NEW x \in RequestState,
         request' = [request EXCEPT ![r] = x], request[r].pc \notin Linked
  PROVE  /\ LoadAt(request', {}) = LoadAt(request, {}) + (IF x.pc \in Linked THEN x.held ELSE 0)
         /\ LoadAt(request', {}) \in Nat /\ LoadAt(request, {}) \in Nat
<1> DEFINE q == request
           p == request'
           C == {}
<1>1. /\ q \in [FdRequests -> RequestState] /\ p \in [FdRequests -> RequestState]
      /\ p[r] = x /\ q[r].pc \notin Linked
      /\ \A s \in FdRequests \ {r} : p[s] = q[s] /\ (s \in C <=> s \in C)
  BY DEF FdTypes
<1>2. r \notin C
  OBVIOUS
<1> HIDE DEF p, q, C
<1>3. LoadAt(p, C) + Weights(q, C)[r] = LoadAt(q, C) + Weights(p, C)[r]
  BY ONLY <1>1, r \in FdRequests, LoadMoves
<1>4. LoadAt(p, C) \in Nat /\ LoadAt(q, C) \in Nat
  BY <1>1, WeightsType
<1>5. Weights(q, C)[r] = 0 /\ Weights(p, C)[r] = IF x.pc \in Linked THEN x.held ELSE 0
  BY <1>1, <1>2 DEF Weights
<1>6. x.held \in Nat
  BY RequestFields
<1>7. LoadAt(p, C) = LoadAt(q, C) + (IF x.pc \in Linked THEN x.held ELSE 0)
  BY <1>3, <1>4, <1>5, <1>6
<1> QED
  BY <1>4, <1>7 DEF p, q, C

\* connected(true) charges all that the request holds.
LEMMA ChargeKeeps ==
  ASSUME FdInv, NEW r \in FdRequests, Charge(r)
  PROVE  FdInv'
<1>1. FdTypes /\ ClaimsBalanced /\ OneSampler /\ Covered
  BY DEF FdInv
<1>2. PICK rank \in [FdRequests -> Nat], M \in Nat, top \in Nat : Foresight(rank, M, top)
  BY DEF FdInv
<1> DEFINE x == Short("charged", request[r].held)
<1>3. /\ request' = [request EXCEPT ![r] = x] /\ request[r].pc = "admitted"
      /\ connected' = connected + Cost
      /\ cached' = cached /\ sampling' = sampling /\ sampler' = sampler /\ pending' = pending
  BY <1>1, SetsShort DEF Charge
<1>4. request[r].held \in 0 .. Cost /\ Cost \in Nat /\ connected \in Nat /\ pending \in Nat
  BY <1>1, RequestFields, FdBounds DEF FdTypes
<1>5. x \in RequestState /\ x.pc = "charged" /\ x.held = request[r].held
  BY <1>4, ShortType DEF Linked
<1> HIDE DEF x
<1>6. ClaimsBalanced' /\ pending' \in Nat
  <2>1. One(request[r].pc \in Claiming) = 1 /\ One(x.pc \in Claiming) = 1
    BY <1>3, <1>5 DEF One, Claiming, Contending
  <2>2. /\ pending' + One(request[r].pc \in Claiming) = pending + One(x.pc \in Claiming)
        /\ pending' \in Int
    BY <1>3, <1>4, <2>1
  <2> QED
    BY <1>1, <1>3, <1>5, <2>2, ClaimsKeep
<1>7. FdTypes'
  BY <1>1, <1>3, <1>4, <1>5, <1>6 DEF FdTypes
<1>8. /\ connected' \in Nat /\ connected <= connected'
      /\ LoadAt(request', {}) + connected <= LoadAt(request, {}) + connected'
  <2> DEFINE a == LoadAt(request', {})
             b == LoadAt(request, {})
             e == connected'
             h == request[r].held
  <2>1. a = b + h /\ a \in Nat /\ b \in Nat
    <3>1. request[r].pc \notin Linked /\ x.pc \in Linked
      BY <1>3, <1>5 DEF Linked
    <3>2. /\ LoadAt(request', {}) = LoadAt(request, {}) + (IF x.pc \in Linked THEN x.held ELSE 0)
          /\ LoadAt(request', {}) \in Nat /\ LoadAt(request, {}) \in Nat
      BY <1>1, <1>3, <1>5, <3>1, LinkedLoad
    <3> QED
      BY <1>5, <3>1, <3>2
  <2>2. e = connected + Cost /\ h \in Nat /\ h <= Cost
    BY <1>3, <1>4
  <2> HIDE DEF a, b, e, h
  <2>3. e \in Nat /\ connected <= e /\ a + connected <= b + e
    BY <1>4, <2>1, <2>2
  <2> QED
    BY <2>3 DEF a, b, e
<1>9. Covered' /\ OneSampler' /\ Foresight(rank, M, top)'
  <2>1. /\ M <= M /\ M < top /\ top <= top /\ rank[r] < top
        /\ x.pc = "admitted" => rank[r] <= M
        /\ LoadAt(request, Upto(request, rank, M)) <= Threshold
    BY <1>2, <1>5 DEF Foresight, Ranked, Contending
  <2>2. /\ x.pc \in Contending => \/ request[r].pc \in Contending /\ rank[r] = rank[r]
                                  \/ rank[r] >= top
        /\ x.pc \in Linked => \/ request[r].pc \in Linked /\ x.held <= request[r].held
                              \/ request[r].pc = "admitted"
    BY <1>3, <1>5 DEF Contending
  <2>3. /\ x.pc \in {"claimed", "charges"} =>
             Cardinality(Upto(request', rank, rank[r])) <= x.claims
        /\ (x.pc = "charges" /\ rank[r] > M) => \A v \in Samples :
             LoadAt(request', Upto(request', rank, rank[r])) <= x.claims * Cost + x.charges + v
    BY <1>5
  <2>4. request' = [request EXCEPT ![r] = x] /\ cached' = cached /\ sampling' = sampling
        /\ sampler' = sampler
    BY <1>3
  <2>5. \A s \in FdRequests \ {r} : rank[s] = rank[s]
    OBVIOUS
  <2> QED
    BY <1>1, <1>2, <1>5, <1>8, <2>1, <2>2, <2>3, <2>4, <2>5, RequestMoves
<1> QED
  BY <1>6, <1>7, <1>9 DEF FdInv

\* A claim takes the next rank and counts everyone before it.
LEMMA ClaimKeeps ==
  ASSUME FdInv, NEW r \in FdRequests, Claim(r)
  PROVE  FdInv'
<1>1. FdTypes /\ ClaimsBalanced /\ OneSampler /\ Covered
  BY DEF FdInv
<1>2. PICK rank \in [FdRequests -> Nat], M \in Nat, top \in Nat : Foresight(rank, M, top)
  BY DEF FdInv
<1> DEFINE x == [pc |-> "claimed", held |-> 0, claims |-> pending + 1]
           R == [rank EXCEPT ![r] = top]
<1>3. /\ request' = [request EXCEPT ![r] = x] /\ request[r].pc = "new"
      /\ pending' = pending + 1 /\ connected' = connected
      /\ cached' = cached /\ sampling' = sampling /\ sampler' = sampler
  BY DEF Claim
<1>4. connected \in Nat /\ pending \in Nat /\ request \in [FdRequests -> RequestState]
  BY <1>1 DEF FdTypes
<1>5. x \in RequestState /\ x.pc = "claimed" /\ x.held = 0 /\ x.claims = pending + 1
  BY <1>4 DEF RequestState
<1>6. R \in [FdRequests -> Nat] /\ R[r] = top /\ \A s \in FdRequests \ {r} : R[s] = rank[s]
  BY <1>2
<1> HIDE DEF x, R
<1>7. ClaimsBalanced' /\ pending' \in Nat
  <2>1. One(request[r].pc \in Claiming) = 0 /\ One(x.pc \in Claiming) = 1
    BY <1>3, <1>5 DEF One, Claiming, Contending
  <2>2. /\ pending' + One(request[r].pc \in Claiming) = pending + One(x.pc \in Claiming)
        /\ pending' \in Int
    BY <1>3, <1>4, <2>1
  <2> QED
    BY <1>1, <1>3, <1>5, <2>2, ClaimsKeep
<1>8. FdTypes'
  BY <1>1, <1>3, <1>4, <1>5, <1>7 DEF FdTypes
<1>9. /\ connected' \in Nat /\ connected <= connected'
      /\ LoadAt(request', {}) + connected <= LoadAt(request, {}) + connected'
  <2> DEFINE a == LoadAt(request', {})
             b == LoadAt(request, {})
             e == connected'
  <2>1. a = b /\ a \in Nat /\ b \in Nat
    <3>1. request[r].pc \notin Linked /\ x.pc \notin Linked
      BY <1>3, <1>5 DEF Linked
    <3>2. /\ LoadAt(request', {}) = LoadAt(request, {}) + (IF x.pc \in Linked THEN x.held ELSE 0)
          /\ LoadAt(request', {}) \in Nat /\ LoadAt(request, {}) \in Nat
      BY <1>1, <1>3, <1>5, <3>1, LinkedLoad
    <3> QED
      BY <3>1, <3>2
  <2>2. e = connected
    BY <1>3
  <2> HIDE DEF a, b, e
  <2>3. e \in Nat /\ connected <= e /\ a + connected <= b + e
    BY <1>4, <2>1, <2>2
  <2> QED
    BY <2>3 DEF a, b, e
<1>10. Cardinality(Upto(request', R, R[r])) <= x.claims
  <2> DEFINE B == {s \in FdRequests : request'[s].pc \in
                     {"claimed", "charges", "refused", "admitted", "charged"}}
             A == Upto(request', R, R[r])
  <2>1. pending' = Cardinality(B)
    BY <1>7 DEF ClaimsBalanced
  <2>2. A \subseteq B /\ B \subseteq FdRequests
    BY DEF Upto, Contending
  <2>3. IsFiniteSet(FdRequests)
    BY FdBounds
  <2> HIDE DEF A, B
  <2>4. IsFiniteSet(B)
    BY <2>2, <2>3, CountPart
  <2>5. Cardinality(A) <= Cardinality(B)
    BY <2>2, <2>4, CountPart
  <2>6. x.claims = Cardinality(B)
    BY <1>3, <1>5, <2>1
  <2> QED
    BY <2>5, <2>6 DEF A
<1>11. Covered' /\ OneSampler' /\ Foresight(R, M, top + 1)'
  <2>1. /\ M <= M /\ M < top /\ top <= top + 1 /\ R[r] < top + 1 /\ top + 1 \in Nat
        /\ x.pc = "admitted" => R[r] <= M
        /\ LoadAt(request, Upto(request, rank, M)) <= Threshold
    BY <1>2, <1>5, <1>6 DEF Foresight, Ranked
  <2>2. /\ x.pc \in Contending => \/ request[r].pc \in Contending /\ R[r] = rank[r]
                                  \/ R[r] >= top
        /\ x.pc \in Linked => \/ request[r].pc \in Linked /\ x.held <= request[r].held
                              \/ request[r].pc = "admitted"
    BY <1>2, <1>5, <1>6 DEF Linked
  <2>3. /\ x.pc \in {"claimed", "charges"} =>
             Cardinality(Upto(request', R, R[r])) <= x.claims
        /\ (x.pc = "charges" /\ R[r] > M) => \A v \in Samples :
             LoadAt(request', Upto(request', R, R[r])) <= x.claims * Cost + x.charges + v
    BY <1>5, <1>10
  <2>4. request' = [request EXCEPT ![r] = x] /\ cached' = cached /\ sampling' = sampling
        /\ sampler' = sampler
    BY <1>3
  <2> DEFINE U == top + 1
  <2>5. U \in Nat /\ top <= U /\ R[r] < U
    BY <2>1
  <2> HIDE DEF U
  <2>6. Covered' /\ OneSampler' /\ Foresight(R, M, U)'
    BY <1>1, <1>2, <1>5, <1>6, <1>9, <2>1, <2>2, <2>3, <2>4, <2>5, RequestMoves
  <2> QED
    BY <2>6 DEF U
<1>12. top + 1 \in Nat
  BY <1>2
<1> QED
  BY <1>6, <1>7, <1>8, <1>11, <1>12 DEF FdInv

\* Once the charges are read, whatever sample follows foresees the contenders.
LEMMA ReadChargesKeeps ==
  ASSUME FdInv, NEW r \in FdRequests, ReadCharges(r)
  PROVE  FdInv'
<1>1. FdTypes /\ ClaimsBalanced /\ OneSampler /\ Covered
  BY DEF FdInv
<1>2. PICK rank \in [FdRequests -> Nat], M \in Nat, top \in Nat : Foresight(rank, M, top)
  BY DEF FdInv
<1> DEFINE x == [pc |-> "charges", held |-> 0, claims |-> request[r].claims,
                 charges |-> connected]
<1>3. /\ request' = [request EXCEPT ![r] = x] /\ request[r].pc = "claimed"
      /\ pending' = pending /\ connected' = connected
      /\ cached' = cached /\ sampling' = sampling /\ sampler' = sampler
  BY DEF ReadCharges
<1>4. connected \in Nat /\ pending \in Nat /\ request \in [FdRequests -> RequestState]
  BY <1>1 DEF FdTypes
<1>5. x \in RequestState /\ x.pc = "charges" /\ x.held = 0 /\ x.claims = request[r].claims
      /\ x.charges = connected /\ x.claims \in Nat
  <2>1. request[r].claims \in Nat
    BY <1>3, <1>4, RequestFields
  <2> QED
    BY <1>4, <2>1 DEF RequestState
<1> HIDE DEF x
<1>6. ClaimsBalanced' /\ pending' \in Nat
  <2>1. One(request[r].pc \in Claiming) = 1 /\ One(x.pc \in Claiming) = 1
    BY <1>3, <1>5 DEF One, Claiming, Contending
  <2>2. /\ pending' + One(request[r].pc \in Claiming) = pending + One(x.pc \in Claiming)
        /\ pending' \in Int
    BY <1>3, <1>4, <2>1
  <2> QED
    BY <1>1, <1>3, <1>5, <2>2, ClaimsKeep
<1>7. FdTypes'
  BY <1>1, <1>3, <1>4, <1>5, <1>6 DEF FdTypes
<1>8. LoadAt(request', {}) = LoadAt(request, {}) /\ LoadAt(request, {}) \in Nat
  <2>1. request[r].pc \notin Linked /\ x.pc \notin Linked
    BY <1>3, <1>5 DEF Linked
  <2>2. /\ LoadAt(request', {}) = LoadAt(request, {}) + (IF x.pc \in Linked THEN x.held ELSE 0)
        /\ LoadAt(request', {}) \in Nat /\ LoadAt(request, {}) \in Nat
    BY <1>1, <1>3, <1>5, <2>1, LinkedLoad
  <2> QED
    BY <2>1, <2>2
<1>9. /\ connected' \in Nat /\ connected <= connected'
      /\ LoadAt(request', {}) + connected <= LoadAt(request, {}) + connected'
  <2> DEFINE b == LoadAt(request, {})
  <2>1. b + connected <= b + connected /\ connected <= connected
    BY <1>4, <1>8
  <2> HIDE DEF b
  <2>2. LoadAt(request', {}) = b
    BY <1>8 DEF b
  <2> QED
    BY <1>3, <1>4, <2>1, <2>2 DEF b
<1> DEFINE B == Upto(request', rank, rank[r])
<1>10. Cardinality(B) <= x.claims /\ Cardinality(B) \in Nat /\ B \in SUBSET FdRequests
  <2>1. Cardinality(Upto(request, rank, rank[r])) <= request[r].claims
    BY <1>2, <1>3 DEF Foresight, Foreseen
  <2>2. B = Upto(request, rank, rank[r])
    BY <1>3, <1>4, <1>5 DEF Upto, Contending
  <2> QED
    BY <1>5, <2>1, <2>2, UptoFinite
<1>11. ASSUME NEW v \in Samples PROVE LoadAt(request', B) <= x.claims * Cost + x.charges + v
  <2> DEFINE p == request'
             b == LoadAt(request, {})
             k == Cardinality(B) * Cost
             l == x.claims * Cost
             g == LoadAt(request', B)
  <2>1. p \in [FdRequests -> RequestState] /\ LoadAt(p, {}) = b
    BY <1>7, <1>8 DEF FdTypes
  <2>2. g <= b + k
    <3> HIDE DEF B, p
    <3>1. LoadAt(p, B) <= LoadAt(p, {}) + Cardinality(B) * Cost
      BY <1>10, <2>1, LoadMore
    <3> QED
      BY <2>1, <3>1 DEF p
  <2>3. k <= l /\ k \in Nat /\ l \in Nat
    <3> DEFINE n == Cardinality(B)
    <3>1. n \in Nat /\ x.claims \in Nat /\ n <= x.claims /\ Cost \in Nat
      BY <1>5, <1>10, FdBounds
    <3> HIDE DEF n
    <3>2. n * Cost <= x.claims * Cost /\ n * Cost \in Nat /\ x.claims * Cost \in Nat
      BY <3>1, TimesLeq
    <3> QED
      BY <3>2 DEF n
  <2>4. b <= v + connected /\ b \in Nat /\ v \in Nat
    <3>1. Samples \subseteq Nat
      BY <1>1 DEF Samples, FdTypes, SamplerState, Asleep
    <3> QED
      BY <1>1, <1>8, <3>1 DEF Covered
  <2>5. g \in Nat
    <3> HIDE DEF B, p
    <3>1. LoadAt(p, B) \in Nat
      BY <2>1, WeightsType
    <3> QED
      BY <3>1 DEF p
  <2> HIDE DEF b, k, l, g
  <2>6. g <= l + x.charges + v
    BY <1>4, <1>5, <2>2, <2>3, <2>4, <2>5
  <2> QED
    BY <2>6 DEF l, g
<1>12. Covered' /\ OneSampler' /\ Foresight(rank, M, top)'
  <2>1. /\ M <= M /\ M < top /\ top <= top /\ rank[r] < top
        /\ x.pc = "admitted" => rank[r] <= M
        /\ LoadAt(request, Upto(request, rank, M)) <= Threshold
    BY <1>2, <1>5 DEF Foresight, Ranked, Contending
  <2>2. /\ x.pc \in Contending => \/ request[r].pc \in Contending /\ rank[r] = rank[r]
                                  \/ rank[r] >= top
        /\ x.pc \in Linked => \/ request[r].pc \in Linked /\ x.held <= request[r].held
                              \/ request[r].pc = "admitted"
    BY <1>3, <1>5 DEF Contending, Linked
  <2>3. /\ x.pc \in {"claimed", "charges"} =>
             Cardinality(Upto(request', rank, rank[r])) <= x.claims
        /\ (x.pc = "charges" /\ rank[r] > M) => \A v \in Samples :
             LoadAt(request', Upto(request', rank, rank[r])) <= x.claims * Cost + x.charges + v
    BY <1>10, <1>11
  <2>4. request' = [request EXCEPT ![r] = x] /\ cached' = cached /\ sampling' = sampling
        /\ sampler' = sampler
    BY <1>3
  <2>5. \A s \in FdRequests \ {r} : rank[s] = rank[s]
    OBVIOUS
  <2> QED
    BY <1>1, <1>2, <1>5, <1>9, <2>1, <2>2, <2>3, <2>4, <2>5, RequestMoves
<1> QED
  BY <1>6, <1>7, <1>12 DEF FdInv

\* An admission fits with all that contend before it.
LEMMA ReadSampleKeeps ==
  ASSUME FdInv, NEW r \in FdRequests, ReadSample(r)
  PROVE  FdInv'
<1>1. FdTypes /\ ClaimsBalanced /\ OneSampler /\ Covered
  BY DEF FdInv
<1>2. PICK rank \in [FdRequests -> Nat], M \in Nat, top \in Nat : Foresight(rank, M, top)
  BY DEF FdInv
<1> DEFINE foreseen == request[r].claims * Cost + request[r].charges + cached
           p == IF foreseen > Threshold THEN "refused" ELSE "admitted"
           x == Short(p, 0)
           N == IF p = "admitted" /\ rank[r] > M THEN rank[r] ELSE M
<1>3. /\ request' = [request EXCEPT ![r] = x] /\ request[r].pc = "charges"
      /\ pending' = pending /\ connected' = connected
      /\ cached' = cached /\ sampling' = sampling /\ sampler' = sampler
  BY DEF ReadSample, Short
<1>4. connected \in Nat /\ pending \in Nat /\ request \in [FdRequests -> RequestState]
      /\ cached \in Nat /\ Cost \in Nat /\ Threshold \in Nat
  BY <1>1, FdBounds DEF FdTypes
<1>5. p \in {"refused", "admitted"} /\ x \in RequestState /\ x.pc = p /\ x.held = 0
  <2>1. p \in {"refused", "admitted"} /\ 0 \in 0 .. Cost
    BY <1>4
  <2> HIDE DEF p
  <2> QED
    BY <2>1, ShortType
<1>6. N \in Nat /\ M <= N /\ N < top /\ (p = "admitted" => rank[r] <= N)
      /\ rank[r] \in Nat /\ rank[r] < top
  <2>1. rank[r] \in Nat /\ rank[r] < top /\ M < top
    BY <1>2 DEF Foresight, Ranked
  <2> HIDE DEF p
  <2> QED
    BY <1>2, <2>1
<1>7. LoadAt(request, Upto(request, rank, N)) <= Threshold
  <2>1. CASE p = "admitted" /\ rank[r] > M
    <3>1. cached \in Samples
      BY DEF Samples
    <3>2. LoadAt(request, Upto(request, rank, rank[r])) <= foreseen
      BY <1>2, <1>3, <2>1, <3>1 DEF Foresight, Foreseen
    <3>3. ~(foreseen > Threshold)
      BY <2>1
    <3>4. foreseen \in Nat
      <4>1. request[r].claims \in Nat /\ request[r].charges \in Nat
        BY <1>3, <1>4, RequestFields
      <4> QED
        BY <1>4, <4>1
    <3> DEFINE g == LoadAt(request, Upto(request, rank, rank[r]))
    <3>5. g \in Nat /\ g <= foreseen
      BY <1>4, <3>2, WeightsType
    <3>6. N = rank[r]
      BY <2>1
    <3> HIDE DEF g, foreseen, N
    <3>7. g <= Threshold
      BY <1>4, <3>3, <3>4, <3>5
    <3> QED
      BY <3>6, <3>7 DEF g
  <2>2. CASE ~(p = "admitted" /\ rank[r] > M)
    <3>1. N = M
      BY <2>2
    <3> HIDE DEF N, p
    <3> QED
      BY <1>2, <3>1 DEF Foresight, Ranked
  <2> QED
    BY <2>1, <2>2
<1> HIDE DEF N, x, p
<1> PICK K \in Nat : K = N
  BY <1>6
<1>8. ClaimsBalanced' /\ pending' \in Nat
  <2>1. One(request[r].pc \in Claiming) = 1 /\ One(x.pc \in Claiming) = 1
    BY <1>3, <1>5 DEF One, Claiming, Contending
  <2>2. /\ pending' + One(request[r].pc \in Claiming) = pending + One(x.pc \in Claiming)
        /\ pending' \in Int
    BY <1>3, <1>4, <2>1
  <2> QED
    BY <1>1, <1>3, <1>5, <2>2, ClaimsKeep
<1>9. FdTypes'
  BY <1>1, <1>3, <1>4, <1>5, <1>8 DEF FdTypes
<1>10. /\ connected' \in Nat /\ connected <= connected'
       /\ LoadAt(request', {}) + connected <= LoadAt(request, {}) + connected'
  <2> DEFINE a == LoadAt(request', {})
             b == LoadAt(request, {})
             e == connected'
  <2>1. a = b /\ a \in Nat /\ b \in Nat
    <3>1. request[r].pc \notin Linked /\ x.pc \notin Linked
      BY <1>3, <1>5 DEF Linked
    <3>2. /\ LoadAt(request', {}) = LoadAt(request, {}) + (IF x.pc \in Linked THEN x.held ELSE 0)
          /\ LoadAt(request', {}) \in Nat /\ LoadAt(request, {}) \in Nat
      BY <1>1, <1>3, <1>5, <3>1, LinkedLoad
    <3> QED
      BY <3>1, <3>2
  <2>2. e = connected
    BY <1>3
  <2> HIDE DEF a, b, e
  <2>3. e \in Nat /\ connected <= e /\ a + connected <= b + e
    BY <1>4, <2>1, <2>2
  <2> QED
    BY <2>3 DEF a, b, e
<1>11. Covered' /\ OneSampler' /\ Foresight(rank, K, top)'
  <2>1. /\ M <= K /\ K < top /\ top <= top /\ rank[r] < top
        /\ x.pc = "admitted" => rank[r] <= K
        /\ LoadAt(request, Upto(request, rank, K)) <= Threshold
    BY <1>2, <1>5, <1>6, <1>7
  <2>2. /\ x.pc \in Contending => \/ request[r].pc \in Contending /\ rank[r] = rank[r]
                                  \/ rank[r] >= top
        /\ x.pc \in Linked => \/ request[r].pc \in Linked /\ x.held <= request[r].held
                              \/ request[r].pc = "admitted"
    BY <1>3, <1>5 DEF Contending, Linked
  <2>3. /\ x.pc \in {"claimed", "charges"} =>
             Cardinality(Upto(request', rank, rank[r])) <= x.claims
        /\ (x.pc = "charges" /\ rank[r] > K) => \A v \in Samples :
             LoadAt(request', Upto(request', rank, rank[r])) <= x.claims * Cost + x.charges + v
    BY <1>5
  <2>4. request' = [request EXCEPT ![r] = x] /\ cached' = cached /\ sampling' = sampling
        /\ sampler' = sampler
    BY <1>3
  <2>5. \A s \in FdRequests \ {r} : rank[s] = rank[s]
    OBVIOUS
  <2> QED
    BY <1>1, <1>2, <1>5, <1>10, <2>1, <2>2, <2>3, <2>4, <2>5, RequestMoves
<1> QED
  BY <1>8, <1>9, <1>11 DEF FdInv

\* A sampler moves: a count that shows all that is connected is foreseen.
LEMMA SamplerMoves ==
  ASSUME FdInv, FdTypes', OneSampler', Covered', request' = request, pending' = pending,
         \A v \in Samples' : v \in Samples \/ (v \in Nat /\ LoadAt(request, {}) <= v)
  PROVE  FdInv'
<1>1. FdTypes /\ ClaimsBalanced
  BY DEF FdInv
<1>2. PICK rank \in [FdRequests -> Nat], M \in Nat, top \in Nat : Foresight(rank, M, top)
  BY DEF FdInv
<1>3. request \in [FdRequests -> RequestState]
  BY <1>1 DEF FdTypes
<1>4. Ranked(rank, M, top)' /\ ClaimsBalanced'
  BY <1>1, <1>2 DEF Foresight, Ranked, ClaimsBalanced
<1>5. ASSUME NEW r \in FdRequests, NEW v \in Samples', request[r].pc = "charges", rank[r] > M
      PROVE  LoadAt(request, Upto(request, rank, rank[r]))
               <= request[r].claims * Cost + request[r].charges + v
  <2>1. CASE v \in Samples
    BY <1>2, <1>5, <2>1 DEF Foresight, Foreseen
  <2>2. CASE v \in Nat /\ LoadAt(request, {}) <= v
    <3> DEFINE B == Upto(request, rank, rank[r])
               b == LoadAt(request, {})
               g == LoadAt(request, B)
               n == Cardinality(B)
               c == request[r].claims
    <3>1. /\ B \in SUBSET FdRequests /\ n \in Nat /\ n <= c
          /\ c \in Nat /\ request[r].charges \in Nat /\ Cost \in Nat
      <4>1. n <= c
        BY <1>2, <1>5 DEF Foresight, Foreseen
      <4>2. c \in Nat /\ request[r].charges \in Nat /\ Cost \in Nat
        BY <1>3, <1>5, RequestFields, FdBounds
      <4> QED
        BY <4>1, <4>2, UptoFinite
    <3>2. g <= b + n * Cost /\ g \in Nat /\ b \in Nat
      <4> HIDE DEF B
      <4> QED
        BY <1>3, <3>1, LoadMore, WeightsType
    <3>3. n * Cost <= c * Cost /\ n * Cost \in Nat /\ c * Cost \in Nat
      <4>1. n \in Nat /\ c \in Nat /\ n <= c /\ Cost \in Nat
        BY <3>1
      <4> HIDE DEF n, c
      <4> QED
        BY ONLY <4>1, TimesLeq
    <3> DEFINE k == n * Cost
               l == c * Cost
    <3>4. b <= v /\ k <= l /\ k \in Nat /\ l \in Nat /\ g <= b + k /\ g \in Nat /\ b \in Nat
      BY <2>2, <3>2, <3>3
    <3> HIDE DEF k, l, b, g
    <3>5. g <= l + request[r].charges + v
      BY <2>2, <3>1, <3>4
    <3> QED
      BY <3>5 DEF g, l
  <2> QED
    BY <1>5, <2>1, <2>2
<1>6. Foreseen(rank, M)'
  <2>1. \A r \in FdRequests : request[r].pc \in {"claimed", "charges"} =>
          Cardinality(Upto(request, rank, rank[r])) <= request[r].claims
    BY <1>2 DEF Foresight, Foreseen
  <2> QED
    BY <1>5, <2>1 DEF Foreseen
<1>7. Foresight(rank, M, top)'
  BY <1>4, <1>6 DEF Foresight
<1> QED
  BY <1>4, <1>7 DEF FdInv

\* The samplers' fields.
LEMMA SamplerFields ==
  ASSUME NEW x \in SamplerState
  PROVE  /\ x.pc \in {"asleep", "count", "absorb", "publish"}
         /\ x.pc # "asleep" => x.absorbed \in Nat
         /\ x.pc = "publish" => x.open \in Nat
BY DEF SamplerState, Asleep

\* The kernel's count shows all that is connected.
LEMMA OpenShows ==
  ASSUME FdTypes
  PROVE  Open \in Nat /\ LoadAt(request, {}) <= Open
<1> DEFINE f == Weights(request, {})
           g == [r \in FdRequests |-> request[r].held]
<1>1. request \in [FdRequests -> RequestState] /\ IsFiniteSet(FdRequests) /\ Base \in Nat
  BY FdBounds DEF FdTypes
<1>2. f \in [FdRequests -> Nat] /\ g \in [FdRequests -> Nat]
  BY <1>1, RequestFields, WeightsType
<1>3. \A r \in FdRequests : f[r] <= g[r]
  BY <1>1, RequestFields DEF Weights
<1>4. LoadAt(request, {}) = Base + Total(FdRequests, f) /\ Open = Base + Total(FdRequests, g)
  BY DEF LoadAt, Open
<1> HIDE DEF f, g
<1>5. Total(FdRequests, f) <= Total(FdRequests, g)
      /\ Total(FdRequests, f) \in Nat /\ Total(FdRequests, g) \in Nat
  BY <1>1, <1>2, <1>3, TotalLeq, TotalType
<1> QED
  BY <1>1, <1>4, <1>5

\* A difference, cut at nought.
LEMMA MaxNought ==
  ASSUME NEW n \in Int
  PROVE  Max({n, 0}) = IF n >= 0 THEN n ELSE 0
<1>1. \A m \in {n, 0} : (\A k \in {n, 0} : m >= k) <=> m = IF n >= 0 THEN n ELSE 0
  OBVIOUS
<1>2. (IF n >= 0 THEN n ELSE 0) \in {n, 0}
  OBVIOUS
<1> QED
  BY <1>1, <1>2 DEF Max

\* What a sampler may find: b is what is connected.
LEMMA CoveredBy ==
  ASSUME FdTypes, Covered
  PROVE  /\ LoadAt(request, {}) \in Nat /\ LoadAt(request, {}) <= cached + connected
         /\ \A s \in Samplers : sampler[s].pc = "publish" =>
              LoadAt(request, {}) + sampler[s].absorbed <= sampler[s].open + connected
         /\ \A s \in Samplers : sampler[s].pc = "absorb" =>
              LoadAt(request, {}) + sampler[s].absorbed <= cached + connected
<1>1. request \in [FdRequests -> RequestState]
  BY DEF FdTypes
<1>2. LoadAt(request, {}) \in Nat
  BY <1>1, WeightsType
<1>3. cached \in Samples
  BY DEF Samples
<1> QED
  BY <1>2, <1>3 DEF Covered

\* Only the thread that set the flag samples, until it clears it.
LEMMA SampleKeeps ==
  ASSUME FdInv, NEW s \in Samplers,
         BeginSample(s) \/ CountOpen(s) \/ CountFails(s) \/ PublishSample(s) \/ AbsorbCharges(s)
  PROVE  FdInv'
<1> DEFINE b == LoadAt(request, {})
           y == sampler[s]
<1>1. /\ FdTypes /\ OneSampler /\ Covered /\ sampler \in [Samplers -> SamplerState]
      /\ cached \in Nat /\ connected \in Nat /\ y \in SamplerState
      /\ Samples \subseteq Nat
  <2>1. FdTypes /\ OneSampler /\ Covered
    BY DEF FdInv
  <2>2. Samples \subseteq Nat
    BY <2>1, SamplerFields DEF FdTypes, Samples
  <2> QED
    BY <2>1, <2>2 DEF FdTypes
<1>2. /\ b \in Nat /\ b <= cached + connected
      /\ y.pc = "publish" => b + y.absorbed <= y.open + connected
      /\ y.pc = "absorb" => b + y.absorbed <= cached + connected
  BY <1>1, CoveredBy
<1>3. /\ y.pc # "asleep" => y.absorbed \in Nat /\ y.absorbed <= connected
      /\ y.pc = "publish" => y.open \in Nat
  BY <1>1, SamplerFields DEF OneSampler
<1>4. Open \in Nat /\ b <= Open
  BY <1>1, OpenShows
<1>5. \A z \in Samplers \ {s} : sampler[z].pc = "asleep"
  BY <1>1 DEF OneSampler, BeginSample, CountOpen, CountFails, PublishSample, AbsorbCharges
<1>6. request' = request /\ pending' = pending
  BY DEF BeginSample, CountOpen, CountFails, PublishSample, AbsorbCharges
<1>7. \A v \in Samples : b <= v + connected
  BY <1>1 DEF Covered
<1> HIDE DEF b
<1>8. ASSUME NEW x \in SamplerState, sampler' = [sampler EXCEPT ![s] = x],
             sampling' \in BOOLEAN, x.pc # "asleep" => sampling',
             cached' \in Nat, connected' \in Nat,
             x.pc # "asleep" => x.absorbed <= connected',
             b <= cached' + connected',
             x.pc = "publish" => /\ b + x.absorbed <= x.open + connected' /\ b <= x.open
                                 /\ b <= x.open + connected',
             x.pc = "absorb" => b + x.absorbed <= cached' + connected',
             cached' \in Samples \/ b <= cached'
      PROVE  FdInv'
  <2>1. sampler'[s] = x /\ \A z \in Samplers \ {s} : sampler'[z] = sampler[z]
    BY <1>1, <1>8
  <2>2. FdTypes'
    BY <1>1, <1>6, <1>8 DEF FdTypes
  <2>3. OneSampler'
    BY <1>5, <1>8, <2>1 DEF OneSampler
  <2>4. Samples' = {cached'} \cup (IF x.pc = "publish" THEN {x.open} ELSE {})
    BY <1>5, <2>1 DEF Samples
  <2>5. Covered'
    <3>1. LoadAt(request', {}) = b
      BY <1>6 DEF b
    <3>2. \A v \in Samples' : LoadAt(request', {}) <= v + connected'
      BY <1>8, <2>4, <3>1
    <3>3. ASSUME NEW z \in Samplers
          PROVE  /\ sampler'[z].pc = "publish" =>
                      LoadAt(request', {}) + sampler'[z].absorbed <= sampler'[z].open + connected'
                 /\ sampler'[z].pc = "absorb" =>
                      LoadAt(request', {}) + sampler'[z].absorbed <= cached' + connected'
      BY <1>5, <1>8, <2>1, <3>1
    <3> QED
      BY <3>2, <3>3 DEF Covered
  <2>6. \A v \in Samples' : v \in Samples \/ (v \in Nat /\ LoadAt(request, {}) <= v)
    <3>1. x.pc = "publish" => x.open \in Nat
      BY <1>8, SamplerFields
    <3> QED
      BY <1>8, <2>4, <3>1 DEF b
  <2> QED
    BY <1>6, <2>2, <2>3, <2>5, <2>6, SamplerMoves
<1>9. cached \in Samples
  BY DEF Samples
<1>10. CASE BeginSample(s)
  <2> DEFINE x == [pc |-> "count", absorbed |-> connected]
  <2>1. /\ x \in SamplerState /\ x.pc = "count" /\ x.absorbed = connected
        /\ sampler' = [sampler EXCEPT ![s] = x] /\ sampling' = TRUE
        /\ cached' = cached /\ connected' = connected
    BY <1>1, <1>10 DEF BeginSample, SamplerState
  <2> HIDE DEF x
  <2>2. /\ sampling' \in BOOLEAN /\ (x.pc # "asleep" => sampling')
        /\ cached' \in Nat /\ connected' \in Nat
        /\ x.absorbed <= connected' /\ b <= cached' + connected' /\ cached' \in Samples
    BY <1>1, <1>2, <1>9, <2>1
  <2> QED
    BY <1>8, <2>1, <2>2
<1>11. CASE CountOpen(s)
  <2> DEFINE x == [pc |-> "publish", absorbed |-> y.absorbed, open |-> Open]
  <2>1. y.pc = "count" /\ y.absorbed \in Nat /\ y.absorbed <= connected
    BY <1>3, <1>11 DEF CountOpen
  <2>2. /\ x \in SamplerState /\ x.pc = "publish" /\ x.absorbed = y.absorbed /\ x.open = Open
    BY <1>4, <2>1 DEF SamplerState
  <2>3. /\ sampler' = [sampler EXCEPT ![s] = x] /\ sampling' = sampling
        /\ cached' = cached /\ connected' = connected
    BY <1>11 DEF CountOpen
  <2>4. sampling
    BY <1>1, <2>1 DEF OneSampler
  <2> HIDE DEF x
  <2>5. b + x.absorbed <= x.open + connected /\ b <= x.open + connected
    BY <1>1, <1>2, <1>4, <2>1, <2>2
  <2> QED
    BY <1>1, <1>2, <1>4, <1>8, <1>9, <2>1, <2>2, <2>3, <2>4, <2>5
<1>12. CASE CountFails(s)
  <2>1. /\ Asleep \in SamplerState /\ Asleep.pc = "asleep"
        /\ sampler' = [sampler EXCEPT ![s] = Asleep] /\ sampling' = FALSE
        /\ cached' = cached /\ connected' = connected
    BY <1>12 DEF CountFails, SamplerState, Asleep
  <2> QED
    BY <1>1, <1>2, <1>8, <1>9, <2>1
<1>13. CASE PublishSample(s)
  <2> DEFINE x == [pc |-> "absorb", absorbed |-> y.absorbed]
  <2>1. /\ y.pc = "publish" /\ y.absorbed \in Nat /\ y.absorbed <= connected
        /\ y.open \in Nat /\ b + y.absorbed <= y.open + connected
    BY <1>2, <1>3, <1>13 DEF PublishSample
  <2>2. /\ x \in SamplerState /\ x.pc = "absorb" /\ x.absorbed = y.absorbed
    BY <2>1 DEF SamplerState
  <2>3. /\ sampler' = [sampler EXCEPT ![s] = x] /\ sampling' = sampling
        /\ cached' = y.open /\ connected' = connected
    BY <1>13 DEF PublishSample
  <2>4. sampling /\ y.open \in Samples
    BY <1>1, <2>1 DEF OneSampler, Samples
  <2> HIDE DEF x
  <2>5. b <= y.open + connected
    BY <1>1, <1>2, <2>1
  <2> QED
    BY <1>1, <1>2, <1>8, <2>1, <2>2, <2>3, <2>4, <2>5
<1>14. CASE AbsorbCharges(s)
  <2>1. /\ y.pc = "absorb" /\ y.absorbed \in Nat /\ y.absorbed <= connected
        /\ b + y.absorbed <= cached + connected
    BY <1>2, <1>3, <1>14 DEF AbsorbCharges
  <2> DEFINE n == connected - y.absorbed
  <2>2. n \in Int /\ n >= 0 /\ n \in Nat /\ b <= cached + n
    BY <1>1, <1>2, <2>1
  <2>3. connected' = n
    <3>1. connected' = Max({n, 0})
      BY <1>14 DEF AbsorbCharges
    <3> HIDE DEF n
    <3> QED
      BY <2>2, <3>1, MaxNought
  <2>4. /\ Asleep \in SamplerState /\ Asleep.pc = "asleep"
        /\ sampler' = [sampler EXCEPT ![s] = Asleep] /\ sampling' = FALSE /\ cached' = cached
    BY <1>14 DEF AbsorbCharges, SamplerState, Asleep
  <2> HIDE DEF n
  <2> QED
    BY <1>1, <1>8, <1>9, <2>2, <2>3, <2>4
<1> QED
  BY <1>10, <1>11, <1>12, <1>13, <1>14

\* The invariant of file-descriptor admission holds in every state.
LEMMA FdInvariant == FdSpec => []FdInv
<1>1. FdInit => FdInv
  <2> SUFFICES ASSUME FdInit PROVE FdInv
    OBVIOUS
  <2> DEFINE x == [pc |-> "new", held |-> 0]
             rank == [r \in FdRequests |-> 0]
  <2>1. x \in RequestState /\ x.pc = "new" /\ x.held = 0 /\ Base \in Nat /\ Threshold \in Nat
        /\ Base <= Threshold
    BY FdBounds DEF RequestState
  <2>2. request = [r \in FdRequests |-> x] /\ cached = Base /\ connected = 0 /\ pending = 0
        /\ sampler = [s \in Samplers |-> Asleep]
    BY DEF FdInit
  <2> HIDE DEF x
  <2>3. request \in [FdRequests -> RequestState] /\ \A r \in FdRequests : request[r] = x
    BY <2>1, <2>2
  <2>4. Asleep \in SamplerState /\ Asleep.pc = "asleep"
    BY DEF SamplerState, Asleep
  <2>5. FdTypes
    BY <2>1, <2>2, <2>3, <2>4 DEF FdTypes
  <2>6. \A s \in Samplers : sampler[s].pc = "asleep"
    BY <2>2, <2>4
  <2>7. ClaimsBalanced
    <3> DEFINE A == {r \in FdRequests : request[r].pc \in
                       {"claimed", "charges", "refused", "admitted", "charged"}}
    <3>1. A = {}
      BY <2>1, <2>3
    <3>2. Cardinality(A) = 0
      BY <3>1, FS_EmptySet
    <3> QED
      BY <2>2, <3>2 DEF ClaimsBalanced
  <2>8. \A m \in Nat : Upto(request, rank, m) = {}
    BY <2>1, <2>3 DEF Upto, Contending
  <2>9. LoadAt(request, {}) = Base
    <3> DEFINE f == Weights(request, {})
    <3>1. \A r \in FdRequests : f[r] = 0
      BY <2>1, <2>3 DEF Weights, Linked
    <3> HIDE DEF f
    <3>2. Total(FdRequests, f) = 0
      BY <3>1, TotalZero
    <3> QED
      BY <2>1, <3>2 DEF LoadAt, f
  <2>10. Samples = {Base}
    BY <2>2, <2>6 DEF Samples
  <2>11. Covered /\ OneSampler
    BY <2>1, <2>2, <2>6, <2>9, <2>10 DEF Covered, OneSampler
  <2>12. rank \in [FdRequests -> Nat] /\ 0 \in Nat /\ 1 \in Nat /\ \A r \in FdRequests : rank[r] = 0
    OBVIOUS
  <2> HIDE DEF rank
  <2>13. Foresight(rank, 0, 1)
    <3>1. LoadAt(request, Upto(request, rank, 0)) <= Threshold
      BY <2>1, <2>8, <2>9
    <3>2. Ranked(rank, 0, 1)
      BY <2>12, <3>1 DEF Ranked
    <3>3. Foreseen(rank, 0)
      BY <2>1, <2>3 DEF Foreseen
    <3> QED
      BY <3>2, <3>3 DEF Foresight
  <2> QED
    BY <2>5, <2>7, <2>11, <2>12, <2>13 DEF FdInv
<1>2. FdInv /\ [FdNext]_fdVars => FdInv'
  <2> SUFFICES ASSUME FdInv, [FdNext]_fdVars PROVE FdInv'
    OBVIOUS
  <2>1. ASSUME NEW r \in FdRequests,
               \/ Claim(r) \/ ReadCharges(r) \/ ReadSample(r) \/ Unclaim(r)
               \/ OpenDescriptor(r) \/ Charge(r) \/ Release(r) \/ Settle(r)
               \/ CloseDescriptor(r) \/ ServeAnother(r)
        PROVE  FdInv'
    BY <2>1, ClaimKeeps, ReadChargesKeeps, ReadSampleKeeps, ChargeKeeps, QuietKeeps DEF Quiet
  <2>2. ASSUME NEW s \in Samplers,
               \/ BeginSample(s) \/ CountOpen(s) \/ CountFails(s)
               \/ PublishSample(s) \/ AbsorbCharges(s)
        PROVE  FdInv'
    BY <2>2, SampleKeeps
  <2>3. CASE UNCHANGED fdVars
    BY <2>3 DEF fdVars, FdInv, FdTypes, ClaimsBalanced, OneSampler, Covered, Samples,
                Foresight, Ranked, Foreseen
  <2> QED
    BY <2>1, <2>2, <2>3 DEF FdNext
<1> QED
  BY <1>1, <1>2, PTL DEF FdSpec

\* What the admitted requests hold and may still open stays within the
\* threshold, for any number of requests and samplers and any costs: no
\* order in which the three counters are read and moved overcommits the
\* process (try_admit, Admission::connected, store_sample_with).
THEOREM AdmissionCorrect == FdSpec => []NeverOvercommitted
<1>1. FdInv => NeverOvercommitted
  <2> SUFFICES ASSUME FdInv PROVE NeverOvercommitted
    OBVIOUS
  <2>1. FdTypes
    BY DEF FdInv
  <2>2. PICK rank \in [FdRequests -> Nat], M \in Nat, top \in Nat : Foresight(rank, M, top)
    BY DEF FdInv
  <2> DEFINE C == Upto(request, rank, M)
             f == [r \in FdRequests |->
                     IF request[r].pc = "admitted" THEN Cost ELSE request[r].held]
             g == Weights(request, C)
  <2>3. request \in [FdRequests -> RequestState] /\ Cost \in Nat /\ IsFiniteSet(FdRequests)
        /\ Base \in Nat /\ Threshold \in Nat
    BY <2>1, FdBounds DEF FdTypes
  <2>4. \A r \in FdRequests : request[r].pc = "admitted" => r \in C
    BY <2>2 DEF Foresight, Ranked, Upto, Contending
  <2>5. g \in [FdRequests -> Nat] /\ f \in [FdRequests -> Nat]
    BY <2>3, RequestFields, WeightsType
  <2>6. \A r \in FdRequests : f[r] <= g[r]
    <3> SUFFICES ASSUME NEW r \in FdRequests PROVE f[r] <= g[r]
      OBVIOUS
    <3>1. /\ request[r].held \in Nat
          /\ request[r].pc \notin {"admitted"} \cup Linked => request[r].held = 0
      BY <2>3, RequestFields
    <3>2. "admitted" \notin Linked
      BY DEF Linked
    <3> QED
      BY <2>3, <2>4, <3>1, <3>2 DEF Weights
  <2>7. LoadAt(request, C) = Base + Total(FdRequests, g) /\ LoadAt(request, C) <= Threshold
    BY <2>2 DEF LoadAt, Foresight, Ranked
  <2>8. NeverOvercommitted <=> Base + Total(FdRequests, f) <= Threshold
    BY DEF NeverOvercommitted
  <2> HIDE DEF f, g
  <2>9. Total(FdRequests, f) <= Total(FdRequests, g)
        /\ Total(FdRequests, f) \in Nat /\ Total(FdRequests, g) \in Nat
    BY <2>3, <2>5, <2>6, TotalLeq, TotalType
  <2> QED
    BY <2>3, <2>7, <2>8, <2>9
<1> QED
  BY <1>1, FdInvariant, PTL

\* The count of pending claims is the number of requests that hold one: a
\* claim is neither lost nor left behind (try_admit, Admission's drop).
THEOREM ClaimsCorrect == FdSpec => []ClaimsBalanced
<1>1. FdInv => ClaimsBalanced
  BY DEF FdInv
<1> QED
  BY <1>1, FdInvariant, PTL

-----------------------------------------------------------------------------
(***************************************************************************)
(* Sticky sessions: what compaction keeps of the queue.                    *)
(***************************************************************************)

\* The place of i among the places kept.
Rank(kept, i) == Cardinality({j \in kept : j <= i})

\* Ranks tell places apart, and every rank is taken.
LEMMA RankBijection ==
  ASSUME NEW K, IsFiniteSet(K), K \subseteq Nat
  PROVE  /\ Cardinality(K) \in Nat
         /\ \A i \in K : Rank(K, i) \in 1 .. Cardinality(K)
         /\ \A i, j \in K : Rank(K, i) = Rank(K, j) => i = j
         /\ \A n \in 1 .. Cardinality(K) : \E i \in K : Rank(K, i) = n
<1> DEFINE B(i) == {j \in K : j <= i}
           N == Cardinality(K)
           f == [i \in K |-> Rank(K, i)]
<1>1. N \in Nat
  BY FS_CardinalityType
<1>2. \A i \in K : /\ B(i) \subseteq K /\ i \in B(i) /\ IsFiniteSet(B(i))
                   /\ Rank(K, i) = Cardinality(B(i)) /\ Rank(K, i) \in Nat /\ Rank(K, i) <= N
  BY CountPart DEF Rank
<1>3. ASSUME NEW i \in K PROVE Rank(K, i) \in 1 .. N
  <2>1. Cardinality(B(i)) # 0
    BY <1>2, FS_EmptySet
  <2> QED
    BY <1>1, <1>2, <2>1
<1>4. ASSUME NEW i \in K, NEW j \in K, i < j PROVE Rank(K, i) < Rank(K, j)
  <2>0. i \in Nat /\ j \in Nat /\ \A k \in K : k \in Nat
    OBVIOUS
  <2>1. B(i) \subseteq B(j) /\ j \in B(j) /\ j \notin B(i) /\ IsFiniteSet(B(j))
    <3>0. \A k \in K : k <= i => k <= j
      BY <1>4, <2>0
    <3>1. B(i) \subseteq B(j)
      BY <3>0
    <3>2. j \notin B(i)
      BY <1>4, <2>0
    <3> QED
      BY <1>2, <3>1, <3>2
  <2> HIDE DEF B
  <2>2. Cardinality(B(i)) < Cardinality(B(j))
    BY <2>1, CountStrict
  <2> QED
    BY <1>2, <2>2
<1>5. \A i, j \in K : Rank(K, i) = Rank(K, j) => i = j
  <2> SUFFICES ASSUME NEW i \in K, NEW j \in K, Rank(K, i) = Rank(K, j), i # j PROVE FALSE
    OBVIOUS
  <2>1. i < j \/ j < i
    OBVIOUS
  <2>2. Rank(K, i) \in Nat /\ Rank(K, j) \in Nat
    BY <1>2
  <2> QED
    BY <1>4, <2>1, <2>2
<1>6. f \in [K -> 1 .. N] /\ \A i \in K : f[i] = Rank(K, i)
  BY <1>3
<1>7. f \in Injection(K, 1 .. N)
  BY <1>5, <1>6 DEF Injection, IsInjective
<1>8. IsFiniteSet(1 .. N) /\ Cardinality(1 .. N) = N
  BY <1>1, FS_Interval
<1> HIDE DEF f
<1>9. f \in Surjection(K, 1 .. N)
  <2> DEFINE S == 1 .. N
  <2>1. f \in Injection(K, S) /\ IsFiniteSet(S) /\ Cardinality(K) = Cardinality(S)
    BY <1>7, <1>8
  <2> HIDE DEF S
  <2>2. f \in Surjection(K, S)
    BY <2>1, FS_Injection
  <2> QED
    BY <2>2 DEF S
<1>10. \A n \in 1 .. N : \E i \in K : Rank(K, i) = n
  BY <1>6, <1>9 DEF Surjection
<1> QED
  BY <1>1, <1>3, <1>5, <1>10

\* A restricted queue has the elements of the places kept, and no two of
\* its elements come from one place.
LEMMA RestrictedElements ==
  ASSUME NEW E, NEW q \in Seq(E), NEW K \in SUBSET DOMAIN q
  PROVE  /\ Restricted(q, K) \in Seq(E) /\ Len(Restricted(q, K)) = Cardinality(K)
         /\ DOMAIN Restricted(q, K) = 1 .. Cardinality(K)
         /\ \A i \in K : \E n \in 1 .. Cardinality(K) : Restricted(q, K)[n] = q[i]
         /\ \E at \in [1 .. Cardinality(K) -> K] :
              /\ \A n \in 1 .. Cardinality(K) : Restricted(q, K)[n] = q[at[n]]
              /\ \A m, n \in 1 .. Cardinality(K) : at[m] = at[n] => m = n
         /\ IsFiniteSet(K) /\ Cardinality(K) \in Nat
<1>1. DOMAIN q = 1 .. Len(q) /\ Len(q) \in Nat /\ \A i \in DOMAIN q : q[i] \in E
  OBVIOUS
<1>2. IsFiniteSet(K) /\ K \subseteq Nat
  <2>1. IsFiniteSet(1 .. Len(q))
    BY <1>1, FS_Interval
  <2> QED
    BY <1>1, <2>1, FS_Subset
<1> DEFINE N == Cardinality(K)
           at == [n \in 1 .. N |-> CHOOSE i \in K : Rank(K, i) = n]
           r == Restricted(q, K)
<1>3. /\ N \in Nat /\ \A i \in K : Rank(K, i) \in 1 .. N
      /\ \A i, j \in K : Rank(K, i) = Rank(K, j) => i = j
      /\ \A n \in 1 .. N : \E i \in K : Rank(K, i) = n
  BY <1>2, RankBijection
<1>4. \A n \in 1 .. N : at[n] \in K /\ Rank(K, at[n]) = n
  BY <1>3
<1>5. r = [n \in 1 .. N |-> q[at[n]]]
  BY DEF Restricted, Rank
<1> HIDE DEF at, r, N
<1>6. at \in [1 .. N -> K] /\ \A m, n \in 1 .. N : at[m] = at[n] => m = n
  <2>1. at \in [1 .. N -> K]
    BY <1>4 DEF at
  <2> QED
    BY <1>4, <2>1
<1>7. r \in Seq(E) /\ Len(r) = N /\ DOMAIN r = 1 .. N
  <2>1. \A n \in 1 .. N : q[at[n]] \in E
    BY <1>1, <1>4
  <2>2. r \in [1 .. N -> E]
    BY <1>5, <2>1
  <2>3. r \in Seq(E)
    BY <1>3, <2>2
  <2> QED
    BY <1>3, <2>2, <2>3
<1>8. \A n \in 1 .. N : r[n] = q[at[n]]
  BY <1>5
<1>9. \A i \in K : \E n \in 1 .. N : r[n] = q[i]
  <2> SUFFICES ASSUME NEW i \in K PROVE \E n \in 1 .. N : r[n] = q[i]
    OBVIOUS
  <2>1. Rank(K, i) \in 1 .. N /\ at[Rank(K, i)] = i
    BY <1>3, <1>4
  <2> QED
    BY <1>8, <2>1
<1> QED
  BY <1>2, <1>3, <1>6, <1>7, <1>8, <1>9 DEF r, N

-----------------------------------------------------------------------------
(***************************************************************************)
(* Sticky sessions: the inductive invariant.  Generations are handed out   *)
(* once, so each dates one occurrence, in the queue or about to be put     *)
(* there; the thread that pops is the one that holds the mutex; and the    *)
(* threads past the capacity check are counted with the entries they are   *)
(* going to insert.                                                        *)
(***************************************************************************)

Binding == [live : {TRUE}, gen : Nat, expired : BOOLEAN, accessed : BOOLEAN]

Operation ==
  {Resting} \cup [pc : {"expired", "sweep", "bound", "lock", "insert"}, key : Keys]
            \cup [pc : {"pop"}, key : Keys, chances : Nat]
            \cup [pc : {"victim"}, key : Keys, chances : Nat, victim : Keys, gen : Nat]
            \cup [pc : {"enqueue"}, key : Keys, gen : Nat]

StoreTypes ==
  /\ map \in [Keys -> {Absent} \cup Binding]
  /\ occurrences \in Seq(Keys \X Nat)
  /\ generation \in Generations
  /\ job \in [StoreThreads -> Operation]

\* The thread that evicts holds the mutex of the queue.
Mutex ==
  /\ lock = Unlocked \/ \E t \in StoreThreads : lock = [held |-> TRUE, by |-> t]
  /\ \A t \in StoreThreads :
      job[t].pc \in {"pop", "victim"} => lock = [held |-> TRUE, by |-> t]

\* Generations are used once.
Dated ==
  /\ \A k \in Keys : Present(k) => map[k].gen < generation
  /\ \A i \in DOMAIN occurrences : occurrences[i][2] < generation
  /\ \A i, j \in DOMAIN occurrences : occurrences[i][2] = occurrences[j][2] => i = j
  /\ \A t \in StoreThreads : At(t, "enqueue") =>
      /\ job[t].gen < generation
      /\ \A i \in DOMAIN occurrences : occurrences[i][2] # job[t].gen
      /\ \A u \in StoreThreads : (At(u, "enqueue") /\ job[u].gen = job[t].gen) => u = t

LiveKeys == {k \in Keys : Present(k)}
Inserting == {t \in StoreThreads : At(t, "insert")}

\* Entries and those about to be inserted.
Overshoot ==
  /\ IsFiniteSet(LiveKeys)
  /\ Cardinality(LiveKeys) + Cardinality(Inserting)
       <= MaxEntries + Cardinality(StoreThreads) - 1

\* The occurrence (k, g) is in the queue q, or an operation x is going to
\* queue it or to evict it.
Queued(q, k, g) == \E i \in DOMAIN q : q[i] = <<k, g>>
InHand(x, k, g) ==
  \/ x.pc = "enqueue" /\ x.key = k /\ x.gen = g
  \/ x.pc = "victim" /\ x.victim = k /\ x.gen = g

Findable ==
  \A k \in Keys : Present(k) =>
    \/ Queued(occurrences, k, map[k].gen)
    \/ \E t \in StoreThreads : InHand(job[t], k, map[k].gen)

StoreInv ==
  StoreTypes /\ Mutex /\ Dated /\ Overshoot /\ QueueBounded /\ Findable

\* The fields of a binding, and its updates.
LEMMA BindingFields ==
  ASSUME NEW x \in {Absent} \cup Binding
  PROVE  /\ x.live \in BOOLEAN /\ (x.live <=> x \in Binding)
         /\ x.live => x.gen \in Nat
<1>1. CASE x = Absent
  BY <1>1 DEF Absent, Binding
<1>2. CASE x \in Binding
  <2>1. x.live = TRUE /\ x.gen \in Nat
    BY <1>2 DEF Binding
  <2> QED
    BY <1>2, <2>1
<1> QED
  BY <1>1, <1>2

\* An update of the times of a binding keeps its generation.
LEMMA BindingTimes ==
  ASSUME NEW x \in Binding
  PROVE  /\ [x EXCEPT !.expired = TRUE] \in Binding
         /\ [x EXCEPT !.accessed = TRUE] \in Binding
         /\ [x EXCEPT !.accessed = TRUE, !.expired = FALSE] \in Binding
         /\ [x EXCEPT !.expired = TRUE].gen = x.gen
         /\ [x EXCEPT !.accessed = TRUE].gen = x.gen
         /\ [x EXCEPT !.accessed = TRUE, !.expired = FALSE].gen = x.gen
<1>1. /\ [x EXCEPT !.expired = TRUE] \in Binding
      /\ [x EXCEPT !.accessed = TRUE] \in Binding
      /\ [x EXCEPT !.accessed = TRUE, !.expired = FALSE] \in Binding
  BY ZenonT(60) DEF Binding
<1>2. /\ [x EXCEPT !.expired = TRUE].gen = x.gen
      /\ [x EXCEPT !.accessed = TRUE].gen = x.gen
      /\ [x EXCEPT !.accessed = TRUE, !.expired = FALSE].gen = x.gen
  BY DEF Binding
<1> QED
  BY <1>1, <1>2

\* A new generation.
LEMMA BindingGen ==
  ASSUME NEW g \in Nat
  PROVE  /\ Fresh(g) \in Binding /\ Fresh(g).gen = g /\ Fresh(g).live
         /\ \A x \in Binding : /\ [x EXCEPT !.gen = g, !.accessed = FALSE] \in Binding
                               /\ [x EXCEPT !.gen = g, !.accessed = FALSE].gen = g
<1>1. Fresh(g) \in Binding
  BY ZenonT(30) DEF Fresh, Binding
<1>2. Fresh(g).gen = g /\ Fresh(g).live
  BY DEF Fresh
<1>3. ASSUME NEW x \in Binding PROVE [x EXCEPT !.gen = g, !.accessed = FALSE] \in Binding
  BY ZenonT(60) DEF Binding
<1>4. ASSUME NEW x \in Binding PROVE [x EXCEPT !.gen = g, !.accessed = FALSE].gen = g
  BY DEF Binding
<1> QED
  BY <1>1, <1>2, <1>3, <1>4

\* The fields of an operation.
LEMMA OperationFields ==
  ASSUME NEW x \in Operation
  PROVE  /\ x.pc \in {"rest", "expired", "sweep", "bound", "lock", "insert", "pop", "victim",
                     "enqueue"}
         /\ x.pc # "rest" => x.key \in Keys
         /\ x.pc \in {"victim", "enqueue"} => x.gen \in Nat
         /\ x.pc \in {"pop", "victim"} => x.chances \in Nat
         /\ x.pc = "victim" => x.victim \in Keys
BY DEF Operation, Resting

\* Finite sets of the store, and its bounds.
LEMMA StoreFinite ==
  /\ IsFiniteSet(StoreThreads) /\ Cardinality(StoreThreads) \in Nat /\ MaxEntries \in Nat
  /\ MaxEntries > 0 /\ IsFiniteSet(Inserting) /\ Cardinality(Inserting) \in Nat
  /\ Cardinality(Inserting) <= Cardinality(StoreThreads)
<1>1. IsFiniteSet(StoreThreads) /\ MaxEntries \in Nat /\ MaxEntries > 0
  BY StoreBounds
<1>2. Inserting \subseteq StoreThreads
  BY DEF Inserting
<1> QED
  BY <1>1, <1>2, CountPart

\* Steps that leave the queue and the generations alone and add no entry.
LEMMA QueueStill ==
  ASSUME StoreInv, Mutex', job' \in [StoreThreads -> Operation],
         occurrences' = occurrences, generation' = generation,
         map' \in [Keys -> {Absent} \cup Binding],
         \A k \in Keys : map'[k].live => map[k].live /\ map'[k].gen = map[k].gen,
         \A u \in StoreThreads : (job[u].pc = "enqueue" \/ job'[u].pc = "enqueue")
                                   => job'[u] = job[u],
         \A u \in StoreThreads : job[u].pc = "victim" =>
            \/ job'[u] = job[u]
            \/ \A k \in Keys : map'[k].live =>
                 ~(job[u].victim = k /\ job[u].gen = map'[k].gen),
         Cardinality(LiveKeys) + Cardinality(Inserting')
           <= MaxEntries + Cardinality(StoreThreads) - 1
  PROVE  StoreInv'
<1>1. StoreTypes /\ Dated /\ Overshoot /\ QueueBounded /\ Findable
  BY DEF StoreInv
<1>2. StoreTypes'
  BY <1>1 DEF StoreTypes
<1>3. Dated'
  BY <1>1 DEF Dated, Present, At
<1>4. QueueBounded'
  BY <1>1 DEF QueueBounded
<1>5. Overshoot'
  <2>1. LiveKeys' \subseteq LiveKeys /\ IsFiniteSet(LiveKeys)
    BY <1>1 DEF LiveKeys, Present, Overshoot
  <2> DEFINE A == LiveKeys
             B == LiveKeys'
  <2>2. IsFiniteSet(B) /\ Cardinality(B) \in Nat /\ Cardinality(A) \in Nat
        /\ Cardinality(B) <= Cardinality(A)
    <3>1. B \subseteq A /\ IsFiniteSet(A)
      BY <2>1
    <3> HIDE DEF A, B
    <3> QED
      BY <3>1, CountPart
  <2> DEFINE a == Cardinality(A)
             b == Cardinality(B)
             c == Cardinality(Inserting')
             n == Cardinality(StoreThreads)
  <2>3. /\ a \in Nat /\ b \in Nat /\ b <= a /\ n \in Nat /\ MaxEntries \in Nat
        /\ a + c <= MaxEntries + n - 1
    BY <2>2, StoreFinite
  <2>4. c \in Nat
    <3>1. Inserting' \subseteq StoreThreads
      BY DEF Inserting
    <3>2. IsFiniteSet(StoreThreads)
      BY StoreFinite
    <3> QED
      BY <3>1, <3>2, CountPart
  <2> HIDE DEF a, b, c, n
  <2>5. b + c <= MaxEntries + n - 1
    BY <2>3, <2>4
  <2> QED
    BY <2>2, <2>5 DEF Overshoot, b, c, n
<1>6. Findable'
  <2> SUFFICES ASSUME NEW k \in Keys, map'[k].live
               PROVE  \/ Queued(occurrences', k, map'[k].gen)
                      \/ \E t \in StoreThreads : InHand(job'[t], k, map'[k].gen)
    BY DEF Findable, Present
  <2>1. map[k].live /\ map'[k].gen = map[k].gen
    OBVIOUS
  <2>2. CASE Queued(occurrences, k, map[k].gen)
    BY <2>1, <2>2
  <2>3. CASE \E t \in StoreThreads : InHand(job[t], k, map[k].gen)
    <3>1. PICK t \in StoreThreads : InHand(job[t], k, map[k].gen)
      BY <2>3
    <3>2. CASE job'[t] = job[t]
      BY <2>1, <3>1, <3>2
    <3>3. CASE job'[t] # job[t]
      BY <2>1, <3>1, <3>3 DEF InHand
    <3> QED
      BY <3>2, <3>3
  <2> QED
    BY <1>1, <2>1, <2>2, <2>3 DEF Findable, Present
<1> QED
  BY <1>2, <1>3, <1>4, <1>5, <1>6 DEF StoreInv

\* No thread is let in by a step that sends none to insert.
LEMMA InsertersFall ==
  ASSUME StoreInv, \A u \in StoreThreads : job'[u].pc = "insert" => job[u].pc = "insert"
  PROVE  Cardinality(LiveKeys) + Cardinality(Inserting')
           <= MaxEntries + Cardinality(StoreThreads) - 1
<1> DEFINE A == Inserting
           B == Inserting'
<1>1. B \subseteq A /\ IsFiniteSet(A)
  BY StoreFinite DEF Inserting, At
<1>2. Cardinality(B) <= Cardinality(A) /\ Cardinality(B) \in Nat /\ Cardinality(A) \in Nat
  <2> HIDE DEF A, B
  <2> QED
    BY <1>1, CountPart
<1>3. /\ Cardinality(LiveKeys) + Cardinality(A) <= MaxEntries + Cardinality(StoreThreads) - 1
      /\ Cardinality(LiveKeys) \in Nat
  BY FS_CardinalityType DEF StoreInv, Overshoot
<1> DEFINE a == Cardinality(A)
           b == Cardinality(B)
           l == Cardinality(LiveKeys)
           n == Cardinality(StoreThreads)
<1>4. /\ a \in Nat /\ b \in Nat /\ b <= a /\ l \in Nat /\ n \in Nat /\ MaxEntries \in Nat
      /\ l + a <= MaxEntries + n - 1
  BY <1>2, <1>3, StoreFinite
<1> HIDE DEF a, b, l, n
<1>5. l + b <= MaxEntries + n - 1
  BY <1>4
<1> QED
  BY <1>5 DEF b, l, n

\* The map n has no binding, and no generation, that the map m has not.
Narrows(m, n) ==
  /\ n \in [Keys -> {Absent} \cup Binding]
  /\ \A k \in Keys : n[k].live => m[k].live /\ n[k].gen = m[k].gen

\* Times of a binding, removals and sweeps narrow the map.
LEMMA MapNarrows ==
  ASSUME StoreTypes
  PROVE  /\ Narrows(map, map) /\ Narrows(map, WithoutExpired)
         /\ \A k \in Keys : Narrows(map, [map EXCEPT ![k] = Absent])
         /\ \A k \in Keys : Present(k) =>
              /\ Narrows(map, [map EXCEPT ![k].expired = TRUE])
              /\ Narrows(map, [map EXCEPT ![k].accessed = TRUE])
              /\ Narrows(map, [map EXCEPT ![k].accessed = TRUE, ![k].expired = FALSE])
<1>1. map \in [Keys -> {Absent} \cup Binding]
  BY DEF StoreTypes
<1>2. ~Absent.live
  BY DEF Absent
<1>3. Narrows(map, map)
  BY <1>1 DEF Narrows
<1>4. Narrows(map, WithoutExpired)
  <2>1. WithoutExpired \in [Keys -> {Absent} \cup Binding]
    BY <1>1 DEF WithoutExpired
  <2>2. \A k \in Keys : WithoutExpired[k].live => WithoutExpired[k] = map[k]
    BY <1>2 DEF WithoutExpired
  <2> QED
    BY <2>1, <2>2 DEF Narrows
<1>5. ASSUME NEW k \in Keys, NEW x \in {Absent} \cup Binding,
             x.live => map[k].live /\ x.gen = map[k].gen
      PROVE  Narrows(map, [map EXCEPT ![k] = x])
  BY <1>1, <1>5 DEF Narrows
<1>6. ASSUME NEW k \in Keys PROVE Narrows(map, [map EXCEPT ![k] = Absent])
  BY <1>2, <1>5
<1>7. ASSUME NEW k \in Keys, Present(k)
      PROVE  /\ Narrows(map, [map EXCEPT ![k].expired = TRUE])
             /\ Narrows(map, [map EXCEPT ![k].accessed = TRUE])
             /\ Narrows(map, [map EXCEPT ![k].accessed = TRUE, ![k].expired = FALSE])
  <2>1. map[k] \in Binding /\ map[k].live
    BY <1>1, <1>7, BindingFields DEF Present
  <2> DEFINE x == [map[k] EXCEPT !.expired = TRUE]
             y == [map[k] EXCEPT !.accessed = TRUE]
             z == [map[k] EXCEPT !.accessed = TRUE, !.expired = FALSE]
  <2>2. /\ x \in Binding /\ y \in Binding /\ z \in Binding
        /\ x.gen = map[k].gen /\ y.gen = map[k].gen /\ z.gen = map[k].gen
    BY <2>1, BindingTimes
  <2>3. /\ [map EXCEPT ![k].expired = TRUE] = [map EXCEPT ![k] = x]
        /\ [map EXCEPT ![k].accessed = TRUE] = [map EXCEPT ![k] = y]
        /\ [map EXCEPT ![k].accessed = TRUE, ![k].expired = FALSE] = [map EXCEPT ![k] = z]
    BY <1>1
  <2> HIDE DEF x, y, z
  <2> QED
    BY <1>5, <2>1, <2>2, <2>3
<1> QED
  BY <1>3, <1>4, <1>6, <1>7

\* An operation goes on.
LEMMA GoesOn ==
  ASSUME StoreTypes, NEW t \in StoreThreads, job[t].pc # "rest",
         NEW p \in {"expired", "sweep", "bound", "lock", "insert"}, Goto(t, p)
  PROVE  \E x \in Operation : x.pc = p /\ job' = [job EXCEPT ![t] = x]
<1>1. job[t].key \in Keys
  BY OperationFields DEF StoreTypes
<1> DEFINE x == [pc |-> p, key |-> job[t].key]
<1>2. x \in Operation /\ x.pc = p
  BY <1>1 DEF Operation
<1>3. job' = [job EXCEPT ![t] = x]
  BY DEF Goto
<1> HIDE DEF x
<1> QED
  BY <1>2, <1>3

\* One operation moves, and none is about to queue: what QueueStill needs.
LEMMA OneMoves ==
  ASSUME StoreInv, NEW t \in StoreThreads, NEW x \in Operation,
         job' = [job EXCEPT ![t] = x],
         job[t].pc # "enqueue", x.pc # "enqueue",
         occurrences' = occurrences, generation' = generation, Narrows(map, map'), Mutex',
         job[t].pc = "victim" => \A k \in Keys : map'[k].live =>
                                    ~(job[t].victim = k /\ job[t].gen = map'[k].gen),
         x.pc = "insert" => Cardinality(LiveKeys) + Cardinality(Inserting')
                              <= MaxEntries + Cardinality(StoreThreads) - 1
  PROVE  StoreInv'
<1>1. job \in [StoreThreads -> Operation]
  BY DEF StoreInv, StoreTypes
<1>2. /\ job' \in [StoreThreads -> Operation] /\ job'[t] = x
      /\ \A u \in StoreThreads \ {t} : job'[u] = job[u]
  BY <1>1
<1>3. /\ map' \in [Keys -> {Absent} \cup Binding]
      /\ \A k \in Keys : map'[k].live => map[k].live /\ map'[k].gen = map[k].gen
  BY DEF Narrows
<1>4. Cardinality(LiveKeys) + Cardinality(Inserting')
        <= MaxEntries + Cardinality(StoreThreads) - 1
  <2>1. CASE x.pc # "insert"
    <3>1. \A u \in StoreThreads : job'[u].pc = "insert" => job[u].pc = "insert"
      BY <1>2, <2>1
    <3> QED
      BY <3>1, InsertersFall
  <2> QED
    BY <2>1
<1>5. \A u \in StoreThreads : (job[u].pc = "enqueue" \/ job'[u].pc = "enqueue")
                                => job'[u] = job[u]
  BY <1>2
<1>6. \A u \in StoreThreads : job[u].pc = "victim" =>
            \/ job'[u] = job[u]
            \/ \A k \in Keys : map'[k].live =>
                 ~(job[u].victim = k /\ job[u].gen = map'[k].gen)
  BY <1>2
<1> QED
  BY <1>2, <1>3, <1>4, <1>5, <1>6, QueueStill

\* The mutex of the queue, when it stays with its thread.
LEMMA MutexStays ==
  ASSUME StoreInv, NEW t \in StoreThreads, NEW x \in Operation,
         job' = [job EXCEPT ![t] = x], lock' = lock,
         x.pc \in {"pop", "victim"} => job[t].pc \in {"pop", "victim"}
  PROVE  Mutex'
<1>1. job \in [StoreThreads -> Operation] /\ Mutex
  BY DEF StoreInv, StoreTypes
<1>2. job'[t] = x /\ \A u \in StoreThreads \ {t} : job'[u] = job[u]
  BY <1>1
<1> QED
  BY <1>1, <1>2 DEF Mutex

\* The mutex of the queue, when its thread gives it back.
LEMMA MutexFreed ==
  ASSUME StoreInv, NEW t \in StoreThreads, NEW x \in Operation,
         job' = [job EXCEPT ![t] = x], job[t].pc \in {"pop", "victim"},
         lock' = Unlocked, x.pc \notin {"pop", "victim"}
  PROVE  Mutex'
<1>1. job \in [StoreThreads -> Operation] /\ Mutex
  BY DEF StoreInv, StoreTypes
<1>2. job'[t] = x /\ \A u \in StoreThreads \ {t} : job'[u] = job[u]
  BY <1>1
<1>3. \A u \in StoreThreads : job[u].pc \in {"pop", "victim"} => u = t
  <2>1. lock.by = t
    BY <1>1 DEF Mutex
  <2> QED
    BY <1>1, <2>1 DEF Mutex
<1> QED
  BY <1>2, <1>3 DEF Mutex

\* Time passes for an entry.
LEMMA ExpireKeeps ==
  ASSUME StoreInv, NEW e \in Keys, Expire(e)
  PROVE  StoreInv'
<1>1. StoreTypes /\ Mutex
  BY DEF StoreInv
<1>2. /\ occurrences' = occurrences /\ generation' = generation /\ job' = job /\ lock' = lock
      /\ map' = [map EXCEPT ![e].expired = TRUE] /\ Present(e)
  BY DEF Expire
<1>3. Narrows(map, map')
  BY <1>1, <1>2, MapNarrows
<1>4. /\ map' \in [Keys -> {Absent} \cup Binding]
      /\ \A k \in Keys : map'[k].live => map[k].live /\ map'[k].gen = map[k].gen
  BY <1>3 DEF Narrows
<1>5. Mutex' /\ job' \in [StoreThreads -> Operation]
  BY <1>1, <1>2 DEF Mutex, StoreTypes
<1>6. Cardinality(LiveKeys) + Cardinality(Inserting')
        <= MaxEntries + Cardinality(StoreThreads) - 1
  BY <1>2, InsertersFall
<1> QED
  BY <1>2, <1>4, <1>5, <1>6, QueueStill

\* get, and a put that finds or makes room.
LEMMA LookupKeeps ==
  ASSUME StoreInv, NEW t \in StoreThreads, NEW e \in Keys, Lookup(t, e) \/ Put(t, e)
  PROVE  StoreInv'
<1>1. StoreTypes /\ job \in [StoreThreads -> Operation] /\ job[t] \in Operation
  BY DEF StoreInv, StoreTypes
<1>2. /\ occurrences' = occurrences /\ generation' = generation /\ lock' = lock
      /\ job[t].pc = "rest"
  BY DEF Lookup, Put, At
<1>3. Narrows(map, map')
  <2>1. CASE Lookup(t, e)
    <3>1. Present(e) /\ (map' = map \/ map' = [map EXCEPT ![e].accessed = TRUE])
      BY <2>1 DEF Lookup
    <3> QED
      BY <1>1, <3>1, MapNarrows
  <2>2. CASE Put(t, e)
    <3>1. \/ Present(e) /\ map' = [map EXCEPT ![e].accessed = TRUE, ![e].expired = FALSE]
          \/ map' = map \/ map' = WithoutExpired
      BY <2>2 DEF Put, maybe_sweep
    <3> QED
      BY <1>1, <3>1, MapNarrows
  <2> QED
    BY <2>1, <2>2
<1>4. PICK x \in Operation : /\ job' = [job EXCEPT ![t] = x]
                             /\ x.pc \in {"rest", "expired", "bound"}
  <2>1. CASE job' = job
    <3>1. job' = [job EXCEPT ![t] = job[t]]
      BY <1>1, <2>1
    <3> QED
      BY <1>1, <1>2, <3>1
  <2>2. CASE job' = [job EXCEPT ![t] = [pc |-> "expired", key |-> e]]
    <3>1. [pc |-> "expired", key |-> e] \in Operation
      BY DEF Operation
    <3> QED
      BY <2>2, <3>1
  <2>3. CASE job' = [job EXCEPT ![t] = [pc |-> "bound", key |-> e]]
    <3>1. [pc |-> "bound", key |-> e] \in Operation
      BY DEF Operation
    <3> QED
      BY <2>3, <3>1
  <2> QED
    BY <2>1, <2>2, <2>3 DEF Lookup, Put
<1>5. Mutex'
  BY <1>2, <1>4, MutexStays
<1> QED
  BY <1>2, <1>3, <1>4, <1>5, OneMoves

\* The end of a miss.
LEMMA MissKeeps ==
  ASSUME StoreInv, NEW t \in StoreThreads, RemoveExpired(t) \/ SweepAfterMiss(t)
  PROVE  StoreInv'
<1>1. StoreTypes /\ job \in [StoreThreads -> Operation] /\ job[t] \in Operation
      /\ map \in [Keys -> {Absent} \cup Binding]
  BY DEF StoreInv, StoreTypes
<1>2. /\ occurrences' = occurrences /\ generation' = generation /\ lock' = lock
      /\ job[t].pc \in {"expired", "sweep"}
  BY DEF RemoveExpired, SweepAfterMiss, At
<1>3. Narrows(map, map')
  <2>1. CASE RemoveExpired(t)
    <3>1. job[t].key \in Keys
      BY <1>1, <1>2, OperationFields
    <3>2. map' = [map EXCEPT ![job[t].key] = Absent] \/ map' = map
      BY <1>1, <2>1, <3>1 DEF RemoveExpired
    <3> QED
      BY <1>1, <3>1, <3>2, MapNarrows
  <2>2. CASE SweepAfterMiss(t)
    <3>1. map' = map \/ map' = WithoutExpired
      BY <2>2 DEF SweepAfterMiss, maybe_sweep
    <3> QED
      BY <1>1, <3>1, MapNarrows
  <2> QED
    BY <2>1, <2>2
<1>4. PICK x \in Operation : job' = [job EXCEPT ![t] = x] /\ x.pc \in {"rest", "sweep"}
  <2>1. CASE RemoveExpired(t)
    <3>1. Goto(t, "sweep") /\ job[t].pc # "rest"
          /\ "sweep" \in {"expired", "sweep", "bound", "lock", "insert"}
      BY <1>2, <2>1 DEF RemoveExpired
    <3> QED
      BY <1>1, <3>1, GoesOn
  <2>2. CASE SweepAfterMiss(t)
    <3>1. Resting \in Operation /\ Resting.pc = "rest"
      BY DEF Operation, Resting
    <3> QED
      BY <2>2, <3>1 DEF SweepAfterMiss, Rest
  <2> QED
    BY <2>1, <2>2
<1>5. Mutex'
  BY <1>2, <1>4, MutexStays
<1> QED
  BY <1>2, <1>3, <1>4, <1>5, OneMoves

\* A thread more that is about to insert.
LEMMA OneInserter ==
  ASSUME StoreInv, NEW t \in StoreThreads, NEW x, job' = [job EXCEPT ![t] = x],
         job[t].pc # "insert"
  PROVE  /\ Cardinality(Inserting') <= Cardinality(Inserting) + 1
         /\ Cardinality(Inserting') \in Nat /\ Cardinality(Inserting) \in Nat
         /\ Cardinality(Inserting') <= Cardinality(StoreThreads)
<1>1. job \in [StoreThreads -> Operation]
  BY DEF StoreInv, StoreTypes
<1> DEFINE A == Inserting
           B == Inserting'
<1>2. B \subseteq A \cup {t} /\ t \notin A /\ IsFiniteSet(A) /\ B \subseteq StoreThreads
      /\ IsFiniteSet(StoreThreads)
  BY <1>1, StoreFinite DEF Inserting, At
<1> HIDE DEF A, B
<1>3. IsFiniteSet(A \cup {t}) /\ Cardinality(A \cup {t}) = Cardinality(A) + 1
  BY <1>2, FS_AddElement
<1>4. Cardinality(B) <= Cardinality(A \cup {t}) /\ Cardinality(B) \in Nat
  BY <1>2, <1>3, CountPart
<1>5. Cardinality(B) <= Cardinality(StoreThreads) /\ Cardinality(A) \in Nat
  BY <1>2, CountPart, FS_CardinalityType
<1>6. Cardinality(B) <= Cardinality(A) + 1
  BY <1>3, <1>4
<1> QED
  BY <1>4, <1>5, <1>6 DEF A, B

\* The capacity check of put.
LEMMA CheckBoundKeeps ==
  ASSUME StoreInv, NEW t \in StoreThreads, CheckBound(t)
  PROVE  StoreInv'
<1>1. StoreTypes /\ job \in [StoreThreads -> Operation] /\ job[t] \in Operation /\ Mutex
  BY DEF StoreInv, StoreTypes
<1>2. /\ occurrences' = occurrences /\ generation' = generation /\ map' = map
      /\ job[t].pc = "bound" /\ job[t].key \in Keys
  BY <1>1, OperationFields DEF CheckBound, At
<1>3. Narrows(map, map')
  BY <1>1, <1>2, MapNarrows
<1>4. CASE Size < MaxEntries
  <2>1. Goto(t, "insert") /\ job[t].pc # "rest" /\ lock' = lock
        /\ "insert" \in {"expired", "sweep", "bound", "lock", "insert"}
    BY <1>2, <1>4 DEF CheckBound, Goto
  <2>2. PICK x \in Operation : x.pc = "insert" /\ job' = [job EXCEPT ![t] = x]
    BY <1>1, <2>1, GoesOn
  <2>3. Mutex'
    BY <2>1, <2>2, MutexStays
  <2>4. Cardinality(LiveKeys) + Cardinality(Inserting')
          <= MaxEntries + Cardinality(StoreThreads) - 1
    <3> DEFINE l == Cardinality(LiveKeys)
               b == Cardinality(Inserting')
               n == Cardinality(StoreThreads)
    <3>1. l < MaxEntries
      BY <1>4 DEF Size, LiveKeys
    <3>2. b \in Nat /\ b <= n /\ n \in Nat /\ MaxEntries \in Nat
      BY <1>2, <2>2, OneInserter, StoreFinite
    <3>3. l \in Nat
      BY FS_CardinalityType DEF StoreInv, Overshoot
    <3> HIDE DEF l, b, n
    <3>4. l + b <= MaxEntries + n - 1
      BY <3>1, <3>2, <3>3
    <3> QED
      BY <3>4 DEF l, b, n
  <2> QED
    BY <1>2, <1>3, <2>2, <2>3, <2>4, OneMoves
<1>5. CASE ~(Size < MaxEntries)
  <2>1. Goto(t, "lock") /\ job[t].pc # "rest" /\ lock' = lock
        /\ "lock" \in {"expired", "sweep", "bound", "lock", "insert"}
    BY <1>2, <1>5 DEF CheckBound, Goto
  <2>2. PICK x \in Operation : x.pc = "lock" /\ job' = [job EXCEPT ![t] = x]
    BY <1>1, <2>1, GoesOn
  <2>3. Mutex'
    BY <2>1, <2>2, MutexStays
  <2> QED
    BY <1>2, <1>3, <2>2, <2>3, OneMoves
<1> QED
  BY <1>4, <1>5

\* evict_one waits for the queue's mutex.
LEMMA LockQueueKeeps ==
  ASSUME StoreInv, NEW t \in StoreThreads, LockQueue(t)
  PROVE  StoreInv'
<1>1. StoreTypes /\ job \in [StoreThreads -> Operation] /\ job[t] \in Operation /\ Mutex
  BY DEF StoreInv, StoreTypes
<1>2. /\ occurrences' = occurrences /\ generation' = generation /\ map' = map
      /\ job[t].pc = "lock" /\ job[t].key \in Keys
  BY <1>1, OperationFields DEF LockQueue, At
<1>3. Narrows(map, map')
  BY <1>1, <1>2, MapNarrows
<1> DEFINE x == [pc |-> "pop", key |-> job[t].key, chances |-> 0]
<1>4. x \in Operation /\ x.pc = "pop"
  BY <1>2 DEF Operation
<1>5. job' = [job EXCEPT ![t] = x] /\ lock = Unlocked /\ lock' = [held |-> TRUE, by |-> t]
  BY DEF LockQueue
<1> HIDE DEF x
<1>6. Mutex'
  <2>1. job'[t] = x /\ \A u \in StoreThreads \ {t} : job'[u] = job[u]
    BY <1>1, <1>5
  <2>2. \A u \in StoreThreads : lock # [held |-> TRUE, by |-> u]
    BY <1>5 DEF Unlocked
  <2> QED
    BY <1>1, <1>5, <2>1, <2>2 DEF Mutex
<1> QED
  BY <1>2, <1>3, <1>4, <1>5, <1>6, OneMoves

\* The victim goes, or has moved on.
LEMMA RemoveVictimKeeps ==
  ASSUME StoreInv, NEW t \in StoreThreads, RemoveVictim(t)
  PROVE  StoreInv'
<1>1. /\ StoreTypes /\ job \in [StoreThreads -> Operation] /\ job[t] \in Operation
      /\ map \in [Keys -> {Absent} \cup Binding]
  BY DEF StoreInv, StoreTypes
<1>2. /\ occurrences' = occurrences /\ generation' = generation /\ job[t].pc = "victim"
      /\ job[t].key \in Keys /\ job[t].victim \in Keys /\ job[t].gen \in Nat
      /\ job[t].chances \in Nat
  BY <1>1, OperationFields DEF RemoveVictim, At
<1> DEFINE v == job[t].victim
<1>3. CASE Present(v) /\ map[v].gen = job[t].gen
  <2>1. /\ map' = [map EXCEPT ![v] = Absent] /\ lock' = Unlocked /\ Goto(t, "bound")
        /\ job[t].pc # "rest" /\ "bound" \in {"expired", "sweep", "bound", "lock", "insert"}
    BY <1>2, <1>3 DEF RemoveVictim
  <2>2. PICK x \in Operation : x.pc = "bound" /\ job' = [job EXCEPT ![t] = x]
    BY <1>1, <2>1, GoesOn
  <2>3. Mutex'
    BY <1>2, <2>1, <2>2, MutexFreed
  <2>4. Narrows(map, map')
    BY <1>1, <1>2, <2>1, MapNarrows
  <2>5. \A k \in Keys : map'[k].live => ~(job[t].victim = k /\ job[t].gen = map'[k].gen)
    BY <1>1, <1>2, <2>1 DEF Absent
  <2> QED
    BY <1>2, <2>2, <2>3, <2>4, <2>5, OneMoves
<1>4. CASE ~(Present(v) /\ map[v].gen = job[t].gen)
  <2> DEFINE x == [pc |-> "pop", key |-> job[t].key, chances |-> job[t].chances]
  <2>1. x \in Operation /\ x.pc = "pop"
    BY <1>2 DEF Operation
  <2>2. job' = [job EXCEPT ![t] = x] /\ map' = map /\ lock' = lock
    BY <1>4 DEF RemoveVictim
  <2> HIDE DEF x
  <2>3. Mutex'
    BY <1>2, <2>1, <2>2, MutexStays
  <2>4. Narrows(map, map')
    BY <1>1, <2>2, MapNarrows
  <2>5. \A k \in Keys : map'[k].live => ~(job[t].victim = k /\ job[t].gen = map'[k].gen)
    BY <1>4, <2>2 DEF Present
  <2> QED
    BY <1>2, <2>1, <2>2, <2>3, <2>4, <2>5, OneMoves
<1> QED
  BY <1>3, <1>4

\* Numbers of the store's sets: a set that a function covers is no larger
\* than the function's domain.
LEMMA CountCovered ==
  ASSUME NEW A, NEW B, NEW f, IsFiniteSet(B), \A a \in A : \E b \in B : f[b] = a
  PROVE  IsFiniteSet(A) /\ Cardinality(A) <= Cardinality(B)
<1> DEFINE U == {f[b] : b \in B}
           g == [b \in B |-> f[b]]
<1>1. g \in [B -> U] /\ \A u \in U : \E b \in B : g[b] = u
  OBVIOUS
<1>2. g \in Surjection(B, U)
  BY <1>1 DEF Surjection
<1>3. A \subseteq U
  OBVIOUS
<1> HIDE DEF U, g
<1>4. IsFiniteSet(U) /\ Cardinality(U) <= Cardinality(B)
  BY <1>2, FS_Surjection
<1>5. /\ IsFiniteSet(A) /\ Cardinality(A) <= Cardinality(U)
      /\ Cardinality(A) \in Nat /\ Cardinality(U) \in Nat
  BY <1>3, <1>4, CountPart
<1>6. Cardinality(B) \in Nat
  BY FS_CardinalityType
<1> QED
  BY <1>4, <1>5, <1>6

\* Two parts that do not meet.
LEMMA CountApart ==
  ASSUME NEW S, NEW A, NEW B, IsFiniteSet(S), A \subseteq S, B \subseteq S, A \cap B = {}
  PROVE  Cardinality(A) + Cardinality(B) <= Cardinality(S)
<1>1. IsFiniteSet(A) /\ IsFiniteSet(B) /\ Cardinality(A) \in Nat /\ Cardinality(B) \in Nat
  BY CountPart
<1>2. Cardinality(A \cup B) = Cardinality(A) + Cardinality(B) - Cardinality(A \cap B)
  BY <1>1, FS_Union
<1>3. Cardinality(A \cap B) = 0
  BY FS_EmptySet
<1>4. A \cup B \subseteq S
  OBVIOUS
<1>5. Cardinality(A \cup B) <= Cardinality(S)
  BY <1>4, CountPart
<1> QED
  BY <1>1, <1>2, <1>3, <1>5

\* The queue is empty: every binding is about to be queued by another thread.
LEMMA NoVictimKeeps ==
  ASSUME StoreInv, NEW t \in StoreThreads, NoVictim(t)
  PROVE  StoreInv'
<1>1. /\ StoreTypes /\ job \in [StoreThreads -> Operation] /\ job[t] \in Operation
      /\ Mutex /\ Findable
  BY DEF StoreInv, StoreTypes
<1>2. /\ occurrences' = occurrences /\ generation' = generation /\ map' = map
      /\ job[t].pc = "pop" /\ occurrences = <<>> /\ lock' = Unlocked
      /\ Goto(t, "insert") /\ job[t].pc # "rest"
      /\ "insert" \in {"expired", "sweep", "bound", "lock", "insert"}
  BY DEF NoVictim, At
<1>3. PICK x \in Operation : x.pc = "insert" /\ job' = [job EXCEPT ![t] = x]
  BY <1>1, <1>2, GoesOn
<1>4. Mutex'
  BY <1>2, <1>3, MutexFreed
<1>5. Narrows(map, map')
  BY <1>1, <1>2, MapNarrows
<1> DEFINE Q == {u \in StoreThreads : job[u].pc = "enqueue"}
           f == [u \in StoreThreads |-> job[u].key]
<1>6. \A k \in LiveKeys : \E u \in Q : f[u] = k
  <2> SUFFICES ASSUME NEW k \in LiveKeys PROVE \E u \in Q : f[u] = k
    OBVIOUS
  <2>1. ~Queued(occurrences, k, map[k].gen)
    BY <1>2 DEF Queued
  <2>2. PICK u \in StoreThreads : InHand(job[u], k, map[k].gen)
    BY <1>1, <2>1 DEF Findable, LiveKeys
  <2>3. job[u].pc # "victim"
    <3> SUFFICES ASSUME job[u].pc = "victim" PROVE FALSE
      OBVIOUS
    <3>1. lock = [held |-> TRUE, by |-> u] /\ lock = [held |-> TRUE, by |-> t]
      BY <1>1, <1>2 DEF Mutex
    <3>2. lock.by = u /\ lock.by = t
      BY <3>1
    <3> QED
      BY <1>2, <3>2
  <2> QED
    BY <2>2, <2>3 DEF InHand
<1>7. IsFiniteSet(StoreThreads) /\ IsFiniteSet(Q)
  BY StoreFinite, CountPart
<1>8. Cardinality(LiveKeys) <= Cardinality(Q)
  <2> HIDE DEF Q, f
  <2> QED
    BY <1>6, <1>7, CountCovered
<1>9. Cardinality(Q) + Cardinality(Inserting') <= Cardinality(StoreThreads)
  <2> DEFINE B == Inserting'
  <2>1. B \subseteq StoreThreads /\ Q \subseteq StoreThreads /\ Q \cap B = {}
    BY <1>1, <1>2, <1>3 DEF Inserting, At
  <2> HIDE DEF B, Q
  <2>2. Cardinality(Q) + Cardinality(B) <= Cardinality(StoreThreads)
    BY <1>7, <2>1, CountApart
  <2> QED
    BY <2>2 DEF B
<1>10. Cardinality(LiveKeys) + Cardinality(Inserting')
        <= MaxEntries + Cardinality(StoreThreads) - 1
  <2> DEFINE l == Cardinality(LiveKeys)
             q == Cardinality(Q)
             b == Cardinality(Inserting')
             n == Cardinality(StoreThreads)
  <2>1. l <= q /\ q + b <= n
    BY <1>8, <1>9
  <2>2. l \in Nat /\ q \in Nat
    BY <1>7, FS_CardinalityType DEF StoreInv, Overshoot
  <2>3. b \in Nat /\ n \in Nat /\ MaxEntries \in Nat /\ MaxEntries > 0
    BY <1>2, <1>3, OneInserter, StoreFinite
  <2> HIDE DEF l, q, b, n
  <2>4. l + b <= MaxEntries + n - 1
    BY <2>1, <2>2, <2>3
  <2> QED
    BY <2>4 DEF l, b, n
<1> QED
  BY <1>2, <1>3, <1>4, <1>5, <1>10, OneMoves

\* Sequences: what is left when the head goes, and what an append adds.
LEMMA TailOf ==
  ASSUME NEW E, NEW q \in Seq(E), q # <<>>
  PROVE  /\ Tail(q) \in Seq(E) /\ Len(Tail(q)) = Len(q) - 1 /\ Len(q) \in Nat
         /\ DOMAIN q = 1 .. Len(q) /\ DOMAIN Tail(q) = 1 .. (Len(q) - 1)
         /\ \A i \in 1 .. (Len(q) - 1) : Tail(q)[i] = q[i + 1]
         /\ Head(q) = q[1] /\ Head(q) \in E /\ 1 \in DOMAIN q
OBVIOUS

\* An element at the end.
LEMMA AppendOf ==
  ASSUME NEW E, NEW q \in Seq(E), NEW e \in E
  PROVE  /\ Append(q, e) \in Seq(E) /\ Len(Append(q, e)) = Len(q) + 1 /\ Len(q) \in Nat
         /\ DOMAIN q = 1 .. Len(q) /\ DOMAIN Append(q, e) = 1 .. (Len(q) + 1)
         /\ \A i \in 1 .. Len(q) : Append(q, e)[i] = q[i]
         /\ Append(q, e)[Len(q) + 1] = e
OBVIOUS

\* The entry of put takes the place that was kept for it.
LEMMA InsertKeeps ==
  ASSUME StoreInv, NEW t \in StoreThreads, Insert(t)
  PROVE  StoreInv'
<1>1. /\ StoreTypes /\ job \in [StoreThreads -> Operation] /\ job[t] \in Operation
      /\ Dated /\ Findable /\ Overshoot /\ QueueBounded
      /\ map \in [Keys -> {Absent} \cup Binding] /\ occurrences \in Seq(Keys \X Nat)
      /\ generation \in 0 .. MaxGeneration /\ MaxGeneration \in Nat
  BY StoreBounds DEF StoreInv, StoreTypes, Generations
<1> DEFINE k == job[t].key
           g == generation
           x == [pc |-> "enqueue", key |-> k, gen |-> g]
<1>2. /\ job[t].pc = "insert" /\ g < MaxGeneration /\ generation' = g + 1
      /\ map' = [map EXCEPT ![k] = Fresh(g)] /\ job' = [job EXCEPT ![t] = x]
      /\ occurrences' = occurrences /\ lock' = lock
  BY DEF Insert, At
<1>3. k \in Keys /\ g \in Nat
  BY <1>1, <1>2, OperationFields
<1>4. x \in Operation /\ x.pc = "enqueue" /\ x.key = k /\ x.gen = g
  BY <1>3 DEF Operation
<1>5. Fresh(g) \in Binding /\ Fresh(g).gen = g /\ Fresh(g).live
  BY <1>3, BindingGen
<1> HIDE DEF x
<1>6. job'[t] = x /\ \A u \in StoreThreads \ {t} : job'[u] = job[u]
  BY <1>1, <1>2
<1>7. map'[k] = Fresh(g) /\ \A e \in Keys \ {k} : map'[e] = map[e]
  BY <1>1, <1>2, <1>3
<1>8. StoreTypes'
  BY <1>1, <1>2, <1>3, <1>4, <1>5 DEF StoreTypes, Generations
<1>9. Mutex'
  BY <1>2, <1>4, MutexStays
<1>10. Dated'
  <2>1. \A e \in Keys : map'[e].live => map'[e].gen < g + 1
    <3>1. \A e \in Keys : map[e].live => map[e].gen \in Nat /\ map[e].gen < g
      BY <1>1, BindingFields DEF Dated, Present
    <3> QED
      BY <1>3, <1>5, <1>7, <3>1
  <2>2. \A i \in DOMAIN occurrences : occurrences[i][2] \in Nat /\ occurrences[i][2] < g
    BY <1>1 DEF Dated
  <2>3. \A u \in StoreThreads \ {t} : job'[u].pc = "enqueue" =>
          /\ job[u].pc = "enqueue" /\ job[u].gen \in Nat /\ job[u].gen < g
          /\ job'[u].gen = job[u].gen
    BY <1>1, <1>6, OperationFields DEF Dated, At
  <2>4. /\ \A i \in DOMAIN occurrences : occurrences[i][2] < g + 1 /\ occurrences[i][2] # g
        /\ \A u \in StoreThreads \ {t} : job'[u].pc = "enqueue" =>
             job'[u].gen < g + 1 /\ job'[u].gen # g
        /\ job'[t].gen < g + 1 /\ job'[t].gen = g
    BY <1>3, <1>4, <1>6, <2>2, <2>3
  <2>5. ASSUME NEW u \in StoreThreads, job'[u].pc = "enqueue"
        PROVE  /\ job'[u].gen < g + 1
               /\ \A i \in DOMAIN occurrences : occurrences[i][2] # job'[u].gen
               /\ \A w \in StoreThreads :
                    (job'[w].pc = "enqueue" /\ job'[w].gen = job'[u].gen) => w = u
    <3>1. CASE u = t
      BY <2>4, <2>5, <3>1
    <3>2. CASE u # t
      <4>1. \A i \in DOMAIN occurrences : occurrences[i][2] # job[u].gen
        BY <1>1, <2>3, <2>5, <3>2 DEF Dated, At
      <4>2. \A w \in StoreThreads : (job[w].pc = "enqueue" /\ job[w].gen = job[u].gen) => w = u
        BY <1>1, <2>3, <2>5, <3>2 DEF Dated, At
      <4> QED
        BY <2>3, <2>4, <2>5, <3>2, <4>1, <4>2
    <3> QED
      BY <3>1, <3>2
  <2>6. \A i, j \in DOMAIN occurrences : occurrences[i][2] = occurrences[j][2] => i = j
    BY <1>1 DEF Dated
  <2> QED
    BY <1>2, <2>1, <2>4, <2>5, <2>6 DEF Dated, Present, At
<1>11. Overshoot'
  <2> DEFINE A == LiveKeys
             B == LiveKeys'
             C == Inserting
             D == Inserting'
  <2>1. B = A \cup {k} /\ IsFiniteSet(A)
    <3>1. IsFiniteSet(A)
      BY <1>1 DEF Overshoot
    <3>2. B = A \cup {k}
      BY <1>3, <1>5, <1>7 DEF LiveKeys, Present
    <3> QED
      BY <3>1, <3>2
  <2>2. D = C \ {t} /\ t \in C
    BY <1>2, <1>4, <1>6 DEF Inserting, At
  <2>3. /\ IsFiniteSet(C) /\ Cardinality(A) + Cardinality(C)
                              <= MaxEntries + Cardinality(StoreThreads) - 1
    BY <1>1, StoreFinite DEF Overshoot
  <2>4. Cardinality(StoreThreads) \in Nat /\ MaxEntries \in Nat
    BY StoreFinite
  <2> HIDE DEF A, B, C, D
  <2>5. IsFiniteSet(B) /\ Cardinality(B) <= Cardinality(A) + 1 /\ Cardinality(B) \in Nat
        /\ Cardinality(A) \in Nat
    <3>1. Cardinality(A \cup {k}) = IF k \in A THEN Cardinality(A) ELSE Cardinality(A) + 1
      BY <2>1, FS_AddElement
    <3>2. IsFiniteSet(A \cup {k})
      BY <2>1, FS_AddElement
    <3>3. Cardinality(A) \in Nat /\ Cardinality(B) \in Nat
      BY <2>1, <3>2, FS_CardinalityType
    <3> QED
      BY <2>1, <3>1, <3>2, <3>3
  <2>6. Cardinality(D) = Cardinality(C) - 1 /\ Cardinality(C) \in Nat /\ Cardinality(D) \in Nat
    BY <2>2, <2>3, FS_RemoveElement, FS_CardinalityType
  <2>7. Cardinality(B) + Cardinality(D) <= MaxEntries + Cardinality(StoreThreads) - 1
    BY <2>3, <2>4, <2>5, <2>6
  <2> QED
    BY <2>5, <2>7 DEF Overshoot, B, D
<1>12. Findable'
  <2> SUFFICES ASSUME NEW e \in Keys, map'[e].live
               PROVE  \/ Queued(occurrences', e, map'[e].gen)
                      \/ \E u \in StoreThreads : InHand(job'[u], e, map'[e].gen)
    BY DEF Findable, Present
  <2>1. CASE e = k
    <3>1. InHand(job'[t], e, map'[e].gen)
      BY <1>4, <1>5, <1>6, <1>7, <2>1 DEF InHand
    <3> QED
      BY <3>1
  <2>2. CASE e # k
    <3>1. map'[e] = map[e]
      BY <1>7, <2>2
    <3>2. CASE Queued(occurrences, e, map[e].gen)
      BY <1>2, <3>1, <3>2
    <3>3. ASSUME NEW u \in StoreThreads, InHand(job[u], e, map[e].gen)
          PROVE  InHand(job'[u], e, map'[e].gen)
      BY <1>2, <1>6, <3>1, <3>3 DEF InHand
    <3> QED
      BY <1>1, <3>1, <3>2, <3>3 DEF Findable, Present
  <2> QED
    BY <2>1, <2>2
<1>13. QueueBounded'
  BY <1>1, <1>2 DEF QueueBounded
<1> QED
  BY <1>8, <1>9, <1>10, <1>11, <1>12, <1>13 DEF StoreInv

\* The queue with the occurrence of t.
Longer(t) == Append(occurrences, <<job[t].key, job[t].gen>>)

\* In it, too, each generation is there once.
LEMMA AppendDated ==
  ASSUME StoreInv, NEW t \in StoreThreads, job[t].pc = "enqueue"
  PROVE  /\ Longer(t) \in Seq(Keys \X Nat) /\ Len(Longer(t)) = Len(occurrences) + 1 /\ Len(occurrences) \in Nat
         /\ DOMAIN Longer(t) = 1 .. Len(Longer(t))
         /\ \A i \in DOMAIN Longer(t) : Longer(t)[i][2] \in Nat /\ Longer(t)[i][2] < generation
         /\ \A i, j \in DOMAIN Longer(t) : Longer(t)[i][2] = Longer(t)[j][2] => i = j
         /\ \A u \in StoreThreads \ {t} : job[u].pc = "enqueue" =>
              \A i \in DOMAIN Longer(t) : Longer(t)[i][2] # job[u].gen
         /\ \A i \in DOMAIN occurrences : i \in DOMAIN Longer(t) /\ Longer(t)[i] = occurrences[i]
         /\ Len(Longer(t)) \in DOMAIN Longer(t) /\ Longer(t)[Len(Longer(t))] = <<job[t].key, job[t].gen>>
<1> DEFINE q == Longer(t)
           o == <<job[t].key, job[t].gen>>
<1>1. /\ Dated /\ occurrences \in Seq(Keys \X Nat) /\ job[t] \in Operation
  BY DEF StoreInv, StoreTypes
<1>2. job[t].key \in Keys /\ job[t].gen \in Nat
  BY <1>1, OperationFields
<1>3. o \in Keys \X Nat /\ o[2] = job[t].gen
  BY <1>2
<1> HIDE DEF o
<1>4. q = Append(occurrences, o)
  BY DEF o, Longer
<1> HIDE DEF q
<1> DEFINE n == Len(occurrences)
<1>5. /\ q \in Seq(Keys \X Nat) /\ Len(q) = n + 1 /\ n \in Nat
      /\ DOMAIN occurrences = 1 .. n /\ DOMAIN q = 1 .. (n + 1)
      /\ (\A i \in 1 .. n : q[i] = occurrences[i]) /\ q[n + 1] = o
  BY <1>1, <1>3, <1>4, AppendOf
<1> HIDE DEF n
<1>6. \A i \in 1 .. (n + 1) : i \in 1 .. n \/ i = n + 1
  BY <1>5
<1>7. \A i \in 1 .. n : occurrences[i][2] \in Nat /\ occurrences[i][2] < generation
                         /\ occurrences[i][2] # job[t].gen
  <2>1. \A i \in 1 .. n : occurrences[i] \in Keys \X Nat
    BY <1>1, <1>5
  <2>2. \A i \in 1 .. n : occurrences[i][2] \in Nat
    BY <2>1
  <2>3. \A i \in 1 .. n : occurrences[i][2] < generation /\ occurrences[i][2] # job[t].gen
    BY <1>1, <1>5 DEF Dated, At
  <2> QED
    BY <2>2, <2>3
<1>8. job[t].gen < generation
  BY <1>1 DEF Dated, At
<1>9. \A i \in DOMAIN q : q[i][2] \in Nat /\ q[i][2] < generation
  BY <1>2, <1>3, <1>5, <1>6, <1>7, <1>8
<1>10. \A i, j \in DOMAIN q : q[i][2] = q[j][2] => i = j
  <2>1. \A i, j \in 1 .. n : occurrences[i][2] = occurrences[j][2] => i = j
    BY <1>1, <1>5 DEF Dated
  <2> QED
    BY <1>3, <1>5, <1>6, <1>7, <2>1
<1>11. \A u \in StoreThreads \ {t} : job[u].pc = "enqueue" =>
         \A i \in DOMAIN q : q[i][2] # job[u].gen
  <2> SUFFICES ASSUME NEW u \in StoreThreads \ {t}, job[u].pc = "enqueue", NEW i \in DOMAIN q
               PROVE  q[i][2] # job[u].gen
    OBVIOUS
  <2>1. job[u].gen # job[t].gen
    BY <1>1 DEF Dated, At
  <2>2. \A j \in 1 .. n : occurrences[j][2] # job[u].gen
    BY <1>1, <1>5 DEF Dated, At
  <2> QED
    BY <1>3, <1>5, <1>6, <2>1, <2>2
<1>12. \A i \in DOMAIN occurrences : i \in DOMAIN q /\ q[i] = occurrences[i]
  BY <1>5
<1>13. Len(q) \in DOMAIN q /\ q[Len(q)] = o
  BY <1>5
<1> QED
  BY <1>5, <1>9, <1>10, <1>11, <1>12, <1>13 DEF n, o, q

\* Compaction keeps the current occurrences, at most one per entry.
LEMMA RetainCurrent ==
  ASSUME StoreInv, NEW q \in Seq(Keys \X Nat),
         \A i, j \in DOMAIN q : q[i][2] = q[j][2] => i = j
  PROVE  /\ Retain(q) \in Seq(Keys \X Nat) /\ Len(Retain(q)) <= Cardinality(LiveKeys)
         /\ Len(Retain(q)) \in Nat
         /\ \A k \in Keys : (Present(k) /\ Queued(q, k, map[k].gen))
                              => Queued(Retain(q), k, map[k].gen)
         /\ \E at \in [DOMAIN Retain(q) -> DOMAIN q] :
              /\ \A n \in DOMAIN Retain(q) : Retain(q)[n] = q[at[n]]
              /\ \A m, n \in DOMAIN Retain(q) : at[m] = at[n] => m = n
<1> DEFINE K == {i \in DOMAIN q : Present(q[i][1]) /\ map[q[i][1]].gen = q[i][2]}
           r == Retain(q)
           E == Keys \X Nat
<1>1. r = Restricted(q, K) /\ K \in SUBSET DOMAIN q
  BY DEF Retain
<1>2. \A i \in K : q[i][1] \in LiveKeys /\ q[i][2] = map[q[i][1]].gen
  BY DEF LiveKeys
<1>3. IsFiniteSet(LiveKeys) /\ q \in Seq(E)
  BY DEF StoreInv, Overshoot
<1>4. \A k \in Keys, i \in DOMAIN q : (Present(k) /\ q[i] = <<k, map[k].gen>>) => i \in K
  OBVIOUS
<1> HIDE DEF K, r, E
<1>5. /\ Restricted(q, K) \in Seq(E) /\ Len(Restricted(q, K)) = Cardinality(K)
      /\ DOMAIN Restricted(q, K) = 1 .. Cardinality(K)
      /\ \A i \in K : \E n \in 1 .. Cardinality(K) : Restricted(q, K)[n] = q[i]
      /\ \E at \in [1 .. Cardinality(K) -> K] :
           /\ \A n \in 1 .. Cardinality(K) : Restricted(q, K)[n] = q[at[n]]
           /\ \A m, n \in 1 .. Cardinality(K) : at[m] = at[n] => m = n
      /\ IsFiniteSet(K) /\ Cardinality(K) \in Nat
  BY <1>1, <1>3, RestrictedElements
<1>6. Cardinality(K) <= Cardinality(LiveKeys)
  <2> DEFINE f == [k \in LiveKeys |-> CHOOSE i \in K : q[i][1] = k]
  <2>1. \A i \in K : \E k \in LiveKeys : f[k] = i
    <3> SUFFICES ASSUME NEW i \in K PROVE f[q[i][1]] = i
      BY <1>2
    <3>1. q[i][1] \in LiveKeys
      BY <1>2
    <3> DEFINE j == CHOOSE j \in K : q[j][1] = q[i][1]
    <3>2. j \in K /\ q[j][1] = q[i][1]
      OBVIOUS
    <3>3. f[q[i][1]] = j
      BY <3>1
    <3> HIDE DEF j, f
    <3>4. q[j][2] = q[i][2] /\ j \in DOMAIN q /\ i \in DOMAIN q
      BY <1>1, <1>2, <3>2
    <3> QED
      BY <3>3, <3>4
  <2> HIDE DEF f
  <2> QED
    BY <1>3, <2>1, CountCovered
<1>7. ASSUME NEW k \in Keys, Present(k), Queued(q, k, map[k].gen)
      PROVE  Queued(r, k, map[k].gen)
  <2>1. PICK i \in DOMAIN q : q[i] = <<k, map[k].gen>>
    BY <1>7 DEF Queued
  <2>2. i \in K
    BY <1>4, <1>7, <2>1
  <2>3. PICK n \in 1 .. Cardinality(K) : Restricted(q, K)[n] = q[i]
    BY <1>5, <2>2
  <2> QED
    BY <1>1, <1>5, <2>1, <2>3 DEF Queued
<1>8. \E at \in [DOMAIN r -> DOMAIN q] :
        /\ \A n \in DOMAIN r : r[n] = q[at[n]]
        /\ \A m, n \in DOMAIN r : at[m] = at[n] => m = n
  <2>1. PICK at \in [1 .. Cardinality(K) -> K] :
           /\ \A n \in 1 .. Cardinality(K) : Restricted(q, K)[n] = q[at[n]]
           /\ \A m, n \in 1 .. Cardinality(K) : at[m] = at[n] => m = n
    BY <1>5
  <2>2. at \in [DOMAIN r -> DOMAIN q]
    BY <1>1, <1>5, <2>1
  <2>3. /\ \A n \in DOMAIN r : r[n] = q[at[n]]
        /\ \A m, n \in DOMAIN r : at[m] = at[n] => m = n
    BY <1>1, <1>5, <2>1
  <2> WITNESS at \in [DOMAIN r -> DOMAIN q]
  <2> QED
    BY <2>3
<1>9. r \in Seq(E) /\ Len(r) <= Cardinality(LiveKeys) /\ Len(r) \in Nat
  BY <1>1, <1>5, <1>6
<1> QED
  BY <1>7, <1>8, <1>9 DEF r, E

\* The occurrence joins the queue, which is compacted past twice the bound.
LEMMA EnqueueKeeps ==
  ASSUME StoreInv, NEW t \in StoreThreads, Enqueue(t)
  PROVE  StoreInv'
<1>1. /\ StoreTypes /\ job \in [StoreThreads -> Operation] /\ job[t] \in Operation
      /\ Dated /\ Findable /\ Overshoot /\ QueueBounded
  BY DEF StoreInv, StoreTypes
<1> DEFINE q == Longer(t)
           r == IF Len(q) > 2 * MaxEntries THEN Retain(q) ELSE q
<1>2. /\ job[t].pc = "enqueue" /\ lock' = lock /\ map' = map /\ generation' = generation
      /\ occurrences' = r /\ job' = [job EXCEPT ![t] = Resting]
  BY DEF Enqueue, At, Rest, Longer
<1>3. Resting \in Operation /\ Resting.pc = "rest"
  BY DEF Operation, Resting
<1>4. job'[t] = Resting /\ \A u \in StoreThreads \ {t} : job'[u] = job[u]
  BY <1>1, <1>2
<1>5. /\ q \in Seq(Keys \X Nat) /\ Len(q) = Len(occurrences) + 1 /\ Len(occurrences) \in Nat
      /\ DOMAIN q = 1 .. Len(q)
      /\ \A i \in DOMAIN q : q[i][2] \in Nat /\ q[i][2] < generation
      /\ \A i, j \in DOMAIN q : q[i][2] = q[j][2] => i = j
      /\ \A u \in StoreThreads \ {t} : job[u].pc = "enqueue" =>
           \A i \in DOMAIN q : q[i][2] # job[u].gen
      /\ \A i \in DOMAIN occurrences : i \in DOMAIN q /\ q[i] = occurrences[i]
      /\ Len(q) \in DOMAIN q /\ q[Len(q)] = <<job[t].key, job[t].gen>>
  BY <1>2, AppendDated
<1> HIDE DEF q
<1>6. /\ Retain(q) \in Seq(Keys \X Nat) /\ Len(Retain(q)) <= Cardinality(LiveKeys)
      /\ Len(Retain(q)) \in Nat
      /\ \A k \in Keys : (Present(k) /\ Queued(q, k, map[k].gen))
                           => Queued(Retain(q), k, map[k].gen)
      /\ \E at \in [DOMAIN Retain(q) -> DOMAIN q] :
           /\ \A n \in DOMAIN Retain(q) : Retain(q)[n] = q[at[n]]
           /\ \A m, n \in DOMAIN Retain(q) : at[m] = at[n] => m = n
  BY <1>5, RetainCurrent
<1>7. \E at \in [DOMAIN r -> DOMAIN q] :
        /\ \A n \in DOMAIN r : r[n] = q[at[n]]
        /\ \A m, n \in DOMAIN r : at[m] = at[n] => m = n
  <2>1. CASE r = q
    <3> DEFINE id == [n \in DOMAIN q |-> n]
    <3>1. id \in [DOMAIN q -> DOMAIN q] /\ \A n \in DOMAIN q : id[n] = n
      OBVIOUS
    <3> HIDE DEF id
    <3> QED
      BY <2>1, <3>1
  <2>2. CASE r = Retain(q)
    <3>1. \E at \in [DOMAIN Retain(q) -> DOMAIN q] :
            /\ \A n \in DOMAIN Retain(q) : Retain(q)[n] = q[at[n]]
            /\ \A m, n \in DOMAIN Retain(q) : at[m] = at[n] => m = n
      BY <1>6
    <3> HIDE DEF r
    <3> QED
      BY ONLY <2>2, <3>1
  <2> QED
    BY <2>1, <2>2
<1>8. r \in Seq(Keys \X Nat)
  BY <1>5, <1>6
<1>9. \A k \in Keys : (Present(k) /\ Queued(q, k, map[k].gen)) => Queued(r, k, map[k].gen)
  BY <1>6
<1>10. QueueBounded'
  <2> DEFINE n == Cardinality(StoreThreads)
             l == Cardinality(LiveKeys)
             c == Cardinality(Inserting)
  <2>1. n \in Nat /\ c \in Nat /\ MaxEntries \in Nat /\ MaxEntries > 0
    BY StoreFinite
  <2>2. l \in Nat /\ l + c <= MaxEntries + n - 1
    BY <1>1, FS_CardinalityType DEF Overshoot
  <2>3. n > 0
    <3>1. n # 0
      BY StoreFinite, FS_EmptySet
    <3> QED
      BY <2>1, <3>1
  <2> DEFINE lr == Len(r)
             lq == Len(q)
  <2>4. lq \in Nat /\ (lr <= l \/ (lr = lq /\ ~(lq > 2 * MaxEntries))) /\ lr \in Nat
    BY <1>5, <1>6
  <2> HIDE DEF n, l, c, lr, lq
  <2>5. lr <= 2 * MaxEntries + n - 1
    BY <2>1, <2>2, <2>3, <2>4
  <2> QED
    BY <1>2, <2>5 DEF QueueBounded, lr, n
<1> HIDE DEF r
<1>11. StoreTypes'
  BY <1>1, <1>2, <1>3, <1>8 DEF StoreTypes
<1>12. Mutex'
  BY <1>2, <1>3, MutexStays
<1>13. Dated'
  <2>1. PICK at \in [DOMAIN r -> DOMAIN q] :
           /\ \A n \in DOMAIN r : r[n] = q[at[n]]
           /\ \A m, n \in DOMAIN r : at[m] = at[n] => m = n
    BY <1>7
  <2>2. \A n \in DOMAIN r : at[n] \in DOMAIN q /\ r[n][2] = q[at[n]][2]
    BY <2>1
  <2>3. \A n \in DOMAIN r : r[n][2] < generation
    BY <1>5, <2>2
  <2>4. \A m, n \in DOMAIN r : r[m][2] = r[n][2] => m = n
    BY <1>5, <2>1, <2>2
  <2>5. \A u \in StoreThreads : job'[u].pc = "enqueue" => u # t /\ job'[u] = job[u]
    BY <1>3, <1>4
  <2>6. \A u \in StoreThreads : job'[u].pc = "enqueue" =>
          /\ job'[u].gen < generation
          /\ \A n \in DOMAIN r : r[n][2] # job'[u].gen
          /\ \A w \in StoreThreads :
               (job'[w].pc = "enqueue" /\ job'[w].gen = job'[u].gen) => w = u
    <3> SUFFICES ASSUME NEW u \in StoreThreads, job'[u].pc = "enqueue"
                 PROVE  /\ job'[u].gen < generation
                        /\ \A n \in DOMAIN r : r[n][2] # job'[u].gen
                        /\ \A w \in StoreThreads :
                             (job'[w].pc = "enqueue" /\ job'[w].gen = job'[u].gen) => w = u
      OBVIOUS
    <3>1. u # t /\ job'[u] = job[u] /\ job[u].pc = "enqueue"
      BY <2>5
    <3>2. /\ job[u].gen < generation
          /\ \A w \in StoreThreads : (job[w].pc = "enqueue" /\ job[w].gen = job[u].gen) => w = u
      BY <1>1, <3>1 DEF Dated, At
    <3>3. \A n \in DOMAIN r : r[n][2] # job[u].gen
      BY <1>5, <2>2, <3>1
    <3> QED
      BY <2>5, <3>1, <3>2, <3>3
  <2>7. \A k \in Keys : map[k].live => map[k].gen < generation
    BY <1>1 DEF Dated, Present
  <2> QED
    BY <1>2, <2>3, <2>4, <2>6, <2>7 DEF Dated, Present, At
<1>14. Overshoot'
  <2>1. \A u \in StoreThreads : job'[u].pc = "insert" => job[u].pc = "insert"
    BY <1>3, <1>4
  <2>2. Cardinality(LiveKeys) + Cardinality(Inserting')
          <= MaxEntries + Cardinality(StoreThreads) - 1
    BY <2>1, InsertersFall
  <2>3. LiveKeys' = LiveKeys
    BY <1>2 DEF LiveKeys, Present
  <2> QED
    BY <1>1, <2>2, <2>3 DEF Overshoot
<1>15. Findable'
  <2> SUFFICES ASSUME NEW k \in Keys, map[k].live
               PROVE  \/ Queued(r, k, map[k].gen)
                      \/ \E u \in StoreThreads : InHand(job'[u], k, map[k].gen)
    BY <1>2 DEF Findable, Present
  <2>1. CASE Queued(occurrences, k, map[k].gen)
    <3>1. Queued(q, k, map[k].gen)
      BY <1>5, <2>1 DEF Queued
    <3> QED
      BY <1>9, <3>1 DEF Present
  <2>2. ASSUME NEW u \in StoreThreads, InHand(job[u], k, map[k].gen)
        PROVE  \/ Queued(r, k, map[k].gen)
               \/ \E w \in StoreThreads : InHand(job'[w], k, map[k].gen)
    <3>1. CASE u = t
      <4>1. q[Len(q)] = <<k, map[k].gen>> /\ Len(q) \in DOMAIN q
        BY <1>2, <1>5, <2>2, <3>1 DEF InHand
      <4>2. Queued(q, k, map[k].gen)
        BY <4>1 DEF Queued
      <4> QED
        BY <1>9, <4>2 DEF Present
    <3>2. CASE u # t
      BY <1>4, <2>2, <3>2
    <3> QED
      BY <3>1, <3>2
  <2> QED
    BY <1>1, <2>1, <2>2 DEF Findable, Present
<1> QED
  BY <1>10, <1>11, <1>12, <1>13, <1>14, <1>15 DEF StoreInv

\* The queue without its head.
LEMMA TailDated ==
  ASSUME StoreInv, occurrences # <<>>
  PROVE  /\ Tail(occurrences) \in Seq(Keys \X Nat) /\ Head(occurrences) \in Keys \X Nat
         /\ Len(Tail(occurrences)) = Len(occurrences) - 1 /\ Len(occurrences) \in Nat
         /\ \A i \in DOMAIN Tail(occurrences) :
              Tail(occurrences)[i][2] \in Nat /\ Tail(occurrences)[i][2] < generation
         /\ \A i, j \in DOMAIN Tail(occurrences) :
              Tail(occurrences)[i][2] = Tail(occurrences)[j][2] => i = j
         /\ \A u \in StoreThreads : job[u].pc = "enqueue" =>
              \A i \in DOMAIN Tail(occurrences) : Tail(occurrences)[i][2] # job[u].gen
         /\ \A k, g : Queued(occurrences, k, g) =>
              Head(occurrences) = <<k, g>> \/ Queued(Tail(occurrences), k, g)
<1> DEFINE q == occurrences
           r == Tail(occurrences)
           n == Len(occurrences)
<1>1. Dated /\ q \in Seq(Keys \X Nat) /\ q # <<>>
  BY DEF StoreInv, StoreTypes
<1>2. /\ r \in Seq(Keys \X Nat) /\ Len(r) = n - 1 /\ n \in Nat
      /\ DOMAIN q = 1 .. n /\ DOMAIN r = 1 .. (n - 1)
      /\ \A i \in 1 .. (n - 1) : r[i] = q[i + 1]
      /\ Head(q) = q[1] /\ Head(q) \in Keys \X Nat /\ 1 \in DOMAIN q
  BY <1>1, TailOf
<1>3. /\ \A i \in DOMAIN q : q[i][2] < generation
      /\ \A i, j \in DOMAIN q : q[i][2] = q[j][2] => i = j
      /\ \A u \in StoreThreads : job[u].pc = "enqueue" =>
           \A i \in DOMAIN q : q[i][2] # job[u].gen
  BY <1>1 DEF Dated, At
<1> HIDE DEF q, r, n
<1>4. \A i \in DOMAIN r : i + 1 \in DOMAIN q /\ r[i] = q[i + 1] /\ i \in Nat
  BY <1>2
<1>5. \A i \in DOMAIN r : r[i][2] \in Nat /\ r[i][2] < generation
  <2>1. \A i \in DOMAIN r : r[i] \in Keys \X Nat
    BY <1>2
  <2> QED
    BY <1>3, <1>4, <2>1
<1>6. \A i, j \in DOMAIN r : r[i][2] = r[j][2] => i = j
  <2> SUFFICES ASSUME NEW i \in DOMAIN r, NEW j \in DOMAIN r, r[i][2] = r[j][2]
               PROVE  i = j
    OBVIOUS
  <2>1. i + 1 = j + 1
    BY <1>3, <1>4
  <2> QED
    BY <1>4, <2>1
<1>7. \A u \in StoreThreads : job[u].pc = "enqueue" => \A i \in DOMAIN r : r[i][2] # job[u].gen
  BY <1>3, <1>4
<1>8. ASSUME NEW k, NEW g, Queued(q, k, g) PROVE Head(q) = <<k, g>> \/ Queued(r, k, g)
  <2>1. PICK i \in DOMAIN q : q[i] = <<k, g>>
    BY <1>8 DEF Queued
  <2>2. CASE i = 1
    BY <1>2, <2>1, <2>2
  <2>3. CASE i # 1
    <3>1. i - 1 \in DOMAIN r /\ r[i - 1] = q[i]
      BY <1>2, <2>1, <2>3
    <3> QED
      BY <2>1, <3>1 DEF Queued
  <2> QED
    BY <2>2, <2>3
<1> QED
  BY <1>2, <1>5, <1>6, <1>7, <1>8 DEF q, r, n

\* A turn of evict_one that takes the head and leaves the entries alone.
LEMMA TailKeeps ==
  ASSUME StoreInv, NEW t \in StoreThreads, NEW x \in Operation,
         job' = [job EXCEPT ![t] = x], occurrences # <<>>, occurrences' = Tail(occurrences),
         map' = map, generation' = generation, lock' = lock,
         job[t].pc = "pop", x.pc \in {"pop", "victim"},
         \A k \in Keys : (Present(k) /\ Head(occurrences) = <<k, map[k].gen>>)
                           => InHand(x, k, map[k].gen)
  PROVE  StoreInv'
<1>1. /\ StoreTypes /\ job \in [StoreThreads -> Operation] /\ job[t] \in Operation
      /\ Dated /\ Findable /\ Overshoot /\ QueueBounded
  BY DEF StoreInv, StoreTypes
<1> DEFINE r == Tail(occurrences)
<1>2. /\ r \in Seq(Keys \X Nat) /\ Len(r) = Len(occurrences) - 1 /\ Len(occurrences) \in Nat
      /\ \A i \in DOMAIN r : r[i][2] \in Nat /\ r[i][2] < generation
      /\ \A i, j \in DOMAIN r : r[i][2] = r[j][2] => i = j
      /\ \A u \in StoreThreads : job[u].pc = "enqueue" => \A i \in DOMAIN r : r[i][2] # job[u].gen
      /\ \A k, g : Queued(occurrences, k, g) => Head(occurrences) = <<k, g>> \/ Queued(r, k, g)
  BY TailDated
<1>3. occurrences' = r
  OBVIOUS
<1> HIDE DEF r
<1>4. job'[t] = x /\ \A u \in StoreThreads \ {t} : job'[u] = job[u]
  BY <1>1
<1>5. StoreTypes'
  BY <1>1, <1>2, <1>3 DEF StoreTypes
<1>6. Mutex'
  BY MutexStays
<1>7. Dated'
  <2>1. \A u \in StoreThreads : job'[u].pc = "enqueue" => job'[u] = job[u]
    BY <1>4
  <2> QED
    BY <1>1, <1>2, <1>3, <2>1 DEF Dated, Present, At
<1>8. Overshoot'
  <2>1. \A u \in StoreThreads : job'[u].pc = "insert" => job[u].pc = "insert"
    BY <1>4
  <2>2. Cardinality(LiveKeys) + Cardinality(Inserting')
          <= MaxEntries + Cardinality(StoreThreads) - 1
    BY <2>1, InsertersFall
  <2>3. LiveKeys' = LiveKeys
    BY DEF LiveKeys, Present
  <2> QED
    BY <1>1, <2>2, <2>3 DEF Overshoot
<1>9. QueueBounded'
  <2> DEFINE a == Len(occurrences)
             b == Len(r)
             n == Cardinality(StoreThreads)
  <2>1. a \in Nat /\ b = a - 1 /\ n \in Nat /\ MaxEntries \in Nat /\ a <= 2 * MaxEntries + n - 1
    BY <1>1, <1>2, StoreFinite DEF QueueBounded
  <2> HIDE DEF a, b, n
  <2>2. b <= 2 * MaxEntries + n - 1
    BY <2>1
  <2> QED
    BY <1>3, <2>2 DEF QueueBounded, b, n
<1>10. Findable'
  <2> SUFFICES ASSUME NEW k \in Keys, map[k].live
               PROVE  \/ Queued(r, k, map[k].gen)
                      \/ \E u \in StoreThreads : InHand(job'[u], k, map[k].gen)
    BY <1>3 DEF Findable, Present
  <2>1. CASE Queued(occurrences, k, map[k].gen)
    <3>1. CASE Head(occurrences) = <<k, map[k].gen>>
      BY <1>4, <3>1 DEF Present
    <3> QED
      BY <1>2, <2>1, <3>1
  <2>2. ASSUME NEW u \in StoreThreads, InHand(job[u], k, map[k].gen)
        PROVE  InHand(job'[u], k, map[k].gen)
    BY <1>4, <2>2 DEF InHand
  <2> QED
    BY <1>1, <2>1, <2>2 DEF Findable, Present
<1> QED
  BY <1>5, <1>6, <1>7, <1>8, <1>9, <1>10 DEF StoreInv

\* A turn of evict_one that spares the head: it gets a new generation and
\* goes to the end.
LEMMA SpareKeeps ==
  ASSUME StoreInv, NEW t \in StoreThreads, NEW x \in Operation,
         job' = [job EXCEPT ![t] = x], occurrences # <<>>,
         job[t].pc = "pop", x.pc = "pop", lock' = lock,
         NEW k \in Keys, Present(k), Head(occurrences) = <<k, map[k].gen>>,
         generation < MaxGeneration, generation' = generation + 1,
         map' = [map EXCEPT ![k].gen = generation, ![k].accessed = FALSE],
         occurrences' = Append(Tail(occurrences), <<k, generation>>)
  PROVE  StoreInv'
<1>1. /\ StoreTypes /\ job \in [StoreThreads -> Operation] /\ job[t] \in Operation
      /\ Dated /\ Findable /\ Overshoot /\ QueueBounded
      /\ map \in [Keys -> {Absent} \cup Binding] /\ generation \in 0 .. MaxGeneration
      /\ MaxGeneration \in Nat
  BY StoreBounds DEF StoreInv, StoreTypes, Generations
<1> DEFINE r == Tail(occurrences)
           g == generation
           o == <<k, g>>
           y == [map[k] EXCEPT !.gen = g, !.accessed = FALSE]
<1>2. /\ r \in Seq(Keys \X Nat) /\ Len(r) = Len(occurrences) - 1 /\ Len(occurrences) \in Nat
      /\ \A i \in DOMAIN r : r[i][2] \in Nat /\ r[i][2] < g
      /\ \A i, j \in DOMAIN r : r[i][2] = r[j][2] => i = j
      /\ \A u \in StoreThreads : job[u].pc = "enqueue" => \A i \in DOMAIN r : r[i][2] # job[u].gen
      /\ \A e, h : Queued(occurrences, e, h) => Head(occurrences) = <<e, h>> \/ Queued(r, e, h)
  BY TailDated
<1>3. g \in Nat /\ o \in Keys \X Nat /\ o[2] = g
  BY <1>1
<1>4. y \in Binding /\ y.gen = g /\ y.live
  <2>1. map[k] \in Binding
    BY <1>1, BindingFields DEF Present
  <2>2. y \in Binding /\ y.gen = g
    BY <1>3, <2>1, BindingGen
  <2> QED
    BY <2>2, BindingFields
<1>5. map' = [map EXCEPT ![k] = y]
  BY <1>1
<1>6. map'[k] = y /\ \A e \in Keys \ {k} : map'[e] = map[e]
  BY <1>1, <1>5
<1>7. job'[t] = x /\ \A u \in StoreThreads \ {t} : job'[u] = job[u]
  BY <1>1
<1> DEFINE q == Append(r, o)
           n == Len(r)
<1>8. occurrences' = q
  OBVIOUS
<1> HIDE DEF r, y, o
<1>9. /\ q \in Seq(Keys \X Nat) /\ Len(q) = n + 1 /\ n \in Nat
      /\ DOMAIN r = 1 .. n /\ DOMAIN q = 1 .. (n + 1)
      /\ (\A i \in 1 .. n : q[i] = r[i]) /\ q[n + 1] = o
  BY <1>2, <1>3, AppendOf
<1> HIDE DEF q
<1>10. StoreTypes'
  <2>1. map' \in [Keys -> {Absent} \cup Binding]
    BY <1>1, <1>4, <1>5
  <2>2. generation' \in Generations
    BY <1>1 DEF Generations
  <2> QED
    BY <1>1, <1>8, <1>9, <2>1, <2>2 DEF StoreTypes
<1>11. Mutex'
  BY MutexStays
<1>12. Dated'
  <2>1. \A i \in 1 .. (n + 1) : i \in 1 .. n \/ i = n + 1
    BY <1>9
  <2> HIDE DEF n
  <2>7. \A i \in 1 .. n : q[i][2] = r[i][2] /\ r[i][2] \in Nat /\ r[i][2] < g
    BY <1>2, <1>9
  <2>8. q[n + 1][2] = g
    BY <1>3, <1>9
  <2>2. \A i \in DOMAIN q : q[i][2] < g + 1
    <3> SUFFICES ASSUME NEW i \in DOMAIN q PROVE q[i][2] < g + 1
      OBVIOUS
    <3>1. i \in 1 .. n \/ i = n + 1
      BY <1>9, <2>1
    <3>2. CASE i \in 1 .. n
      BY <1>3, <2>7, <3>2
    <3>3. CASE i = n + 1
      BY <1>3, <2>8, <3>3
    <3> QED
      BY <3>1, <3>2, <3>3
  <2>3. \A i, j \in DOMAIN q : q[i][2] = q[j][2] => i = j
    <3> SUFFICES ASSUME NEW i \in DOMAIN q, NEW j \in DOMAIN q, q[i][2] = q[j][2] PROVE i = j
      OBVIOUS
    <3>1. (i \in 1 .. n \/ i = n + 1) /\ (j \in 1 .. n \/ j = n + 1)
      BY <1>9, <2>1
    <3>2. \A m \in 1 .. n : q[m][2] # g
      BY <1>3, <2>7
    <3>3. CASE i \in 1 .. n /\ j \in 1 .. n
      <4>1. r[i][2] = r[j][2] /\ i \in DOMAIN r /\ j \in DOMAIN r
        BY <1>9, <2>7, <3>3
      <4> QED
        BY <1>2, <4>1
    <3> QED
      BY <2>8, <3>1, <3>2, <3>3
  <2>4. ASSUME NEW u \in StoreThreads, job'[u].pc = "enqueue"
        PROVE  /\ job'[u].gen < g + 1
               /\ \A i \in DOMAIN q : q[i][2] # job'[u].gen
               /\ \A w \in StoreThreads :
                    (job'[w].pc = "enqueue" /\ job'[w].gen = job'[u].gen) => w = u
    <3>1. u # t /\ job'[u] = job[u] /\ job[u].pc = "enqueue" /\ job[u].gen \in Nat
      BY <1>1, <1>7, <2>4, OperationFields
    <3>2. /\ job[u].gen < g
          /\ \A w \in StoreThreads : (job[w].pc = "enqueue" /\ job[w].gen = job[u].gen) => w = u
      BY <1>1, <3>1 DEF Dated, At
    <3>3. \A i \in 1 .. n : r[i][2] # job[u].gen
      BY <1>2, <1>9, <3>1
    <3>4. job[u].gen # g /\ job[u].gen < g + 1
      BY <1>3, <3>1, <3>2
    <3>5. \A i \in DOMAIN q : q[i][2] # job[u].gen
      BY <1>3, <1>9, <2>1, <3>3, <3>4
    <3>6. \A w \in StoreThreads : job'[w].pc = "enqueue" => job'[w] = job[w]
      BY <1>7
    <3> QED
      BY <3>1, <3>2, <3>4, <3>5, <3>6
  <2>5. \A e \in Keys : map'[e].live => map'[e].gen < g + 1
    <3>1. \A e \in Keys : map[e].live => map[e].gen \in Nat /\ map[e].gen < g
      BY <1>1, BindingFields DEF Dated, Present
    <3>2. ASSUME NEW e \in Keys \ {k}, map'[e].live PROVE map'[e].gen < g + 1
      <4>1. map'[e] = map[e]
        BY <1>6
      <4> DEFINE h == map[e].gen
      <4>2. h \in Nat /\ h < g
        BY <3>1, <3>2, <4>1
      <4> HIDE DEF h
      <4>3. h < g + 1
        BY <1>3, <4>2
      <4> QED
        BY <4>1, <4>3 DEF h
    <3>3. map'[k].gen < g + 1
      BY <1>3, <1>4, <1>6
    <3> QED
      BY <3>2, <3>3
  <2> QED
    BY <1>8, <2>2, <2>3, <2>4, <2>5 DEF Dated, Present, At
<1>13. Overshoot'
  <2>1. \A u \in StoreThreads : job'[u].pc = "insert" => job[u].pc = "insert"
    BY <1>7
  <2>2. Cardinality(LiveKeys) + Cardinality(Inserting')
          <= MaxEntries + Cardinality(StoreThreads) - 1
    BY <2>1, InsertersFall
  <2>3. LiveKeys' = LiveKeys
    BY <1>4, <1>6 DEF LiveKeys, Present
  <2> QED
    BY <1>1, <2>2, <2>3 DEF Overshoot
<1>14. QueueBounded'
  <2>1. Len(q) = Len(occurrences)
    BY <1>2, <1>9
  <2> QED
    BY <1>1, <1>8, <2>1 DEF QueueBounded
<1>15. Findable'
  <2> SUFFICES ASSUME NEW e \in Keys, map'[e].live
               PROVE  \/ Queued(q, e, map'[e].gen)
                      \/ \E u \in StoreThreads : InHand(job'[u], e, map'[e].gen)
    BY <1>8 DEF Findable, Present
  <2>1. CASE e = k
    <3>1. q[n + 1] = <<e, map'[e].gen>> /\ n + 1 \in DOMAIN q
      BY <1>4, <1>6, <1>9, <2>1 DEF o
    <3> QED
      BY <3>1 DEF Queued
  <2>2. CASE e # k
    <3>1. map'[e] = map[e] /\ map[e].live
      BY <1>6, <2>2
    <3>2. CASE Queued(occurrences, e, map[e].gen)
      <4>1. Head(occurrences) # <<e, map[e].gen>>
        BY <2>2
      <4>2. PICK i \in DOMAIN r : r[i] = <<e, map[e].gen>>
        BY <1>2, <3>2, <4>1 DEF Queued
      <4>3. i \in DOMAIN q /\ q[i] = <<e, map[e].gen>>
        BY <1>9, <4>2
      <4> QED
        BY <3>1, <4>3 DEF Queued
    <3>3. ASSUME NEW u \in StoreThreads, InHand(job[u], e, map[e].gen)
          PROVE  InHand(job'[u], e, map'[e].gen)
      BY <1>7, <3>1, <3>3 DEF InHand
    <3> QED
      BY <1>1, <3>1, <3>2, <3>3 DEF Findable, Present
  <2> QED
    BY <2>1, <2>2
<1> QED
  BY <1>10, <1>11, <1>12, <1>13, <1>14, <1>15 DEF StoreInv

\* One turn of evict_one.
LEMMA PopKeeps ==
  ASSUME StoreInv, NEW t \in StoreThreads, PopOccurrence(t)
  PROVE  StoreInv'
<1>1. /\ job \in [StoreThreads -> Operation] /\ job[t] \in Operation
  BY DEF StoreInv, StoreTypes
<1> DEFINE k == Head(occurrences)[1]
           g == Head(occurrences)[2]
           current == Present(k) /\ map[k].gen = g
           spared == /\ Lru /\ job[t].chances < Chances
                     /\ ~map[k].expired /\ map[k].accessed
<1>2. /\ job[t].pc = "pop" /\ occurrences # <<>> /\ lock' = lock
      /\ job[t].key \in Keys /\ job[t].chances \in Nat
  BY <1>1, OperationFields DEF PopOccurrence, At
<1>3. Head(occurrences) = <<k, g>> /\ k \in Keys /\ g \in Nat
  <2>1. Head(occurrences) \in Keys \X Nat
    BY <1>2, TailDated
  <2> QED
    BY <2>1
<1>4. ASSUME ~current, occurrences' = Tail(occurrences),
             map' = map, generation' = generation, job' = job
      PROVE  StoreInv'
  <2>1. job' = [job EXCEPT ![t] = job[t]]
    BY <1>1, <1>4
  <2>2. \A e \in Keys : (Present(e) /\ Head(occurrences) = <<e, map[e].gen>>)
                          => InHand(job[t], e, map[e].gen)
    BY <1>3, <1>4
  <2> QED
    BY <1>1, <1>2, <1>4, <2>1, <2>2, TailKeeps
<1>5. ASSUME current, generation < MaxGeneration, generation' = generation + 1,
             map' = [map EXCEPT ![k].gen = generation, ![k].accessed = FALSE],
             occurrences' = Append(Tail(occurrences), <<k, generation>>),
             job' = [job EXCEPT ![t].chances = @ + 1]
      PROVE  StoreInv'
  <2> DEFINE x == [pc |-> "pop", key |-> job[t].key, chances |-> job[t].chances + 1]
  <2>1. x \in Operation /\ x.pc = "pop"
    BY <1>2 DEF Operation
  <2>2. job[t] \in [pc : {"pop"}, key : Keys, chances : Nat]
    BY <1>1, <1>2 DEF Operation, Resting
  <2>3. [job[t] EXCEPT !.chances = @ + 1] = x
    BY <2>2
  <2>4. job' = [job EXCEPT ![t] = x]
    BY <1>1, <1>5, <2>3
  <2> HIDE DEF x
  <2>5. Present(k) /\ Head(occurrences) = <<k, map[k].gen>>
    BY <1>3, <1>5
  <2> HIDE DEF k
  <2> QED
    BY <1>2, <1>3, <1>5, <2>1, <2>4, <2>5, SpareKeeps
<1>6. ASSUME current, occurrences' = Tail(occurrences), map' = map, generation' = generation,
             job' = [job EXCEPT ![t] = [pc |-> "victim", key |-> @.key,
                        chances |-> @.chances, victim |-> k, gen |-> g]]
      PROVE  StoreInv'
  <2> DEFINE x == [pc |-> "victim", key |-> job[t].key, chances |-> job[t].chances,
                   victim |-> k, gen |-> g]
  <2>1. x \in Operation /\ x.pc = "victim" /\ x.victim = k /\ x.gen = g
    BY <1>2, <1>3 DEF Operation
  <2>2. job' = [job EXCEPT ![t] = x]
    BY <1>1, <1>6
  <2> HIDE DEF x
  <2>3. \A e \in Keys : (Present(e) /\ Head(occurrences) = <<e, map[e].gen>>)
                          => InHand(x, e, map[e].gen)
    BY <2>1 DEF InHand
  <2> QED
    BY <1>2, <1>6, <2>1, <2>2, <2>3, TailKeeps
<1> QED
  BY <1>4, <1>5, <1>6 DEF PopOccurrence

\* The invariant of the store holds in every state.
LEMMA StoreInvariant == StoreSpec => []StoreInv
<1>1. StoreInit => StoreInv
  <2> SUFFICES ASSUME StoreInit PROVE StoreInv
    OBVIOUS
  <2>1. /\ map = [k \in Keys |-> Absent] /\ occurrences = <<>> /\ lock = Unlocked
        /\ generation = 0 /\ job = [t \in StoreThreads |-> Resting]
    BY DEF StoreInit
  <2>2. Resting \in Operation /\ Resting.pc = "rest" /\ ~Absent.live
    BY DEF Operation, Resting, Absent
  <2>3. /\ \A t \in StoreThreads : job[t].pc = "rest"
        /\ \A k \in Keys : ~map[k].live
    BY <2>1, <2>2
  <2>4. StoreTypes
    BY <2>1, <2>2, StoreBounds DEF StoreTypes, Generations
  <2>5. Mutex /\ Dated /\ Findable
    BY <2>1, <2>3 DEF Mutex, Dated, Findable, Present, At
  <2>6. LiveKeys = {} /\ Inserting = {}
    BY <2>3 DEF LiveKeys, Inserting, Present, At
  <2>7. IsFiniteSet(LiveKeys) /\ Cardinality(LiveKeys) = 0 /\ Cardinality(Inserting) = 0
    BY <2>6, FS_EmptySet
  <2>8. Overshoot
    BY <2>7, StoreFinite DEF Overshoot
  <2>9. QueueBounded
    <3>1. Len(occurrences) = 0
      BY <2>1
    <3> QED
      BY <3>1, StoreFinite DEF QueueBounded
  <2> QED
    BY <2>4, <2>5, <2>8, <2>9 DEF StoreInv
<1>2. StoreInv /\ [StoreNext]_storeVars => StoreInv'
  <2> SUFFICES ASSUME StoreInv, [StoreNext]_storeVars PROVE StoreInv'
    OBVIOUS
  <2>1. ASSUME NEW k \in Keys, Expire(k) PROVE StoreInv'
    BY <2>1, ExpireKeeps
  <2>2. ASSUME NEW t \in StoreThreads, StoreStep(t) PROVE StoreInv'
    BY <2>2, LookupKeeps, MissKeeps, CheckBoundKeeps, LockQueueKeeps, PopKeeps,
       RemoveVictimKeeps, NoVictimKeeps, InsertKeeps, EnqueueKeeps DEF StoreStep
  <2>3. CASE UNCHANGED storeVars
    BY <2>3 DEF storeVars, StoreInv, StoreTypes, Mutex, Dated, Overshoot, LiveKeys, Inserting,
                Present, At, QueueBounded, Findable
  <2> QED
    BY <2>1, <2>2, <2>3 DEF StoreNext, Exhausted
<1> QED
  BY <1>1, <1>2, PTL DEF StoreSpec

\* Every binding can still be evicted, however the puts, the evictions and
\* the compaction of the queue interleave: its current occurrence is queued
\* or in some thread's hands (evict_one, enqueue_occurrence).
THEOREM EvictionCorrect == StoreSpec => []EveryEntryEvictable
<1>1. StoreInv => EveryEntryEvictable
  <2> SUFFICES ASSUME StoreInv, NEW k \in Keys, Present(k)
               PROVE  \/ \E i \in DOMAIN occurrences : occurrences[i] = <<k, map[k].gen>>
                      \/ \E t \in StoreThreads :
                          /\ job[t].pc \in {"enqueue", "victim"}
                          /\ <<k, map[k].gen>> = IF At(t, "victim")
                                                 THEN <<job[t].victim, job[t].gen>>
                                                 ELSE <<job[t].key, job[t].gen>>
    BY DEF EveryEntryEvictable
  <2>1. CASE Queued(occurrences, k, map[k].gen)
    BY <2>1 DEF Queued
  <2>2. ASSUME NEW t \in StoreThreads, InHand(job[t], k, map[k].gen)
        PROVE  /\ job[t].pc \in {"enqueue", "victim"}
               /\ <<k, map[k].gen>> = IF At(t, "victim") THEN <<job[t].victim, job[t].gen>>
                                      ELSE <<job[t].key, job[t].gen>>
    BY <2>2 DEF InHand, At
  <2> QED
    BY <2>1, <2>2 DEF StoreInv, Findable
<1> QED
  BY <1>1, StoreInvariant, PTL

\* The store outgrows its bound by less than one entry per thread and its
\* queue by less than one occurrence per thread, for any bound and however
\* many puts race past the capacity check (put, enqueue_occurrence).
THEOREM BoundsCorrect == StoreSpec => []StoreBounded
<1>1. StoreInv => StoreBounded
  <2> SUFFICES ASSUME StoreInv PROVE OvershootBounded
    BY DEF StoreBounded, StoreInv
  <2> DEFINE l == Cardinality(LiveKeys)
             c == Cardinality(Inserting)
             n == Cardinality(StoreThreads)
  <2>1. /\ l + c <= MaxEntries + n - 1 /\ l \in Nat /\ c \in Nat /\ n \in Nat
        /\ MaxEntries \in Nat
    BY StoreFinite, FS_CardinalityType DEF StoreInv, Overshoot
  <2>2. Size = l
    BY DEF Size, LiveKeys
  <2> HIDE DEF l, c, n
  <2>3. l <= MaxEntries + n - 1
    BY <2>1
  <2> QED
    BY <2>2, <2>3 DEF OvershootBounded, n
<1> QED
  BY <1>1, StoreInvariant, PTL

\* The store's types.
LEMMA StoreTypesHold == StoreInv => StoreTypeOK
<1> SUFFICES ASSUME StoreInv PROVE StoreTypeOK
  OBVIOUS
<1>1. /\ map \in [Keys -> {Absent} \cup Binding] /\ occurrences \in Seq(Keys \X Nat)
      /\ generation \in 0 .. MaxGeneration /\ MaxGeneration \in Nat
      /\ job \in [StoreThreads -> Operation] /\ Dated /\ Mutex
  BY StoreBounds DEF StoreInv, StoreTypes, Generations
<1>2. \A k \in Keys : Present(k) => map[k].gen \in Generations
  <2>1. \A k \in Keys : Present(k) => map[k].gen \in Nat /\ map[k].gen < generation
    BY <1>1, BindingFields DEF Dated, Present
  <2> QED
    BY <1>1, <2>1 DEF Generations
<1>3. \A i \in DOMAIN occurrences : occurrences[i][1] \in Keys /\ occurrences[i][2] \in Generations
  <2>1. \A i \in DOMAIN occurrences : occurrences[i] \in Keys \X Nat
    BY <1>1
  <2>2. \A i \in DOMAIN occurrences : occurrences[i][1] \in Keys /\ occurrences[i][2] \in Nat
    BY <2>1
  <2>3. \A i \in DOMAIN occurrences : occurrences[i][2] < generation
    BY <1>1 DEF Dated
  <2> QED
    BY <1>1, <2>2, <2>3 DEF Generations
<1>4. lock.held => lock.by \in StoreThreads
  BY <1>1 DEF Mutex, Unlocked
<1>5. \A t \in StoreThreads : job[t].pc \in {"rest", "expired", "sweep", "bound", "lock", "pop",
                                             "victim", "insert", "enqueue"}
  BY <1>1, OperationFields
<1> QED
  BY <1>1, <1>2, <1>3, <1>4, <1>5 DEF StoreTypeOK, Generations

\* get never removes what a concurrent put refreshed or replaced after get
\* looked: it looks again under the shard's lock (get, remove_if).
THEOREM RefreshCorrect == StoreSpec => RefreshedSurvives
<1> DEFINE Survives == \A t \in StoreThreads, k \in Keys :
               (At(t, "expired") /\ job'[t] # job[t] /\ Present(k) /\ ~map[k].expired)
                 => map'[k] = map[k]
<1>1. StoreInv /\ [StoreNext]_storeVars => [Survives]_storeVars
  <2> SUFFICES ASSUME StoreInv, StoreNext, NEW t \in StoreThreads, NEW k \in Keys,
                      At(t, "expired"), job'[t] # job[t], Present(k), ~map[k].expired
               PROVE  map'[k] = map[k]
    OBVIOUS
  <2>1. /\ map \in [Keys -> {Absent} \cup Binding] /\ job \in [StoreThreads -> Operation]
    BY DEF StoreInv, StoreTypes
  <2>2. job' # job
    OBVIOUS
  <2>3. PICK u \in StoreThreads : StoreStep(u)
    BY <2>2 DEF StoreNext, Expire, Exhausted, storeVars
  <2>4. \A w \in StoreThreads \ {u} : job'[w] = job[w]
    BY <2>1, <2>3 DEF StoreStep, Lookup, Put, RemoveExpired, SweepAfterMiss, CheckBound,
                      LockQueue, PopOccurrence, RemoveVictim, NoVictim, Insert, Enqueue, Goto, Rest
  <2>5. u = t
    BY <2>4
  <2>6. RemoveExpired(t)
    BY <2>3, <2>5 DEF StoreStep, Lookup, Put, SweepAfterMiss, CheckBound, LockQueue, PopOccurrence,
                      RemoveVictim, NoVictim, Insert, Enqueue, At
  <2>7. map' = [map EXCEPT ![job[t].key] = IF Present(job[t].key) /\ @.expired THEN Absent ELSE @]
    BY <2>6 DEF RemoveExpired
  <2> QED
    BY <2>1, <2>7
<1> QED
  BY <1>1, StoreInvariant, PTL DEF StoreSpec, RefreshedSurvives

-----------------------------------------------------------------------------
(***************************************************************************)
(* The rate limiter: the inductive invariant.                              *)
(***************************************************************************)

Bucket == [tracked : {TRUE}, tokens : 0 .. Burst, last : Nat]

Stages == {"read", "claim", "retain", "subtract", "get", "cap", "insert", "count"}

Acquisition ==
  [pc : Stages, client : Clients, now : Nat, last : Nat, left : SUBSET Clients,
   evicted : Nat]

Counted == [open : {TRUE}, since : Nat, from : Nat, admitted : Nat]

LimitTypes ==
  /\ instant \in 0 .. MaxInstant /\ lastEviction \in Nat /\ entries \in Nat
  /\ buckets \in [Clients -> {NoBucket} \cup Bucket]
  /\ call \in [LimitThreads -> {NoCall} \cup Acquisition]
  /\ window \in {[open |-> FALSE]} \cup Counted

\* Nothing is dated later than now.
LimitTimes ==
  /\ lastEviction <= instant
  /\ \A c \in Tracked : buckets[c].last <= instant
  /\ \A t \in LimitThreads : call[t].pc # "rest" => call[t].now <= instant
  /\ window.open => window.since <= window.from /\ window.from <= instant

\* What a call has yet to take off the count.
Unsubtracted(x) == IF x.pc = "rest" THEN 0 ELSE x.evicted

\* The count lags and leads by what is under way, and only a pass that removed
\* buckets owes it anything.
LimitCounts ==
  /\ IsFiniteSet(Tracked) /\ CountsEvery
  /\ \A t \in LimitThreads :
       call[t].pc \notin {"rest", "retain", "subtract"} => call[t].evicted = 0

\* A bucket that is not counted yet is in the map, behind the lock of one
\* thread.
LimitLocks ==
  /\ \A t \in Uncounted : call[t].client \in Tracked
  /\ \A s, t \in Uncounted : call[s].client = call[t].client => s = t

Inserters == {t \in LimitThreads : call[t].pc = "insert"}

\* A thread past the check of the cap has a place reserved.
LimitRoom ==
  Cardinality(Tracked) + Cardinality(Inserters)
    <= HardCap + Cardinality(LimitThreads) - 1

\* The admissions a bucket of k tokens, refilled last at l, still has to give
\* until i to requests that read the clock at r or later.
Credit(k, l, r, i) ==
  IF l >= r THEN k + (i - l)
  ELSE IF k + (r - l) <= Burst THEN k + (i - l)
  ELSE Burst + (i - r)

\* A client without a bucket has a full one coming.
Promise ==
  IF buckets[Observed].tracked
  THEN Credit(buckets[Observed].tokens, buckets[Observed].last, window.from, instant)
  ELSE Burst + (instant - window.from)

\* What the observed client got and what it can still get stay in bounds.
LimitCredit ==
  window.open => window.admitted + Promise <= Burst + (instant - window.since)

LimitInv ==
  LimitTypes /\ LimitTimes /\ LimitCounts /\ LimitLocks /\ LimitRoom /\ LimitCredit

-----------------------------------------------------------------------------
(***************************************************************************)
(* The rate limiter: arithmetic of one bucket.                             *)
(***************************************************************************)

\* The greater and the lesser of two numbers.
LEMMA MaxMinTwo ==
  ASSUME NEW m \in Int, NEW n \in Int
  PROVE  /\ Max({m, n}) = IF m >= n THEN m ELSE n
         /\ Min({m, n}) = IF m <= n THEN m ELSE n
<1>1. \A k \in {m, n} : (\A j \in {m, n} : k >= j) <=> k = IF m >= n THEN m ELSE n
  OBVIOUS
<1>2. \A k \in {m, n} : (\A j \in {m, n} : k <= j) <=> k = IF m <= n THEN m ELSE n
  OBVIOUS
<1>3. (IF m >= n THEN m ELSE n) \in {m, n} /\ (IF m <= n THEN m ELSE n) \in {m, n}
  OBVIOUS
<1>4. Max({m, n}) = IF m >= n THEN m ELSE n
  BY <1>1, <1>3 DEF Max
<1>5. Min({m, n}) = IF m <= n THEN m ELSE n
  BY <1>2, <1>3 DEF Min
<1> QED
  BY <1>4, <1>5

\* The limiter's constants are numbers.
LEMMA LimitNumbers ==
  /\ Burst \in Nat /\ Burst >= 1 /\ HardCap \in Nat /\ HardCap >= 1 /\ MaxInstant \in Nat
  /\ IsFiniteSet(LimitThreads) /\ Cardinality(LimitThreads) \in Nat /\ Observed \in Clients
BY LimitBounds, FS_CardinalityType

\* The fields of a bucket.
LEMMA BucketFields ==
  ASSUME NEW b \in Bucket
  PROVE  b.tracked = TRUE /\ b.tokens \in 0 .. Burst /\ b.last \in Nat
BY DEF Bucket

\* try_acquire: what a reading of the clock finds in a bucket.
LEMMA TokensAt ==
  ASSUME NEW b \in Bucket, NEW n \in Nat
  PROVE  current_tokens(b, n) =
           IF n <= b.last THEN b.tokens
           ELSE IF b.tokens + (n - b.last) <= Burst THEN b.tokens + (n - b.last)
           ELSE Burst
<1>0. b.tokens \in 0 .. Burst /\ b.last \in Nat /\ Burst \in Nat
  BY BucketFields, LimitNumbers
<1>1. b.tokens \in Int /\ b.tokens <= Burst /\ b.last \in Int /\ Burst \in Int
  BY <1>0
<1>2. PICK k \in Int : k = n - b.last
  BY <1>1
<1>3. Max({k, 0}) = IF k >= 0 THEN k ELSE 0
  BY <1>2, MaxNought
<1>4. PICK m \in Int : m = b.tokens + Max({k, 0})
  BY <1>1, <1>2, <1>3
<1>5. Min({m, Burst}) = IF m <= Burst THEN m ELSE Burst
  BY <1>1, <1>4, MaxMinTwo
<1>6. current_tokens(b, n) = Min({m, Burst})
  BY <1>2, <1>4 DEF current_tokens
<1> QED
  BY <1>1, <1>2, <1>3, <1>4, <1>5, <1>6

\* The bucket that try_acquire leaves behind.
LEMMA SpendType ==
  ASSUME NEW b \in Bucket, NEW n \in Nat, current_tokens(b, n) >= 1
  PROVE  /\ spend(b, n) \in Bucket
         /\ spend(b, n).tokens = current_tokens(b, n) - 1
         /\ spend(b, n).last = IF b.last >= n THEN b.last ELSE n
<1>1. b.tokens \in 0 .. Burst /\ b.last \in Nat /\ Burst \in Nat
  BY BucketFields, LimitNumbers
<1>2. current_tokens(b, n) - 1 \in 0 .. Burst
  BY <1>1, TokensAt
<1>3. Max({b.last, n}) = IF b.last >= n THEN b.last ELSE n
  BY <1>1, MaxMinTwo
<1> QED
  BY <1>1, <1>2, <1>3 DEF spend, Bucket

\* A token taken by a request that read the clock at r or later is one off the
\* bucket's credit; one taken by an earlier reading adds nothing to it.
LEMMA CreditSpent ==
  ASSUME NEW b \in Bucket, NEW n \in Nat, NEW r \in Nat, NEW i \in Nat,
         n <= i, r <= i, b.last <= i, current_tokens(b, n) >= 1
  PROVE  /\ Credit(b.tokens, b.last, r, i) \in Int
         /\ Credit(spend(b, n).tokens, spend(b, n).last, r, i) \in Int
         /\ Credit(spend(b, n).tokens, spend(b, n).last, r, i)
              + (IF n >= r THEN 1 ELSE 0) <= Credit(b.tokens, b.last, r, i)
<1>1. b.tokens \in 0 .. Burst /\ b.last \in Nat /\ Burst \in Nat
  BY BucketFields, LimitNumbers
<1>2. PICK k \in Nat, l \in Nat : k = b.tokens /\ l = b.last /\ k <= Burst
  BY <1>1
<1>8. spend(b, n) \in Bucket
  BY SpendType
<1>9. spend(b, n).tokens \in 0 .. Burst /\ spend(b, n).last \in Nat
  BY ONLY <1>8, BucketFields
<1>3. PICK kk \in Int, ll \in Nat : kk = spend(b, n).tokens /\ ll = spend(b, n).last
  BY <1>1, <1>9
<1>4. kk = (IF n <= l THEN k ELSE IF k + (n - l) <= Burst THEN k + (n - l) ELSE Burst) - 1
  BY <1>2, <1>3, SpendType, TokensAt
<1>5. ll = IF l >= n THEN l ELSE n
  BY <1>2, <1>3, SpendType
<1>6. /\ Credit(k, l, r, i) \in Int /\ Credit(kk, ll, r, i) \in Int
      /\ Credit(kk, ll, r, i) + (IF n >= r THEN 1 ELSE 0) <= Credit(k, l, r, i)
  BY <1>1, <1>2, <1>3, <1>4, <1>5 DEF Credit
<1> QED
  BY <1>2, <1>3, <1>6

\* A bucket that has been idle for twice the time it takes to fill has at least
\* the credit of the full one that comes after it is forgotten.
LEMMA CreditForgotten ==
  ASSUME NEW b \in Bucket, NEW e \in Nat, NEW r \in Nat, NEW i \in Nat,
         e <= i, r <= i, e - b.last > IdleThreshold
  PROVE  /\ Credit(b.tokens, b.last, r, i) \in Int
         /\ Burst + (i - (IF r >= e THEN r ELSE e)) <= Credit(b.tokens, b.last, r, i)
<1>1. b.tokens \in 0 .. Burst /\ b.last \in Nat /\ Burst \in Nat
  BY BucketFields, LimitNumbers
<1>2. PICK k \in Nat, l \in Nat : k = b.tokens /\ l = b.last /\ k <= Burst
  BY <1>1
<1>3. e - l > 2 * Burst
  BY <1>2 DEF IdleThreshold
<1>4. /\ Credit(k, l, r, i) \in Int
      /\ Burst + (i - (IF r >= e THEN r ELSE e)) <= Credit(k, l, r, i)
  BY <1>1, <1>2, <1>3 DEF Credit
<1> QED
  BY <1>2, <1>4

\* Waiting earns one token a tick, and a new window starts with a bucket's worth.
LEMMA CreditGrows ==
  ASSUME NEW b \in Bucket, NEW r \in Nat, NEW i \in Nat, b.last <= i, r <= i
  PROVE  /\ Credit(b.tokens, b.last, r, i) \in Int
         /\ Credit(b.tokens, b.last, r, i + 1) = Credit(b.tokens, b.last, r, i) + 1
         /\ Credit(b.tokens, b.last, i, i) <= Burst
         /\ Credit(b.tokens, b.last, i, i) \in Int
         /\ Credit(b.tokens, b.last, r, i) >= 0
<1>1. b.tokens \in 0 .. Burst /\ b.last \in Nat /\ Burst \in Nat
  BY BucketFields, LimitNumbers
<1> QED
  BY <1>1 DEF Credit

-----------------------------------------------------------------------------
(***************************************************************************)
(* The rate limiter: every step keeps the invariant.                       *)
(***************************************************************************)

\* What the calls under way have yet to take off the count.
Owing ==
  Total(LimitThreads, [t \in LimitThreads |->
          IF call[t].pc = "rest" THEN 0 ELSE call[t].evicted])

\* The fields of an acquisition.
LEMMA AcquisitionFields ==
  ASSUME NEW x \in Acquisition
  PROVE  /\ x.pc \in Stages /\ x.pc # "rest" /\ x.client \in Clients
         /\ x.now \in Nat /\ x.last \in Nat /\ x.left \in SUBSET Clients /\ x.evicted \in Nat
BY DEF Acquisition, Stages

\* A thread is at rest, or in an acquisition.
LEMMA CallFields ==
  ASSUME NEW x \in {NoCall} \cup Acquisition
  PROVE  /\ x.pc # "rest" => x \in Acquisition
         /\ Unsubtracted(x) \in Nat
<1>1. NoCall.pc = "rest"
  BY DEF NoCall
<1>2. CASE x = NoCall
  BY <1>1, <1>2 DEF Unsubtracted
<1>3. CASE x \in Acquisition
  BY <1>3, AcquisitionFields DEF Unsubtracted
<1> QED
  BY <1>2, <1>3

\* Acquisition x at another step, with another reading of the last pass, other
\* shards to visit and other buckets to take off the count.
Becomes(x, p, l, s, n) ==
  [pc |-> p, client |-> x.client, now |-> x.now, last |-> l, left |-> s, evicted |-> n]

\* What else such an acquisition holds stays as it was.
LEMMA CallBecomes ==
  ASSUME NEW x \in Acquisition, NEW p \in Stages, NEW l \in Nat,
         NEW s \in SUBSET Clients, NEW n \in Nat
  PROVE  LET y == Becomes(x, p, l, s, n)
         IN  /\ y \in Acquisition /\ y.pc = p /\ y.evicted = n
             /\ y.now = x.now /\ y.client = x.client
<1>1. x.client \in Clients /\ x.now \in Nat
  BY AcquisitionFields
<1> QED
  BY <1>1 DEF Becomes, Acquisition

\* An acquisition past claim_eviction_pass, one that removed a bucket, and one
\* that took what it removed off the count.
Passes(x, p, s) == [x EXCEPT !.pc = p, !.left = s, !.last = 0]
Removes(x, s, n) == [x EXCEPT !.left = s, !.evicted = n]
Subtracts(x) == [x EXCEPT !.pc = "get", !.evicted = 0]

\* The ways in which the steps of an acquisition change it.
LEMMA CallChanges ==
  ASSUME NEW x \in Acquisition, NEW p, NEW l, NEW s
  PROVE  /\ [x EXCEPT !.pc = p] = Becomes(x, p, x.last, x.left, x.evicted)
         /\ [x EXCEPT !.pc = p, !.last = l] = Becomes(x, p, l, x.left, x.evicted)
         /\ [x EXCEPT !.left = s] = Becomes(x, x.pc, x.last, s, x.evicted)
<1> DEFINE u == [x EXCEPT !.pc = p]
           v == [x EXCEPT !.left = s]
<1>1. x = [pc |-> x.pc, client |-> x.client, now |-> x.now, last |-> x.last,
           left |-> x.left, evicted |-> x.evicted]
  BY DEF Acquisition
<1>2. u = [pc |-> p, client |-> x.client, now |-> x.now, last |-> x.last,
           left |-> x.left, evicted |-> x.evicted]
  BY <1>1
<1>3. v = [pc |-> x.pc, client |-> x.client, now |-> x.now, last |-> x.last,
           left |-> s, evicted |-> x.evicted]
  BY <1>1
<1>4. [x EXCEPT !.pc = p, !.last = l] = [u EXCEPT !.last = l]
  OBVIOUS
<1> HIDE DEF u, v
<1>5. [u EXCEPT !.last = l] = Becomes(x, p, l, x.left, x.evicted)
  BY <1>2 DEF Becomes
<1>6. u = Becomes(x, p, x.last, x.left, x.evicted) /\ v = Becomes(x, x.pc, x.last, s, x.evicted)
  BY <1>2, <1>3 DEF Becomes
<1> QED
  BY <1>4, <1>5, <1>6 DEF u, v

\* The end of claim_eviction_pass.
LEMMA CallPasses ==
  ASSUME NEW x \in Acquisition, NEW p, NEW s
  PROVE  Passes(x, p, s) = Becomes(x, p, 0, s, x.evicted)
<1> DEFINE u == [x EXCEPT !.pc = p]
           w == [u EXCEPT !.left = s]
<1>1. x = [pc |-> x.pc, client |-> x.client, now |-> x.now, last |-> x.last,
           left |-> x.left, evicted |-> x.evicted]
  BY DEF Acquisition
<1>2. u = [pc |-> p, client |-> x.client, now |-> x.now, last |-> x.last,
           left |-> x.left, evicted |-> x.evicted]
  BY <1>1
<1>3. Passes(x, p, s) = [w EXCEPT !.last = 0]
  BY DEF Passes
<1> HIDE DEF u
<1>4. w = [pc |-> p, client |-> x.client, now |-> x.now, last |-> x.last,
           left |-> s, evicted |-> x.evicted]
  BY <1>2
<1> HIDE DEF w
<1> QED
  BY <1>3, <1>4 DEF Becomes

\* A bucket removed by the pass.
LEMMA CallRemoves ==
  ASSUME NEW x \in Acquisition, NEW s, NEW n
  PROVE  Removes(x, s, n) = Becomes(x, x.pc, x.last, s, n)
<1> DEFINE v == [x EXCEPT !.left = s]
<1>1. x = [pc |-> x.pc, client |-> x.client, now |-> x.now, last |-> x.last,
           left |-> x.left, evicted |-> x.evicted]
  BY DEF Acquisition
<1>2. v = [pc |-> x.pc, client |-> x.client, now |-> x.now, last |-> x.last,
           left |-> s, evicted |-> x.evicted]
  BY <1>1
<1>3. Removes(x, s, n) = [v EXCEPT !.evicted = n]
  BY DEF Removes
<1> HIDE DEF v
<1> QED
  BY <1>2, <1>3 DEF Becomes

\* The end of the pass.
LEMMA CallSubtracts ==
  ASSUME NEW x \in Acquisition
  PROVE  Subtracts(x) = Becomes(x, "get", x.last, x.left, 0)
<1> DEFINE u == [x EXCEPT !.pc = "get"]
<1>1. x = [pc |-> x.pc, client |-> x.client, now |-> x.now, last |-> x.last,
           left |-> x.left, evicted |-> x.evicted]
  BY DEF Acquisition
<1>2. u = [pc |-> "get", client |-> x.client, now |-> x.now, last |-> x.last,
           left |-> x.left, evicted |-> x.evicted]
  BY <1>1
<1>3. Subtracts(x) = [u EXCEPT !.evicted = 0]
  BY DEF Subtracts
<1> HIDE DEF u
<1> QED
  BY <1>2, <1>3 DEF Becomes

\* The threads at step p.
AtStage(f, p) == {s \in LimitThreads : f[s].pc = p}

\* A step of one thread takes it from one stage to another.
LEMMA StageMoves ==
  ASSUME LimitTypes, NEW t \in LimitThreads, NEW x \in {NoCall} \cup Acquisition,
         call' = [call EXCEPT ![t] = x], NEW p \in Stages
  PROVE  /\ Cardinality(AtStage(call, p)) \in Nat /\ Cardinality(AtStage(call', p)) \in Nat
         /\ Cardinality(AtStage(call', p)) + One(call[t].pc = p)
              = Cardinality(AtStage(call, p)) + One(x.pc = p)
<1> DEFINE A == AtStage(call, p)
           B == AtStage(call', p)
<1>1. call \in [LimitThreads -> {NoCall} \cup Acquisition]
  BY DEF LimitTypes
<1>2. A \subseteq LimitThreads /\ B \subseteq LimitThreads
  BY DEF AtStage
<1>3. B \ {t} = A \ {t} /\ (t \in A <=> call[t].pc = p) /\ (t \in B <=> x.pc = p)
  BY <1>1 DEF AtStage
<1> HIDE DEF A, B
<1>4. IsFiniteSet(LimitThreads)
  BY LimitNumbers
<1>5. IsFiniteSet(A) /\ Cardinality(A) \in Nat /\ Cardinality(B) \in Nat
  BY <1>2, <1>4, CountPart
<1>6. Cardinality(B) + One(t \in A) = Cardinality(A) + One(t \in B)
  BY <1>3, <1>5, CountStep
<1>7. One(t \in A) = One(call[t].pc = p) /\ One(t \in B) = One(x.pc = p)
  BY <1>3 DEF One
<1> QED
  BY <1>5, <1>6, <1>7 DEF A, B

\* A step of one thread moves what that thread owes, and its place among those
\* about to insert and those about to count.
LEMMA CallMoves ==
  ASSUME LimitTypes, NEW t \in LimitThreads, NEW x \in {NoCall} \cup Acquisition,
         call' = [call EXCEPT ![t] = x]
  PROVE  /\ call' \in [LimitThreads -> {NoCall} \cup Acquisition]
         /\ Owing \in Nat /\ Owing' \in Nat
         /\ Owing' + Unsubtracted(call[t]) = Owing + Unsubtracted(x)
         /\ Cardinality(Inserters) \in Nat /\ Cardinality(Inserters') \in Nat
         /\ Cardinality(Inserters') + One(call[t].pc = "insert")
              = Cardinality(Inserters) + One(x.pc = "insert")
         /\ Cardinality(Uncounted) \in Nat /\ Cardinality(Uncounted') \in Nat
         /\ Cardinality(Uncounted') + One(call[t].pc = "count")
              = Cardinality(Uncounted) + One(x.pc = "count")
         /\ Cardinality(Inserters') + Cardinality(Uncounted') <= Cardinality(LimitThreads)
<1> DEFINE f == [s \in LimitThreads |-> Unsubtracted(call[s])]
           g == [s \in LimitThreads |-> Unsubtracted(call'[s])]
<1>1. /\ call \in [LimitThreads -> {NoCall} \cup Acquisition]
      /\ call' \in [LimitThreads -> {NoCall} \cup Acquisition]
  BY DEF LimitTypes
<1>2. f \in [LimitThreads -> Nat] /\ g \in [LimitThreads -> Nat]
  BY <1>1, CallFields
<1>3. \A s \in LimitThreads \ {t} : g[s] = f[s]
  BY <1>1
<1>4. f[t] = Unsubtracted(call[t]) /\ g[t] = Unsubtracted(x)
  BY <1>1
<1>5. Owing = Total(LimitThreads, f) /\ Owing' = Total(LimitThreads, g)
  BY DEF Owing, Unsubtracted, Total, Units
<1>6. IsFiniteSet(LimitThreads) /\ Cardinality(LimitThreads) \in Nat
  BY LimitNumbers
<1> HIDE DEF f, g
<1>7. /\ Total(LimitThreads, g) + f[t] = Total(LimitThreads, f) + g[t]
      /\ Total(LimitThreads, f) \in Nat /\ Total(LimitThreads, g) \in Nat
  BY <1>2, <1>3, <1>6, TotalMove, TotalType
<1>8. /\ Inserters = AtStage(call, "insert") /\ Inserters' = AtStage(call', "insert")
      /\ Uncounted = AtStage(call, "count") /\ Uncounted' = AtStage(call', "count")
  BY DEF Inserters, Uncounted, AtStage
<1>9. /\ Cardinality(Inserters) \in Nat /\ Cardinality(Inserters') \in Nat
      /\ Cardinality(Inserters') + One(call[t].pc = "insert")
           = Cardinality(Inserters) + One(x.pc = "insert")
  <2> DEFINE A == AtStage(call, "insert")
             B == AtStage(call', "insert")
  <2>1. /\ Cardinality(A) \in Nat /\ Cardinality(B) \in Nat
        /\ Cardinality(B) + One(call[t].pc = "insert") = Cardinality(A) + One(x.pc = "insert")
    <3>1. "insert" \in Stages
      BY DEF Stages
    <3> QED
      BY <3>1, StageMoves, Zenon
  <2> HIDE DEF A, B
  <2>2. Inserters = A /\ Inserters' = B
    BY <1>8 DEF A, B
  <2> QED
    BY <2>1, <2>2
<1>10. /\ Cardinality(Uncounted) \in Nat /\ Cardinality(Uncounted') \in Nat
       /\ Cardinality(Uncounted') + One(call[t].pc = "count")
            = Cardinality(Uncounted) + One(x.pc = "count")
  <2> DEFINE A == AtStage(call, "count")
             B == AtStage(call', "count")
  <2>1. /\ Cardinality(A) \in Nat /\ Cardinality(B) \in Nat
        /\ Cardinality(B) + One(call[t].pc = "count") = Cardinality(A) + One(x.pc = "count")
    <3>1. "count" \in Stages
      BY DEF Stages
    <3> QED
      BY <3>1, StageMoves, Zenon
  <2> HIDE DEF A, B
  <2>2. Uncounted = A /\ Uncounted' = B
    BY <1>8 DEF A, B
  <2> QED
    BY <2>1, <2>2
<1>11. Cardinality(Inserters') + Cardinality(Uncounted') <= Cardinality(LimitThreads)
  <2>1. /\ Inserters' \subseteq LimitThreads /\ Uncounted' \subseteq LimitThreads
        /\ Inserters' \cap Uncounted' = {}
    BY DEF Inserters, Uncounted
  <2> QED
    BY <1>6, <2>1, CountApart
<1> QED
  BY <1>1, <1>4, <1>5, <1>7, <1>9, <1>10, <1>11

\* A call that nothing is owed for, or a pass with buckets to take off the
\* count, begun no later than now.
Proper(x) ==
  /\ x.pc # "rest" => x.now <= instant
  /\ x.pc \notin {"rest", "retain", "subtract"} => x.evicted = 0

\* The threads' own part of the invariant, after a step of one of them.
LEMMA ProperMoves ==
  ASSUME LimitInv, NEW t \in LimitThreads, NEW x \in {NoCall} \cup Acquisition,
         call' = [call EXCEPT ![t] = x], instant' = instant, Proper(x)
  PROVE  /\ \A s \in LimitThreads : call'[s].pc # "rest" => call'[s].now <= instant'
         /\ \A s \in LimitThreads :
              call'[s].pc \notin {"rest", "retain", "subtract"} => call'[s].evicted = 0
<1>1. call \in [LimitThreads -> {NoCall} \cup Acquisition]
  BY DEF LimitInv, LimitTypes
<1>2. /\ \A s \in LimitThreads : call[s].pc # "rest" => call[s].now <= instant
      /\ \A s \in LimitThreads :
           call[s].pc \notin {"rest", "retain", "subtract"} => call[s].evicted = 0
  BY DEF LimitInv, LimitTimes, LimitCounts
<1>3. \A s \in LimitThreads : call'[s] = IF s = t THEN x ELSE call[s]
  BY <1>1
<1> QED
  BY <1>2, <1>3 DEF Proper

\* The locks, after a step of a thread that holds none and takes none and that
\* removes no bucket behind one.
LEMMA LocksStay ==
  ASSUME LimitInv, NEW t \in LimitThreads, NEW x \in {NoCall} \cup Acquisition,
         call' = [call EXCEPT ![t] = x], call[t].pc # "count", x.pc # "count",
         \A c \in Tracked : Locked(c) => c \in Tracked'
  PROVE  LimitLocks' /\ Uncounted' = Uncounted
<1>1. call \in [LimitThreads -> {NoCall} \cup Acquisition]
  BY DEF LimitInv, LimitTypes
<1>2. \A s \in LimitThreads : call'[s] = IF s = t THEN x ELSE call[s]
  BY <1>1
<1>3. Uncounted' = Uncounted /\ \A s \in Uncounted : call'[s] = call[s]
  BY <1>2 DEF Uncounted
<1>4. \A s \in Uncounted : call[s].client \in Tracked /\ Locked(call[s].client)
  BY DEF LimitInv, LimitLocks, Locked
<1> QED
  BY <1>3, <1>4 DEF LimitInv, LimitLocks

\* There are as many tracked buckets as locks, or more.
LEMMA LocksCovered ==
  ASSUME LimitLocks, IsFiniteSet(Tracked)
  PROVE  Cardinality(Uncounted) <= Cardinality(Tracked)
<1> DEFINE f == [t \in Uncounted |-> call[t].client]
<1>1. f \in [Uncounted -> Tracked]
  BY DEF LimitLocks
<1>2. \A s, t \in Uncounted : f[s] = f[t] => s = t
  BY DEF LimitLocks
<1>3. f \in Injection(Uncounted, Tracked)
  BY <1>1, <1>2 DEF Injection, IsInjective
<1> HIDE DEF f
<1> QED
  BY <1>3, FS_Injection

\* The numbers the invariant speaks of.
LEMMA LimitFigures ==
  ASSUME LimitInv
  PROVE  /\ instant \in Nat /\ entries \in Nat /\ lastEviction \in Nat
         /\ IsFiniteSet(Tracked) /\ Cardinality(Tracked) \in Nat
         /\ Cardinality(Uncounted) \in Nat /\ Cardinality(Uncounted) <= Cardinality(Tracked)
         /\ entries + Cardinality(Uncounted) = Cardinality(Tracked) + Owing
<1>1. instant \in Nat /\ entries \in Nat /\ lastEviction \in Nat
  BY LimitNumbers DEF LimitInv, LimitTypes
<1>2. /\ IsFiniteSet(Tracked)
      /\ entries + Cardinality(Uncounted) = Cardinality(Tracked) + Owing
  BY DEF LimitInv, LimitCounts, CountsEvery, Owing
<1>3. Uncounted \subseteq LimitThreads /\ IsFiniteSet(LimitThreads)
  BY LimitNumbers DEF Uncounted
<1>4. Cardinality(Uncounted) \in Nat
  BY <1>3, CountPart
<1>5. Cardinality(Uncounted) <= Cardinality(Tracked)
  BY <1>2, LocksCovered DEF LimitInv
<1> QED
  BY <1>1, <1>2, <1>4, <1>5, FS_CardinalityType

\* The count holds what a pass has to take off it.
LEMMA CoversOwed ==
  ASSUME LimitInv, NEW t \in LimitThreads, call[t].pc = "subtract"
  PROVE  call[t].evicted <= entries
<1>1. call \in [LimitThreads -> {NoCall} \cup Acquisition]
  BY DEF LimitInv, LimitTypes
<1>2. call[t] \in Acquisition
  BY <1>1, CallFields
<1>3. call[t].evicted \in Nat
  BY <1>2, AcquisitionFields
<1> DEFINE f == [s \in LimitThreads |-> Unsubtracted(call[s])]
<1>4. f \in [LimitThreads -> Nat] /\ f[t] = call[t].evicted
  BY <1>1, CallFields DEF Unsubtracted
<1>5. Owing = Total(LimitThreads, f)
  BY DEF Owing, Unsubtracted, Total, Units
<1>6. IsFiniteSet(LimitThreads)
  BY LimitNumbers
<1> HIDE DEF f
<1>7. Owing \in Nat /\ f[t] <= Owing
  <2> DEFINE h == [f EXCEPT ![t] = 0]
  <2>1. h \in [LimitThreads -> Nat] /\ h[t] = 0 /\ \A s \in LimitThreads \ {t} : h[s] = f[s]
    BY <1>4
  <2> HIDE DEF h
  <2>2. /\ Total(LimitThreads, h) + f[t] = Total(LimitThreads, f) + h[t]
        /\ Total(LimitThreads, f) \in Nat /\ Total(LimitThreads, h) \in Nat
    BY <1>4, <1>6, <2>1, TotalMove, TotalType
  <2>3. f[t] \in Nat
    BY <1>3, <1>4
  <2>4. PICK a \in Nat, b \in Nat, d \in Nat :
          a = Total(LimitThreads, h) /\ b = Total(LimitThreads, f) /\ d = f[t]
    BY <2>2, <2>3
  <2>5. a + d = b + 0
    BY <2>1, <2>2, <2>4
  <2>6. d <= b
    BY <2>5
  <2> QED
    BY <1>5, <2>4, <2>6
<1>8. /\ entries \in Nat /\ Cardinality(Tracked) \in Nat /\ Cardinality(Uncounted) \in Nat
      /\ Cardinality(Uncounted) <= Cardinality(Tracked)
      /\ entries + Cardinality(Uncounted) = Cardinality(Tracked) + Owing
  BY LimitFigures
<1> QED
  BY <1>3, <1>4, <1>7, <1>8

\* A step that touches no bucket keeps the invariant, if it takes off the
\* count what it no longer owes and passes the cap only below it.
LEMMA StillKeeps ==
  ASSUME LimitInv, NEW t \in LimitThreads, NEW x \in {NoCall} \cup Acquisition,
         call' = [call EXCEPT ![t] = x], Proper(x),
         call[t].pc # "count", x.pc # "count",
         instant' = instant, buckets' = buckets, window' = window,
         lastEviction' \in Nat, lastEviction' <= instant, entries' \in Int,
         entries' + Unsubtracted(call[t]) = entries + Unsubtracted(x),
         x.pc = "insert" => entries < HardCap
  PROVE  LimitInv'
<1>1. /\ instant \in Nat /\ entries \in Nat /\ IsFiniteSet(Tracked)
      /\ Cardinality(Tracked) \in Nat /\ Cardinality(Uncounted) \in Nat
      /\ Cardinality(Uncounted) <= Cardinality(Tracked)
      /\ entries + Cardinality(Uncounted) = Cardinality(Tracked) + Owing
  BY LimitFigures
<1>2. /\ call' \in [LimitThreads -> {NoCall} \cup Acquisition]
      /\ Owing \in Nat /\ Owing' \in Nat
      /\ Owing' + Unsubtracted(call[t]) = Owing + Unsubtracted(x)
      /\ Cardinality(Inserters) \in Nat /\ Cardinality(Inserters') \in Nat
      /\ Cardinality(Inserters') + One(call[t].pc = "insert")
           = Cardinality(Inserters) + One(x.pc = "insert")
      /\ Cardinality(Inserters') + Cardinality(Uncounted') <= Cardinality(LimitThreads)
  BY CallMoves DEF LimitInv
<1>3. Tracked' = Tracked
  BY DEF Tracked
<1>11. LimitLocks' /\ Uncounted' = Uncounted
  BY <1>3, LocksStay
<1>4. Unsubtracted(call[t]) \in Nat /\ Unsubtracted(x) \in Nat
  BY CallFields DEF LimitInv, LimitTypes
<1>5. entries' + Cardinality(Uncounted) = Cardinality(Tracked) + Owing' /\ entries' \in Nat
  BY <1>1, <1>2, <1>4
<1>6. LimitTypes'
  BY <1>2, <1>5 DEF LimitInv, LimitTypes
<1>7. LimitTimes'
  <2>1. \A s \in LimitThreads : call'[s].pc # "rest" => call'[s].now <= instant'
    BY ProperMoves
  <2> QED
    BY <2>1, <1>3 DEF LimitInv, LimitTimes
<1>8. LimitCounts'
  <2>1. \A s \in LimitThreads :
          call'[s].pc \notin {"rest", "retain", "subtract"} => call'[s].evicted = 0
    BY ProperMoves
  <2>2. CountsEvery'
    BY <1>3, <1>5, <1>11 DEF CountsEvery, Owing
  <2> QED
    BY <2>1, <2>2, <1>1, <1>3 DEF LimitCounts
<1>9. LimitRoom'
  <2>1. HardCap \in Nat /\ Cardinality(LimitThreads) \in Nat
    BY LimitNumbers
  <2>2. One(call[t].pc = "insert") \in {0, 1} /\ One(x.pc = "insert") \in {0, 1}
    BY OneType
  <2>3. Cardinality(Tracked) + Cardinality(Inserters)
          <= HardCap + Cardinality(LimitThreads) - 1
    BY DEF LimitInv, LimitRoom
  <2>4. CASE x.pc = "insert"
    BY <1>1, <1>2, <1>3, <1>11, <2>1, <2>4 DEF LimitRoom
  <2>5. CASE x.pc # "insert"
    <3>1. One(x.pc = "insert") = 0
      BY <2>5 DEF One
    <3> QED
      BY <1>1, <1>2, <1>3, <2>1, <2>2, <2>3, <3>1 DEF LimitRoom
  <2> QED
    BY <2>4, <2>5
<1>10. LimitCredit'
  BY DEF LimitInv, LimitCredit, Promise
<1> QED
  BY <1>6, <1>7, <1>8, <1>9, <1>10, <1>11 DEF LimitInv

\* claim_eviction_pass, the end of a pass and the check of the hard cap.
LEMMA QuietLimitKeeps ==
  ASSUME LimitInv, NEW t \in LimitThreads,
         \/ \E c \in Clients : BeginAcquire(t, c)
         \/ ReadLast(t) \/ ClaimPass(t) \/ EndRetain(t)
         \/ CheckCap(t)
  PROVE  LimitInv'
<1>1. /\ instant \in Nat /\ entries \in Nat /\ lastEviction \in Nat
      /\ call \in [LimitThreads -> {NoCall} \cup Acquisition] /\ lastEviction <= instant
  BY LimitFigures DEF LimitInv, LimitTypes, LimitTimes
<1>2. NoCall \in {NoCall} \cup Acquisition /\ NoCall.pc = "rest"
  BY DEF NoCall
<1>3. Proper(NoCall) /\ Unsubtracted(NoCall) = 0
  BY <1>2 DEF Proper, Unsubtracted
<1>4. ASSUME NEW c \in Clients, BeginAcquire(t, c) PROVE LimitInv'
  <2> DEFINE x == [pc |-> "read", client |-> c, now |-> instant, last |-> 0,
                   left |-> {}, evicted |-> 0]
  <2>2. call[t].pc = "rest" /\ call' = [call EXCEPT ![t] = x]
        /\ UNCHANGED <<instant, buckets, entries, lastEviction, window>>
    BY <1>4 DEF BeginAcquire
  <2>3. x \in Acquisition /\ x.pc = "read" /\ x.now = instant /\ x.evicted = 0
    BY <1>1 DEF Acquisition, Stages
  <2> HIDE DEF x
  <2>4. Proper(x) /\ Unsubtracted(x) = 0
    BY <1>1, <2>3 DEF Proper, Unsubtracted
  <2>5. Unsubtracted(call[t]) = 0
    BY <2>2 DEF Unsubtracted
  <2>6. x.pc # "insert" /\ x.pc # "count" /\ call[t].pc # "count"
    BY <2>2, <2>3
  <2>7. x \in {NoCall} \cup Acquisition /\ entries' \in Int
        /\ lastEviction' \in Nat /\ lastEviction' <= instant
        /\ entries' + Unsubtracted(call[t]) = entries + Unsubtracted(x)
        /\ instant' = instant /\ buckets' = buckets /\ window' = window
    BY <1>1, <2>2, <2>3, <2>4, <2>5
  <2> QED
    BY <2>2, <2>4, <2>6, <2>7, StillKeeps
<1>5. ASSUME NEW p \in {"get", "claim", "retain", "subtract", "insert"}, NEW l \in Nat,
             NEW s \in SUBSET Clients, call[t].pc \in {"read", "claim", "retain", "cap"},
             call' = [call EXCEPT ![t] = Becomes(call[t], p, l, s, call[t].evicted)],
             p = "subtract" \/ call[t].evicted = 0,
             UNCHANGED <<instant, buckets, entries, window>>,
             lastEviction' \in Nat, lastEviction' <= instant,
             p = "insert" => entries < HardCap
      PROVE  LimitInv'
  <2>1. call[t] \in Acquisition /\ p \in Stages
    BY <1>1, <1>5, CallFields DEF Stages
  <2> DEFINE x == Becomes(call[t], p, l, s, call[t].evicted)
  <2>7. call[t].evicted \in Nat
    BY <2>1, AcquisitionFields
  <2>2. x \in Acquisition /\ x.pc = p /\ x.now = call[t].now /\ x.evicted = call[t].evicted
    BY <2>1, <2>7, CallBecomes
  <2>3. call' = [call EXCEPT ![t] = x]
    BY <1>5
  <2> HIDE DEF x
  <2>4. call[t].now <= instant
    BY <1>5 DEF LimitInv, LimitTimes
  <2>5. Proper(x) /\ Unsubtracted(x) = Unsubtracted(call[t])
    BY <1>5, <2>2, <2>4 DEF Proper, Unsubtracted
  <2>6. x \in {NoCall} \cup Acquisition /\ entries' \in Int
        /\ entries' + Unsubtracted(call[t]) = entries + Unsubtracted(x)
        /\ (x.pc = "insert" => entries < HardCap)
        /\ instant' = instant /\ buckets' = buckets /\ window' = window
        /\ call[t].pc # "count" /\ x.pc # "count"
    BY <1>1, <1>5, <2>2, <2>5
  <2> QED
    BY <1>5, <2>3, <2>5, <2>6, StillKeeps
<1>8. ASSUME call[t].pc # "rest"
      PROVE  /\ call[t] \in Acquisition /\ call[t].last \in Nat
             /\ call[t].left \in SUBSET Clients
  BY <1>1, <1>8, CallFields, AcquisitionFields
<1>9. CASE ReadLast(t)
  <2>1. call[t].pc = "read" /\ UNCHANGED <<instant, buckets, entries, lastEviction, window>>
    BY <1>9 DEF ReadLast
  <2>2. call[t] \in Acquisition /\ call[t].last \in Nat /\ call[t].left \in SUBSET Clients
        /\ call[t].evicted = 0
    BY <1>8, <2>1 DEF LimitInv, LimitCounts
  <2>3. CASE call' = [call EXCEPT ![t].pc = "get"]
    <3>1. call' = [call EXCEPT ![t] = [call[t] EXCEPT !.pc = "get"]]
      BY <1>1, <2>3
    <3>2. call' = [call EXCEPT ![t] = Becomes(call[t], "get", call[t].last, call[t].left,
                                               call[t].evicted)]
      BY <2>2, <3>1, CallChanges
    <3> QED
      BY <1>1, <1>5, <2>1, <2>2, <3>2
  <2>4. CASE call' = [call EXCEPT ![t].pc = "claim", ![t].last = lastEviction]
    <3>1. call' = [call EXCEPT ![t] = [call[t] EXCEPT !.pc = "claim", !.last = lastEviction]]
      BY <1>1, <2>4
    <3>3. [call[t] EXCEPT !.pc = "claim", !.last = lastEviction]
            = Becomes(call[t], "claim", lastEviction, call[t].left, call[t].evicted)
      BY ONLY <2>2, CallChanges
    <3>2. call' = [call EXCEPT ![t] = Becomes(call[t], "claim", lastEviction, call[t].left,
                                               call[t].evicted)]
      BY <3>1, <3>3
    <3> QED
      BY <1>1, <1>5, <2>1, <2>2, <3>2
  <2> QED
    BY <1>9, <2>3, <2>4 DEF ReadLast
<1>10. ASSUME NEW p \in {"get", "retain"}, NEW s \in SUBSET Clients, call[t].pc = "claim",
              Pass(t, p, s), UNCHANGED <<instant, buckets, entries, window>>,
              lastEviction' \in Nat, lastEviction' <= instant
       PROVE  LimitInv'
  <2>1. call[t] \in Acquisition /\ call[t].evicted = 0
    BY <1>8, <1>10 DEF LimitInv, LimitCounts
  <2>2. call' = [call EXCEPT ![t] = Passes(call[t], p, s)]
    BY <1>1, <1>10 DEF Pass, Passes
  <2>3. call' = [call EXCEPT ![t] = Becomes(call[t], p, 0, s, call[t].evicted)]
    BY <2>1, <2>2, CallPasses
  <2>4. p # "insert" /\ p \in {"get", "claim", "retain", "subtract", "insert"} /\ 0 \in Nat
    OBVIOUS
  <2> QED
    BY <1>5, <1>10, <2>1, <2>3, <2>4
<1>6. CASE ClaimPass(t)
  <2>1. call[t].pc = "claim" /\ UNCHANGED <<instant, buckets, entries, window>>
    BY <1>6 DEF ClaimPass
  <2>2. call[t].now \in Nat /\ call[t].now <= instant
    BY <1>1, <2>1, CallFields, AcquisitionFields DEF LimitInv, LimitTimes
  <2>3. lastEviction' \in Nat /\ lastEviction' <= instant
    BY <1>1, <1>6, <2>2 DEF ClaimPass
  <2>4. Pass(t, "get", {}) \/ Pass(t, "retain", Clients)
    BY <1>6 DEF ClaimPass
  <2> QED
    BY <1>10, <2>1, <2>3, <2>4
<1>11. CASE EndRetain(t)
  <2>1. /\ call[t].pc = "retain"
        /\ UNCHANGED <<instant, buckets, entries, lastEviction, window>>
    BY <1>11 DEF EndRetain
  <2>2. call[t] \in Acquisition /\ call[t].last \in Nat /\ call[t].left \in SUBSET Clients
    BY <1>8, <2>1
  <2>3. PICK p \in {"get", "subtract"} :
          (p = "subtract" \/ call[t].evicted = 0) /\ call' = [call EXCEPT ![t].pc = p]
    BY <1>11 DEF EndRetain, Step
  <2>4. call' = [call EXCEPT ![t] = [call[t] EXCEPT !.pc = p]]
    BY <1>1, <2>3
  <2>5. call' = [call EXCEPT ![t] = Becomes(call[t], p, call[t].last, call[t].left,
                                             call[t].evicted)]
    BY <2>2, <2>4, CallChanges
  <2>6. p # "insert" /\ p \in {"get", "claim", "retain", "subtract", "insert"}
    BY <2>3
  <2> QED
    BY <1>1, <1>5, <2>1, <2>2, <2>3, <2>5, <2>6
<1>7. CASE CheckCap(t)
  <2>1. call[t].pc = "cap" /\ UNCHANGED <<instant, buckets, entries, lastEviction, window>>
    BY <1>7 DEF CheckCap
  <2>2. CASE entries >= HardCap
    <3>1. call' = [call EXCEPT ![t] = NoCall]
      BY <1>7, <2>2 DEF CheckCap, Done
    <3>2. call[t].evicted = 0
      BY <2>1 DEF LimitInv, LimitCounts
    <3>3. Unsubtracted(call[t]) = 0
      BY <3>2, <2>1 DEF Unsubtracted
    <3>4. NoCall.pc # "insert" /\ entries' \in Int
          /\ lastEviction' \in Nat /\ lastEviction' <= instant
          /\ entries' + Unsubtracted(call[t]) = entries + Unsubtracted(NoCall)
          /\ instant' = instant /\ buckets' = buckets /\ window' = window
          /\ call[t].pc # "count" /\ NoCall.pc # "count"
      BY <1>1, <1>2, <1>3, <2>1, <3>3
    <3> QED
      BY <1>2, <1>3, <3>1, <3>4, StillKeeps
  <2>3. CASE ~(entries >= HardCap)
    <3>1. Step(t, "insert") /\ entries < HardCap
      BY <1>1, <1>7, <2>3, LimitNumbers DEF CheckCap
    <3>2. call[t] \in Acquisition /\ call[t].last \in Nat /\ call[t].left \in SUBSET Clients
          /\ call[t].evicted = 0
      BY <1>8, <2>1 DEF LimitInv, LimitCounts
    <3>3. call' = [call EXCEPT ![t] = [call[t] EXCEPT !.pc = "insert"]]
      BY <1>1, <3>1 DEF Step
    <3>4. call' = [call EXCEPT ![t] = Becomes(call[t], "insert", call[t].last, call[t].left,
                                               call[t].evicted)]
      BY <3>2, <3>3, CallChanges
    <3> QED
      BY <1>1, <1>5, <2>1, <3>1, <3>2, <3>4
  <2> QED
    BY <2>2, <2>3
<1> QED
  BY <1>4, <1>6, <1>7, <1>9, <1>11

\* The pass takes what it removed off the count.
LEMMA SubtractKeeps ==
  ASSUME LimitInv, NEW t \in LimitThreads, SubtractEvicted(t)
  PROVE  LimitInv'
<1>1. /\ instant \in Nat /\ entries \in Nat /\ lastEviction \in Nat
      /\ call \in [LimitThreads -> {NoCall} \cup Acquisition] /\ lastEviction <= instant
  BY LimitFigures DEF LimitInv, LimitTypes, LimitTimes
<1>2. /\ call[t].pc = "subtract" /\ entries' = entries - call[t].evicted
      /\ call' = [call EXCEPT ![t].pc = "get", ![t].evicted = 0]
      /\ UNCHANGED <<instant, buckets, lastEviction, window>>
  BY DEF SubtractEvicted
<1>3. call[t] \in Acquisition /\ "get" \in Stages
  BY <1>1, <1>2, CallFields DEF Stages
<1>9. call[t].last \in Nat /\ call[t].left \in SUBSET Clients /\ call[t].evicted \in Nat
  BY <1>3, AcquisitionFields
<1> DEFINE x == Becomes(call[t], "get", call[t].last, call[t].left, 0)
<1>4. x \in Acquisition /\ x.pc = "get" /\ x.now = call[t].now /\ x.evicted = 0
  BY <1>3, <1>9, CallBecomes
<1>10. call' = [call EXCEPT ![t] = Subtracts(call[t])]
  BY <1>1, <1>2 DEF Subtracts
<1>5. call' = [call EXCEPT ![t] = x]
  BY <1>3, <1>10, CallSubtracts
<1> HIDE DEF x
<1>6. call[t].now <= instant
  BY <1>2 DEF LimitInv, LimitTimes
<1>7. Proper(x) /\ Unsubtracted(x) = 0 /\ Unsubtracted(call[t]) = call[t].evicted
  BY <1>2, <1>4, <1>6 DEF Proper, Unsubtracted
<1>8. /\ x \in {NoCall} \cup Acquisition /\ entries' \in Int
      /\ lastEviction' \in Nat /\ lastEviction' <= instant
      /\ entries' + Unsubtracted(call[t]) = entries + Unsubtracted(x)
      /\ instant' = instant /\ buckets' = buckets /\ window' = window
      /\ x.pc # "insert" /\ x.pc # "count" /\ call[t].pc # "count"
  BY <1>1, <1>2, <1>4, <1>7, <1>9
<1> QED
  BY <1>5, <1>7, <1>8, StillKeeps

\* A window that is open has its four fields.
LEMMA WindowFields ==
  ASSUME LimitTypes, window.open
  PROVE  /\ window \in Counted
         /\ window.since \in Nat /\ window.from \in Nat /\ window.admitted \in Nat
<1>1. [open |-> FALSE].open = FALSE
  OBVIOUS
<1>2. window \in Counted
  BY <1>1 DEF LimitTypes
<1> QED
  BY <1>2 DEF Counted

\* The window after an admission.
LEMMA WindowAdmits ==
  ASSUME NEW w \in Counted, NEW n \in Nat
  PROVE  LET a == [w EXCEPT !.admitted = n]
         IN  /\ a \in Counted /\ a.open = TRUE /\ a.since = w.since /\ a.from = w.from
             /\ a.admitted = n
<1> DEFINE a == [w EXCEPT !.admitted = n]
<1>1. a \in Counted
  BY ZenonT(60) DEF Counted
<1>2. a.since = w.since /\ a.from = w.from /\ a.admitted = n
  BY DEF Counted
<1>3. a.open = TRUE
  BY <1>1 DEF Counted
<1> QED
  BY <1>1, <1>2, <1>3

\* The window after its client's bucket is forgotten.
LEMMA WindowForgets ==
  ASSUME NEW w \in Counted, NEW r \in Nat
  PROVE  LET b == [w EXCEPT !.from = r]
         IN  /\ b \in Counted /\ b.open = TRUE /\ b.since = w.since /\ b.from = r
             /\ b.admitted = w.admitted
<1> DEFINE b == [w EXCEPT !.from = r]
<1>1. b \in Counted
  BY ZenonT(60) DEF Counted
<1>2. b.since = w.since /\ b.from = r /\ b.admitted = w.admitted
  BY DEF Counted
<1>3. b.open = TRUE
  BY <1>1 DEF Counted
<1> QED
  BY <1>1, <1>2, <1>3

\* A tracked client has a bucket.
LEMMA TrackedBucket ==
  ASSUME LimitTypes, NEW c \in Clients
  PROVE  /\ buckets[c].tracked => buckets[c] \in Bucket
         /\ c \in Tracked <=> buckets[c].tracked
<1>1. NoBucket.tracked = FALSE
  BY DEF NoBucket
<1>2. buckets[c] \in {NoBucket} \cup Bucket
  BY DEF LimitTypes
<1> QED
  BY <1>1, <1>2 DEF Tracked

\* The window after the pass, which read the clock at e, forgot c.
LEMMA ForgetKeeps ==
  ASSUME LimitTypes, NEW c, NEW e \in Nat, Forget(c, e)
  PROVE  /\ window' \in {[open |-> FALSE]} \cup Counted
         /\ window'.open = window.open
         /\ window.open => /\ window'.since = window.since
                           /\ window'.admitted = window.admitted
                           /\ window'.from = IF c = Observed
                                THEN IF window.from >= e THEN window.from ELSE e
                                ELSE window.from
<1>1. CASE window.open /\ c = Observed
  <2>1. window \in Counted /\ window.from \in Nat
    BY <1>1, WindowFields
  <2>2. PICK m \in Nat : m = (IF window.from >= e THEN window.from ELSE e)
    BY <2>1
  <2>3. Max({window.from, e}) = m
    BY <2>1, <2>2, MaxMinTwo
  <2>4. window' = [window EXCEPT !.from = m]
    BY <1>1, <2>3 DEF Forget
  <2>5. window.open = TRUE
    BY <2>1 DEF Counted
  <2>6. /\ window' \in Counted /\ window'.open = TRUE /\ window'.since = window.since
        /\ window'.from = m /\ window'.admitted = window.admitted
    <3> DEFINE w == window
    <3>1. w \in Counted
      BY <2>1
    <3> HIDE DEF w
    <3>2. LET b == [w EXCEPT !.from = m]
          IN  /\ b \in Counted /\ b.open = TRUE /\ b.since = w.since /\ b.from = m
              /\ b.admitted = w.admitted
      BY ONLY <3>1, m \in Nat, WindowForgets
    <3> QED
      BY <2>4, <3>2 DEF w
  <2> QED
    BY <1>1, <2>2, <2>5, <2>6
<1>2. CASE ~(window.open /\ c = Observed)
  <2>1. window' = window
    BY <1>2 DEF Forget
  <2> QED
    BY <1>2, <2>1 DEF LimitTypes
<1> QED
  BY <1>1, <1>2

\* maybe_evict: what is forgotten is owed to the count, and costs the observed
\* client none of its credit.
LEMMA RetainKeeps ==
  ASSUME LimitInv, NEW t \in LimitThreads, \E c \in Clients : RetainShard(t, c)
  PROVE  LimitInv'
<1>0. PICK c \in Clients : RetainShard(t, c)
  OBVIOUS
<1> DEFINE e == call[t].now
           s == call[t].left \ {c}
<1>1. /\ instant \in Nat /\ entries \in Nat /\ lastEviction \in Nat
      /\ IsFiniteSet(Tracked) /\ Cardinality(Tracked) \in Nat
      /\ Cardinality(Uncounted) \in Nat
      /\ entries + Cardinality(Uncounted) = Cardinality(Tracked) + Owing
  BY LimitFigures
<1>2. /\ call \in [LimitThreads -> {NoCall} \cup Acquisition] /\ LimitTypes
      /\ buckets \in [Clients -> {NoBucket} \cup Bucket] /\ lastEviction <= instant
  BY DEF LimitInv, LimitTypes, LimitTimes
<1>3. /\ call[t].pc = "retain" /\ ~Locked(c)
      /\ UNCHANGED <<instant, entries, lastEviction>>
  BY <1>0 DEF RetainShard
<1>4. call[t] \in Acquisition /\ "retain" \in Stages
  BY <1>2, <1>3, CallFields DEF Stages
<1>5. /\ e \in Nat /\ e <= instant /\ call[t].evicted \in Nat /\ call[t].last \in Nat
      /\ s \in SUBSET Clients
  BY <1>3, <1>4, AcquisitionFields DEF LimitInv, LimitTimes
<1>6. CASE ~Evictable(c, e)
  <2> DEFINE x == Becomes(call[t], "retain", call[t].last, s, call[t].evicted)
  <2>1. x \in Acquisition /\ x.pc = "retain" /\ x.now = e /\ x.evicted = call[t].evicted
    BY <1>4, <1>5, CallBecomes
  <2>2. call' = [call EXCEPT ![t].left = @ \ {c}] /\ UNCHANGED <<buckets, window>>
    BY <1>0, <1>6 DEF RetainShard
  <2>3. call' = [call EXCEPT ![t] = [call[t] EXCEPT !.left = s]]
    BY <1>2, <2>2
  <2>7. [call[t] EXCEPT !.left = s] = x
    BY <1>3, <1>4, CallChanges
  <2>4. call' = [call EXCEPT ![t] = x]
    BY <2>3, <2>7
  <2> HIDE DEF x
  <2>5. Proper(x) /\ Unsubtracted(x) = Unsubtracted(call[t])
    BY <1>3, <1>5, <2>1 DEF Proper, Unsubtracted
  <2>6. /\ x \in {NoCall} \cup Acquisition /\ entries' \in Int
        /\ lastEviction' \in Nat /\ lastEviction' <= instant
        /\ entries' + Unsubtracted(call[t]) = entries + Unsubtracted(x)
        /\ instant' = instant /\ buckets' = buckets /\ window' = window
        /\ x.pc # "insert" /\ x.pc # "count" /\ call[t].pc # "count"
    BY <1>1, <1>2, <1>3, <2>1, <2>2, <2>5
  <2> QED
    BY <2>4, <2>5, <2>6, StillKeeps
<1>7. CASE Evictable(c, e)
  <2> DEFINE n == call[t].evicted + 1
             x == Becomes(call[t], "retain", call[t].last, s, n)
  <2>1. n \in Nat
    BY <1>5
  <2>2. x \in Acquisition /\ x.pc = "retain" /\ x.now = e /\ x.evicted = n
    BY <1>4, <1>5, <2>1, CallBecomes
  <2>3. /\ call' = [call EXCEPT ![t].left = @ \ {c}, ![t].evicted = @ + 1]
        /\ buckets' = [buckets EXCEPT ![c] = NoBucket] /\ Forget(c, e)
    BY <1>0, <1>7 DEF RetainShard
  <2>4. call' = [call EXCEPT ![t] = Removes(call[t], s, n)]
    BY <1>2, <2>3 DEF Removes
  <2>5. call' = [call EXCEPT ![t] = x]
    BY <1>3, <1>4, <2>4, CallRemoves
  <2> HIDE DEF x
  <2>6. /\ x \in {NoCall} \cup Acquisition /\ Proper(x) /\ Unsubtracted(x) = n
        /\ Unsubtracted(call[t]) = call[t].evicted
        /\ x.pc # "insert" /\ x.pc # "count" /\ call[t].pc # "insert" /\ call[t].pc # "count"
    BY <1>3, <1>5, <2>2 DEF Proper, Unsubtracted
  <2>7. /\ buckets[c].tracked /\ e - buckets[c].last > IdleThreshold
        /\ c \in Tracked /\ buckets[c] \in Bucket
    BY <1>2, <1>7, TrackedBucket DEF Evictable
  <2>8. NoBucket.tracked = FALSE
    BY DEF NoBucket
  <2>9. Tracked' = Tracked \ {c}
    BY <1>2, <2>3, <2>8 DEF Tracked
  <2>10. IsFiniteSet(Tracked') /\ Cardinality(Tracked') = Cardinality(Tracked) - 1
    BY <1>1, <2>7, <2>9, FS_RemoveElement
  <2>11. /\ call' \in [LimitThreads -> {NoCall} \cup Acquisition]
         /\ Owing \in Nat /\ Owing' \in Nat
         /\ Owing' + Unsubtracted(call[t]) = Owing + Unsubtracted(x)
         /\ Cardinality(Inserters) \in Nat /\ Cardinality(Inserters') \in Nat
         /\ Cardinality(Inserters') + One(call[t].pc = "insert")
              = Cardinality(Inserters) + One(x.pc = "insert")
    BY <1>2, <2>5, <2>6, CallMoves
  <2>12. LimitLocks' /\ Uncounted' = Uncounted
    <3>1. \A d \in Tracked : Locked(d) => d \in Tracked'
      BY <1>3, <2>9
    <3> QED
      BY <2>5, <2>6, <3>1, LocksStay
  <2>13. buckets' \in [Clients -> {NoBucket} \cup Bucket]
    BY <1>2, <2>3
  <2>14. /\ window' \in {[open |-> FALSE]} \cup Counted
         /\ window'.open = window.open
         /\ window.open => /\ window'.since = window.since
                           /\ window'.admitted = window.admitted
                           /\ window'.from = IF c = Observed
                                THEN IF window.from >= e THEN window.from ELSE e
                                ELSE window.from
    BY <1>2, <1>5, <2>3, ForgetKeeps
  <2>15. LimitTypes'
    BY <1>2, <1>3, <2>11, <2>13, <2>14 DEF LimitTypes
  <2>16. LimitTimes'
    <3>1. \A u \in LimitThreads : call'[u].pc # "rest" => call'[u].now <= instant'
      BY <1>3, <2>5, <2>6, ProperMoves
    <3>2. \A d \in Tracked' : buckets'[d].last <= instant'
      BY <1>2, <1>3, <2>3, <2>9 DEF LimitInv, LimitTimes, Tracked
    <3>3. window'.open => window'.since <= window'.from /\ window'.from <= instant'
      <4>1. window.open => /\ window.since <= window.from /\ window.from <= instant
                           /\ window.since \in Nat /\ window.from \in Nat
        BY <1>2, WindowFields DEF LimitInv, LimitTimes
      <4> QED
        BY <1>1, <1>3, <1>5, <2>14, <4>1
    <3> QED
      BY <1>2, <1>3, <3>1, <3>2, <3>3 DEF LimitTimes
  <2>17. LimitCounts'
    <3>1. \A u \in LimitThreads :
            call'[u].pc \notin {"rest", "retain", "subtract"} => call'[u].evicted = 0
      BY <1>3, <2>5, <2>6, ProperMoves
    <3>2. Owing' = Owing + 1
      BY <1>5, <2>6, <2>11
    <3>3. entries' + Cardinality(Uncounted') = Cardinality(Tracked') + Owing'
      BY <1>1, <1>3, <2>10, <2>11, <2>12, <3>2
    <3> QED
      BY <2>10, <3>1, <3>3 DEF LimitCounts, CountsEvery, Owing
  <2>18. LimitRoom'
    <3>1. One(call[t].pc = "insert") = 0 /\ One(x.pc = "insert") = 0
      BY <2>6 DEF One
    <3>2. HardCap \in Nat /\ Cardinality(LimitThreads) \in Nat
      BY LimitNumbers
    <3>3. Cardinality(Tracked) + Cardinality(Inserters)
            <= HardCap + Cardinality(LimitThreads) - 1
      BY DEF LimitInv, LimitRoom
    <3> QED
      BY <1>1, <2>10, <2>11, <3>1, <3>2, <3>3 DEF LimitRoom
  <2>19. LimitCredit'
    <3>1. SUFFICES ASSUME window'.open
                   PROVE  window'.admitted + Promise' <= Burst + (instant' - window'.since)
      BY DEF LimitCredit
    <3>2. /\ window.open /\ window.since \in Nat /\ window.from \in Nat
          /\ window.admitted \in Nat /\ window.from <= instant
          /\ window.admitted + Promise <= Burst + (instant - window.since)
      BY <1>2, <2>14, <3>1, WindowFields DEF LimitInv, LimitTimes, LimitCredit
    <3>3. CASE c = Observed
      <4>1. ~buckets'[Observed].tracked
        BY <1>2, <2>3, <2>8, <3>3
      <4>2. Promise' = Burst + (instant - (IF window.from >= e THEN window.from ELSE e))
        BY <1>3, <2>14, <3>2, <3>3, <4>1 DEF Promise
      <4>3. Promise = Credit(buckets[c].tokens, buckets[c].last, window.from, instant)
        BY <2>7, <3>3 DEF Promise
      <4>4. Promise \in Int /\ Promise' <= Promise
        BY <1>1, <1>5, <2>7, <3>2, <4>2, <4>3, CreditForgotten
      <4>5. Promise' \in Int /\ Burst \in Nat
        BY <1>1, <1>5, <3>2, <4>2, LimitNumbers
      <4> QED
        BY <1>1, <1>3, <2>14, <3>2, <4>4, <4>5
    <3>4. CASE c # Observed
      <4>1. buckets'[Observed] = buckets[Observed]
        BY <1>2, <2>3, <3>4, LimitNumbers
      <4>2. Promise' = Promise
        BY <1>3, <2>14, <3>2, <3>4, <4>1 DEF Promise
      <4> QED
        BY <1>3, <2>14, <3>2, <4>2
    <3> QED
      BY <3>3, <3>4
  <2> QED
    BY <2>12, <2>15, <2>16, <2>17, <2>18, <2>19 DEF LimitInv
<1> QED
  BY <1>6, <1>7

\* try_acquire spends no more than the observed client's credit.
LEMMA AcquireKeeps ==
  ASSUME LimitInv, NEW c \in Tracked, NEW n \in Nat, n <= instant,
         Acquire(c, buckets[c], n), instant' = instant
  PROVE  /\ buckets' \in [Clients -> {NoBucket} \cup Bucket]
         /\ window' \in {[open |-> FALSE]} \cup Counted
         /\ Tracked' = Tracked
         /\ \A d \in Tracked' : buckets'[d].last <= instant'
         /\ window'.open => window'.since <= window'.from /\ window'.from <= instant'
         /\ LimitCredit'
<1> DEFINE b == buckets[c]
           Counts == window.open /\ c = Observed /\ n >= window.from
<1>1. LimitTypes /\ instant \in Nat /\ buckets \in [Clients -> {NoBucket} \cup Bucket]
  BY LimitFigures DEF LimitInv, LimitTypes
<1>2. c \in Clients /\ buckets[c].tracked
  BY DEF Tracked
<1>10. b \in Bucket
  BY <1>1, <1>2, TrackedBucket
<1>3. b \in Bucket /\ b.last \in Nat /\ b.last <= instant
  BY <1>10, BucketFields DEF LimitInv, LimitTimes
<1>4. window.open => /\ window \in Counted /\ window.since \in Nat /\ window.from \in Nat
                     /\ window.admitted \in Nat /\ window.since <= window.from
                     /\ window.from <= instant
                     /\ window.admitted + Promise <= Burst + (instant - window.since)
  BY <1>1, WindowFields DEF LimitInv, LimitTimes, LimitCredit
<1>5. Acquire(c, b, n)
  OBVIOUS
<1>7. b = buckets[c]
  OBVIOUS
<1> HIDE DEF b
<1>8. CASE current_tokens(b, n) >= 1
  <2> DEFINE s == spend(b, n)
  <2>1. /\ buckets' = [buckets EXCEPT ![c] = s]
        /\ window' = IF Counts THEN [window EXCEPT !.admitted = @ + 1] ELSE window
    BY <1>5, <1>8 DEF Acquire
  <2>2. s \in Bucket /\ s.last = IF b.last >= n THEN b.last ELSE n
    BY <1>3, <1>8, SpendType
  <2> HIDE DEF s
  <2>3. s.tracked = TRUE /\ s.last <= instant
    BY <1>1, <1>3, <2>2, BucketFields
  <2>4. buckets' \in [Clients -> {NoBucket} \cup Bucket]
    BY <1>1, <2>1, <2>2
  <2>5. Tracked' = Tracked
    BY <1>1, <1>2, <2>1, <2>3 DEF Tracked
  <2>6. \A d \in Tracked' : buckets'[d].last <= instant'
    BY <1>1, <1>2, <2>1, <2>3, <2>5 DEF LimitInv, LimitTimes, Tracked
  <2>7. /\ window' \in {[open |-> FALSE]} \cup Counted
        /\ window'.open = window.open
        /\ window.open => /\ window'.since = window.since /\ window'.from = window.from
                          /\ window'.admitted = window.admitted + (IF Counts THEN 1 ELSE 0)
    <3>1. CASE Counts
      <4>1. window \in Counted /\ window.admitted + 1 \in Nat /\ window.open = TRUE
        <5>1. window \in Counted /\ window.admitted \in Nat
          BY <1>4, <3>1
        <5>2. window.open = TRUE
          BY <5>1 DEF Counted
        <5> QED
          BY <5>1, <5>2
      <4>2. window' = [window EXCEPT !.admitted = window.admitted + 1]
        BY <2>1, <3>1
      <4> QED
        BY <3>1, <4>1, <4>2, WindowAdmits
    <3>2. CASE ~Counts
      <4>1. window' = window
        BY <2>1, <3>2
      <4> QED
        BY <1>1, <1>4, <3>2, <4>1 DEF LimitTypes
    <3> QED
      BY <3>1, <3>2
  <2>8. ASSUME window.open PROVE Promise' + (IF Counts THEN 1 ELSE 0) <= Promise
                                 /\ Promise \in Int /\ Promise' \in Int
    <3>1. window.from \in Nat /\ window.from <= instant
      BY <1>4, <2>8
    <3>2. CASE c = Observed
      <4>1. Promise' = Credit(s.tokens, s.last, window.from, instant)
        BY <1>1, <1>2, <2>1, <2>3, <2>7, <2>8, <3>2 DEF Promise
      <4>2. Counts <=> n >= window.from
        BY <2>8, <3>2
      <4>3. Promise = Credit(b.tokens, b.last, window.from, instant)
        BY <1>2, <1>7, <3>2 DEF Promise
      <4> QED
        BY <1>1, <1>3, <1>8, <3>1, <4>1, <4>2, <4>3, CreditSpent DEF s
    <3>3. CASE c # Observed
      <4>1. buckets'[Observed] = buckets[Observed] /\ ~Counts
        BY <1>1, <2>1, <3>3, LimitNumbers
      <4>2. Promise' = Promise
        BY <2>7, <2>8, <4>1 DEF Promise
      <4>3. Promise \in Int
        <5>1. buckets[Observed].tracked =>
                /\ buckets[Observed] \in Bucket /\ buckets[Observed].last <= instant
          BY <1>1, TrackedBucket, LimitNumbers DEF LimitInv, LimitTimes
        <5>2. CASE buckets[Observed].tracked
          BY <1>1, <3>1, <5>1, <5>2, CreditGrows DEF Promise
        <5>3. CASE ~buckets[Observed].tracked
          BY <1>1, <3>1, <5>3, LimitNumbers DEF Promise
        <5> QED
          BY <5>2, <5>3
      <4> QED
        BY <4>1, <4>2, <4>3
    <3> QED
      BY <3>2, <3>3
  <2>9. LimitCredit'
    <3>1. SUFFICES ASSUME window'.open
                   PROVE  window'.admitted + Promise' <= Burst + (instant' - window'.since)
      BY DEF LimitCredit
    <3>2. window.open /\ window'.admitted = window.admitted + (IF Counts THEN 1 ELSE 0)
          /\ window'.since = window.since
      BY <2>7, <3>1
    <3>3. PICK k \in {0, 1} : k = IF Counts THEN 1 ELSE 0
      OBVIOUS
    <3> HIDE DEF Counts
    <3>4. Promise' + k <= Promise /\ Promise \in Int /\ Promise' \in Int
      BY <2>8, <3>2, <3>3
    <3>5. /\ window.admitted \in Nat /\ window.since \in Nat /\ Burst \in Nat
          /\ window.admitted + Promise <= Burst + (instant - window.since)
          /\ window'.admitted = window.admitted + k
      BY <1>4, <3>2, <3>3, LimitNumbers
    <3>6. PICK u \in Int, v \in Int : u = Promise /\ v = Promise'
      BY <3>4
    <3>7. PICK w \in Nat, m \in Nat : w = window.admitted /\ m = window.since
      BY <3>5
    <3>8. v + k <= u /\ w + u <= Burst + (instant - m) /\ window'.admitted = w + k
      BY <3>4, <3>5, <3>6, <3>7
    <3>9. (w + k) + v <= Burst + (instant - m)
      <4>1. PICK a \in Int : a = Burst + (instant - m)
        BY <1>1, <3>5, <3>7
      <4>2. v + k <= u /\ w + u <= a
        BY <3>8, <4>1
      <4>3. (w + k) + v <= a
        BY ONLY <4>2, k \in {0, 1}, u \in Int, v \in Int, w \in Nat, a \in Int
      <4> QED
        BY <4>1, <4>3
    <3> QED
      BY <3>2, <3>6, <3>7, <3>8, <3>9
  <2> QED
    BY <1>4, <2>4, <2>5, <2>6, <2>7, <2>9
<1>9. CASE ~(current_tokens(b, n) >= 1)
  <2>1. buckets[c].tracked /\ b = buckets[c]
    BY <1>2, <1>7
  <2>2. buckets' = [buckets EXCEPT ![c] = b] /\ window' = window
    BY <1>5, <1>9 DEF Acquire
  <2>3. buckets' = buckets
    BY <1>1, <2>1, <2>2
  <2>4. Tracked' = Tracked /\ c \in Tracked
    BY <2>1, <2>3 DEF Tracked
  <2>5. Promise' = Promise
    BY <2>2, <2>3 DEF Promise
  <2>6. LimitCredit'
    BY <2>2, <2>5 DEF LimitInv, LimitCredit
  <2> QED
    BY <1>1, <1>4, <2>2, <2>3, <2>4, <2>6 DEF LimitInv, LimitTypes, LimitTimes
<1> QED
  BY <1>8, <1>9

\* vacant.insert: the bucket takes the place that was reserved for it, and stays
\* behind its lock until it is counted.
LEMMA VacantKeeps ==
  ASSUME LimitInv, NEW t \in LimitThreads, InsertBucket(t),
         ~buckets[call[t].client].tracked
  PROVE  LimitInv'
<1> DEFINE c == call[t].client
<1>1. /\ instant \in Nat /\ entries \in Nat /\ lastEviction \in Nat
      /\ IsFiniteSet(Tracked) /\ Cardinality(Tracked) \in Nat
      /\ Cardinality(Uncounted) \in Nat
      /\ entries + Cardinality(Uncounted) = Cardinality(Tracked) + Owing
      /\ call \in [LimitThreads -> {NoCall} \cup Acquisition] /\ LimitTypes
      /\ buckets \in [Clients -> {NoBucket} \cup Bucket] /\ lastEviction <= instant
  BY LimitFigures DEF LimitInv, LimitTypes, LimitTimes
<1>2. /\ call[t].pc = "insert" /\ ~Locked(c) /\ Step(t, "count")
      /\ buckets' = [buckets EXCEPT ![c] = Full]
      /\ UNCHANGED <<instant, entries, lastEviction, window>>
  BY DEF InsertBucket
<1>3. call[t] \in Acquisition /\ c \in Clients
  BY <1>1, <1>2, CallFields, AcquisitionFields
<1>4. /\ call[t].now <= instant /\ call[t].evicted = 0 /\ call[t].last \in Nat
      /\ call[t].left \in SUBSET Clients
  BY <1>2, <1>3, AcquisitionFields DEF LimitInv, LimitTimes, LimitCounts
<1> DEFINE x == Becomes(call[t], "count", call[t].last, call[t].left, call[t].evicted)
<1>5. /\ x \in Acquisition /\ x.pc = "count" /\ x.now = call[t].now
      /\ x.evicted = 0 /\ x.client = c
  BY <1>3, <1>4, CallBecomes DEF Stages
<1>6. call' = [call EXCEPT ![t] = [call[t] EXCEPT !.pc = "count"]]
  BY <1>1, <1>2 DEF Step
<1>7. call' = [call EXCEPT ![t] = x]
  BY <1>3, <1>6, CallChanges
<1> HIDE DEF x
<1>8. /\ x \in {NoCall} \cup Acquisition /\ Proper(x) /\ Unsubtracted(x) = 0
      /\ Unsubtracted(call[t]) = 0
  BY <1>2, <1>4, <1>5 DEF Proper, Unsubtracted
<1>9. /\ call' \in [LimitThreads -> {NoCall} \cup Acquisition]
      /\ Owing \in Nat /\ Owing' \in Nat
      /\ Owing' + Unsubtracted(call[t]) = Owing + Unsubtracted(x)
      /\ Cardinality(Inserters) \in Nat /\ Cardinality(Inserters') \in Nat
      /\ Cardinality(Inserters') + One(call[t].pc = "insert")
           = Cardinality(Inserters) + One(x.pc = "insert")
      /\ Cardinality(Uncounted') \in Nat
      /\ Cardinality(Uncounted') + One(call[t].pc = "count")
           = Cardinality(Uncounted) + One(x.pc = "count")
  BY <1>1, <1>7, <1>8, CallMoves
<1>10. /\ One(call[t].pc = "insert") = 1 /\ One(x.pc = "insert") = 0
       /\ One(call[t].pc = "count") = 0 /\ One(x.pc = "count") = 1
  BY <1>2, <1>5 DEF One
<1>11. Full \in Bucket /\ Full.tracked = TRUE /\ Full.tokens = Burst /\ Full.last = 0
  BY LimitNumbers DEF Full, Bucket
<1>12. Tracked' = Tracked \cup {c} /\ c \notin Tracked
  BY <1>1, <1>2, <1>3, <1>11 DEF Tracked
<1>13. IsFiniteSet(Tracked') /\ Cardinality(Tracked') = Cardinality(Tracked) + 1
  BY <1>1, <1>12, FS_AddElement
<1>14. LimitTypes'
  BY <1>1, <1>2, <1>9, <1>11 DEF LimitTypes
<1>15. LimitTimes'
  <2>1. \A u \in LimitThreads : call'[u].pc # "rest" => call'[u].now <= instant'
    BY <1>2, <1>7, <1>8, ProperMoves
  <2>2. \A d \in Tracked' : buckets'[d].last <= instant'
    <3>1. \A d \in Tracked : buckets'[d].last <= instant'
      BY <1>1, <1>2, <1>12 DEF LimitInv, LimitTimes, Tracked
    <3>2. buckets'[c].last <= instant'
      BY <1>1, <1>2, <1>3, <1>11
    <3> QED
      BY <1>12, <3>1, <3>2
  <2> QED
    BY <1>2, <2>1, <2>2 DEF LimitInv, LimitTimes
<1>16. LimitCounts'
  <2>1. \A u \in LimitThreads :
          call'[u].pc \notin {"rest", "retain", "subtract"} => call'[u].evicted = 0
    BY <1>2, <1>7, <1>8, ProperMoves
  <2>4. Owing' + 0 = Owing + 0
    BY <1>8, <1>9
  <2>5. Cardinality(Uncounted') + 0 = Cardinality(Uncounted) + 1
    BY <1>9, <1>10
  <2>6. /\ Owing \in Nat /\ Owing' \in Nat
        /\ Cardinality(Uncounted) \in Nat /\ Cardinality(Uncounted') \in Nat
    BY <1>1, <1>9
  <2>7. PICK h \in Nat, i \in Nat, j \in Nat, k \in Nat :
          /\ h = Owing /\ i = Owing'
          /\ j = Cardinality(Uncounted) /\ k = Cardinality(Uncounted')
    BY <2>6
  <2>8. i + 0 = h + 0 /\ k + 0 = j + 1
    BY <2>4, <2>5, <2>7
  <2>9. i = h /\ k = j + 1
    BY ONLY <2>8, h \in Nat, i \in Nat, j \in Nat, k \in Nat
  <2>3. Owing' = Owing /\ Cardinality(Uncounted') = Cardinality(Uncounted) + 1
    BY <2>7, <2>9
  <2>2. entries' + Cardinality(Uncounted') = Cardinality(Tracked') + Owing'
    BY <1>1, <1>2, <1>9, <1>13, <2>3
  <2> QED
    BY <1>13, <2>1, <2>2 DEF LimitCounts, CountsEvery, Owing
<1>17. LimitRoom'
  <2>1. HardCap \in Nat /\ Cardinality(LimitThreads) \in Nat
    BY LimitNumbers
  <2>2. Cardinality(Tracked) + Cardinality(Inserters)
          <= HardCap + Cardinality(LimitThreads) - 1
    BY DEF LimitInv, LimitRoom
  <2> QED
    BY <1>1, <1>9, <1>10, <1>13, <2>1, <2>2 DEF LimitRoom
<1>18. LimitLocks'
  <2>1. \A u \in LimitThreads : call'[u] = IF u = t THEN x ELSE call[u]
    BY <1>1, <1>7
  <2>2. \A u \in Uncounted' : u = t \/ (u \in Uncounted /\ u # t)
    BY <2>1 DEF Uncounted
  <2>3. \A u \in Uncounted : call[u].client \in Tracked /\ call[u].client # c
    BY <1>2 DEF LimitInv, LimitLocks, Locked
  <2>4. \A u \in Uncounted : u \in LimitThreads
    BY DEF Uncounted
  <2>5. call'[t].client = c
    BY <1>5, <2>1
  <2>6. \A u \in Uncounted \ {t} : call'[u].client = call[u].client
    BY <2>1, <2>4
  <2>7. \A u \in Uncounted' : call'[u].client \in Tracked'
    BY <1>12, <2>2, <2>3, <2>5, <2>6
  <2>8. \A u, v \in Uncounted : call[u].client = call[v].client => u = v
    BY DEF LimitInv, LimitLocks
  <2>9. \A u, v \in Uncounted' : call'[u].client = call'[v].client => u = v
    BY <2>2, <2>3, <2>5, <2>6, <2>8
  <2> QED
    BY <2>7, <2>9 DEF LimitLocks
<1>19. LimitCredit'
  <2>1. SUFFICES ASSUME window.open
                 PROVE  Promise' = Promise
    BY <1>2 DEF LimitInv, LimitCredit
  <2>2. window.from \in Nat /\ window.from <= instant
    BY <1>1, <2>1, WindowFields DEF LimitInv, LimitTimes
  <2>3. CASE c = Observed
    <3>1. buckets'[Observed] = Full
      BY <1>1, <1>2, <1>3, <2>3
    <3>2. Promise' = Credit(Burst, 0, window.from, instant)
      BY <1>2, <1>11, <3>1 DEF Promise
    <3>3. Promise = Burst + (instant - window.from)
      BY <2>3 DEF Promise
    <3>4. Credit(Burst, 0, window.from, instant) = Burst + (instant - window.from)
      BY <1>1, <2>2, LimitNumbers DEF Credit
    <3> QED
      BY <3>2, <3>3, <3>4
  <2>4. CASE c # Observed
    BY <1>1, <1>2, <2>4, LimitNumbers DEF Promise
  <2> QED
    BY <2>3, <2>4
<1> QED
  BY <1>14, <1>15, <1>16, <1>17, <1>18, <1>19 DEF LimitInv

\* The thread that inserted counts, and a bucket goes in only where the check of
\* the cap left room.
LEMMA BucketKeeps ==
  ASSUME LimitInv, NEW t \in LimitThreads,
         GetBucket(t) \/ InsertBucket(t) \/ CountBucket(t)
  PROVE  LimitInv'
<1> DEFINE c == call[t].client
           n == call[t].now
<1>1. /\ instant \in Nat /\ entries \in Nat /\ lastEviction \in Nat
      /\ IsFiniteSet(Tracked) /\ Cardinality(Tracked) \in Nat
      /\ Cardinality(Uncounted) \in Nat
      /\ entries + Cardinality(Uncounted) = Cardinality(Tracked) + Owing
      /\ call \in [LimitThreads -> {NoCall} \cup Acquisition] /\ LimitTypes
      /\ buckets \in [Clients -> {NoBucket} \cup Bucket] /\ lastEviction <= instant
  BY LimitFigures DEF LimitInv, LimitTypes, LimitTimes
<1>2. /\ call[t].pc \in {"get", "insert", "count"}
      /\ instant' = instant /\ lastEviction' = lastEviction
  BY DEF GetBucket, InsertBucket, CountBucket
<1>3. call[t] \in Acquisition /\ c \in Clients /\ n \in Nat
  BY <1>1, <1>2, CallFields, AcquisitionFields
<1>4. n <= instant /\ call[t].evicted = 0 /\ call[t].last \in Nat
      /\ call[t].left \in SUBSET Clients
  BY <1>2, <1>3, AcquisitionFields DEF LimitInv, LimitTimes, LimitCounts
<1>5. Unsubtracted(call[t]) = 0
  BY <1>2, <1>4 DEF Unsubtracted
<1>6. c \in Tracked <=> buckets[c].tracked
  BY <1>1, <1>3, TrackedBucket
<1>7. ASSUME Acquire(c, buckets[c], n), Done(t), c \in Tracked,
             entries' = entries + One(call[t].pc = "count")
      PROVE  LimitInv'
  <2>1. NoCall \in {NoCall} \cup Acquisition /\ NoCall.pc = "rest"
    BY DEF NoCall
  <2>2. Proper(NoCall) /\ Unsubtracted(NoCall) = 0
    BY <2>1 DEF Proper, Unsubtracted
  <2>3. call' = [call EXCEPT ![t] = NoCall]
    BY <1>7 DEF Done
  <2>4. /\ call' \in [LimitThreads -> {NoCall} \cup Acquisition]
        /\ Owing \in Nat /\ Owing' \in Nat
        /\ Owing' + Unsubtracted(call[t]) = Owing + Unsubtracted(NoCall)
        /\ Cardinality(Inserters) \in Nat /\ Cardinality(Inserters') \in Nat
        /\ Cardinality(Inserters') + One(call[t].pc = "insert")
             = Cardinality(Inserters) + One(NoCall.pc = "insert")
        /\ Cardinality(Uncounted') \in Nat
        /\ Cardinality(Uncounted') + One(call[t].pc = "count")
             = Cardinality(Uncounted) + One(NoCall.pc = "count")
    BY <1>1, <2>1, <2>3, CallMoves
  <2>5. /\ buckets' \in [Clients -> {NoBucket} \cup Bucket]
        /\ window' \in {[open |-> FALSE]} \cup Counted
        /\ Tracked' = Tracked
        /\ \A d \in Tracked' : buckets'[d].last <= instant'
        /\ window'.open => window'.since <= window'.from /\ window'.from <= instant'
        /\ LimitCredit'
    BY <1>2, <1>3, <1>4, <1>7, AcquireKeeps
  <2>6. /\ One(NoCall.pc = "insert") = 0 /\ One(NoCall.pc = "count") = 0
        /\ One(call[t].pc = "insert") \in {0, 1} /\ One(call[t].pc = "count") \in {0, 1}
    BY <2>1, OneType DEF One
  <2>7. /\ Owing' = Owing /\ entries' \in Nat
        /\ entries' + Cardinality(Uncounted') = Cardinality(Tracked) + Owing
        /\ Cardinality(Inserters') <= Cardinality(Inserters)
    BY <1>1, <1>5, <1>7, <2>2, <2>4, <2>6
  <2>8. LimitTypes'
    BY <1>1, <1>2, <2>4, <2>5, <2>7 DEF LimitTypes
  <2>9. LimitTimes'
    <3>1. \A u \in LimitThreads : call'[u].pc # "rest" => call'[u].now <= instant'
      BY <1>2, <2>1, <2>2, <2>3, ProperMoves
    <3> QED
      BY <1>1, <1>2, <2>5, <3>1 DEF LimitTimes
  <2>10. LimitCounts'
    <3>1. \A u \in LimitThreads :
            call'[u].pc \notin {"rest", "retain", "subtract"} => call'[u].evicted = 0
      BY <1>2, <2>1, <2>2, <2>3, ProperMoves
    <3> QED
      BY <1>1, <2>5, <2>7, <3>1 DEF LimitCounts, CountsEvery, Owing
  <2>11. LimitRoom'
    <3>1. HardCap \in Nat /\ Cardinality(LimitThreads) \in Nat
      BY LimitNumbers
    <3>2. Cardinality(Tracked) + Cardinality(Inserters)
            <= HardCap + Cardinality(LimitThreads) - 1
      BY DEF LimitInv, LimitRoom
    <3> QED
      BY <1>1, <2>4, <2>5, <2>7, <3>1, <3>2 DEF LimitRoom
  <2>12. LimitLocks'
    <3>1. \A u \in LimitThreads : call'[u] = IF u = t THEN NoCall ELSE call[u]
      BY <1>1, <2>3
    <3>2. \A u \in Uncounted' : u \in Uncounted /\ call'[u] = call[u]
      BY <2>1, <3>1 DEF Uncounted
    <3> QED
      BY <2>5, <3>2 DEF LimitInv, LimitLocks
  <2> QED
    BY <2>5, <2>8, <2>9, <2>10, <2>11, <2>12 DEF LimitInv
<1>8. CASE GetBucket(t) /\ ~buckets[c].tracked
  <2> DEFINE x == Becomes(call[t], "cap", call[t].last, call[t].left, call[t].evicted)
  <2>1. call[t].pc = "get" /\ Step(t, "cap") /\ UNCHANGED <<buckets, entries, window>>
    BY <1>8 DEF GetBucket
  <2>2. x \in Acquisition /\ x.pc = "cap" /\ x.now = n /\ x.evicted = call[t].evicted
    BY <1>3, <1>4, CallBecomes DEF Stages
  <2>3. call' = [call EXCEPT ![t] = [call[t] EXCEPT !.pc = "cap"]]
    BY <1>1, <2>1 DEF Step
  <2>4. call' = [call EXCEPT ![t] = x]
    BY <1>3, <2>3, CallChanges
  <2> HIDE DEF x
  <2>5. Proper(x) /\ Unsubtracted(x) = 0
    BY <1>4, <2>2 DEF Proper, Unsubtracted
  <2>6. /\ x \in {NoCall} \cup Acquisition /\ entries' \in Int
        /\ lastEviction' \in Nat /\ lastEviction' <= instant
        /\ entries' + Unsubtracted(call[t]) = entries + Unsubtracted(x)
        /\ instant' = instant /\ buckets' = buckets /\ window' = window
        /\ x.pc # "insert" /\ x.pc # "count" /\ call[t].pc # "count"
    BY <1>1, <1>2, <1>5, <2>1, <2>2, <2>5
  <2> QED
    BY <2>4, <2>5, <2>6, StillKeeps
<1>9. CASE InsertBucket(t) /\ ~buckets[c].tracked
  BY <1>9, VacantKeeps
<1>10. CASE (GetBucket(t) \/ InsertBucket(t)) /\ buckets[c].tracked
  <2>1. call[t].pc \in {"get", "insert"} /\ entries' = entries
        /\ Acquire(c, buckets[c], n) /\ Done(t)
    BY <1>10 DEF GetBucket, InsertBucket
  <2>2. One(call[t].pc = "count") = 0
    BY <2>1 DEF One
  <2> QED
    BY <1>1, <1>6, <1>7, <1>10, <2>1, <2>2
<1>11. CASE CountBucket(t)
  <2>1. call[t].pc = "count" /\ entries' = entries + 1
        /\ Acquire(c, buckets[c], n) /\ Done(t)
    BY <1>11 DEF CountBucket
  <2>2. One(call[t].pc = "count") = 1 /\ t \in Uncounted
    BY <2>1 DEF One, Uncounted
  <2>3. c \in Tracked
    BY <2>2 DEF LimitInv, LimitLocks
  <2> QED
    BY <1>7, <2>1, <2>2, <2>3
<1> QED
  BY <1>8, <1>9, <1>10, <1>11

\* Time passes, and an observer may start to count.
LEMMA ObserverKeeps ==
  ASSUME LimitInv, LimitTick \/ OpenWindow
  PROVE  LimitInv'
<1>1. /\ instant \in Nat /\ entries \in Nat /\ lastEviction \in Nat
      /\ LimitTypes /\ LimitTimes /\ LimitCounts /\ LimitLocks /\ LimitRoom
  BY LimitFigures DEF LimitInv
<1>2. UNCHANGED <<buckets, entries, lastEviction, call>>
  BY DEF LimitTick, OpenWindow
<1>3. Tracked' = Tracked /\ Inserters' = Inserters /\ LimitCounts' /\ LimitLocks' /\ LimitRoom'
  BY <1>1, <1>2 DEF Tracked, Inserters, Uncounted, LimitCounts, LimitLocks, CountsEvery, LimitRoom
<1>4. buckets[Observed].tracked =>
        buckets[Observed] \in Bucket /\ buckets[Observed].last <= instant
  BY <1>1, TrackedBucket, LimitNumbers DEF LimitTimes
<1>5. Burst \in Nat /\ MaxInstant \in Nat
  BY LimitNumbers
<1>6. \A s \in LimitThreads : call[s].pc # "rest" => call[s].now \in Nat /\ call[s].now <= instant
  BY <1>1, CallFields, AcquisitionFields DEF LimitTimes, LimitTypes
<1>7. \A d \in Tracked : buckets[d].last \in Nat /\ buckets[d].last <= instant
  <2>1. ASSUME NEW d \in Tracked PROVE buckets[d].last \in Nat
    <3>1. d \in Clients
      BY DEF Tracked
    <3>2. buckets[d] \in Bucket
      BY <1>1, <3>1, TrackedBucket
    <3> QED
      BY <3>2, BucketFields
  <2> QED
    BY <1>1, <2>1 DEF LimitTimes
<1>8. CASE LimitTick
  <2>1. instant' = instant + 1 /\ instant' \in 0 .. MaxInstant /\ window' = window
    BY <1>1, <1>5, <1>8 DEF LimitTick
  <2>2. LimitTypes'
    BY <1>1, <1>2, <2>1 DEF LimitTypes
  <2>3. window.open => /\ window.since \in Nat /\ window.from \in Nat /\ window.admitted \in Nat
                       /\ window.since <= window.from /\ window.from <= instant
                       /\ window.admitted + Promise <= Burst + (instant - window.since)
    BY <1>1, WindowFields DEF LimitTimes, LimitInv, LimitCredit
  <2>4. LimitTimes'
    <3>1. lastEviction' <= instant' /\ (\A d \in Tracked' : buckets'[d].last <= instant')
      BY <1>1, <1>2, <1>3, <1>7, <2>1 DEF LimitTimes
    <3>2. \A s \in LimitThreads : call'[s].pc # "rest" => call'[s].now <= instant'
      BY <1>1, <1>2, <1>6, <2>1
    <3>3. window'.open => window'.since <= window'.from /\ window'.from <= instant'
      BY <1>1, <2>1, <2>3
    <3> QED
      BY <3>1, <3>2, <3>3 DEF LimitTimes
  <2>5. ASSUME window.open PROVE Promise' = Promise + 1 /\ Promise \in Int
    <3>1. CASE buckets[Observed].tracked
      BY <1>1, <1>2, <1>4, <2>1, <2>3, <2>5, <3>1, CreditGrows DEF Promise
    <3>2. CASE ~buckets[Observed].tracked
      BY <1>1, <1>2, <1>5, <2>1, <2>3, <2>5, <3>2 DEF Promise
    <3> QED
      BY <3>1, <3>2
  <2>6. LimitCredit'
    BY <1>1, <1>5, <2>1, <2>3, <2>5 DEF LimitCredit
  <2> QED
    BY <1>3, <2>2, <2>4, <2>6 DEF LimitInv
<1>9. CASE OpenWindow
  <2>1. /\ instant' = instant
        /\ window' = [open |-> TRUE, since |-> instant, from |-> instant, admitted |-> 0]
    BY <1>9 DEF OpenWindow
  <2>2. window' \in Counted /\ window'.since = instant /\ window'.from = instant
        /\ window'.admitted = 0
    BY <1>1, <2>1 DEF Counted
  <2>3. LimitTypes'
    BY <1>1, <1>2, <2>1, <2>2 DEF LimitTypes
  <2>4. LimitTimes'
    BY <1>1, <1>2, <1>3, <2>1, <2>2 DEF LimitTimes
  <2>5. Promise' \in Int /\ Promise' <= Burst
    <3>1. CASE buckets[Observed].tracked
      BY <1>1, <1>2, <1>4, <2>1, <2>2, <3>1, CreditGrows DEF Promise
    <3>2. CASE ~buckets[Observed].tracked
      BY <1>1, <1>2, <1>5, <2>1, <2>2, <3>2 DEF Promise
    <3> QED
      BY <3>1, <3>2
  <2>6. window'.admitted + Promise' <= Burst + (instant' - window'.since)
    <3>1. PICK v \in Int : v = Promise'
      BY <2>5
    <3>2. v <= Burst
      BY <2>5, <3>1
    <3>3. instant - instant = 0 /\ 0 + v = v /\ Burst + 0 = Burst
      BY <1>1, <1>5
    <3>4. instant' - window'.since = instant - instant /\ window'.admitted = 0
      BY <2>1, <2>2
    <3> QED
      BY <3>1, <3>2, <3>3, <3>4
  <2> QED
    BY <1>3, <2>3, <2>4, <2>6 DEF LimitInv, LimitCredit
<1> QED
  BY <1>8, <1>9

\* The rate limiter's invariant.
LEMMA LimitInvariant == LimitSpec => []LimitInv
<1>1. LimitInit => LimitInv
  <2> SUFFICES ASSUME LimitInit PROVE LimitInv
    OBVIOUS
  <2>1. /\ instant = 0 /\ entries = 0 /\ lastEviction = 0
        /\ buckets = [c \in Clients |-> NoBucket]
        /\ call = [t \in LimitThreads |-> NoCall] /\ window = [open |-> FALSE]
    BY DEF LimitInit
  <2>2. NoCall.pc = "rest" /\ NoBucket.tracked = FALSE
    BY DEF NoCall, NoBucket
  <2>3. LimitTypes
    BY <2>1, LimitNumbers DEF LimitTypes
  <2>4. Tracked = {} /\ Inserters = {} /\ Uncounted = {}
    BY <2>1, <2>2 DEF Tracked, Inserters, Uncounted
  <2>5. ~window.open
    BY <2>1
  <2>6. LimitTimes
    BY <2>1, <2>2, <2>4, <2>5 DEF LimitTimes
  <2>7. /\ IsFiniteSet(Tracked) /\ Cardinality(Tracked) = 0 /\ Cardinality(Inserters) = 0
        /\ Cardinality(Uncounted) = 0
    BY <2>4, FS_EmptySet
  <2>8. Owing = 0
    <3> DEFINE f == [t \in LimitThreads |-> IF call[t].pc = "rest" THEN 0 ELSE call[t].evicted]
    <3>1. f \in [LimitThreads -> Nat] /\ \A t \in LimitThreads : f[t] = 0
      BY <2>1, <2>2
    <3>2. IsFiniteSet(LimitThreads)
      BY LimitNumbers
    <3>3. Owing = Total(LimitThreads, f)
      BY DEF Owing
    <3> HIDE DEF f
    <3> QED
      BY <3>1, <3>2, <3>3, TotalZero
  <2>9. LimitCounts
    BY <2>1, <2>2, <2>7, <2>8 DEF LimitCounts, CountsEvery, Owing
  <2>10. LimitRoom
    BY <2>7, LimitNumbers DEF LimitRoom
  <2>11. LimitCredit
    BY <2>5 DEF LimitCredit
  <2>12. LimitLocks
    BY <2>4 DEF LimitLocks
  <2> QED
    BY <2>3, <2>6, <2>9, <2>10, <2>11, <2>12 DEF LimitInv
<1>2. LimitInv /\ [LimitNext]_limitVars => LimitInv'
  <2> SUFFICES ASSUME LimitInv, [LimitNext]_limitVars PROVE LimitInv'
    OBVIOUS
  <2>1. CASE LimitTick \/ OpenWindow
    BY <2>1, ObserverKeeps
  <2>2. ASSUME NEW t \in LimitThreads, LimitStep(t) PROVE LimitInv'
    <3>1. CASE \/ \E c \in Clients : BeginAcquire(t, c)
               \/ ReadLast(t) \/ ClaimPass(t) \/ EndRetain(t) \/ CheckCap(t)
      BY <3>1, QuietLimitKeeps
    <3>2. CASE \E c \in Clients : RetainShard(t, c)
      BY <3>2, RetainKeeps
    <3>3. CASE SubtractEvicted(t)
      BY <3>3, SubtractKeeps
    <3>4. CASE GetBucket(t) \/ InsertBucket(t) \/ CountBucket(t)
      BY <3>4, BucketKeeps
    <3> QED
      BY <2>2, <3>1, <3>2, <3>3, <3>4 DEF LimitStep
  <2>3. CASE UNCHANGED limitVars
    BY <2>3 DEF limitVars, LimitInv, LimitTypes, LimitTimes, LimitCounts, CountsEvery,
        LimitLocks, LimitRoom, LimitCredit, Promise, Tracked, Inserters, Uncounted
  <2> QED
    BY <2>1, <2>2, <2>3 DEF LimitNext
<1> QED
  BY <1>1, <1>2, PTL DEF LimitSpec

\* The invariant bounds the admissions and the map.
LEMMA LimitHolds == LimitInv => LimiterSound /\ LimitTypeOK
<1> SUFFICES ASSUME LimitInv PROVE LimiterSound /\ LimitTypeOK
  OBVIOUS
<1>1. /\ instant \in Nat /\ entries \in Nat /\ lastEviction \in Nat
      /\ IsFiniteSet(Tracked) /\ Cardinality(Tracked) \in Nat
      /\ LimitTypes /\ LimitTimes
  BY LimitFigures DEF LimitInv
<1>2. WindowBound
  <2>1. SUFFICES ASSUME window.open
                 PROVE  window.admitted <= Burst + (instant - window.since)
    BY DEF WindowBound
  <2>2. /\ window.since \in Nat /\ window.from \in Nat /\ window.admitted \in Nat
        /\ window.from <= instant /\ window.admitted + Promise <= Burst + (instant - window.since)
    BY <1>1, <2>1, WindowFields DEF LimitInv, LimitTimes, LimitCredit
  <2>3. Promise \in Int /\ Promise >= 0
    <3>1. CASE buckets[Observed].tracked
      <4>1. buckets[Observed] \in Bucket /\ buckets[Observed].last <= instant
        BY <1>1, <3>1, TrackedBucket, LimitNumbers DEF LimitTimes
      <4> QED
        BY <1>1, <2>2, <3>1, <4>1, CreditGrows DEF Promise
    <3>2. CASE ~buckets[Observed].tracked
      BY <1>1, <2>2, <3>2, LimitNumbers DEF Promise
    <3> QED
      BY <3>1, <3>2
  <2>4. PICK u \in Nat : u = Promise
    BY <2>3
  <2>5. Burst \in Nat /\ window.admitted + u <= Burst + (instant - window.since)
    BY <2>2, <2>4, LimitNumbers
  <2> QED
    BY <1>1, <2>2, <2>4, <2>5
<1>3. CapHolds
  <2>1. CountsEvery /\ Cardinality(Tracked) + Cardinality(Inserters)
                         <= HardCap + Cardinality(LimitThreads) - 1
    BY DEF LimitInv, LimitCounts, LimitRoom
  <2>2. Inserters \subseteq LimitThreads /\ IsFiniteSet(LimitThreads)
    BY LimitNumbers DEF Inserters
  <2>3. Cardinality(Inserters) \in Nat
    BY <2>2, CountPart
  <2>4. HardCapHolds
    BY <1>1, <2>1, <2>3, LimitNumbers DEF HardCapHolds
  <2>5. NeverWraps
    BY CoversOwed DEF NeverWraps
  <2> QED
    BY <2>1, <2>4, <2>5 DEF CapHolds
<1>4. LimitTypeOK
  <2>1. instant \in 0 .. MaxInstant /\ lastEviction \in 0 .. MaxInstant
    BY <1>1, LimitNumbers DEF LimitTypes, LimitTimes
  <2>2. ASSUME NEW c \in Tracked
        PROVE  buckets[c].tokens \in 0 .. Burst /\ buckets[c].last \in 0 .. MaxInstant
    <3>1. c \in Clients
      BY DEF Tracked
    <3>2. buckets[c] \in Bucket /\ buckets[c].last <= instant
      BY <1>1, <3>1, TrackedBucket DEF LimitTimes
    <3>3. buckets[c].tokens \in 0 .. Burst /\ buckets[c].last \in Nat
      BY <3>2, BucketFields
    <3> QED
      BY <1>1, <2>1, <3>2, <3>3, LimitNumbers
  <2>3. ASSUME NEW t \in LimitThreads
        PROVE  call[t].pc \in {"rest", "read", "claim", "retain", "subtract", "get", "cap",
                               "insert", "count"}
    <3>1. call[t] \in {NoCall} \cup Acquisition
      BY <1>1 DEF LimitTypes
    <3> QED
      BY <3>1, CallFields, AcquisitionFields DEF Stages
  <2> QED
    BY <1>1, <2>1, <2>2, <2>3 DEF LimitTypeOK
<1> QED
  BY <1>2, <1>3, <1>4 DEF LimiterSound

\* LimiterSound: whatever is evicted meanwhile and however long a request is
\* held up with its reading of the clock, a client is admitted no more than its
\* burst and rate allow; and the count that the hard cap is compared with is
\* the number of buckets but for the insertions and removals under way, never
\* wraps, and lets the map outgrow the cap by less than one bucket per thread
\* (try_acquire_for, acquire_per_ip, maybe_evict).
THEOREM LimiterCorrect == LimitSpec => []LimiterSound
<1>1. LimitInv => LimiterSound
  BY LimitHolds
<1> QED
  BY <1>1, LimitInvariant, PTL

-----------------------------------------------------------------------------
(***************************************************************************)
(* The four together.                                                      *)
(***************************************************************************)

\* The flag that keeps samples apart is set or clear.
LEMMA SamplingFlag == FdSpec => [](sampling \in BOOLEAN)
<1>1. FdInit => sampling \in BOOLEAN
  BY DEF FdInit
<1>2. sampling \in BOOLEAN /\ [FdNext]_fdVars => (sampling \in BOOLEAN)'
  <2> SUFFICES ASSUME sampling \in BOOLEAN, [FdNext]_fdVars PROVE sampling' \in BOOLEAN
    OBVIOUS
  <2>1. ASSUME NEW r \in FdRequests,
               \/ Claim(r) \/ ReadCharges(r) \/ ReadSample(r) \/ Unclaim(r)
               \/ OpenDescriptor(r) \/ Charge(r) \/ Release(r) \/ Settle(r)
               \/ CloseDescriptor(r) \/ ServeAnother(r)
        PROVE  sampling' = sampling
    BY <2>1 DEF Claim, ReadCharges, ReadSample, Unclaim, OpenDescriptor, Charge, Release,
        Settle, CloseDescriptor, ServeAnother
  <2>2. ASSUME NEW s \in Samplers,
               \/ BeginSample(s) \/ CountOpen(s) \/ CountFails(s)
               \/ PublishSample(s) \/ AbsorbCharges(s)
        PROVE  sampling' = TRUE \/ sampling' = FALSE \/ sampling' = sampling
    BY <2>2 DEF BeginSample, CountOpen, CountFails, PublishSample, AbsorbCharges
  <2>3. CASE UNCHANGED fdVars
    BY <2>3 DEF fdVars
  <2>4. sampling' = TRUE \/ sampling' = FALSE \/ sampling' = sampling
    BY <2>1, <2>2, <2>3 DEF FdNext
  <2> QED
    BY <2>4
<1> QED
  BY <1>1, <1>2, PTL DEF FdSpec

\* The types of descriptor admission.
LEMMA FdTypesHold == FdInv /\ sampling \in BOOLEAN => FdTypeOK
<1> SUFFICES ASSUME FdInv, sampling \in BOOLEAN PROVE FdTypeOK
  OBVIOUS
<1>1. /\ cached \in Nat /\ connected \in Nat /\ pending \in Nat
      /\ request \in [FdRequests -> RequestState] /\ sampler \in [Samplers -> SamplerState]
  BY DEF FdInv, FdTypes
<1> DEFINE R == {r \in FdRequests : request[r].pc \in
                   {"claimed", "charges", "refused", "admitted", "charged"}}
<1>2. R \subseteq FdRequests /\ IsFiniteSet(FdRequests)
  BY FdBounds
<1>3. pending = Cardinality(R)
  BY DEF FdInv, ClaimsBalanced
<1> HIDE DEF R
<1>4. pending \in 0 .. Cardinality(FdRequests)
  BY <1>1, <1>2, <1>3, CountPart
<1>5. \A r \in FdRequests :
        /\ request[r].held \in 0 .. Cost
        /\ request[r].pc \in {"new", "claimed", "charges", "refused", "admitted",
                              "charged", "served", "gone"}
  BY <1>1, RequestFields DEF Contending, Linked
<1>6. \A s \in Samplers : sampler[s].pc \in {"asleep", "count", "publish", "absorb"}
  BY <1>1 DEF SamplerState, Asleep
<1> QED
  BY <1>1, <1>4, <1>5, <1>6 DEF FdTypeOK

\* A behaviour of the model that TLC checks is, for each of the four, one of
\* its own specification: no step of one disturbs another.
LEMMA StoresApart == StoresSpec => Spec /\ StoreSpec /\ LimitSpec /\ FdSpec
<1>1. StoresInit => Init /\ StoreInit /\ LimitInit /\ FdInit
  BY DEF StoresInit
<1>2. [StoresNext]_storesVars => [Next]_vars
  BY DEF StoresNext, storesVars
<1>3. [StoresNext]_storesVars => [StoreNext]_storeVars
  BY DEF StoresNext, storesVars
<1>4. [StoresNext]_storesVars => [LimitNext]_limitVars
  BY DEF StoresNext, storesVars
<1>5. [StoresNext]_storesVars => [FdNext]_fdVars
  BY DEF StoresNext, storesVars
<1> QED
  BY <1>1, <1>2, <1>3, <1>4, <1>5, PTL DEF StoresSpec, Spec, StoreSpec, LimitSpec, FdSpec

\* Type correctness of the four.  The retry budget's tokens never pass its cap,
\* a bucket never holds more than its burst, and no more claims are pending
\* than there are requests (max_tokens, current_tokens, try_admit).
THEOREM TypesCorrect == StoresSpec => []StoresTypeOK
<1>1. BudgetInv => TypeOK
  BY DEF BudgetInv
<1>2. LimitInv => LimitTypeOK
  BY LimitHolds
<1>3. TypeOK /\ StoreTypeOK /\ LimitTypeOK /\ FdTypeOK => StoresTypeOK
  BY DEF StoresTypeOK
<1> QED
  BY <1>1, <1>2, <1>3, StoresApart, BudgetInvariant, StoreInvariant, StoreTypesHold,
     LimitInvariant, FdInvariant, SamplingFlag, FdTypesHold, PTL

\* Every property of the four holds of the model that TLC checks.
THEOREM StoresCorrect ==
  StoresSpec => [](BudgetExact /\ EveryEntryEvictable /\ StoreBounded
                   /\ LimiterSound /\ NeverOvercommitted) /\ RefreshedSurvives
<1> QED
  BY StoresApart, BudgetCorrect, EvictionCorrect, BoundsCorrect, RefreshCorrect,
     LimiterCorrect, AdmissionCorrect, PTL
=============================================================================
