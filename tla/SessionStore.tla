---------------------------- MODULE SessionStore ----------------------------
(***************************************************************************)
(* The sticky-session store (sticky_sessions/store.rs): a concurrent map   *)
(* from session keys to endpoints, bounded by a queue of                   *)
(* (key, generation) occurrences in insertion order.  A map operation is   *)
(* atomic under its shard lock, the queue has a mutex of its own, and the  *)
(* two are never held together while another thread can interfere with     *)
(* both: every operation is a sequence of such steps.                      *)
(*                                                                         *)
(* Time is kept as two bits of an entry: whether its time to live has run  *)
(* out, and whether it was accessed since it was queued.                   *)
(***************************************************************************)
EXTENDS Integers, Sequences, FiniteSets, SequencesExt

CONSTANTS
    Keys,           \* session keys
    StoreThreads,   \* request threads
    MaxEntries,     \* max_entries
    Lru,            \* eviction policy: LRU (TRUE) or TTL (FALSE)
    Chances,        \* EVICTION_SECOND_CHANCES
    MaxGeneration   \* bound on next_generation

ASSUME StoreBounds ==
    /\ IsFiniteSet(StoreThreads)
    /\ MaxEntries \in Nat \ {0} /\ Chances \in Nat /\ MaxGeneration \in Nat
    /\ Lru \in BOOLEAN

VARIABLES
    map,            \* key -> entry, or Absent
    occurrences,    \* eviction_queue
    lock,           \* the thread that holds the queue's mutex, or Unlocked
    generation,     \* next_generation
    job             \* thread -> the operation it is in

storeVars == <<map, occurrences, lock, generation, job>>

Absent == [live |-> FALSE]
Unlocked == [held |-> FALSE]
Resting == [pc |-> "rest"]

Present(k) == map[k].live
Size == Cardinality({k \in Keys : Present(k)})
Fresh(g) == [live |-> TRUE, gen |-> g, expired |-> FALSE, accessed |-> FALSE]

StoreInit ==
    /\ map = [k \in Keys |-> Absent]
    /\ occurrences = <<>> /\ lock = Unlocked /\ generation = 0
    /\ job = [t \in StoreThreads |-> Resting]

At(t, pc) == job[t].pc = pc
Goto(t, pc) == job' = [job EXCEPT ![t] = [pc |-> pc, key |-> job[t].key]]
Rest(t) == job' = [job EXCEPT ![t] = Resting]

\* The time to live of an entry runs out.
Expire(k) ==
    /\ Present(k) /\ ~map[k].expired
    /\ map' = [map EXCEPT ![k].expired = TRUE]
    /\ UNCHANGED <<occurrences, lock, generation, job>>

WithoutExpired == [k \in Keys |-> IF Present(k) /\ map[k].expired THEN Absent
                                  ELSE map[k]]

\* maybe_sweep: whether enough time has passed since the last sweep is left
\* open.
maybe_sweep == map' \in {map, WithoutExpired}

------------------------------------------------------------------------------
(* get                                                                     *)

Lookup(t, k) ==
    /\ At(t, "rest") /\ Present(k)
    /\ IF map[k].expired
       THEN job' = [job EXCEPT ![t] = [pc |-> "expired", key |-> k]]
            /\ UNCHANGED map
       ELSE map' = [map EXCEPT ![k].accessed = TRUE] /\ UNCHANGED job
    /\ UNCHANGED <<occurrences, lock, generation>>

\* Mutant: the expired entry is removed without looking at it again.
RemoveUnchecked(t) ==
    /\ At(t, "expired")
    /\ map' = [map EXCEPT ![job[t].key] = Absent]
    /\ Goto(t, "sweep")
    /\ UNCHANGED <<occurrences, lock, generation>>

\* remove_if looks again under the shard lock.
RemoveExpired(t) ==
    /\ At(t, "expired")
    /\ LET k == job[t].key
       IN  map' = [map EXCEPT ![k] = IF Present(k) /\ @.expired THEN Absent
                                     ELSE @]
    /\ Goto(t, "sweep")
    /\ UNCHANGED <<occurrences, lock, generation>>

SweepAfterMiss(t) ==
    /\ At(t, "sweep")
    /\ maybe_sweep
    /\ Rest(t)
    /\ UNCHANGED <<occurrences, lock, generation>>

------------------------------------------------------------------------------
(* put                                                                     *)

\* An update keeps the entry's generation and its place in the queue.
Put(t, k) ==
    /\ At(t, "rest")
    /\ IF Present(k)
       THEN map' = [map EXCEPT ![k].accessed = TRUE, ![k].expired = FALSE]
            /\ UNCHANGED job
       ELSE maybe_sweep
            /\ job' = [job EXCEPT ![t] = [pc |-> "bound", key |-> k]]
    /\ UNCHANGED <<occurrences, lock, generation>>

\* Mutant: one more entry than the bound is let in.
CheckBoundOffByOne(t) ==
    /\ At(t, "bound")
    /\ Goto(t, IF Size <= MaxEntries THEN "insert" ELSE "lock")
    /\ UNCHANGED <<map, occurrences, lock, generation>>

\* The capacity loop: below the bound, insert; else evict one.
CheckBound(t) ==
    /\ At(t, "bound")
    /\ Goto(t, IF Size < MaxEntries THEN "insert" ELSE "lock")
    /\ UNCHANGED <<map, occurrences, lock, generation>>

\* evict_one takes the queue's mutex, and evicts whatever the store's size has
\* become while it waited.
LockQueue(t) ==
    /\ At(t, "lock") /\ lock = Unlocked
    /\ lock' = [held |-> TRUE, by |-> t]
    /\ job' = [job EXCEPT ![t] = [pc |-> "pop", key |-> @.key, chances |-> 0]]
    /\ UNCHANGED <<map, occurrences, generation>>

\* evict_one, one turn of its loop up to the release of the shard lock.
PopOccurrence(t) ==
    /\ At(t, "pop") /\ occurrences # <<>>
    /\ LET k == Head(occurrences)[1]
           g == Head(occurrences)[2]
           current == Present(k) /\ map[k].gen = g
           spared == /\ Lru /\ job[t].chances < Chances
                     /\ ~map[k].expired /\ map[k].accessed
       IN  \/ /\ ~current
              /\ occurrences' = Tail(occurrences)
              /\ UNCHANGED <<map, generation, job>>
           \/ /\ current /\ spared
              /\ generation < MaxGeneration
              /\ generation' = generation + 1
              /\ map' = [map EXCEPT ![k].gen = generation, ![k].accessed = FALSE]
              /\ occurrences' = Append(Tail(occurrences), <<k, generation>>)
              /\ job' = [job EXCEPT ![t].chances = @ + 1]
           \/ /\ current /\ ~spared
              /\ occurrences' = Tail(occurrences)
              /\ job' = [job EXCEPT ![t] = [pc |-> "victim", key |-> @.key,
                           chances |-> @.chances, victim |-> k, gen |-> g]]
              /\ UNCHANGED <<map, generation>>
    /\ UNCHANGED lock

\* The victim goes unless its generation has moved on meanwhile.
RemoveVictim(t) ==
    /\ At(t, "victim")
    /\ LET k == job[t].victim
           same == Present(k) /\ map[k].gen = job[t].gen
       IN  IF same
           THEN /\ map' = [map EXCEPT ![k] = Absent]
                /\ lock' = Unlocked
                /\ Goto(t, "bound")
           ELSE /\ job' = [job EXCEPT ![t] = [pc |-> "pop", key |-> @.key,
                                              chances |-> @.chances]]
                /\ UNCHANGED <<map, lock>>
    /\ UNCHANGED <<occurrences, generation>>

\* The queue is drained without a victim: the put goes on over the bound.
NoVictim(t) ==
    /\ At(t, "pop") /\ occurrences = <<>>
    /\ lock' = Unlocked
    /\ Goto(t, "insert")
    /\ UNCHANGED <<map, occurrences, generation>>

Insert(t) ==
    /\ At(t, "insert") /\ generation < MaxGeneration
    /\ generation' = generation + 1
    /\ map' = [map EXCEPT ![job[t].key] = Fresh(generation)]
    /\ job' = [job EXCEPT ![t] = [pc |-> "enqueue", key |-> @.key,
                                  gen |-> generation]]
    /\ UNCHANGED <<occurrences, lock>>

\* The elements of a queue at the places kept, in order.
Restricted(queue, kept) ==
    [n \in 1 .. Cardinality(kept) |->
        queue[CHOOSE i \in kept : Cardinality({j \in kept : j <= i}) = n]]

\* Mutant: compaction goes by the key alone and keeps the oldest occurrence.
RetainOldest(queue) ==
    Restricted(queue, {i \in DOMAIN queue : /\ Present(queue[i][1])
                                            /\ \A j \in 1 .. i - 1 :
                                                  queue[j][1] # queue[i][1]})

\* The occurrences that are some entry's current one, in order.
Retain(queue) ==
    Restricted(queue, {i \in DOMAIN queue : /\ Present(queue[i][1])
                                            /\ map[queue[i][1]].gen = queue[i][2]})

\* enqueue_occurrence, compacting past twice the bound.
Enqueue(t) ==
    /\ At(t, "enqueue") /\ lock = Unlocked
    /\ LET queue == Append(occurrences, <<job[t].key, job[t].gen>>)
       IN  occurrences' = IF Len(queue) > 2 * MaxEntries THEN Retain(queue)
                          ELSE queue
    /\ Rest(t)
    /\ UNCHANGED <<map, lock, generation>>

StoreStep(t) ==
    \/ \E k \in Keys : Lookup(t, k) \/ Put(t, k)
    \/ RemoveExpired(t) \/ SweepAfterMiss(t)
    \/ CheckBound(t) \/ LockQueue(t)
    \/ PopOccurrence(t) \/ RemoveVictim(t) \/ NoVictim(t)
    \/ Insert(t) \/ Enqueue(t)

\* The bound on generations stops the model, not the store.
Exhausted == generation = MaxGeneration /\ UNCHANGED storeVars

StoreNext ==
    \/ \E k \in Keys : Expire(k)
    \/ \E t \in StoreThreads : StoreStep(t)
    \/ Exhausted

StoreSpec == StoreInit /\ [][StoreNext]_storeVars

------------------------------------------------------------------------------
(* Properties.                                                             *)

Generations == 0 .. MaxGeneration

StoreTypeOK ==
    /\ \A k \in Keys : Present(k) => map[k].gen \in Generations
    /\ \A i \in DOMAIN occurrences :
        occurrences[i][1] \in Keys /\ occurrences[i][2] \in Generations
    /\ generation \in Generations
    /\ lock.held => lock.by \in StoreThreads
    /\ \A t \in StoreThreads :
        job[t].pc \in {"rest", "expired", "sweep", "bound", "lock", "pop",
                       "victim", "insert", "enqueue"}

\* Every binding can still be evicted: its current occurrence is in the
\* queue, or about to be put there, or in the hands of the evicting thread.
\* A binding without one would hold a place until its session expires.
EveryEntryEvictable ==
    \A k \in Keys : Present(k) =>
        \/ \E i \in DOMAIN occurrences : occurrences[i] = <<k, map[k].gen>>
        \/ \E t \in StoreThreads :
            /\ job[t].pc \in {"enqueue", "victim"}
            /\ <<k, map[k].gen>> = IF At(t, "victim")
                                   THEN <<job[t].victim, job[t].gen>>
                                   ELSE <<job[t].key, job[t].gen>>

\* The store overshoots its bound by less than one entry per thread,
\* whatever the puts that found no victim (the capacity loop of put).
OvershootBounded == Size <= MaxEntries + Cardinality(StoreThreads) - 1

\* The queue stays within twice the bound, or what the overshoot needs.
QueueBounded ==
    Len(occurrences) <= 2 * MaxEntries + Cardinality(StoreThreads) - 1

\* The store and its queue stay bounded however many puts race.
StoreBounded == OvershootBounded /\ QueueBounded

\* get removes what has expired, never a binding that a concurrent put
\* refreshed or replaced after get looked.
RefreshedSurvives ==
    [][\A t \in StoreThreads, k \in Keys :
        (At(t, "expired") /\ job'[t] # job[t] /\ Present(k) /\ ~map[k].expired)
            => map'[k] = map[k]]_storeVars
=============================================================================
