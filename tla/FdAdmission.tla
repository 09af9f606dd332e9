----------------------------- MODULE FdAdmission -----------------------------
(***************************************************************************)
(* File-descriptor admission (core/src/fd.rs and fd/accounting.rs): a      *)
(* request is admitted when the last sample of open descriptors, plus the  *)
(* charges of connections opened since, plus what the admitted requests    *)
(* still waiting may open, stays within a threshold.  The three counters   *)
(* are separate atomics, read one after the other and moved by requests    *)
(* and samplers in between.                                                *)
(*                                                                         *)
(* A request opens at most PendingCost descriptors while its claim is      *)
(* pending and none after it is settled: that is the code's own estimate   *)
(* (a client's descriptor is there before it is admitted and is left out). *)
(* The acquire/release pairs of the code make the reads and writes of the  *)
(* model appear in program order.                                          *)
(***************************************************************************)
EXTENDS Integers, FiniteSets, FiniteSetsExt, Totals

CONSTANTS
    FdRequests,     \* requests
    Samplers,       \* threads that may sample at the same time
    Cost,           \* PENDING_COST and CONNECT_COST, which are equal
    Base,           \* descriptors the process holds anyway
    Threshold       \* shed_threshold(limit)

ASSUME FdBounds ==
    /\ IsFiniteSet(FdRequests)
    /\ Cost \in Nat \ {0} /\ Base \in Nat /\ Threshold \in Nat
    /\ Base <= Threshold

VARIABLES
    cached,         \* cached_open
    connected,      \* charges not yet absorbed by a sample
    pending,        \* claims
    sampling,       \* a sample is being taken
    sampler,        \* thread -> where its sample stands
    request         \* request -> where it stands and what it holds

fdVars == <<cached, connected, pending, sampling, sampler, request>>

Asleep == [pc |-> "asleep"]
\* The kernel's count of open descriptors.
Open == Base + Total(FdRequests, [r \in FdRequests |-> request[r].held])

FdInit ==
    /\ cached = Base /\ connected = 0 /\ pending = 0
    /\ sampling = FALSE
    /\ sampler = [s \in Samplers |-> Asleep]
    /\ request = [r \in FdRequests |-> [pc |-> "new", held |-> 0]]

Sets(r, pc) == request' = [request EXCEPT ![r].pc = pc]

------------------------------------------------------------------------------
(* try_admit                                                               *)

Claim(r) ==
    /\ request[r].pc = "new"
    /\ pending' = pending + 1
    /\ request' = [request EXCEPT ![r] =
                     [pc |-> "claimed", held |-> 0, claims |-> pending + 1]]
    /\ UNCHANGED <<cached, connected, sampling, sampler>>

\* usage_components reads the charges first ...
ReadCharges(r) ==
    /\ request[r].pc = "claimed"
    /\ request' = [request EXCEPT ![r] = [pc |-> "charges", held |-> 0,
                     claims |-> @.claims, charges |-> connected]]
    /\ UNCHANGED <<cached, connected, pending, sampling, sampler>>

\* ... and then the sample they are relative to.
ReadSample(r) ==
    /\ request[r].pc = "charges"
    /\ LET predicted == request[r].claims * Cost + request[r].charges + cached
       IN  request' = [request EXCEPT ![r] =
             [pc |-> IF predicted > Threshold THEN "refused" ELSE "admitted",
              held |-> 0]]
    /\ UNCHANGED <<cached, connected, pending, sampling, sampler>>

\* The claim of a refused request is taken back.
Unclaim(r) ==
    /\ request[r].pc = "refused"
    /\ pending' = pending - 1
    /\ Sets(r, "gone")
    /\ UNCHANGED <<cached, connected, sampling, sampler>>

------------------------------------------------------------------------------
(* The admitted request and its Admission.                                 *)

OpenDescriptor(r) ==
    /\ request[r].pc = "admitted" /\ request[r].held < Cost
    /\ request' = [request EXCEPT ![r].held = @ + 1]
    /\ UNCHANGED <<cached, connected, pending, sampling, sampler>>

\* connected(true): the charge is made before the claim is released.
Charge(r) ==
    /\ request[r].pc = "admitted" /\ request[r].held > 0
    /\ connected' = connected + Cost
    /\ Sets(r, "charged")
    /\ UNCHANGED <<cached, pending, sampling, sampler>>

\* The second half of connected(true).
Release(r) ==
    /\ request[r].pc = "charged"
    /\ pending' = pending - 1
    /\ Sets(r, "served")
    /\ UNCHANGED <<cached, connected, sampling, sampler>>

\* connected(false) on a reused connection, or the drop of an admission that
\* never connected: what it had opened is closed by then.
Settle(r) ==
    /\ request[r].pc = "admitted" /\ request[r].held = 0
    /\ pending' = pending - 1
    /\ Sets(r, "gone")
    /\ UNCHANGED <<cached, connected, sampling, sampler>>

CloseDescriptor(r) ==
    /\ request[r].pc \in {"admitted", "served"} /\ request[r].held > 0
    /\ request' = [request EXCEPT ![r].held = @ - 1]
    /\ UNCHANGED <<cached, connected, pending, sampling, sampler>>

\* A connection serves another request, or none.
ServeAnother(r) ==
    /\ request[r].pc \in {"served", "gone"} /\ request[r].held = 0
    /\ Sets(r, "new")
    /\ UNCHANGED <<cached, connected, pending, sampling, sampler>>

------------------------------------------------------------------------------
(* store_sample_with: one sampler at a time, the others skip.              *)

\* Mutant: samples may overlap.
BeginSampleAnyway(s) ==
    /\ sampler[s].pc = "asleep"
    /\ sampling' = TRUE
    /\ sampler' = [sampler EXCEPT ![s] = [pc |-> "count", absorbed |-> connected]]
    /\ UNCHANGED <<cached, connected, pending, request>>

BeginSample(s) ==
    /\ sampler[s].pc = "asleep" /\ ~sampling
    /\ sampling' = TRUE
    /\ sampler' = [sampler EXCEPT ![s] = [pc |-> "count", absorbed |-> connected]]
    /\ UNCHANGED <<cached, connected, pending, request>>

CountOpen(s) ==
    /\ sampler[s].pc = "count"
    /\ sampler' = [sampler EXCEPT ![s] =
                     [pc |-> "publish", absorbed |-> @.absorbed, open |-> Open]]
    /\ UNCHANGED <<cached, connected, pending, sampling, request>>

\* The descriptors cannot be counted: nothing is absorbed.
CountFails(s) ==
    /\ sampler[s].pc = "count"
    /\ sampler' = [sampler EXCEPT ![s] = Asleep]
    /\ sampling' = FALSE
    /\ UNCHANGED <<cached, connected, pending, request>>

PublishSample(s) ==
    /\ sampler[s].pc = "publish"
    /\ cached' = sampler[s].open
    /\ sampler' = [sampler EXCEPT ![s] = [pc |-> "absorb", absorbed |-> @.absorbed]]
    /\ UNCHANGED <<connected, pending, sampling, request>>

\* Only the charges made before the count go.
AbsorbCharges(s) ==
    /\ sampler[s].pc = "absorb"
    /\ connected' = Max({connected - sampler[s].absorbed, 0})
    /\ sampler' = [sampler EXCEPT ![s] = Asleep]
    /\ sampling' = FALSE
    /\ UNCHANGED <<cached, pending, request>>

FdNext ==
    \/ \E r \in FdRequests :
        \/ Claim(r) \/ ReadCharges(r) \/ ReadSample(r) \/ Unclaim(r)
        \/ OpenDescriptor(r) \/ Charge(r) \/ Release(r) \/ Settle(r)
        \/ CloseDescriptor(r) \/ ServeAnother(r)
    \/ \E s \in Samplers :
        \/ BeginSample(s) \/ CountOpen(s) \/ CountFails(s)
        \/ PublishSample(s) \/ AbsorbCharges(s)

FdSpec == FdInit /\ [][FdNext]_fdVars

------------------------------------------------------------------------------
(* Properties.                                                             *)

FdTypeOK ==
    /\ cached \in Nat /\ connected \in Nat /\ pending \in 0 .. Cardinality(FdRequests)
    /\ sampling \in BOOLEAN
    /\ \A r \in FdRequests :
        /\ request[r].held \in 0 .. Cost
        /\ request[r].pc \in {"new", "claimed", "charges", "refused", "admitted",
                              "charged", "served", "gone"}
    /\ \A s \in Samplers : sampler[s].pc \in {"asleep", "count", "publish", "absorb"}

\* What the admitted requests hold and may still open fits the threshold, in
\* every interleaving of admissions, settlements and samples.
NeverOvercommitted ==
    Base + Total(FdRequests, [r \in FdRequests |->
             IF request[r].pc = "admitted" THEN Cost ELSE request[r].held])
      <= Threshold

\* No claim is lost or left behind: the counter is the number of requests
\* between their claim and its release.
ClaimsBalanced ==
    pending = Cardinality({r \in FdRequests : request[r].pc \in
                 {"claimed", "charges", "refused", "admitted", "charged"}})
==============================================================================
