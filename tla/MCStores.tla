------------------------------- MODULE MCStores -------------------------------
(***************************************************************************)
(* The lock-free counters and bounded maps that requests share, for TLC:   *)
(* a cluster's retry budget, the sticky-session store, the per-address     *)
(* rate limiter and file-descriptor admission.  They share no variable, so *)
(* a behaviour exercises one of them and leaves the others as they began.  *)
(***************************************************************************)
EXTENDS RetryBudget, SessionStore, RateLimit, FdAdmission

VARIABLE focus   \* the structure this behaviour exercises

storesVars == <<vars, storeVars, limitVars, fdVars, focus>>

StoresInit ==
    /\ focus \in {"budget", "sessions", "limiter", "descriptors"}
    /\ Init /\ StoreInit /\ LimitInit /\ FdInit

StoresNext ==
    /\ UNCHANGED focus
    /\ \/ /\ focus = "budget" /\ Next
          /\ UNCHANGED <<storeVars, limitVars, fdVars>>
       \/ /\ focus = "sessions" /\ StoreNext
          /\ UNCHANGED <<vars, limitVars, fdVars>>
       \/ /\ focus = "limiter" /\ LimitNext
          /\ UNCHANGED <<vars, storeVars, fdVars>>
       \/ /\ focus = "descriptors" /\ FdNext
          /\ UNCHANGED <<vars, storeVars, limitVars>>

StoresSpec == StoresInit /\ [][StoresNext]_storesVars

\* The four type invariants together; the retry budget's holds its cap
\* (RetryBudget::max_tokens).
StoresTypeOK == TypeOK /\ StoreTypeOK /\ LimitTypeOK /\ FdTypeOK

\* No client gets more than its burst and rate allow in a window, whatever is
\* evicted meanwhile, and the approximate count that the hard cap is compared
\* with never wraps or drifts, so that the map stays within the cap and the
\* threads under way (acquire_per_ip, maybe_evict).
LimiterSound == WindowBound /\ CapHolds

\* The configuration uses the same threads in all four, and the same names
\* for session keys as for descriptor requests.  The clients that are not
\* observed are alike.
Symmetry ==
    Permutations(Retriers) \cup Permutations(Keys) \cup Permutations(Clients \ {Observed})
===============================================================================
