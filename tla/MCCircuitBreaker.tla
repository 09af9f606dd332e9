-------------------------- MODULE MCCircuitBreaker --------------------------
(***************************************************************************)
(* The circuit breakers and the two parts that use them, for TLC: the      *)
(* registry, the circuit_breaker filter with its gauge, and the            *)
(* sub-request client.  They share no variable here, so a behaviour        *)
(* exercises one of them and leaves the others as they began.              *)
(***************************************************************************)
EXTENDS CircuitBreaker, CircuitFilter, SubRequest, TLC

VARIABLE focus   \* the part this behaviour exercises

circuitVars == <<vars, filterVars, subVars, focus>>

CircuitsInit ==
  /\ focus \in {"registry", "filter", "client"}
  /\ Init /\ FilterInit /\ SubInit

CircuitsNext ==
  /\ UNCHANGED focus
  /\ \/ focus = "registry" /\ Next /\ UNCHANGED <<filterVars, subVars>>
     \/ focus = "filter" /\ FilterNext /\ UNCHANGED <<vars, subVars>>
     \/ focus = "client" /\ SubNext /\ UNCHANGED <<vars, filterVars>>

CircuitsSpec == CircuitsInit /\ [][CircuitsNext]_circuitVars

\* Clients are interchangeable, and so are the filter's requests, which the
\* configuration also uses as the tasks of the sub-request client.
ClientSymmetry == Permutations(Clients) \cup Permutations(Callers)
=============================================================================
