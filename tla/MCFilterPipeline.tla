-------------------------- MODULE MCFilterPipeline --------------------------
(***************************************************************************)
(* The two pipelines, for TLC: an HTTP request and the connections of the  *)
(* TCP proxy.  They share no variable, so a behaviour exercises one; a     *)
(* behaviour of the TCP proxy leaves an HTTP request whose request phase   *)
(* has not begun.                                                          *)
(***************************************************************************)
EXTENDS FilterPipeline, TcpProxy

VARIABLE focus   \* the pipeline this behaviour exercises

CONSTANTS a, b, c, d, x, y, z, w

(* A main path a, b, c, d.  Branches hang off a and b, and one off x.       *)
Path == <<a, b, c, d>>

Branch(name, cond, filters, rejoin, target, max) ==
  [name |-> name, cond |-> cond, filters |-> filters, rejoin |-> rejoin,
   target |-> target, max |-> max]

(* a: a chain of x and y that rejoins, else a terminal chain of z.  x: a    *)
(* nested jump.  b: back to a, at most twice, else forward to d.             *)
Tree ==
  [f \in Filters |->
    CASE f = a -> <<Branch("chain", "is", <<x, y>>, "next", 0, 0),
                    Branch("final", "not", <<z>>, "terminal", 0, 0)>>
      [] f = b -> <<Branch("again", "is", <<>>, "reenter", 1, 2),
                    Branch("over", "not", <<>>, "skip", 4, 0)>>
      [] f = x -> <<Branch("nested", "is", <<w>>, "skip", 3, 0)>>
      [] OTHER -> <<>>]

(* One filter type per filter.                                              *)
OwnTypes == [f \in Filters |-> f]

(* TCP: routed by SNI or through the balancer; a filter after it may reject. *)
RouteThenBalance == <<"router", "balancer", "guard">>

PipelinesInit ==
  /\ focus \in {"http", "tcp"}
  /\ Init /\ TcpInit
  /\ focus = "tcp" => buffered

PipelinesNext ==
  /\ UNCHANGED focus
  /\ \/ focus = "http" /\ Next /\ UNCHANGED tcpVars
     \/ focus = "tcp" /\ TcpNext /\ UNCHANGED vars

PipelinesSpec ==
  /\ PipelinesInit /\ [][PipelinesNext]_<<vars, tcpVars, focus>>
  /\ WF_vars(RequestStep) /\ TcpFairness

\* The response phase is that of the request phase: every response filter ran
\* in the request phase and in the opposite order, and the types hold
\* (execute_http_response).
ResponsesMatch == TypeOK /\ ResponsePaired /\ ResponseMirrorsRequest

=============================================================================
