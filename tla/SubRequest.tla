----------------------------- MODULE SubRequest -----------------------------
(***************************************************************************)
(* The sub-request client of crates/core/src/subrequest (client.rs,        *)
(* internals.rs, body.rs): buffered, hedged (abandon-neutral), streaming   *)
(* and URL sub-requests that share the admission semaphore and the circuit *)
(* registry, may fail, pass their deadline or be cancelled at any await,   *)
(* and hold a permit, a token and a session meanwhile.                     *)
(*                                                                         *)
(* One action is the code between two awaits.  Of time only whether the    *)
(* call's deadline has passed is kept; operator timeouts, transport errors *)
(* and what the circuit registry answers (CircuitBreaker.tla) are choices. *)
(* Bodies are not counted: a chunk is within the limit or beyond it.       *)
(***************************************************************************)
EXTENDS Naturals, FiniteSets

CONSTANTS Jobs,            \* tasks that issue sub-requests
          Modes,           \* subset of {"buffered","neutral","streaming","url"}
          Dials,           \* max_dials of a URL target; targets are 1..Dials
          MaxConnections   \* permits of SubRequestConnector.admission

ASSUME SubRequestConfig ==
  /\ IsFiniteSet(Jobs)
  /\ Dials \in Nat \ {0} /\ MaxConnections \in Nat \ {0}

VARIABLES permits,   \* available permits of the semaphore
          slots,     \* in-flight tokens of each peer's breaker
          detached,  \* spawned disposals, each with a session and a permit
          exchange        \* what each task is doing

subVars == <<permits, slots, detached, exchange>>

Targets == 1..Dials

\* What SubRequestError the caller sees; "ok" is a response.
Faults == {"connect", "io", "deadline"}
Errors == Faults \cup {"invalid", "admission", "circuit_open", "too_large"}
Verdicts == {"none", "failure", "success", "released"}

\* The awaits, in order.  "closing" shuts the session down with the token
\* still to be charged; "discarding" and "releasing" end a streaming header
\* exchange whose token is settled; "closing_body" and "returning" run under
\* the timeout of a buffered body.
Points == {"idle", "admission", "connect", "head", "body", "finish", "read",
           "closing", "collect", "closing_body", "returning", "discarding",
           "releasing", "stream", "reading", "disposing", "fallback", "over"}

\* A call of mode m to peer i.  late: its deadline has passed; permit, token
\* and session: what it holds; err: the error it is about to return.  The
\* rest is history: the peers a request was sent to, whether this attempt
\* was issued a token and how it was settled, what the caller got, and how
\* often SUBREQUEST_STREAMS_TOTAL counted the stream.
Call(m, i) ==
  [pc |-> "idle", mode |-> m, peer |-> i, late |-> FALSE, permit |-> FALSE,
   token |-> FALSE, session |-> FALSE, err |-> "ok", sent |-> {},
   issued |-> FALSE, verdict |-> "none", result |-> "none", counted |-> 0]

NoCallYet == Call("buffered", 1)

SubInit ==
  /\ permits = MaxConnections
  /\ slots = [p \in Targets |-> 0]
  /\ detached = 0
  /\ exchange = [t \in Jobs |-> NoCallYet]

Continue(t, j) == exchange' = [exchange EXCEPT ![t] = j]

\* The token leaves the guard with a verdict.
Settled(j, v) ==
  [j EXCEPT !.token = FALSE, !.verdict = IF j.token THEN v ELSE @]
SettleSlot(j) ==
  slots' = IF j.token THEN [slots EXCEPT ![j.peer] = @ - 1] ELSE slots

\* CircuitGuard::fail and finalize
VerdictOf(err) == IF err \in Faults THEN "failure" ELSE "success"

\* Drop for CircuitGuard
VerdictOfDrop(j) == IF j.mode = "neutral" THEN "released" ELSE "failure"

\* Mutant: any failed exchange moves on to the next peer.
FallsBackOnFault(err) == err \in Faults \cup {"circuit_open"}

\* The errors after which execute_url tries the next peer.
FallsBack(err) == err \in {"connect", "circuit_open"}

\* An exchange returns r to its caller with the token settled as v: session
\* and permit are dropped.
Return(t, j, r, v) ==
  /\ SettleSlot(j)
  /\ permits' = permits + (IF j.permit THEN 1 ELSE 0)
  /\ Continue(t, [Settled(j, v) EXCEPT !.permit = FALSE, !.session = FALSE,
                    !.err = "ok", !.result = r,
                    !.pc = IF j.mode = "url" /\ FallsBack(r)
                             THEN "fallback" ELSE "over"])
  /\ UNCHANGED detached

\* charge: the error is recorded against the guard, then returned.
ChargeAndReturn(t, j, err) == Return(t, j, err, VerdictOf(err))

\* The task goes on to another await and nothing shared changes.
Await(t, j) == Continue(t, j) /\ UNCHANGED <<permits, slots, detached>>

\* session.shutdown().await before the charge.
CloseThenCharge(t, j, err) == Await(t, [j EXCEPT !.pc = "closing", !.err = err])

-----------------------------------------------------------------------------
(***************************************************************************)
(* open_exchange_inner.                                                    *)
(***************************************************************************)

\* An attempt begins: request validation, circuit precheck (a peek), the
\* deadline, then the wait for a permit.
Start(t, j) ==
  \/ ChargeAndReturn(t, j, "invalid")
  \/ ChargeAndReturn(t, j, "circuit_open")
  \/ j.late /\ ChargeAndReturn(t, j, "deadline")
  \/ ~j.late /\ Await(t, [j EXCEPT !.pc = "admission"])

StartCall(t) ==
  /\ exchange[t].pc = "idle"
  /\ \E m \in Modes, p \in Targets :
       /\ m = "url" => p = 1
       /\ Start(t, Call(m, p))

\* A permit arrives and the token is asked for, both without an await.
Admitted(t) ==
  LET j == [exchange[t] EXCEPT !.permit = TRUE]
  IN  /\ exchange[t].pc = "admission" /\ permits > 0
      /\ \/ ChargeAndReturn(t, exchange[t], "circuit_open") \* drops the permit
         \/ /\ permits' = permits - 1
            /\ slots' = [slots EXCEPT ![j.peer] = @ + 1]
            /\ Continue(t, [j EXCEPT !.pc = "connect", !.token = TRUE,
                                     !.issued = TRUE])
            /\ UNCHANGED detached

AdmissionTimeout(t) ==
  /\ exchange[t].pc = "admission" /\ exchange[t].late
  /\ ChargeAndReturn(t, exchange[t], "admission")

\* Connect, under the overall deadline and (URL attempts but the last) a
\* cap of its own that reports as a connection failure.
Connect(t) ==
  LET j == exchange[t]
  IN  /\ j.pc = "connect"
      /\ \/ Await(t, [j EXCEPT !.pc = "head", !.session = TRUE])
         \/ j.late /\ ChargeAndReturn(t, j, "deadline")
         \/ ~j.late /\ j.mode = "url" /\ j.peer < Dials
              /\ ChargeAndReturn(t, j, "connect")
         \/ \E err \in {"connect", "invalid"} : ChargeAndReturn(t, j, err)

\* What a session may answer: only building the head can be invalid, and no
\* session reports a connect error (PingoraSession, io_error).
SessionErrors(pc) == IF pc = "head" THEN {"invalid", "io"} ELSE {"io"}

\* The writes.  A deadline seen before the await closes the session first,
\* except before the head; one that elapses during it is charged at once.
Write(t) ==
  LET j == [exchange[t] EXCEPT !.sent = @ \cup {exchange[t].peer}]
  IN  /\ j.pc \in {"head", "body", "finish"}
      /\ \/ j.pc = "head" /\ \E next \in {"body", "finish"} :
              Await(t, [j EXCEPT !.pc = next])
         \/ j.pc = "body" /\ Await(t, [j EXCEPT !.pc = "finish"])
         \/ j.pc = "finish" /\ Await(t, [j EXCEPT !.pc = "read"])
         \/ j.late /\ j.pc # "head" /\ CloseThenCharge(t, j, "deadline")
         \/ j.late /\ ChargeAndReturn(t, j, "deadline")
         \/ \E err \in SessionErrors(j.pc) : ChargeAndReturn(t, j, err)

\* send_streaming goes on to pc with its token settled as v.
HandTo(t, j, pc, v, err) ==
  /\ SettleSlot(j)
  /\ Continue(t, [Settled(j, v) EXCEPT !.pc = pc, !.err = err, !.late = FALSE])
  /\ UNCHANGED <<permits, detached>>

\* Mutant: the token is a success as soon as valid headers are in.
HandoffSuccessFirst(t, j) ==
  \/ HandTo(t, j, "releasing", "success", "ok")
  \/ HandTo(t, j, "discarding", "success", "io")
  \/ HandTo(t, j, "stream", "success", "ok")

\* send_streaming after the headers: a response that ended with them is a
\* success only if it ended cleanly; otherwise the guard is dropped.
Handoff(t, j) ==
  \/ HandTo(t, j, "releasing", "success", "ok")
  \/ HandTo(t, j, "discarding", VerdictOfDrop(j), "io")
  \/ HandTo(t, j, "stream", "success", "ok")

\* The header loop.  Interim responses repeat the await; too many of them,
\* or a status out of range, close the session and are an I/O error.
Read(t) ==
  LET j == exchange[t]
  IN  /\ j.pc = "read"
      /\ \/ j.late /\ CloseThenCharge(t, j, "deadline")
         \/ j.late /\ ChargeAndReturn(t, j, "deadline")
         \/ CloseThenCharge(t, j, "io")
         \/ ChargeAndReturn(t, j, "io")
         \/ j.mode = "streaming" /\ Handoff(t, j)
         \/ j.mode # "streaming" /\ Await(t, [j EXCEPT !.pc = "collect"])

Closed(t) ==
  /\ exchange[t].pc = "closing"
  /\ ChargeAndReturn(t, exchange[t], exchange[t].err)

-----------------------------------------------------------------------------
(***************************************************************************)
(* execute_inner: the body is collected under one timeout of the remaining *)
(* budget, which also covers shutting the session down and returning it to *)
(* the pool; the guard is finalized with what that timeout lets through.   *)
(***************************************************************************)

CollectBody(t) ==
  LET j == exchange[t]
  IN  /\ j.pc = "collect"
      /\ \/ j.late /\ ChargeAndReturn(t, j, "deadline")
         \/ \E err \in {"io", "too_large", "deadline"} :
              /\ err = "deadline" => j.late
              /\ Await(t, [j EXCEPT !.pc = "closing_body", !.err = err])
         \/ Await(t, [j EXCEPT !.pc = "returning"])

Collected(t) ==
  LET j == exchange[t]
  IN  /\ j.pc \in {"closing_body", "returning"}
      /\ \/ ChargeAndReturn(t, j, j.err)
         \/ j.late /\ ChargeAndReturn(t, j, "deadline")

-----------------------------------------------------------------------------
(***************************************************************************)
(* Streaming bodies (body.rs).                                             *)
(***************************************************************************)

\* A header exchange ends once its session is released; the termination is
\* counted after that.
HeaderEnd(t) ==
  LET j == [exchange[t] EXCEPT !.counted = @ + 1]
  IN  /\ j.pc \in {"releasing", "discarding"}
      /\ Return(t, j, j.err, "none")

\* Mutant: the permit is back before the session is disposed of.
EndStreamEarly(t, j) ==
  /\ permits' = permits + 1
  /\ Continue(t, [j EXCEPT !.pc = "disposing", !.counted = @ + 1,
                           !.permit = FALSE])
  /\ UNCHANGED <<slots, detached>>

\* shutdown_and_done, release_session: done is set and the stream counted,
\* then the session is disposed of with the permit held.
EndStream(t, j) ==
  Await(t, [j EXCEPT !.pc = "disposing", !.counted = @ + 1])

\* next_chunk is called: past the stream's deadline it ends the stream.
NextChunk(t) ==
  /\ exchange[t].pc = "stream"
  /\ IF exchange[t].late THEN EndStream(t, exchange[t])
     ELSE Await(t, [exchange[t] EXCEPT !.pc = "reading"])

\* The read returns a chunk, or anything that ends the stream (end of body,
\* error, byte limit, a timeout, an error of the completion check).
ChunkRead(t) ==
  /\ exchange[t].pc = "reading"
  /\ \/ Await(t, [exchange[t] EXCEPT !.pc = "stream"])
     \/ EndStream(t, exchange[t])

\* cancel
CancelStream(t) ==
  /\ exchange[t].pc = "stream"
  /\ EndStream(t, exchange[t])

Disposed(t) ==
  /\ exchange[t].pc = "disposing"
  /\ Return(t, exchange[t], "ok", "none")

\* Drop for SubResponseBody: session and permit move to a spawned task, or
\* are dropped here when no runtime is left to spawn on.
DropBody(t) ==
  LET j == [exchange[t] EXCEPT !.counted = @ + 1]
  IN  /\ j.pc = "stream"
      /\ \/ /\ detached' = detached + 1
            /\ Continue(t, [j EXCEPT !.pc = "over", !.permit = FALSE,
                               !.session = FALSE, !.result = "ok"])
            /\ UNCHANGED <<permits, slots>>
         \/ Return(t, j, "ok", "none")

DisposeDetached ==
  /\ detached > 0
  /\ detached' = detached - 1
  /\ permits' = permits + 1
  /\ UNCHANGED <<slots, exchange>>

-----------------------------------------------------------------------------

\* execute_url's loop: the deadline, then the next peer, then the last
\* peer's error.
Fallback(t) ==
  LET j == exchange[t]
  IN  /\ j.pc = "fallback"
      /\ IF j.late
           THEN Await(t, [j EXCEPT !.pc = "over", !.result = "deadline",
                                   !.issued = FALSE, !.verdict = "none"])
         ELSE IF j.peer < Dials
           THEN Start(t, [j EXCEPT !.peer = @ + 1, !.issued = FALSE,
                                   !.verdict = "none"])
           ELSE Await(t, [j EXCEPT !.pc = "over"])

\* The caller drops the future at an await.  next_chunk leaves the body
\* where it was; anywhere else session, guard and permit are dropped.
Abandon(t) ==
  LET j == exchange[t]
  IN  /\ j.pc \notin {"idle", "stream", "fallback", "over"}
      /\ IF j.pc = "reading" THEN Await(t, [j EXCEPT !.pc = "stream"])
         ELSE /\ SettleSlot(j)
              /\ permits' = permits + (IF j.permit THEN 1 ELSE 0)
              /\ Continue(t, [Settled(j, VerdictOfDrop(j)) EXCEPT !.pc = "over",
                    !.permit = FALSE, !.session = FALSE, !.err = "ok",
                    !.result = IF j.pc = "disposing" THEN "ok"
                               ELSE "cancelled"])
              /\ UNCHANGED detached

\* Time: the call's deadline, or its stream's, passes.
DeadlinePasses(t) ==
  /\ ~exchange[t].late
  /\ exchange[t].pc \notin {"idle", "over", "disposing", "releasing",
                            "discarding"}
  /\ Await(t, [exchange[t] EXCEPT !.late = TRUE])

\* The task has its answer and may ask again.
AskAgain(t) ==
  /\ exchange[t].pc = "over"
  /\ Await(t, NoCallYet)

SubStep(t) ==
  \/ StartCall(t) \/ Admitted(t) \/ AdmissionTimeout(t) \/ Connect(t)
  \/ Write(t) \/ Read(t) \/ Closed(t) \/ CollectBody(t) \/ Collected(t)
  \/ HeaderEnd(t) \/ NextChunk(t) \/ ChunkRead(t) \/ CancelStream(t)
  \/ Disposed(t) \/ DropBody(t) \/ Fallback(t) \/ Abandon(t)
  \/ DeadlinePasses(t) \/ AskAgain(t)

SubNext == (\E t \in Jobs : SubStep(t)) \/ DisposeDetached

SubSpec == SubInit /\ [][SubNext]_subVars

-----------------------------------------------------------------------------
(***************************************************************************)
(* Properties.                                                             *)
(***************************************************************************)

\* The variables keep their types.
SubTypeOK ==
  /\ permits \in 0..MaxConnections
  /\ slots \in [Targets -> Nat]
  /\ detached \in Nat
  /\ exchange \in [Jobs ->
      [pc : Points, mode : Modes \cup {"buffered"}, peer : Targets,
       late : BOOLEAN, permit : BOOLEAN, token : BOOLEAN, session : BOOLEAN,
       err : Errors \cup {"ok"}, sent : SUBSET Targets, issued : BOOLEAN,
       verdict : Verdicts, result : Errors \cup {"ok", "none", "cancelled"},
       counted : Nat]]

\* Whatever way a call ends, its permit and its token come back exactly once,
\* and never before its session is gone: the sessions that are open, those a
\* spawned task still disposes of included, stay within max_connections
\* (try_acquire_permit, CircuitGuard, shutdown_and_done, Drop for
\* SubResponseBody).
HoldingsReturned ==
  /\ SubTypeOK
  /\ permits + detached + Cardinality({t \in Jobs : exchange[t].permit})
       = MaxConnections
  /\ detached + Cardinality({t \in Jobs : exchange[t].session})
       <= MaxConnections
  /\ \A p \in Targets :
       slots[p] = Cardinality({t \in Jobs : /\ exchange[t].token
                                            /\ exchange[t].peer = p})

\* The breaker learns what the caller learns: an attempt that was issued a
\* token and returned a connect, I/O or deadline error was recorded as a
\* failure, one that returned anything else as a success, and an abandoned
\* hedge as neither; a stream handed to the caller is counted once (charge,
\* finalize, fail_header_exchange, Drop for CircuitGuard, body.rs).
VerdictFits ==
  \A t \in Jobs :
    LET j == exchange[t]
    IN  j.pc \in {"fallback", "over"} =>
          /\ j.issued <=> j.verdict # "none"
          /\ j.issued /\ j.result \in Faults => j.verdict = "failure"
          /\ j.issued /\ j.result \in {"ok", "invalid", "too_large"} =>
               j.verdict = "success"
          /\ j.verdict = "released" <=>
               j.issued /\ j.result = "cancelled" /\ j.mode = "neutral"
          /\ j.mode = "streaming" /\ j.result = "ok" => j.counted = 1

\* A URL request that may have reached one peer is never sent to another
\* (execute_url falls back on connect and circuit errors only).
NoResend == \A t \in Jobs : exchange[t].sent \subseteq {exchange[t].peer}
=============================================================================
