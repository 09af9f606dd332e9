---------------------------- MODULE ConfigWatcher ----------------------------
(***************************************************************************)
(* The hot-reload thread of server/src/watcher.rs: filesystem notices are  *)
(* coalesced in a bounded channel, debounced, and answered by              *)
(* handle_reload, which reads the main file, hashes it together with the   *)
(* referenced document and, when the hash moved, rebuilds the pipelines.   *)
(* A failed attempt stays pending and is retried after an exponential      *)
(* backoff, because the filesystem will not announce the same edit again.  *)
(*                                                                         *)
(* A text is a model value; a hash stands for the pair of texts it was     *)
(* taken of (collisions are left out).  The document is read twice by one  *)
(* attempt, once for the hash and once by the filter that loads it.  Its   *)
(* writings are numbered, and "text" says what each of them wrote: an edit *)
(* may restore an earlier text, of the document as of the main file, and   *)
(* the watcher, which compares texts, cannot tell the two writings apart.  *)
(***************************************************************************)
EXTENDS Integers, FiniteSetsExt

CONSTANTS
    Mains,          \* texts of the main file, "no readable file" included
    Unreadable,     \* the members of Mains that stand for a failed read
    Unparsable,     \* the members of Mains that Config::from_yaml refuses
    DocTexts,       \* texts of the document
    MaxEdits,       \* bound on the edits
    ChannelSize,    \* capacity of the notice channel
    BackoffMax,     \* cap of the backoff, in ticks of its base
    MaxFailures,    \* where the failure count saturates
    ReadsApart      \* may time pass between the two clock reads of one loop?

Loadable == Mains \ (Unreadable \cup Unparsable)
Docs == 0 .. MaxEdits
Texts == [main : Mains, doc : Docs]

ASSUME WatcherBounds ==
    /\ Unreadable \subseteq Mains /\ Unparsable \subseteq Mains
    /\ MaxEdits \in Nat /\ ChannelSize \in Nat \ {0}
    /\ MaxFailures \in Nat \ {0} /\ BackoffMax \in Nat \ {0}
    /\ 2 ^ (MaxFailures - 1) >= BackoffMax
    /\ ReadsApart \in BOOLEAN

VARIABLES
    disk,           \* the main text on disk and the document's latest writing
    text,           \* what each writing of the document wrote
    edits,          \* edits made so far
    notices,        \* filesystem notices not yet delivered
    queue,          \* occupancy of the channel
    pc,             \* where the watcher thread stands
    hashed,         \* what the running attempt hashed
    loaded,         \* the writing the running attempt's filter loaded
    recorded,       \* content_hash: what the last successful reload hashed
    served,         \* what the live pipelines were built from
    held,           \* per file, what it held since the last swap (history)
    pending,        \* reload_pending
    failures,       \* consecutive_failures
    since,          \* ticks since last_failure, NoFailure if None
    timer,          \* ticks until the select's sleep resolves, NoTimer if never
    flaky,          \* may a build still fail for a transient reason?
    down            \* has shutdown been requested?

env == <<disk, text, edits, notices, flaky, down>>
attempt == <<hashed, loaded, recorded, served>>
backoff == <<failures, since>>
vars == <<disk, text, edits, notices, queue, pc, hashed, loaded, recorded, served,
          held, pending, failures, since, timer, flaky, down>>

NoFailure == -1
NoTimer == -1

PCs == {"starting", "read", "hash", "load", "swap", "top", "select",
        "debounce", "decide", "stopped"}

Watching == pc # "starting"

(***************************************************************************)
(* The startup pipelines serve what was loaded; the main file may have     *)
(* been edited since.  (An edit of the document before its start-up hash   *)
(* is missed, as watcher_params says itself; it is left out.)              *)
(***************************************************************************)
Init ==
    /\ disk \in [main : Mains, doc : {0}]
    /\ text \in {[v \in Docs |-> t] : t \in DocTexts}
    /\ served \in [main : Loadable, doc : {0}]
    /\ recorded = served /\ hashed = served /\ loaded = 0
    /\ held = [main |-> {disk.main}, doc |-> {disk.doc}]
    /\ edits = 0 /\ notices = 0 /\ queue = 0
    /\ pc = "starting" /\ pending = FALSE
    /\ failures = 0 /\ since = NoFailure /\ timer = NoTimer
    /\ flaky = TRUE /\ down = FALSE

------------------------------------------------------------------------------
(* The environment: editors, the notification callback, the clock.         *)

Rewrite(texts) ==
    /\ edits < MaxEdits
    /\ edits' = edits + 1
    /\ disk' = texts
    /\ held' = [main |-> held.main \cup {texts.main},
                doc |-> held.doc \cup {texts.doc}]
    /\ notices' = IF Watching THEN notices + 1 ELSE notices
    /\ UNCHANGED <<queue, pc, attempt, pending, backoff, timer, flaky, down>>

EditMain(m) ==
    /\ m # disk.main
    /\ Rewrite([disk EXCEPT !.main = m])
    /\ UNCHANGED text

EditDoc(t) ==
    /\ t # text[disk.doc]
    /\ Rewrite([disk EXCEPT !.doc = @ + 1])
    /\ text' = [text EXCEPT ![disk.doc + 1] = t]

\* The notify callback: try_send, a full channel coalesces.  The kernel may
\* itself have merged notices into one rescan.
Deliver ==
    /\ notices > 0
    /\ notices' \in {0, notices - 1}
    /\ queue' = Min({queue + 1, ChannelSize})
    /\ UNCHANGED <<disk, text, edits, pc, attempt, held, pending, backoff, timer,
                   flaky, down>>

\* The transient cause of failed builds goes away.
Stabilise ==
    /\ flaky /\ flaky' = FALSE
    /\ UNCHANGED <<disk, text, edits, notices, queue, pc, attempt, held, pending,
                   backoff, timer, down>>

RequestShutdown ==
    /\ ~down /\ down' = TRUE
    /\ UNCHANGED <<disk, text, edits, notices, queue, pc, attempt, held, pending,
                   backoff, timer, flaky>>

Tick ==
    /\ pc = "top" => (ReadsApart /\ since > 0)
    /\ timer > 0 \/ since \in 0 .. BackoffMax - 1
    /\ timer' = IF timer > 0 THEN timer - 1 ELSE timer
    /\ since' = IF since \in 0 .. BackoffMax - 1 THEN since + 1 ELSE since
    /\ UNCHANGED <<env, queue, pc, attempt, held, pending, failures>>

------------------------------------------------------------------------------
(* The backoff.                                                            *)

backoff_duration(n) == Min({2 ^ Max({n - 1, 0}), BackoffMax})

\* 0 stands for None: no failure yet, or the window has elapsed.
backoff_remaining ==
    IF since = NoFailure THEN 0
    ELSE Max({backoff_duration(failures) - since, 0})

update_reload_backoff(ok) ==
    /\ failures' = IF ok THEN 0 ELSE Min({failures + 1, MaxFailures})
    /\ since' = IF ok THEN NoFailure ELSE 0

------------------------------------------------------------------------------
(* handle_reload, one step per read of a file and one for the swap.  The   *)
(* startup pre-check and the loop go on alike: a failure stays pending.    *)

\* Mutant: A failed attempt is not remembered.
FinishForgets(ok) ==
    /\ update_reload_backoff(ok)
    /\ pending' = FALSE
    /\ pc' = "top"

Finish(ok) ==
    /\ update_reload_backoff(ok)
    /\ pending' = ~ok
    /\ pc' = "top"

\* The watch is set up; the startup pre-check begins.
StartWatch ==
    /\ pc = "starting" /\ pc' = "read"
    /\ UNCHANGED <<env, queue, attempt, held, pending, backoff, timer>>

\* Mutant: An unreadable file counts as unchanged.
ReadMainOrKeep ==
    /\ pc = "read"
    /\ hashed' = IF disk.main \in Unreadable THEN hashed
                 ELSE [hashed EXCEPT !.main = disk.main]
    /\ pc' = "hash"
    /\ UNCHANGED <<env, queue, loaded, recorded, served, held, pending,
                   backoff, timer>>

ReadMain ==
    /\ pc = "read"
    /\ IF disk.main \in Unreadable
       THEN Finish(FALSE) /\ UNCHANGED hashed
       ELSE /\ hashed' = [hashed EXCEPT !.main = disk.main]
            /\ pc' = "hash"
            /\ UNCHANGED <<pending, backoff>>
    /\ UNCHANGED <<env, queue, loaded, recorded, served, held, timer>>

\* Two readings hash alike iff they hold the same texts.
SameText(a, b) == a.main = b.main /\ text[a.doc] = text[b.doc]

HashDoc ==
    /\ pc = "hash"
    /\ hashed' = [hashed EXCEPT !.doc = disk.doc]
    /\ LET same == SameText([hashed EXCEPT !.doc = disk.doc], recorded)
       IN \/ same /\ Finish(TRUE)
          \/ ~same /\ hashed.main \in Unparsable /\ Finish(FALSE)
          \/ /\ ~same /\ hashed.main \notin Unparsable
             /\ pc' = "load"
             /\ UNCHANGED <<pending, backoff>>
    /\ UNCHANGED <<env, queue, loaded, recorded, served, held, timer>>

LoadDoc ==
    /\ pc = "load"
    /\ loaded' = disk.doc
    /\ pc' = "swap"
    /\ UNCHANGED <<env, queue, hashed, recorded, served, held, pending,
                   backoff, timer>>

BuildFails ==
    /\ pc = "swap" /\ flaky
    /\ Finish(FALSE)
    /\ UNCHANGED <<env, queue, attempt, held, timer>>

\* The hash is recorded only now that the reload has succeeded.
SwapPipelines ==
    /\ pc = "swap"
    /\ served' = [main |-> hashed.main, doc |-> loaded]
    /\ recorded' = hashed
    /\ held' = [main |-> {disk.main}, doc |-> {disk.doc}]
    /\ Finish(TRUE)
    /\ UNCHANGED <<env, queue, hashed, loaded, timer>>

------------------------------------------------------------------------------
(* run_event_loop.                                                         *)

\* Mutant: The sleep is armed only right after a failure, not for a change that
\* arrived during the backoff.
ArmTimerOnce ==
    /\ pc = "top"
    /\ timer' = IF pending /\ since = 0 THEN backoff_remaining ELSE NoTimer
    /\ pc' = "select"
    /\ UNCHANGED <<env, queue, attempt, held, pending, backoff>>

\* The first clock read of an iteration arms the select's sleep.
ArmTimer ==
    /\ pc = "top"
    /\ timer' = IF pending /\ backoff_remaining > 0 THEN backoff_remaining
                ELSE NoTimer
    /\ pc' = "select"
    /\ UNCHANGED <<env, queue, attempt, held, pending, backoff>>

SelectEvent ==
    /\ pc = "select" /\ queue > 0
    /\ queue' = queue - 1
    /\ pc' = "debounce"
    /\ timer' = NoTimer
    /\ UNCHANGED <<env, attempt, held, pending, backoff>>

\* The debounce sleep ends and the channel is drained.
DrainAndDebounce ==
    /\ pc = "debounce"
    /\ queue' = 0
    /\ pending' = TRUE
    /\ pc' = "decide"
    /\ UNCHANGED <<env, attempt, held, backoff, timer>>

SelectTimer ==
    /\ pc = "select" /\ timer = 0
    /\ timer' = NoTimer
    /\ pc' = "decide"
    /\ UNCHANGED <<env, queue, attempt, held, pending, backoff>>

SelectShutdown ==
    /\ pc = "select" /\ down
    /\ pc' = "stopped"
    /\ timer' = NoTimer
    /\ UNCHANGED <<env, queue, attempt, held, pending, backoff>>

\* The second clock read: should_skip_for_backoff.
Decide ==
    /\ pc = "decide"
    /\ pc' = IF ~pending \/ backoff_remaining > 0 THEN "top" ELSE "read"
    /\ UNCHANGED <<env, queue, attempt, held, pending, backoff, timer>>

Watcher ==
    \/ StartWatch \/ ReadMain \/ HashDoc \/ LoadDoc \/ BuildFails
    \/ SwapPipelines \/ ArmTimer \/ SelectEvent \/ DrainAndDebounce
    \/ SelectTimer \/ SelectShutdown \/ Decide

Next ==
    \/ \E m \in Mains : EditMain(m)
    \/ \E t \in DocTexts : EditDoc(t)
    \/ Deliver \/ Stabilise \/ RequestShutdown \/ Tick
    \/ Watcher

(***************************************************************************)
(* The thread runs, notices arrive, time passes, and the transient cause   *)
(* of a failed build does not last for ever.                               *)
(***************************************************************************)
Fairness ==
    /\ WF_vars(Watcher) /\ WF_vars(Deliver)
    /\ WF_vars(Tick) /\ WF_vars(Stabilise)

Spec == Init /\ [][Next]_vars /\ Fairness

------------------------------------------------------------------------------
(* Properties.                                                             *)

TypeOK ==
    /\ text \in [Docs -> DocTexts]
    /\ disk \in Texts /\ hashed \in Texts /\ recorded \in Texts
    /\ served \in [main : Loadable, doc : Docs]
    /\ loaded \in Docs /\ edits \in 0 .. MaxEdits
    /\ notices \in 0 .. MaxEdits /\ queue \in 0 .. ChannelSize
    /\ pc \in PCs /\ pending \in BOOLEAN /\ flaky \in BOOLEAN /\ down \in BOOLEAN
    /\ failures \in 0 .. MaxFailures
    /\ since \in NoFailure .. BackoffMax /\ timer \in NoTimer .. BackoffMax
    /\ held \in [main : SUBSET Mains, doc : SUBSET Docs]

\* The writing of the document the pipelines serve is never older than the
\* one hashed for them, and the main text is the same (handle_reload hashes
\* first and builds after).
HashNotAhead ==
    /\ served.main = recorded.main
    /\ served.doc >= recorded.doc

\* The one edit the unchanged-content check does strand: the document changed
\* between its hash and its load, and was then put back to the text that was
\* hashed, so that it looks already served.
PutBack ==
    /\ recorded.doc < served.doc /\ served.doc < disk.doc
    /\ SameText(recorded, disk) /\ ~SameText(served, disk)

\* With no notice under way, no reload pending and no sleep armed, the
\* waiting watcher serves the texts on disk, or the document was put back to
\* the hashed text after another had been loaded: no other order of edits,
\* debouncing, coalescing and failures strands an edit.
QuiescentInSync ==
    (pc = "select" /\ notices = 0 /\ queue = 0 /\ ~pending) =>
        SameText(served, disk) \/ PutBack

\* What the watcher believes and what it serves: the types, the recorded hash
\* never ahead of the served document, and a quiet watcher in step with the
\* disk but for a document that was put back (run_event_loop, handle_reload).
InSync == TypeOK /\ HashNotAhead /\ QuiescentInSync

\* A configuration that can be loaded is served in the end, whatever failed
\* on the way, unless the watcher is shut down or the document was put back to
\* the hashed text after another had been loaded (run_event_loop).
Converges ==
    <>[](down \/ (disk.main \in Loadable => SameText(served, disk) \/ PutBack))

\* "A change seen while backing off is remembered rather than dropped, and
\* retried when the window expires" (run_event_loop).
DeferredRetried == (pending /\ pc = "select") ~> (pc = "read" \/ down)

Sync == INSTANCE ConfigSync

\* The watcher implements ConfigSync: what goes live is loadable and was on
\* disk, file by file, since the previous swap.
ImplementsSync == Sync!Spec
==============================================================================
