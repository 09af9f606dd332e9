------------------------ MODULE ConfigWatcherProofs ------------------------
(***************************************************************************)
(* Proofs about the config watcher, for every set of texts, every number   *)
(* of edits, every channel size and every backoff: the only edit ever      *)
(* stranded is a document put back to the text hashed before another was   *)
(* loaded, and the watcher implements ConfigSync.                          *)
(***************************************************************************)
EXTENDS ConfigWatcher, TLAPS

-----------------------------------------------------------------------------
(***************************************************************************)
(* The inductive invariant.                                                *)
(***************************************************************************)

\* The document's writings are numbered in the order they were made, so what
\* the watcher has read is never newer than the disk.
TextsOrdered ==
  /\ disk.doc <= edits /\ notices <= edits
  /\ hashed.doc <= disk.doc /\ loaded <= disk.doc /\ served.doc <= disk.doc
  /\ pc = "swap" => hashed.doc <= loaded

\* What an attempt has checked of the main text by the time it gets there.
Checked ==
  /\ pc = "hash" => hashed.main \notin Unreadable
  /\ pc \in {"load", "swap"} => hashed.main \in Loadable

\* With no announcement under way, the files are as the running attempt read
\* them; between attempts a watcher that owes no retry serves the disk's texts,
\* or the document was put back to the text it hashed.
NothingMissed ==
  notices = 0 /\ queue = 0 =>
    /\ pc = "hash" => hashed.main = disk.main
    /\ pc = "load" => hashed = disk
    /\ pc = "swap" => hashed = disk /\ loaded = disk.doc
    /\ pc \in {"top", "select", "decide", "stopped"} /\ ~pending =>
         SameText(served, disk) \/ PutBack

\* What an attempt has read was on disk since the last swap.
ReadWasHeld ==
  /\ disk.main \in held.main /\ disk.doc \in held.doc
  /\ pc \in {"hash", "load", "swap"} => hashed.main \in held.main
  /\ pc = "swap" => loaded \in held.doc

WatcherInv ==
  /\ TypeOK /\ HashNotAhead
  /\ TextsOrdered /\ Checked /\ NothingMissed /\ ReadWasHeld

-----------------------------------------------------------------------------
(***************************************************************************)
(* The operators.                                                          *)
(***************************************************************************)

\* The minimum of a pair of integers is the smaller one.
LEMMA MinOfTwo ==
  ASSUME NEW a \in Int, NEW b \in Int
  PROVE  Min({a, b}) = IF a <= b THEN a ELSE b
BY DEF Min

\* The maximum of a pair of integers is the larger one.
LEMMA MaxOfTwo ==
  ASSUME NEW a \in Int, NEW b \in Int
  PROVE  Max({a, b}) = IF a >= b THEN a ELSE b
BY DEF Max

\* A power of two is an integer.
LEMMA PowerType == ASSUME NEW n \in Nat PROVE 2 ^ n \in Int
BY Z3

\* A backoff window is never longer than its cap.
LEMMA DurationBound ==
  ASSUME NEW n \in Nat
  PROVE  /\ backoff_duration(n) \in Int
         /\ backoff_duration(n) <= BackoffMax
<1>1. Max({n - 1, 0}) \in Nat
  BY MaxOfTwo
<1> DEFINE m == Max({n - 1, 0})
<1>2. 2 ^ m \in Int
  BY <1>1, PowerType
<1> QED
  BY <1>2, MinOfTwo, WatcherBounds DEF backoff_duration

\* What is left of a window is a number of ticks within the cap.
LEMMA RemainingBound ==
  ASSUME TypeOK
  PROVE  backoff_remaining \in 0 .. BackoffMax
<1>1. CASE since = NoFailure
  BY <1>1, WatcherBounds DEF backoff_remaining
<1>2. CASE since # NoFailure
  <2>1. failures \in Nat /\ since \in 0 .. BackoffMax
    BY <1>2, WatcherBounds DEF TypeOK, NoFailure
  <2>2. backoff_duration(failures) - since \in Int
    BY <2>1, DurationBound
  <2> QED
    BY <1>2, <2>1, <2>2, DurationBound, MaxOfTwo, WatcherBounds
    DEF backoff_remaining
<1> QED
  BY <1>1, <1>2

\* The backoff counters keep their types.
LEMMA BackoffType ==
  ASSUME TypeOK, NEW ok \in BOOLEAN, update_reload_backoff(ok)
  PROVE  failures' \in 0 .. MaxFailures /\ since' \in NoFailure .. BackoffMax
<1>1. failures + 1 \in Int /\ MaxFailures \in Int
  BY WatcherBounds DEF TypeOK
<1>2. Min({failures + 1, MaxFailures}) \in 0 .. MaxFailures
  BY <1>1, MinOfTwo, WatcherBounds DEF TypeOK
<1> QED
  BY <1>2, WatcherBounds DEF update_reload_backoff, NoFailure

-----------------------------------------------------------------------------
(***************************************************************************)
(* Every step keeps the invariant.                                         *)
(***************************************************************************)

\* The start-up pipelines serve the recorded hash, and nothing is under way.
LEMMA InitInv == Init => WatcherInv
<1> SUFFICES ASSUME Init PROVE WatcherInv
  OBVIOUS
<1> USE WatcherBounds DEF Init
<1>1. PICK m \in Mains, l \in Loadable :
        /\ disk = [main |-> m, doc |-> 0]
        /\ served = [main |-> l, doc |-> 0]
  OBVIOUS
<1>2. TypeOK
  <2>1. disk \in Texts /\ served \in Texts /\ served \in [main : Loadable, doc : Docs]
    BY <1>1 DEF Texts, Docs, Loadable
  <2>2. /\ held \in [main : SUBSET Mains, doc : SUBSET Docs]
        /\ text \in [Docs -> DocTexts]
    BY <1>1 DEF Docs
  <2>3. recorded \in Texts /\ hashed \in Texts
    BY <2>1
  <2>4. pc \in PCs /\ pending \in BOOLEAN /\ flaky \in BOOLEAN /\ down \in BOOLEAN
    BY DEF PCs
  <2>5. /\ loaded \in Docs /\ edits \in 0 .. MaxEdits /\ notices \in 0 .. MaxEdits
        /\ queue \in 0 .. ChannelSize /\ failures \in 0 .. MaxFailures
        /\ since \in NoFailure .. BackoffMax /\ timer \in NoTimer .. BackoffMax
    BY DEF Docs, NoFailure, NoTimer
  <2> QED
    BY <2>1, <2>2, <2>3, <2>4, <2>5 DEF TypeOK
<1>3. HashNotAhead /\ TextsOrdered /\ Checked /\ NothingMissed /\ ReadWasHeld
  BY <1>1 DEF HashNotAhead, TextsOrdered, Checked, NothingMissed, ReadWasHeld
<1> QED
  BY <1>2, <1>3 DEF WatcherInv

\* An edit of either file: a watcher that is running gets a notice, one that
\* is still starting has yet to read.
LEMMA RewriteInv ==
  ASSUME WatcherInv, NEW texts \in Texts, Rewrite(texts),
         texts.doc \in {disk.doc, disk.doc + 1},
         text' \in [Docs -> DocTexts]
  PROVE  WatcherInv'
<1> USE WatcherBounds DEF Rewrite, attempt, backoff, WatcherInv
<1>1. TypeOK'
  BY DEF TypeOK, TextsOrdered, Texts, Docs, Watching
<1>2. HashNotAhead'
  BY DEF HashNotAhead
<1>3. TextsOrdered'
  BY DEF TextsOrdered, TypeOK, Texts, Docs, Watching
<1>4. Checked'
  BY DEF Checked
<1>5. NothingMissed'
  BY DEF NothingMissed, TypeOK, Watching
<1>6. ReadWasHeld'
  BY DEF ReadWasHeld, TypeOK, Texts
<1> QED
  BY <1>1, <1>2, <1>3, <1>4, <1>5, <1>6

\* A notice leaves the kernel for the channel, or finds it full: in both cases
\* the channel then holds one (the try_send callback).
LEMMA DeliverInv == WatcherInv /\ Deliver => WatcherInv'
<1> SUFFICES ASSUME WatcherInv, Deliver PROVE WatcherInv'
  OBVIOUS
<1> USE WatcherBounds DEF Deliver, env, attempt, backoff, WatcherInv
<1>1. queue' \in 1 .. ChannelSize
  BY MinOfTwo DEF TypeOK
<1>2. TypeOK'
  BY <1>1 DEF TypeOK
<1>3. NothingMissed'
  BY <1>1 DEF NothingMissed
<1>4. HashNotAhead' /\ TextsOrdered' /\ Checked' /\ ReadWasHeld'
  BY DEF HashNotAhead, TextsOrdered, Checked, ReadWasHeld, TypeOK
<1> QED
  BY <1>1, <1>2, <1>3, <1>4

\* The transient cause of failed builds goes away: nothing of the watcher's moves.
LEMMA StabiliseInv == WatcherInv /\ Stabilise => WatcherInv'
<1> SUFFICES ASSUME WatcherInv, Stabilise PROVE WatcherInv'
  OBVIOUS
<1> USE WatcherBounds DEF Stabilise, env, attempt, backoff, WatcherInv
<1>1. TypeOK'
  BY DEF TypeOK, PCs, NoFailure, NoTimer, Texts, Docs
<1>2. HashNotAhead' /\ TextsOrdered' /\ Checked' /\ NothingMissed' /\ ReadWasHeld'
  BY DEF HashNotAhead, TextsOrdered, Checked, NothingMissed,
         ReadWasHeld, TypeOK, SameText, PutBack
<1> QED
  BY <1>1, <1>2

\* A shutdown request alone changes nothing the watcher has read or serves.
LEMMA RequestShutdownInv == WatcherInv /\ RequestShutdown => WatcherInv'
<1> SUFFICES ASSUME WatcherInv, RequestShutdown PROVE WatcherInv'
  OBVIOUS
<1> USE WatcherBounds DEF RequestShutdown, env, attempt, backoff, WatcherInv
<1>1. TypeOK'
  BY DEF TypeOK, PCs, NoFailure, NoTimer, Texts, Docs
<1>2. HashNotAhead' /\ TextsOrdered' /\ Checked' /\ NothingMissed' /\ ReadWasHeld'
  BY DEF HashNotAhead, TextsOrdered, Checked, NothingMissed,
         ReadWasHeld, TypeOK, SameText, PutBack
<1> QED
  BY <1>1, <1>2

\* Time passes: only the two clocks move.
LEMMA TickInv == WatcherInv /\ Tick => WatcherInv'
<1> SUFFICES ASSUME WatcherInv, Tick PROVE WatcherInv'
  OBVIOUS
<1> USE WatcherBounds DEF Tick, env, attempt, backoff, WatcherInv
<1>1. TypeOK'
  BY DEF TypeOK, PCs, NoFailure, NoTimer, Texts, Docs
<1>2. HashNotAhead' /\ TextsOrdered' /\ Checked' /\ NothingMissed' /\ ReadWasHeld'
  BY DEF HashNotAhead, TextsOrdered, Checked, NothingMissed,
         ReadWasHeld, TypeOK, SameText, PutBack
<1> QED
  BY <1>1, <1>2

\* The start-up pre-check begins with nothing read.
LEMMA StartWatchInv == WatcherInv /\ StartWatch => WatcherInv'
<1> SUFFICES ASSUME WatcherInv, StartWatch PROVE WatcherInv'
  OBVIOUS
<1> USE WatcherBounds DEF StartWatch, env, attempt, backoff, WatcherInv
<1>1. TypeOK'
  BY DEF TypeOK, PCs, NoFailure, NoTimer, Texts, Docs
<1>2. HashNotAhead' /\ TextsOrdered' /\ Checked' /\ NothingMissed' /\ ReadWasHeld'
  BY DEF HashNotAhead, TextsOrdered, Checked, NothingMissed,
         ReadWasHeld, TypeOK, SameText, PutBack
<1> QED
  BY <1>1, <1>2

\* The main file is read, or the attempt fails and stays pending
\* (handle_reload's read error).
LEMMA ReadMainInv == WatcherInv /\ ReadMain => WatcherInv'
<1> SUFFICES ASSUME WatcherInv, ReadMain PROVE WatcherInv'
  OBVIOUS
<1> USE WatcherBounds DEF ReadMain, env, attempt, backoff, WatcherInv
<1>1. TypeOK'
  BY BackoffType DEF TypeOK, PCs, Texts, Docs, Finish
<1>2. HashNotAhead'
  BY DEF HashNotAhead
<1>3. TextsOrdered'
  BY DEF TextsOrdered, TypeOK, Texts, Finish
<1>4. Checked'
  BY DEF Checked, TypeOK, Texts, Finish
<1>5. NothingMissed'
  BY DEF NothingMissed, TypeOK, Texts, Finish
<1>6. ReadWasHeld'
  BY DEF ReadWasHeld, TypeOK, Texts, Finish
<1> QED
  BY <1>1, <1>2, <1>3, <1>4, <1>5, <1>6

\* The hash is taken.  An equal one ends the attempt; the served writing is no
\* older than the hashed one and no newer than the disk's, so that if its text
\* differs it lies strictly between two writings of one text.
LEMMA HashDocInv == WatcherInv /\ HashDoc => WatcherInv'
<1> SUFFICES ASSUME WatcherInv, HashDoc PROVE WatcherInv'
  OBVIOUS
<1> USE WatcherBounds DEF HashDoc, env, attempt, backoff, WatcherInv
<1>1. /\ hashed' = [main |-> hashed.main, doc |-> disk.doc]
      /\ pc = "hash" /\ pc' \in {"top", "load"}
      /\ pc' = "load" => hashed.main \notin Unparsable
      /\ pc' = "top" => SameText(hashed', recorded) \/ pending'
      /\ SameText(hashed', recorded) => pc' = "top"
  BY DEF TypeOK, Texts, Finish, SameText
<1>2. TypeOK'
  BY BackoffType DEF TypeOK, PCs, Texts, Docs, Finish
<1>3. HashNotAhead'
  BY DEF HashNotAhead
<1>4. TextsOrdered'
  <2>1. hashed'.doc = disk.doc /\ pc' # "swap"
    BY <1>1
  <2>2. UNCHANGED <<disk, edits, notices, loaded, served>>
    OBVIOUS
  <2>3. disk.doc \in Nat
    BY DEF TypeOK, Texts, Docs
  <2> HIDE DEF HashDoc
  <2> QED
    BY <2>1, <2>2, <2>3 DEF TextsOrdered
<1>5. Checked'
  BY DEF Checked, TypeOK, Texts, Loadable, Finish
<1>6. NothingMissed'
  <2>1. CASE SameText(hashed', recorded)
    <3>1. served.main = hashed.main /\ text[recorded.doc] = text[disk.doc]
      BY <1>1, <2>1 DEF HashNotAhead, SameText
    <3>2. /\ recorded.main = hashed.main
          /\ recorded.doc <= served.doc /\ served.doc <= disk.doc
          /\ recorded.doc \in Nat /\ served.doc \in Nat /\ disk.doc \in Nat
      BY <1>1, <3>1 DEF HashNotAhead, TextsOrdered, TypeOK, Texts, Docs
    <3>3. ASSUME hashed.main = disk.main
          PROVE  SameText(served, disk) \/ PutBack
      BY <3>1, <3>2, <3>3 DEF SameText, PutBack
    <3>4. ASSUME notices = 0, queue = 0
          PROVE  (SameText(served, disk) \/ PutBack)'
      BY <1>1, <3>3, <3>4 DEF NothingMissed, SameText, PutBack
    <3> QED
      BY <1>1, <2>1, <3>4 DEF NothingMissed
  <2>2. CASE ~SameText(hashed', recorded)
    BY <1>1, <2>2 DEF NothingMissed, TypeOK, Texts, Finish
  <2> QED
    BY <2>1, <2>2
<1>7. ReadWasHeld'
  BY DEF ReadWasHeld, TypeOK, Texts, Finish
<1> QED
  BY <1>2, <1>3, <1>4, <1>5, <1>6, <1>7

\* The filter reads the document a second time, at or after the hashed one.
LEMMA LoadDocInv == WatcherInv /\ LoadDoc => WatcherInv'
<1> SUFFICES ASSUME WatcherInv, LoadDoc PROVE WatcherInv'
  OBVIOUS
<1> USE WatcherBounds DEF LoadDoc, env, attempt, backoff, WatcherInv
<1>1. TypeOK'
  BY DEF TypeOK, PCs, Texts, Docs
<1>2. HashNotAhead' /\ Checked'
  BY DEF HashNotAhead, Checked
<1>3. TextsOrdered'
  BY DEF TextsOrdered, TypeOK, Texts, Docs
<1>4. NothingMissed'
  BY DEF NothingMissed, TypeOK, Texts
<1>5. ReadWasHeld'
  BY DEF ReadWasHeld, TypeOK, Texts
<1> QED
  BY <1>1, <1>2, <1>3, <1>4, <1>5

\* A failed build leaves the reload pending and the old pipelines live.
LEMMA BuildFailsInv == WatcherInv /\ BuildFails => WatcherInv'
<1> SUFFICES ASSUME WatcherInv, BuildFails PROVE WatcherInv'
  OBVIOUS
<1> USE WatcherBounds DEF BuildFails, env, attempt, backoff, WatcherInv
<1>1. TypeOK'
  BY BackoffType DEF TypeOK, PCs, Texts, Docs, Finish
<1>2. HashNotAhead' /\ TextsOrdered'
  BY DEF HashNotAhead, TextsOrdered, Finish
<1>3. Checked' /\ NothingMissed' /\ ReadWasHeld'
  BY DEF Checked, NothingMissed, ReadWasHeld, Finish
<1> QED
  BY <1>1, <1>2, <1>3

\* The swap serves the document the filter loaded and records the hash, which is
\* at most as new (swap_pipelines).
LEMMA SwapPipelinesInv == WatcherInv /\ SwapPipelines => WatcherInv'
<1> SUFFICES ASSUME WatcherInv, SwapPipelines PROVE WatcherInv'
  OBVIOUS
<1> USE WatcherBounds DEF SwapPipelines, env, attempt, backoff, WatcherInv
<1>1. TypeOK'
  BY BackoffType DEF TypeOK, Checked, PCs, Texts, Docs, Loadable, Finish
<1>2. HashNotAhead'
  BY DEF HashNotAhead, TextsOrdered, TypeOK, Texts, Docs
<1>3. TextsOrdered'
  BY DEF TextsOrdered, TypeOK, Texts, Docs, Finish
<1>4. Checked'
  BY DEF Checked, Finish
<1>5. NothingMissed'
  BY DEF NothingMissed, TypeOK, Texts, Docs, Finish, SameText
<1>6. ReadWasHeld'
  BY DEF ReadWasHeld, Finish
<1> QED
  BY <1>1, <1>2, <1>3, <1>4, <1>5, <1>6

\* The sleep is armed for what is left of the window.
LEMMA ArmTimerInv == WatcherInv /\ ArmTimer => WatcherInv'
<1> SUFFICES ASSUME WatcherInv, ArmTimer PROVE WatcherInv'
  OBVIOUS
<1> USE WatcherBounds DEF ArmTimer, env, attempt, backoff, WatcherInv
<1>1. TypeOK'
  BY RemainingBound DEF TypeOK, PCs, NoTimer, Texts, Docs
<1>2. HashNotAhead' /\ TextsOrdered' /\ Checked' /\ NothingMissed' /\ ReadWasHeld'
  BY DEF HashNotAhead, TextsOrdered, Checked, NothingMissed,
         ReadWasHeld, SameText, PutBack
<1> QED
  BY <1>1, <1>2

\* A notice is taken from the channel: the debounce then owes a reload.
LEMMA SelectEventInv == WatcherInv /\ SelectEvent => WatcherInv'
<1> SUFFICES ASSUME WatcherInv, SelectEvent PROVE WatcherInv'
  OBVIOUS
<1> USE WatcherBounds DEF SelectEvent, env, attempt, backoff, WatcherInv
<1>1. TypeOK'
  BY DEF TypeOK, PCs, NoFailure, NoTimer, Texts, Docs
<1>2. HashNotAhead' /\ TextsOrdered' /\ Checked' /\ NothingMissed' /\ ReadWasHeld'
  BY DEF HashNotAhead, TextsOrdered, Checked, NothingMissed,
         ReadWasHeld, TypeOK, SameText, PutBack
<1> QED
  BY <1>1, <1>2

\* The channel is drained into reload_pending: the announcement is not lost.
LEMMA DrainAndDebounceInv == WatcherInv /\ DrainAndDebounce => WatcherInv'
<1> SUFFICES ASSUME WatcherInv, DrainAndDebounce PROVE WatcherInv'
  OBVIOUS
<1> USE WatcherBounds DEF DrainAndDebounce, env, attempt, backoff, WatcherInv
<1>1. TypeOK'
  BY DEF TypeOK, PCs, NoFailure, NoTimer, Texts, Docs
<1>2. HashNotAhead' /\ TextsOrdered' /\ Checked' /\ NothingMissed' /\ ReadWasHeld'
  BY DEF HashNotAhead, TextsOrdered, Checked, NothingMissed,
         ReadWasHeld, TypeOK, SameText, PutBack
<1> QED
  BY <1>1, <1>2

\* The sleep ends.
LEMMA SelectTimerInv == WatcherInv /\ SelectTimer => WatcherInv'
<1> SUFFICES ASSUME WatcherInv, SelectTimer PROVE WatcherInv'
  OBVIOUS
<1> USE WatcherBounds DEF SelectTimer, env, attempt, backoff, WatcherInv
<1>1. TypeOK'
  BY DEF TypeOK, PCs, NoFailure, NoTimer, Texts, Docs
<1>2. HashNotAhead' /\ TextsOrdered' /\ Checked' /\ NothingMissed' /\ ReadWasHeld'
  BY DEF HashNotAhead, TextsOrdered, Checked, NothingMissed,
         ReadWasHeld, TypeOK, SameText, PutBack
<1> QED
  BY <1>1, <1>2

\* The loop ends.
LEMMA SelectShutdownInv == WatcherInv /\ SelectShutdown => WatcherInv'
<1> SUFFICES ASSUME WatcherInv, SelectShutdown PROVE WatcherInv'
  OBVIOUS
<1> USE WatcherBounds DEF SelectShutdown, env, attempt, backoff, WatcherInv
<1>1. TypeOK'
  BY DEF TypeOK, PCs, NoFailure, NoTimer, Texts, Docs
<1>2. HashNotAhead' /\ TextsOrdered' /\ Checked' /\ NothingMissed' /\ ReadWasHeld'
  BY DEF HashNotAhead, TextsOrdered, Checked, NothingMissed,
         ReadWasHeld, TypeOK, SameText, PutBack
<1> QED
  BY <1>1, <1>2

\* The attempt is run or skipped; pending is kept either way
\* (should_skip_for_backoff).
LEMMA DecideInv == WatcherInv /\ Decide => WatcherInv'
<1> SUFFICES ASSUME WatcherInv, Decide PROVE WatcherInv'
  OBVIOUS
<1> USE WatcherBounds DEF Decide, env, attempt, backoff, WatcherInv
<1>1. TypeOK'
  BY DEF TypeOK, PCs, NoFailure, NoTimer, Texts, Docs
<1>2. HashNotAhead' /\ TextsOrdered' /\ Checked' /\ NothingMissed' /\ ReadWasHeld'
  BY DEF HashNotAhead, TextsOrdered, Checked, NothingMissed,
         ReadWasHeld, TypeOK, SameText, PutBack
<1> QED
  BY <1>1, <1>2

-----------------------------------------------------------------------------
(***************************************************************************)
(* The theorems.                                                           *)
(***************************************************************************)

\* An edit of the main file or of the document is a Rewrite of the disk.
LEMMA EditInv ==
  ASSUME WatcherInv,
         (\E m \in Mains : EditMain(m)) \/ (\E t \in DocTexts : EditDoc(t))
  PROVE  WatcherInv'
<1>1. ASSUME NEW m \in Mains, EditMain(m) PROVE WatcherInv'
  <2>1. /\ [disk EXCEPT !.main = m] \in Texts
        /\ [disk EXCEPT !.main = m].doc = disk.doc
        /\ text' \in [Docs -> DocTexts]
    BY <1>1 DEF EditMain, WatcherInv, TypeOK, Texts
  <2> QED
    BY <1>1, <2>1, RewriteInv DEF EditMain
<1>2. ASSUME NEW t \in DocTexts, EditDoc(t) PROVE WatcherInv'
  <2>1. /\ [disk EXCEPT !.doc = @ + 1] \in Texts
        /\ [disk EXCEPT !.doc = @ + 1].doc = disk.doc + 1
    <3>1. edits < MaxEdits
      BY <1>2 DEF EditDoc, Rewrite
    <3>2. disk \in [main : Mains, doc : Docs]
      BY DEF WatcherInv, TypeOK, Texts
    <3>3. disk.doc \in Docs /\ disk.doc + 1 \in Docs
      BY <3>1, <3>2, WatcherBounds DEF WatcherInv, TypeOK, TextsOrdered, Docs
    <3> QED
      BY <3>2, <3>3 DEF Texts
  <2>2. text' \in [Docs -> DocTexts]
    BY <1>2 DEF EditDoc, WatcherInv, TypeOK
  <2> QED
    BY <1>2, <2>1, <2>2, RewriteInv DEF EditDoc
<1> QED
  BY <1>1, <1>2

\* The invariant is inductive.
LEMMA NextInv == WatcherInv /\ [Next]_vars => WatcherInv'
<1> SUFFICES ASSUME WatcherInv, [Next]_vars PROVE WatcherInv'
  OBVIOUS
<1>1. CASE (\E m \in Mains : EditMain(m)) \/ (\E t \in DocTexts : EditDoc(t))
  BY <1>1, EditInv
<1>2. CASE Deliver \/ Stabilise \/ RequestShutdown \/ Tick
  BY <1>2, DeliverInv, StabiliseInv, RequestShutdownInv, TickInv
<1>3. CASE Watcher
  BY <1>3, StartWatchInv, ReadMainInv, HashDocInv, LoadDocInv, BuildFailsInv,
     SwapPipelinesInv, ArmTimerInv, SelectEventInv, DrainAndDebounceInv,
     SelectTimerInv, SelectShutdownInv, DecideInv
  DEF Watcher
<1>4. CASE UNCHANGED vars
  BY <1>4
  DEF vars, WatcherInv, TypeOK, HashNotAhead, TextsOrdered, Checked,
      NothingMissed, ReadWasHeld, SameText, PutBack
<1> QED
  BY <1>1, <1>2, <1>3, <1>4 DEF Next

\* Every state the watcher reaches satisfies the inductive invariant.
THEOREM WatcherInvariant == Spec => []WatcherInv
<1> QED
  BY InitInv, NextInv, PTL DEF Spec

\* For every channel size, backoff, number of edits and set of texts, a waiting
\* watcher with no notice under way and no reload pending serves the texts on
\* disk, or the document changed between its hash and its load and was then put
\* back: that is the only way the unchanged-content check strands an edit,
\* whatever the order of edits, coalesced notices, debouncing, failures and
\* backoff (run_event_loop, handle_reload).
THEOREM NoEditStranded == Spec => []InSync
<1>1. WatcherInv => InSync
  BY DEF WatcherInv, InSync, NothingMissed, QuiescentInSync
<1> QED
  BY <1>1, WatcherInvariant, PTL

\* A swap adopts a loadable main text and a document that were both on disk
\* since the previous swap.
LEMMA SwapAdopts == WatcherInv /\ SwapPipelines => Sync!Adopt
BY DEF WatcherInv, TypeOK, Checked, ReadWasHeld, SwapPipelines, env, Sync!Adopt

\* Editing a file is ConfigSync's edit.
LEMMA RewriteEdits ==
  ASSUME WatcherInv, WatcherInv', NEW texts, Rewrite(texts)
  PROVE  Sync!Edit
BY DEF WatcherInv, TypeOK, Texts, Rewrite, attempt, Sync!Edit, Sync!Texts

\* Every other step is invisible to ConfigSync.
LEMMA OthersInvisible ==
  ASSUME Deliver \/ Stabilise \/ RequestShutdown \/ Tick \/ StartWatch
           \/ ReadMain \/ HashDoc \/ LoadDoc \/ BuildFails \/ ArmTimer
           \/ SelectEvent \/ DrainAndDebounce \/ SelectTimer
           \/ SelectShutdown \/ Decide
  PROVE  UNCHANGED Sync!vars
BY DEF Deliver, Stabilise, RequestShutdown, Tick, StartWatch, ReadMain, HashDoc,
       LoadDoc, BuildFails, ArmTimer, SelectEvent, DrainAndDebounce, SelectTimer,
       SelectShutdown, Decide, env, attempt, Sync!vars

\* The watcher implements ConfigSync: what goes live is loadable and was on
\* disk, file by file, since the previous swap, however its two reads of the
\* document interleave with edits and failed attempts (handle_reload).
THEOREM WatcherImplementsSync == Spec => ImplementsSync
<1>1. Init => Sync!Init
  <2> SUFFICES ASSUME Init PROVE Sync!Init
    OBVIOUS
  <2>1. WatcherInv
    BY InitInv
  <2> QED
    BY <2>1 DEF Init, WatcherInv, TypeOK, Texts, Loadable, Sync!Init, Sync!Texts
<1>2. WatcherInv /\ WatcherInv' /\ [Next]_vars => [Sync!Next]_Sync!vars
  <2> SUFFICES ASSUME WatcherInv, WatcherInv', [Next]_vars
               PROVE  Sync!Next \/ UNCHANGED Sync!vars
    OBVIOUS
  <2>1. CASE (\E m \in Mains : EditMain(m)) \/ (\E t \in DocTexts : EditDoc(t))
    BY <2>1, RewriteEdits DEF EditMain, EditDoc, Sync!Next
  <2>2. CASE SwapPipelines
    BY <2>2, SwapAdopts DEF Sync!Next
  <2>3. CASE UNCHANGED vars
    BY <2>3 DEF vars, Sync!vars
  <2> QED
    BY <2>1, <2>2, <2>3, OthersInvisible DEF Next, Watcher
<1> QED
  BY <1>1, <1>2, WatcherInvariant, PTL DEF Spec, ImplementsSync, Sync!Spec
=============================================================================
