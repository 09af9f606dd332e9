----------------------------- MODULE ConfigSync -----------------------------
(***************************************************************************)
(* What hot reload promises, without saying how: the proxy serves one      *)
(* configuration, made of the main file's text and of the text of the      *)
(* document that filters read beside it.  Editors rewrite either file at   *)
(* any moment; now and then the proxy adopts a loadable configuration.     *)
(* The two texts need not be of one moment, since the files are read one   *)
(* after the other, but each was on disk at some moment since the previous *)
(* adoption: a writing that was replaced before the last adoption never    *)
(* comes back.                                                             *)
(***************************************************************************)

CONSTANTS
    Mains,      \* texts of the main file
    Docs,       \* writings of the referenced document
    Loadable    \* the main texts that parse and build

VARIABLES
    disk,       \* the two texts on disk
    served,     \* the two texts the live pipelines were built from
    held        \* per file, the texts it held since the last adoption

vars == <<disk, served, held>>

Texts == [main : Mains, doc : Docs]

Init ==
    /\ disk \in Texts
    /\ served \in {t \in Texts : t.main \in Loadable}
    /\ held = [main |-> {disk.main}, doc |-> {disk.doc}]

\* A file is rewritten.
Edit ==
    /\ disk' \in Texts
    /\ held' = [main |-> held.main \cup {disk'.main},
                doc |-> held.doc \cup {disk'.doc}]
    /\ UNCHANGED served

\* A loadable configuration goes live.
Adopt ==
    /\ served' \in [main : held.main \cap Loadable, doc : held.doc]
    /\ held' = [main |-> {disk.main}, doc |-> {disk.doc}]
    /\ UNCHANGED disk

Next == Edit \/ Adopt

Spec == Init /\ [][Next]_vars
=============================================================================
