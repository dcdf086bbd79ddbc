---------------------------- MODULE AtomicPublish ----------------------------
(***************************************************************************)
(* What a write handle promises: the bytes written become visible under    *)
(* the name all at once, after Close() began, or never; success means they *)
(* are visible, failure that they never will be; and Close() may have to   *)
(* say that it does not know.                                              *)
(***************************************************************************)
EXTENDS Integers

CONSTANTS
    MaxBytes,   \* bound: bytes written
    Old         \* what the name showed before the handle was opened, no number

VARIABLES
    written,    \* bytes the caller was told were written
    visible,    \* what a reader of the name sees: Old, or this many bytes
    open,       \* the handle still takes writes
    told        \* "none", "ok", "failed" or "unknown"

vars == <<written, visible, open, told>>

TypeOK ==
    /\ written \in 0..MaxBytes
    /\ visible \in 0..MaxBytes \cup {Old}
    /\ open \in BOOLEAN
    /\ told \in {"none", "ok", "failed", "unknown"}

Init == written = 0 /\ visible = Old /\ open = TRUE /\ told = "none"

Write ==
    /\ open
    /\ written' \in written..MaxBytes
    /\ UNCHANGED <<visible, open, told>>

Close ==
    /\ open /\ open' = FALSE
    /\ UNCHANGED <<written, visible, told>>

\* The one step that changes what readers see.  It may come after Close()
\* gave up, but only if Close() said so.
Publish ==
    /\ ~open /\ visible = Old /\ told \in {"none", "unknown"}
    /\ visible' = written
    /\ UNCHANGED <<written, open, told>>

Succeed ==
    /\ ~open /\ told = "none" /\ visible = written
    /\ told' = "ok"
    /\ UNCHANGED <<written, visible, open>>

\* Also the outcome of a handle dropped while it was open.
GiveUp ==
    /\ told = "none" /\ visible = Old
    /\ told' = "failed" /\ open' = FALSE
    /\ UNCHANGED <<written, visible>>

Wonder ==
    /\ ~open /\ told = "none"
    /\ told' = "unknown"
    /\ UNCHANGED <<written, visible, open>>

Next == Write \/ Close \/ Publish \/ Succeed \/ GiveUp \/ Wonder

Spec == Init /\ [][Next]_vars
=============================================================================
