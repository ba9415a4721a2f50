------------------------------- MODULE Delivery -------------------------------
(***************************************************************************)
(* What AFK promises about the delivery of a reviewed change (CONTEXT.md,  *)
(* "Completed"): the vetted change is merged, then its Bead is closed,     *)
(* then the Run is completed, and the Run State only tells of facts that   *)
(* have been achieved.  Effects, crashes, lost answers and other people do *)
(* not appear here; Integration implements this module.                    *)
(***************************************************************************)
VARIABLES
    stage,   \* the last achieved Run State
    merged,  \* the target branch has exactly the reviewed Candidate, on the pinned base
    closed   \* AFK closed the Bead for that merge

vars == <<stage, merged, closed>>

Init == stage = "reviewed" /\ merged = FALSE /\ closed = FALSE

\* A merge takes place while the Run is reviewed, never later.
Merge == stage = "reviewed" /\ merged' = TRUE /\ UNCHANGED <<stage, closed>>

\* The Bead is closed only for a merge that the Run knows of.
Close == stage = "merged" /\ closed' = TRUE /\ UNCHANGED <<stage, merged>>

Achieve(from, to, fact) ==
    stage = from /\ fact /\ stage' = to /\ UNCHANGED <<merged, closed>>

Next ==
    \/ Merge \/ Close
    \/ Achieve("reviewed", "merged", merged)
    \/ Achieve("merged", "bead_closed", closed)
    \/ Achieve("bead_closed", "completed", TRUE)

Spec == Init /\ [][Next]_vars
=============================================================================
