------------------------------ MODULE ActiveRun ------------------------------
(***************************************************************************)
(* What the Run Store promises its users about ownership (CONTEXT.md,      *)
(* "Active Run"): at most one Run owns AFK-managed work at a time, a Run   *)
(* that gave ownership up never takes it back, and a new Run takes it only *)
(* when nobody holds it.  Files, locks, crashes and the active.json        *)
(* pointer do not appear here; RunStore implements this module.            *)
(***************************************************************************)
CONSTANTS Runs,    \* durable Run identifiers
          NoRun    \* the owner when no Run is active

VARIABLES owner,   \* the Active Run, or NoRun
          retired  \* Runs that were active and are completed or superseded

vars == <<owner, retired>>

TypeOK ==
    /\ owner \in Runs \cup {NoRun}
    /\ retired \subseteq Runs

Init ==
    /\ owner = NoRun
    /\ retired = {}

\* A start makes a Run that was never active the owner.
Open(r) ==
    /\ owner = NoRun
    /\ r \notin retired
    /\ owner' = r
    /\ UNCHANGED retired

\* Completion or supersession ends the owner's ownership for good.
Retire ==
    /\ owner # NoRun
    /\ retired' = retired \cup {owner}
    /\ owner' = NoRun

Next == Retire \/ \E r \in Runs : Open(r)

Spec == Init /\ [][Next]_vars
=============================================================================
