---------------------------- MODULE SoleAnalysis ----------------------------
(***************************************************************************)
(* What AFK promises about the retrospective of an episode, an attention   *)
(* or the completion of a Run (retrospective_attempt.py: "the sole         *)
(* analysis attempt for one retrospective episode"): it is asked for once, *)
(* answers at most once, and the verdict is final.  The verdict is the     *)
(* answer, or "interrupted" where the answer may have been lost.           *)
(***************************************************************************)
CONSTANTS Episodes, Statuses

VARIABLES asked, answer, verdict

vars == <<asked, answer, verdict>>

Init ==
    /\ asked = [e \in Episodes |-> FALSE]
    /\ answer = [e \in Episodes |-> "none"] /\ verdict = [e \in Episodes |-> "none"]

Ask(e) ==
    /\ ~asked[e] /\ asked' = [asked EXCEPT ![e] = TRUE]
    /\ UNCHANGED <<answer, verdict>>

Answer(e) ==
    /\ asked[e] /\ answer[e] = "none" /\ verdict[e] = "none"
    /\ \E s \in Statuses : answer' = [answer EXCEPT ![e] = s]
    /\ UNCHANGED <<asked, verdict>>

Decide(e) ==
    /\ asked[e] /\ verdict[e] = "none"
    /\ \E s \in {answer[e], "interrupted"} \ {"none"} : verdict' = [verdict EXCEPT ![e] = s]
    /\ UNCHANGED <<asked, answer>>

Next == \E e \in Episodes : Ask(e) \/ Answer(e) \/ Decide(e)

Spec == Init /\ [][Next]_vars
=============================================================================
