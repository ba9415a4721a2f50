------------------------- MODULE IntegrationProofs -------------------------
(***************************************************************************)
(* Proofs about Integration, for any number of failed calls, of crashes    *)
(* and of actions of other people: it is well typed, announces what it     *)
(* does to the outside, merges nothing but the reviewed head, repeats no   *)
(* request that took effect, destroys nobody's work, claims no cleanup     *)
(* that was not achieved, and implements Delivery.                         *)
(***************************************************************************)
EXTENDS Integration, TLAPS

Scopes == {"lifecycle", "publication", "merge", "bead_close"}

ReadySteps == {"verify_gate", "check_ready", "readying", "adopt_ready", "confirm_ready",
               "record_ready"}
MergeSteps == {"check_merge", "prepare_delete", "recheck_merge", "merging", "gh_delete",
               "adopt_merge", "record_merge"}
CloseSteps == {"check_deletion", "record_deletion", "check_close", "close_bead", "closing",
               "confirm_close", "record_close"}
CleanSteps == {"check_completion", "delete_branch", "deleting", "confirm_deletion",
               "move_worktree", "remove_worktree", "removing", "delete_ref", "deleting_ref",
               "write_completion", "seal_completion", "record_completed"}

\* What TypeOK says of the projection.
RunTyped(r) ==
    /\ r \in [checkpoint : {"reviewed", "merged", "bead_closed", "completed"},
             attention : {"none"} \cup Scopes,
             signalled : BOOLEAN, episode : BOOLEAN, ready : BOOLEAN, deleted : BOOLEAN]
    /\ r.checkpoint # "reviewed" => r.ready
    /\ r.signalled => r.attention = "lifecycle"

\* A command only takes the steps of the stage that the Run is in.
StageOK ==
    /\ pc \in ReadySteps => run.checkpoint = "reviewed"
    /\ pc \in MergeSteps => run.checkpoint = "reviewed" /\ run.ready
    /\ pc \in CloseSteps => run.checkpoint = "merged"
    /\ pc \in CleanSteps => run.checkpoint = "bead_closed"

\* A request that is about to be sent, that is under way or that took effect is announced;
\* so is the deletion that gh adds to a merge, before the merge is sent.
Sent(x) == pc = x \/ x \in late \/ applied[x] # "no"

AnnouncedOK ==
    /\ Sent("readying") => Prepared("pr-mark-ready")
    /\ Sent("closing") \/ pc = "close_bead" => Prepared("bead-close")
    /\ Sent("merging") \/ pc \in {"prepare_delete", "recheck_merge"} =>
          Prepared("pr-squash-merge")
    /\ Sent("merging") \/ Sent("gh_delete") \/ Sent("deleting") => Prepared("remote-branch-delete")
    /\ run.checkpoint # "reviewed" \/ pc \in {"recheck_merge", "adopt_merge", "record_merge"} =>
          Prepared("remote-branch-delete")

\* A pull request that is merged stays as it was merged; what AFK merged is the Candidate,
\* and what the Run calls merged is the Candidate on the pinned base.
MergedOK ==
    /\ applied["merging"] # "no" => pr.state = "merged" /\ pr.head = "candidate"
    /\ pc = "gh_delete" \/ "gh_delete" \in late \/ applied["gh_delete"] # "no" =>
          pr.state = "merged"
    /\ pc = "record_merge" \/ run.checkpoint # "reviewed" => SquashOfCandidate

\* The Bead is closed by AFK only behind the merge, and a Run that calls it closed knows.
ClosedOK ==
    /\ pc = "closing" \/ "closing" \in late \/ applied["closing"] # "no" =>
          run.checkpoint # "reviewed"
    /\ bead = "afk" \/ pc = "record_close" \/ run.checkpoint \in {"bead_closed", "completed"} =>
          applied["closing"] # "no"

\* What a command claims to have cleaned up is true, and stays true.
Achieves(claims) ==
    /\ claims.worktree => checkout.place = "gone"
    /\ claims.local => local = "gone"
    /\ claims.remote => effect["remote-branch-delete"] = "confirmed"

\* The ref goes after the worktree, so that neither claim outlives its fact.
CleanedOK ==
    /\ Achieves(cleaned) /\ Achieves(completion.claims)
    /\ pc = "deleting_ref" \/ local = "gone" => checkout.place = "gone"

\* What AFK did stays done as long as nobody else undoes it.
UndoneOK ==
    meddling = 0 =>
        /\ applied["readying"] # "no" => ~pr.draft
        /\ applied["closing"] # "no" => bead = "afk"
        /\ applied["deleting"] # "no" => remote = "gone"
        /\ bead # "other"

IInv == TypeOK /\ StageOK /\ AnnouncedOK /\ MergedOK /\ ClosedOK /\ CleanedOK /\ UndoneOK
-----------------------------------------------------------------------------

LEMMA Initially == Init => IInv
<1> SUFFICES ASSUME Init PROVE IInv
  OBVIOUS
<1>1. TypeOK
  BY IntegrationConstants
  DEF Init, TypeOK, Effects, NoCompletion, NoCleanup, Claims, Heads, Bases, Requests, Steps
<1>2. StageOK
  BY DEF Init, StageOK, ReadySteps, MergeSteps, CloseSteps, CleanSteps
<1>3. AnnouncedOK
  BY DEF Init, AnnouncedOK, Sent, Requests
<1>4. MergedOK /\ ClosedOK
  BY DEF Init, MergedOK, ClosedOK, Requests
<1>5. CleanedOK
  BY DEF Init, CleanedOK, Achieves, NoCompletion, NoCleanup
<1>6. UndoneOK
  BY DEF Init, UndoneOK, Requests
<1>. QED BY <1>1, <1>2, <1>3, <1>4, <1>5, <1>6 DEF IInv

\* What each request changes when it takes effect.
LEMMA TakeEffect ==
  ASSUME NEW x \in Requests, NEW when, Take(x, when)
  PROVE  /\ x = "readying" => pr' = [pr EXCEPT !.draft = FALSE]
         /\ x = "merging" =>
               pr' = [pr EXCEPT !.state = "merged", !.head = remote, !.onto = base]
         /\ x \notin {"readying", "merging"} => pr' = pr
         /\ x \in {"gh_delete", "deleting"} => remote' = "gone"
         /\ x \notin {"gh_delete", "deleting"} => remote' = remote
         /\ x = "closing" => bead' = "afk" \/ (bead = "other" /\ bead' = bead)
         /\ x # "closing" => bead' = bead
         /\ base' = IF x = "merging" THEN "moved" ELSE base
         /\ applied' = [applied EXCEPT ![x] = when]
         /\ checkout' = checkout /\ local' = local
<1>1. x = "readying" => pr' = [pr EXCEPT !.draft = FALSE]
  BY Zenon DEF Take
<1>2. x = "merging" => pr' = [pr EXCEPT !.state = "merged", !.head = remote, !.onto = base]
  BY Zenon DEF Take
<1>3. x \notin {"readying", "merging"} => pr' = pr
  BY Zenon DEF Take
<1>4. remote' = IF x \in {"gh_delete", "deleting"} THEN "gone" ELSE remote
  BY Zenon DEF Take
<1>5. bead' \in IF x = "closing" THEN {"afk"} \cup ({bead} \cap {"other"}) ELSE {bead}
  BY Zenon DEF Take
<1>6. /\ base' = IF x = "merging" THEN "moved" ELSE base
      /\ applied' = [applied EXCEPT ![x] = when]
      /\ checkout' = checkout /\ local' = local
  BY Zenon DEF Take
<1>. QED BY <1>1, <1>2, <1>3, <1>4, <1>5, <1>6

\* What the projection is after a command stopped, and after it recorded an achieved state.
LEMMA Stops ==
  ASSUME TypeOK, NEW scope \in Scopes, Stop(scope)
  PROVE  /\ RunTyped(run') /\ pc' = "idle"
         /\ run'.checkpoint = run.checkpoint /\ run'.ready = run.ready
  BY DEF TypeOK, Stop, Record, RunTyped, Scopes

LEMMA AchievesState ==
  ASSUME TypeOK, NEW c \in {"reviewed", "merged", "bead_closed", "completed"},
         c # "reviewed" => run.ready
  PROVE  /\ RunTyped(Achieved(c))
         /\ Achieved(c).checkpoint = c /\ Achieved(c).ready = run.ready
  BY DEF TypeOK, Achieved, RunTyped, Scopes


\* Confirming an Effect only ever moves it forward.
LEMMA Confirms ==
  ASSUME TypeOK, NEW e \in Effects, Confirm(e)
  PROVE  /\ effect' \in [Effects -> {"absent", "prepared", "confirmed"}]
         /\ effect'[e] = "confirmed"
         /\ \A f \in Effects : /\ effect[f] # "absent" => effect'[f] # "absent"
                              /\ effect[f] = "confirmed" => effect'[f] = "confirmed"
  BY DEF TypeOK, Confirm

\* One more claim, or one less, is still a record of claims.
LEMMA Claiming ==
  ASSUME NEW c \in Claims, NEW b \in BOOLEAN
  PROVE  /\ [c EXCEPT !.remote = b] \in Claims
         /\ [c EXCEPT !.worktree = b] \in Claims
         /\ [c EXCEPT !.local = b] \in Claims
         /\ NoCleanup \in Claims
  BY DEF Claims, NoCleanup

LEMMA Unclaiming ==
  ASSUME NEW c \in Claims
  PROVE  [c EXCEPT !.worktree = FALSE, !.local = FALSE] \in Claims
  BY DEF Claims

\* The stage that a resume takes belongs to the Run State.
LEMMA Branches ==
  ASSUME TypeOK, run.checkpoint # "completed"
  PROVE  \/ Branch = "alert_signal"
         \/ run.checkpoint = "reviewed" /\ run.ready /\ Branch = "check_merge"
         \/ run.checkpoint = "reviewed" /\ Branch = "verify_gate"
         \/ run.checkpoint = "merged" /\ Branch = "check_close"
         \/ run.checkpoint = "bead_closed" /\ Branch = "check_completion"
<1>1. run.checkpoint \in {"reviewed", "merged", "bead_closed"}
  BY DEF TypeOK
<1>2. CASE run.signalled
  BY <1>2, Zenon DEF Branch
<1>3. CASE ~run.signalled /\ run.checkpoint = "reviewed"
  BY <1>3, Zenon DEF Branch
<1>4. CASE ~run.signalled /\ run.checkpoint = "merged"
  BY <1>4, Zenon DEF Branch
<1>5. CASE ~run.signalled /\ run.checkpoint = "bead_closed"
  BY <1>5, Zenon DEF Branch
<1>. QED BY <1>1, <1>2, <1>3, <1>4, <1>5

LEMMA Completions ==
  ASSUME TypeOK, CheckCompletion
  PROVE  pc' \in {"delete_branch", "seal_completion", "record_completed"}
<1>1. completion.seal \in {"absent", "written", "sealed"}
  BY DEF TypeOK
<1>2. CASE completion.seal = "absent"
  BY <1>2, Zenon DEF CheckCompletion, Goto
<1>3. CASE completion.seal = "written"
  BY <1>3, Zenon DEF CheckCompletion, Goto
<1>4. CASE completion.seal = "sealed"
  BY <1>4, Zenon DEF CheckCompletion, Goto
<1>. QED BY <1>1, <1>2, <1>3, <1>4

\* What a request may do to the world, at whatever moment it takes effect: it never touches
\* a merged pull request, and it undoes nothing.
PRs == [state : {"open", "merged"}, draft : BOOLEAN, comment : BOOLEAN, head : Heads, onto : Bases]

Delivers(x) ==
    /\ pr' \in PRs /\ remote' \in Heads /\ base' \in Bases /\ bead' \in {"open", "afk", "other"}
    /\ applied' \in [Requests -> {"no", "sent", "late"}]
    /\ \A y \in Requests : applied'[y] # "no" => applied[y] # "no" \/ y = x
    /\ \A y \in Requests : applied[y] # "no" => applied'[y] # "no"
    /\ pr.state = "merged" => pr'.state = "merged" /\ pr'.head = pr.head /\ pr'.onto = pr.onto
    /\ applied'["merging"] # "no" => pr'.state = "merged" /\ pr'.head = "candidate"
    /\ bead' = "afk" => applied'["closing"] # "no"
    /\ meddling = 0 => /\ applied'["readying"] # "no" => ~pr'.draft
                       /\ applied'["closing"] # "no" => bead' = "afk"
                       /\ applied'["deleting"] # "no" => remote' = "gone"
                       /\ bead' # "other"
    /\ UNCHANGED <<checkout, local>>

LEMMA Merges ==
  ASSUME NEW r \in PRs, NEW head \in Heads, NEW onto \in Bases
  PROVE  /\ [r EXCEPT !.state = "merged", !.head = head, !.onto = onto] \in PRs
         /\ [r EXCEPT !.state = "merged", !.head = head, !.onto = onto].state = "merged"
         /\ [r EXCEPT !.state = "merged", !.head = head, !.onto = onto].head = head
         /\ [r EXCEPT !.state = "merged", !.head = head, !.onto = onto].draft = r.draft
  BY DEF PRs

LEMMA TakeDelivers ==
  ASSUME IInv, NEW x \in Requests, NEW when \in {"sent", "late"}, Acceptable(x), Take(x, when)
  PROVE  Delivers(x) /\ applied'[x] = when
<1>. USE TakeEffect DEF IInv, TypeOK
<1>1. applied' \in [Requests -> {"no", "sent", "late"}] /\ applied'[x] = when
      /\ \A y \in Requests : y # x => applied'[y] = applied[y]
  OBVIOUS
<1>2. pr' \in PRs /\ remote' \in Heads /\ base' \in Bases /\ bead' \in {"open", "afk", "other"}
  <2>1. pr' \in PRs
    <3>1. CASE x = "readying"
      BY <3>1 DEF PRs
    <3>2. CASE x = "merging"
      <4>1. pr \in PRs /\ pr' = [pr EXCEPT !.state = "merged", !.head = remote, !.onto = base]
        BY <3>2 DEF PRs
      <4>. QED BY <4>1, Merges
    <3>3. CASE x \notin {"readying", "merging"}
      BY <3>3 DEF PRs
    <3>. QED BY <3>1, <3>2, <3>3
  <2>2. remote' \in Heads /\ bead' \in {"open", "afk", "other"}
    BY DEF Heads
  <2>3. base' \in Bases
    BY DEF Bases
  <2>. QED BY <2>1, <2>2, <2>3
<1>3. CASE x = "readying"
  BY <1>1, <1>2, <1>3 DEF Delivers, MergedOK, ClosedOK, UndoneOK, Acceptable, Requests
<1>4. CASE x = "merging"
  <2>1. pr' \in PRs /\ pr'.state = "merged" /\ pr'.head = remote /\ pr'.draft = pr.draft
    <3>1. pr \in PRs /\ pr' = [pr EXCEPT !.state = "merged", !.head = remote, !.onto = base]
      BY <1>4 DEF PRs
    <3>. QED BY <3>1, Merges
  <2>2. pr.state = "open" /\ ~pr.draft /\ remote = "candidate"
    BY <1>4 DEF Acceptable
  <2>. QED BY <1>1, <1>2, <1>4, <2>1, <2>2
    DEF Delivers, MergedOK, ClosedOK, UndoneOK, Acceptable, Requests
<1>5. CASE x = "gh_delete"
  BY <1>1, <1>2, <1>5 DEF Delivers, MergedOK, ClosedOK, UndoneOK, Acceptable, Requests
<1>6. CASE x = "closing"
  BY <1>1, <1>2, <1>6 DEF Delivers, MergedOK, ClosedOK, UndoneOK, Acceptable, Requests
<1>7. CASE x = "deleting"
  BY <1>1, <1>2, <1>7 DEF Delivers, MergedOK, ClosedOK, UndoneOK, Acceptable, Requests
<1>. QED BY <1>3, <1>4, <1>5, <1>6, <1>7 DEF Requests

\* So does a step that leaves the world alone.
LEMMA NothingDelivers ==
  ASSUME IInv, NEW x \in Requests, UNCHANGED <<world, applied>>
  PROVE  Delivers(x)
BY DEF IInv, TypeOK, PRs, MergedOK, ClosedOK, UndoneOK, Delivers, world, Requests

LEMMA CutOffDelivers ==
  ASSUME IInv, NEW x \in Requests, CutOff(x)
  PROVE  Delivers(x) /\ late' \in {late, late \cup {x}}
BY TakeDelivers, NothingDelivers DEF CutOff

\* Whatever a request delivers, the invariant holds again if the command goes on within its
\* stage and nothing is under way but that request, or the deletion that follows a merge.
LEMMA DeliveryPreserves ==
  ASSUME IInv, NEW x \in Requests, Delivers(x), pc = x \/ x \in late,
         UNCHANGED <<effect, completion, meddling>>, cleaned' \in {cleaned, NoCleanup},
         RunTyped(run'), run'.checkpoint = run.checkpoint, StageOK',
         faults' \in 0 .. MaxFaults, crashes' \in 0 .. MaxCrashes,
         \/ late' \subseteq late \cup {x}
         \/ applied'["merging"] # "no" /\ late' \subseteq late \cup {"gh_delete"},
         \/ pc' \in {pc, "idle", "confirm_ready", "confirm_close", "confirm_deletion"}
         \/ applied'["merging"] # "no" /\ pc' = "gh_delete"
         \/ pc = "gh_delete" /\ pc' = "adopt_merge"
  PROVE  IInv'
<1>1. \A y \in Requests : Sent(y)' => Sent(y) \/ (y = "gh_delete" /\ Sent("merging"))
  <2>1. Sent(x)
    BY DEF Sent
  <2>2. applied'["merging"] # "no" => Sent("merging")
    BY <2>1 DEF Delivers, Sent, Requests
  <2>3. ASSUME NEW y \in Requests, pc' = y
        PROVE  pc = y \/ (y = "gh_delete" /\ Sent("merging"))
    BY <2>2, <2>3 DEF Requests
  <2>4. ASSUME NEW y \in Requests, y \in late'
        PROVE  y \in late \/ y = x \/ (y = "gh_delete" /\ Sent("merging"))
    BY <2>2, <2>4
  <2>5. \A y \in Requests : applied'[y] # "no" => applied[y] # "no" \/ y = x
    BY DEF Delivers
  <2>. QED BY <2>1, <2>3, <2>4, <2>5 DEF Sent
<1>2. AnnouncedOK'
  <2>1. /\ Prepared("pr-mark-ready") => Prepared("pr-mark-ready")'
        /\ Prepared("pr-squash-merge") => Prepared("pr-squash-merge")'
        /\ Prepared("remote-branch-delete") => Prepared("remote-branch-delete")'
        /\ Prepared("bead-close") => Prepared("bead-close")'
    BY DEF Prepared
  <2>2. Sent("readying")' => Sent("readying")
    BY <1>1 DEF Requests
  <2>3. Sent("closing")' => Sent("closing")
    BY <1>1 DEF Requests
  <2>4. Sent("deleting")' => Sent("deleting")
    BY <1>1 DEF Requests
  <2>5. Sent("merging")' => Sent("merging")
    BY <1>1 DEF Requests
  <2>6. Sent("gh_delete")' => Sent("gh_delete") \/ Sent("merging")
    BY <1>1 DEF Requests
  <2>7. /\ pc' \in {"prepare_delete", "recheck_merge", "record_merge", "close_bead"} => pc' = pc
        /\ pc' = "adopt_merge" => pc' = pc \/ Sent("gh_delete")
    BY DEF Sent
  <2>. QED BY <2>1, <2>2, <2>3, <2>4, <2>5, <2>6, <2>7 DEF IInv, AnnouncedOK
<1>3. MergedOK'
  <2>1. applied'["merging"] # "no" => pr'.state = "merged" /\ pr'.head = "candidate"
    BY DEF Delivers
  <2>2. Sent("gh_delete")' => pr'.state = "merged"
    <3>1. CASE applied'["merging"] # "no"
      BY <2>1, <3>1
    <3>2. CASE applied'["merging"] = "no"
      BY <3>2 DEF Delivers, Sent, IInv, MergedOK, Requests
    <3>. QED BY <3>1, <3>2
  <2>3. pc' = "record_merge" \/ run'.checkpoint # "reviewed" => SquashOfCandidate'
    BY DEF Delivers, IInv, MergedOK, SquashOfCandidate
  <2>. QED BY <2>1, <2>2, <2>3 DEF MergedOK, Sent
<1>6. ClosedOK'
  BY <1>1 DEF IInv, ClosedOK, Delivers, Requests, Sent
<1>4. CleanedOK'
  BY DEF IInv, CleanedOK, Achieves, Delivers, NoCleanup
<1>5. UndoneOK'
  BY DEF IInv, UndoneOK, Delivers
<1>7. TypeOK'
  <2>1. pc' \in Steps
    BY DEF IInv, TypeOK, Steps, Requests
  <2>4. late' \subseteq Requests
    <3>1. late \cup {x, "gh_delete"} \subseteq Requests
      BY DEF IInv, TypeOK, Requests
    <3>. QED BY <3>1
  <2>2. cleaned' \in Claims /\ effect' = effect /\ completion' = completion
    BY Claiming DEF IInv, TypeOK
  <2>3. RunTyped(run') /\ checkout' = checkout /\ local' = local
    BY DEF Delivers
  <2>. QED BY <2>1, <2>2, <2>3, <2>4 DEF IInv, TypeOK, RunTyped, Scopes, Delivers, PRs
<1>. QED BY <1>2, <1>3, <1>4, <1>5, <1>6, <1>7 DEF IInv

LEMMA RequestPreserves ==
  ASSUME IInv, NEW x \in Requests,
         Answered(x) \/ Refused(x) \/ Unanswered(x) \/ Land(x)
  PROVE  IInv'
<1>. USE IntegrationConstants
<1>1. /\ x = "readying" => After[x] = "confirm_ready" /\ ScopeOf[x] \in Scopes
      /\ x = "merging" => After[x] = "gh_delete" /\ ScopeOf[x] \in Scopes
      /\ x = "gh_delete" => After[x] = "adopt_merge" /\ ScopeOf[x] \in Scopes
      /\ x = "closing" => After[x] = "confirm_close" /\ ScopeOf[x] \in Scopes
      /\ x = "deleting" => After[x] = "confirm_deletion"
  BY DEF After, ScopeOf, Scopes
<1>2. /\ x = "readying" \/ x = "merging" \/ x = "gh_delete" \/ x = "closing" \/ x = "deleting"
      /\ RunTyped(run)
  BY DEF Requests, IInv, TypeOK, RunTyped, Scopes
<1>3. CASE Answered(x)
  <2>1. Delivers(x) /\ applied'[x] = "sent"
    BY <1>3, TakeDelivers DEF Answered
  <2>2. pc = x /\ pc' = After[x]
        /\ UNCHANGED <<run, effect, completion, late, cleaned, faults, crashes, meddling>>
    BY <1>3 DEF Answered, Goto, bounds
  <2>3. StageOK'
    BY <1>1, <1>2, <2>2 DEF IInv, StageOK, ReadySteps, MergeSteps, CloseSteps, CleanSteps
  <2>. QED BY <1>1, <1>2, <2>1, <2>2, <2>3, DeliveryPreserves DEF IInv, TypeOK
<1>4. CASE Refused(x)
  <2>1. Delivers(x)
    BY <1>4, NothingDelivers DEF Refused, Looks
  <2>2. pc = x /\ UNCHANGED <<effect, completion, late, cleaned, faults, crashes, meddling>>
    BY <1>4 DEF Refused, Looks, bounds
  <2>3. /\ RunTyped(run') /\ run'.checkpoint = run.checkpoint /\ run'.ready = run.ready
        /\ pc' = IF x \in {"gh_delete", "deleting"} THEN After[x] ELSE "idle"
    BY <1>1, <1>2, <1>4, Stops DEF Refused, Goto, IInv
  <2>4. StageOK'
    BY <1>1, <1>2, <2>2, <2>3
    DEF IInv, StageOK, ReadySteps, MergeSteps, CloseSteps, CleanSteps
  <2>. QED BY <1>1, <1>2, <2>1, <2>2, <2>3, <2>4, DeliveryPreserves DEF IInv, TypeOK
<1>5. CASE Unanswered(x)
  <2>1. Delivers(x) /\ late' \in {late, late \cup {x}}
    BY <1>5, CutOffDelivers DEF Unanswered
  <2>2. pc = x /\ UNCHANGED <<effect, completion, cleaned, crashes, meddling>>
        /\ faults' \in 0 .. MaxFaults
    BY <1>5 DEF Unanswered, Fault, IInv, TypeOK
  <2>3. /\ RunTyped(run') /\ run'.checkpoint = run.checkpoint /\ run'.ready = run.ready
        /\ pc' = IF x = "deleting" THEN After[x] ELSE "idle"
    BY <1>1, <1>2, <1>5, Stops DEF Unanswered, Goto, IInv
  <2>4. StageOK'
    BY <1>1, <1>2, <2>2, <2>3
    DEF IInv, StageOK, ReadySteps, MergeSteps, CloseSteps, CleanSteps
  <2>. QED BY <1>1, <1>2, <2>1, <2>2, <2>3, <2>4, DeliveryPreserves DEF IInv, TypeOK
<1>6. CASE Land(x)
  <2>1. /\ Delivers(x) /\ x \in late
        /\ \/ late' \subseteq late
           \/ applied'["merging"] # "no" /\ late' \subseteq late \cup {"gh_delete"}
    <3>1. CASE Acceptable(x) /\ Take(x, "late")
      BY <1>6, <3>1, TakeDelivers DEF Land
    <3>2. CASE ~Acceptable(x) /\ late' = late \ {x} /\ UNCHANGED <<world, applied>>
      BY <1>6, <3>2, NothingDelivers DEF Land
    <3>. QED BY <1>6, <3>1, <3>2 DEF Land
  <2>2. UNCHANGED <<run, effect, completion, pc, cleaned, faults, crashes, meddling>>
    BY <1>6 DEF Land, durable, bounds
  <2>3. StageOK'
    BY <2>2 DEF IInv, StageOK
  <2>. QED BY <1>2, <2>1, <2>2, <2>3, DeliveryPreserves DEF IInv, TypeOK
<1>. QED BY <1>3, <1>4, <1>5, <1>6

LEMMA DyingPreserves == IInv /\ (Crash \/ Signal) => IInv'
<1> SUFFICES ASSUME IInv, Crash \/ Signal PROVE IInv'
  OBVIOUS
<1>. USE IntegrationConstants DEF Crash, Signal
<1>1. Dies /\ pc' = "idle"
  BY DEF Goto, Record
<1>2. RunTyped(run') /\ run'.checkpoint = run.checkpoint /\ run'.ready = run.ready
  <2>1. CASE Crash
    BY <2>1 DEF Goto, IInv, TypeOK, RunTyped, Scopes
  <2>2. CASE Signal
    BY <2>2 DEF Record, IInv, TypeOK, RunTyped, Scopes
  <2>. QED BY <2>1, <2>2
<1>3. StageOK'
  BY <1>1 DEF StageOK, ReadySteps, MergeSteps, CloseSteps, CleanSteps
<1>4. /\ UNCHANGED <<effect, completion, faults, meddling>>
      /\ crashes' \in 0 .. MaxCrashes /\ cleaned' = NoCleanup
  BY <1>1 DEF Dies, IInv, TypeOK
<1>5. CASE pc \in Requests
  <2>1. Delivers(pc) /\ late' \in {late, late \cup {pc}}
    BY <1>1, <1>5, CutOffDelivers DEF Dies
  <2>. QED BY <1>1, <1>2, <1>3, <1>4, <1>5, <2>1, DeliveryPreserves DEF IInv, TypeOK
<1>6. CASE pc \notin Requests
  <2>1. UNCHANGED <<pr, remote, base, bead, checkout, local, late, applied>>
    BY <1>1, <1>6 DEF Dies, world
  <2>2. TypeOK'
    <3>1. cleaned' \in Claims /\ pc' \in Steps
      BY <1>1, <1>4 DEF Claims, NoCleanup, Steps
    <3>. QED BY <1>2, <1>4, <2>1, <3>1 DEF IInv, TypeOK, RunTyped, Scopes
  <2>3. AnnouncedOK' /\ MergedOK' /\ ClosedOK'
    BY <1>1, <1>2, <1>4, <2>1
    DEF IInv, AnnouncedOK, MergedOK, ClosedOK, SquashOfCandidate, Sent, Prepared
  <2>4. CleanedOK' /\ UndoneOK'
    BY <1>1, <1>4, <2>1 DEF IInv, CleanedOK, UndoneOK, Achieves, NoCleanup
  <2>. QED BY <1>3, <2>2, <2>3, <2>4 DEF IInv
<1>. QED BY <1>5, <1>6

\* A step of the local cleanup keeps its claims, drops some, or adds one that is true.
Claimed ==
    \/ cleaned' = cleaned
    \/ cleaned' = [cleaned EXCEPT !.worktree = FALSE, !.local = FALSE]
    \/ cleaned' = [cleaned EXCEPT !.worktree = FALSE]
    \/ cleaned' = [cleaned EXCEPT !.local = FALSE]
    \/ cleaned' = [cleaned EXCEPT !.worktree = TRUE] /\ checkout'.place = "gone"
    \/ cleaned' = [cleaned EXCEPT !.local = TRUE] /\ local' = "gone"

LEMMA CleanupPreserves ==
  ASSUME IInv, Claimed, UNCHANGED <<effect, completion>>,
         checkout.place = "gone" => checkout'.place = "gone", local = "gone" => local' = "gone",
         pc' = "deleting_ref" \/ local' = "gone" => checkout'.place = "gone"
  PROVE  CleanedOK' /\ cleaned' \in Claims
<1>. USE DEF IInv, TypeOK, CleanedOK, Achieves
<1>1. cleaned' \in Claims
  BY Claiming, Unclaiming DEF Claimed
<1>2. CASE cleaned' = cleaned
  BY <1>1, <1>2
<1>3. CASE cleaned' = [cleaned EXCEPT !.worktree = FALSE, !.local = FALSE]
  BY <1>1, <1>3 DEF Claims
<1>4. CASE cleaned' = [cleaned EXCEPT !.worktree = FALSE]
  BY <1>1, <1>4 DEF Claims
<1>5. CASE cleaned' = [cleaned EXCEPT !.local = FALSE]
  BY <1>1, <1>5 DEF Claims
<1>6. CASE cleaned' = [cleaned EXCEPT !.worktree = TRUE] /\ checkout'.place = "gone"
  BY <1>1, <1>6 DEF Claims
<1>7. CASE cleaned' = [cleaned EXCEPT !.local = TRUE] /\ local' = "gone"
  BY <1>1, <1>7 DEF Claims
<1>. QED BY <1>2, <1>3, <1>4, <1>5, <1>6, <1>7 DEF Claimed


\* One step per action; the parts of the invariant need each other, so each is shown from all
\* of them.
LEMMA StepPreserves == IInv /\ (Step \/ Resume \/ Meddle) => IInv'
<1> SUFFICES ASSUME IInv, Step \/ Resume \/ Meddle PROVE IInv'
  OBVIOUS
<1> USE IntegrationConstants, Stops
  DEF IInv, TypeOK, Scopes, Effects, Heads, Bases, Steps, ReadySteps, MergeSteps, CloseSteps,
      CleanSteps, Goto, Record, Prepare, Confirm, Fault, NoFault, Looks, Keeps, world, durable,
      bounds, Others, Owned, SquashOfCandidate, Prepared
<1>1. CASE VerifyGate
  <2>1. TypeOK'
    BY <1>1 DEF VerifyGate, RunTyped, Requests
  <2>2. StageOK' /\ AnnouncedOK'
    BY <1>1 DEF VerifyGate, StageOK, AnnouncedOK, Sent, MergeEffects
  <2>3. MergedOK' /\ ClosedOK'
    BY <1>1 DEF VerifyGate, StageOK, MergedOK, ClosedOK
  <2>4. CleanedOK' /\ UndoneOK'
    BY <1>1 DEF VerifyGate, CleanedOK, Achieves, NoCleanup, Claims, UndoneOK
  <2>. QED BY <2>1, <2>2, <2>3, <2>4
<1>2. CASE CheckReady
  <2>1. TypeOK'
    BY <1>2 DEF CheckReady, RunTyped, Requests
  <2>2. StageOK' /\ AnnouncedOK'
    BY <1>2 DEF CheckReady, StageOK, AnnouncedOK, Sent, MergeEffects
  <2>3. MergedOK' /\ ClosedOK'
    BY <1>2 DEF CheckReady, StageOK, MergedOK, ClosedOK
  <2>4. CleanedOK' /\ UndoneOK'
    BY <1>2 DEF CheckReady, CleanedOK, Achieves, NoCleanup, Claims, UndoneOK
  <2>. QED BY <2>1, <2>2, <2>3, <2>4
<1>3. CASE ConfirmReady
  <2>1. TypeOK'
    BY <1>3 DEF ConfirmReady, RunTyped, Requests
  <2>2. StageOK' /\ AnnouncedOK'
    BY <1>3 DEF ConfirmReady, StageOK, AnnouncedOK, Sent, MergeEffects
  <2>3. MergedOK' /\ ClosedOK'
    BY <1>3 DEF ConfirmReady, StageOK, MergedOK, ClosedOK
  <2>4. CleanedOK' /\ UndoneOK'
    BY <1>3 DEF ConfirmReady, CleanedOK, Achieves, NoCleanup, Claims, UndoneOK
  <2>. QED BY <2>1, <2>2, <2>3, <2>4
<1>4. CASE RecordReady
  <2>. RunTyped(run') /\ run'.checkpoint = "reviewed" /\ run'.ready
    BY <1>4, AchievesState DEF RecordReady, TypeOK, RunTyped, Scopes
  <2>1. TypeOK'
    BY <1>4 DEF RecordReady, RunTyped, Requests
  <2>2. StageOK' /\ AnnouncedOK'
    BY <1>4 DEF RecordReady, StageOK, AnnouncedOK, Sent, MergeEffects
  <2>3. MergedOK' /\ ClosedOK'
    BY <1>4 DEF RecordReady, StageOK, MergedOK, ClosedOK
  <2>4. CleanedOK' /\ UndoneOK'
    BY <1>4 DEF RecordReady, CleanedOK, Achieves, NoCleanup, Claims, UndoneOK
  <2>. QED BY <2>1, <2>2, <2>3, <2>4
<1>5. CASE CheckMerge
  <2>1. TypeOK'
    BY <1>5 DEF CheckMerge, RunTyped, Requests
  <2>2. StageOK' /\ AnnouncedOK'
    BY <1>5 DEF CheckMerge, StageOK, AnnouncedOK, Sent, MergeEffects
  <2>3. MergedOK' /\ ClosedOK'
    BY <1>5 DEF CheckMerge, StageOK, MergedOK, ClosedOK
  <2>4. CleanedOK' /\ UndoneOK'
    BY <1>5 DEF CheckMerge, CleanedOK, Achieves, NoCleanup, Claims, UndoneOK
  <2>. QED BY <2>1, <2>2, <2>3, <2>4
<1>6. CASE PrepareDelete
  <2>1. TypeOK'
    BY <1>6 DEF PrepareDelete, RunTyped, Requests
  <2>2. StageOK' /\ AnnouncedOK'
    BY <1>6 DEF PrepareDelete, StageOK, AnnouncedOK, Sent, MergeEffects
  <2>3. MergedOK' /\ ClosedOK'
    BY <1>6 DEF PrepareDelete, StageOK, MergedOK, ClosedOK
  <2>4. CleanedOK' /\ UndoneOK'
    BY <1>6 DEF PrepareDelete, CleanedOK, Achieves, NoCleanup, Claims, UndoneOK
  <2>. QED BY <2>1, <2>2, <2>3, <2>4
<1>7. CASE RecheckMerge
  <2>1. TypeOK'
    BY <1>7 DEF RecheckMerge, RunTyped, Requests
  <2>2. StageOK' /\ AnnouncedOK'
    BY <1>7 DEF RecheckMerge, StageOK, AnnouncedOK, Sent, MergeEffects
  <2>3. MergedOK' /\ ClosedOK'
    BY <1>7 DEF RecheckMerge, StageOK, MergedOK, ClosedOK
  <2>4. CleanedOK' /\ UndoneOK'
    BY <1>7 DEF RecheckMerge, CleanedOK, Achieves, NoCleanup, Claims, UndoneOK
  <2>. QED BY <2>1, <2>2, <2>3, <2>4
<1>8. CASE AdoptMerge
  <2>1. TypeOK'
    BY <1>8 DEF AdoptMerge, RunTyped, Requests
  <2>2. StageOK' /\ AnnouncedOK'
    BY <1>8 DEF AdoptMerge, StageOK, AnnouncedOK, Sent, MergeEffects
  <2>3. MergedOK' /\ ClosedOK'
    BY <1>8 DEF AdoptMerge, StageOK, MergedOK, ClosedOK
  <2>4. CleanedOK' /\ UndoneOK'
    BY <1>8 DEF AdoptMerge, CleanedOK, Achieves, NoCleanup, Claims, UndoneOK
  <2>. QED BY <2>1, <2>2, <2>3, <2>4
<1>9. CASE RecordMerge
  <2>. run' = Achieved("merged") /\ RunTyped(run') /\ run'.checkpoint = "merged" /\ run'.ready
    BY <1>9, AchievesState DEF RecordMerge, TypeOK, StageOK, MergeSteps, CloseSteps, CleanSteps
  <2>1. TypeOK'
    BY <1>9 DEF RecordMerge, RunTyped, Requests
  <2>2. StageOK' /\ AnnouncedOK'
    BY <1>9 DEF RecordMerge, StageOK, AnnouncedOK, Sent, MergeEffects
  <2>3. MergedOK' /\ ClosedOK'
    BY <1>9 DEF RecordMerge, StageOK, MergedOK, ClosedOK
  <2>4. CleanedOK' /\ UndoneOK'
    BY <1>9 DEF RecordMerge, CleanedOK, Achieves, NoCleanup, Claims, UndoneOK
  <2>. QED BY <2>1, <2>2, <2>3, <2>4
<1>10. CASE CheckDeletion
  <2>1. TypeOK'
    <3>1. cleaned' \in Claims
      <4>1. CASE remote = "gone"
        <5>1. cleaned' \in {NoCleanup, [NoCleanup EXCEPT !.remote = TRUE], cleaned}
          BY <1>10, <4>1 DEF CheckDeletion
        <5>2. NoCleanup \in Claims /\ [NoCleanup EXCEPT !.remote = TRUE] \in Claims
          BY DEF Claims, NoCleanup
        <5>. QED BY <5>1, <5>2 DEF TypeOK
      <4>2. CASE remote # "gone"
        BY <1>10, <4>2 DEF CheckDeletion, TypeOK, Claims, NoCleanup
      <4>. QED BY <4>1, <4>2
    <3>2. effect' \in [Effects -> {"absent", "prepared", "confirmed"}]
      BY <1>10, Confirms DEF CheckDeletion, TypeOK, Effects
    <3>3. RunTyped(run') /\ pc' \in Steps
      BY <1>10 DEF CheckDeletion, TypeOK, Scopes, RunTyped, Steps
    <3>. QED BY <1>10, <3>1, <3>2, <3>3 DEF CheckDeletion, TypeOK, RunTyped, Scopes
  <2>2. StageOK' /\ AnnouncedOK'
    BY <1>10 DEF CheckDeletion, StageOK, AnnouncedOK, Sent, MergeEffects
  <2>3. MergedOK' /\ ClosedOK'
    BY <1>10 DEF CheckDeletion, StageOK, MergedOK, ClosedOK
  <2>4. CleanedOK' /\ UndoneOK'
    BY <1>10 DEF CheckDeletion, CleanedOK, Achieves, NoCleanup, Claims, UndoneOK
  <2>. QED BY <2>1, <2>2, <2>3, <2>4
<1>11. CASE RecordDeletion
  <2>. RunTyped(run') /\ run'.checkpoint = "merged" /\ run'.ready
    BY <1>11, AchievesState
      DEF RecordDeletion, TypeOK, RunTyped, Scopes, StageOK, CloseSteps, Claims
  <2>1. TypeOK'
    <3>1. cleaned' \in Claims
      BY <1>11 DEF RecordDeletion, Claims, NoCleanup
    <3>. QED BY <1>11, <3>1 DEF RecordDeletion, TypeOK, RunTyped, Scopes, Steps
  <2>2. StageOK' /\ AnnouncedOK'
    BY <1>11 DEF RecordDeletion, StageOK, AnnouncedOK, Sent, MergeEffects
  <2>3. MergedOK' /\ ClosedOK'
    BY <1>11 DEF RecordDeletion, StageOK, MergedOK, ClosedOK
  <2>4. CleanedOK' /\ UndoneOK'
    BY <1>11 DEF RecordDeletion, CleanedOK, Achieves, NoCleanup, Claims, UndoneOK
  <2>. QED BY <2>1, <2>2, <2>3, <2>4
<1>12. CASE CheckClose
  <2>1. TypeOK'
    BY <1>12 DEF CheckClose, RunTyped, Requests
  <2>2. StageOK' /\ AnnouncedOK'
    BY <1>12 DEF CheckClose, StageOK, AnnouncedOK, Sent, MergeEffects
  <2>3. MergedOK' /\ ClosedOK'
    BY <1>12 DEF CheckClose, StageOK, MergedOK, ClosedOK
  <2>4. CleanedOK' /\ UndoneOK'
    BY <1>12 DEF CheckClose, CleanedOK, Achieves, NoCleanup, Claims, UndoneOK
  <2>. QED BY <2>1, <2>2, <2>3, <2>4
<1>13. CASE CloseBead
  <2>1. TypeOK'
    BY <1>13 DEF CloseBead, RunTyped, Requests
  <2>2. StageOK' /\ AnnouncedOK'
    BY <1>13 DEF CloseBead, StageOK, AnnouncedOK, Sent, MergeEffects
  <2>3. MergedOK' /\ ClosedOK'
    BY <1>13 DEF CloseBead, StageOK, MergedOK, ClosedOK
  <2>4. CleanedOK' /\ UndoneOK'
    BY <1>13 DEF CloseBead, CleanedOK, Achieves, NoCleanup, Claims, UndoneOK
  <2>. QED BY <2>1, <2>2, <2>3, <2>4
<1>14. CASE ConfirmClose
  <2>1. TypeOK'
    BY <1>14 DEF ConfirmClose, RunTyped, Requests
  <2>2. StageOK' /\ AnnouncedOK'
    BY <1>14 DEF ConfirmClose, StageOK, AnnouncedOK, Sent, MergeEffects
  <2>3. MergedOK' /\ ClosedOK'
    BY <1>14 DEF ConfirmClose, StageOK, MergedOK, ClosedOK
  <2>4. CleanedOK' /\ UndoneOK'
    BY <1>14 DEF ConfirmClose, CleanedOK, Achieves, NoCleanup, Claims, UndoneOK
  <2>. QED BY <2>1, <2>2, <2>3, <2>4
<1>15. CASE RecordClose
  <2>. /\ run' = Achieved("bead_closed")
       /\ RunTyped(run')
       /\ run'.checkpoint = "bead_closed"
       /\ run'.ready
    BY <1>15, AchievesState DEF RecordClose, TypeOK, StageOK, MergeSteps, CloseSteps, CleanSteps
  <2>1. TypeOK'
    BY <1>15 DEF RecordClose, RunTyped, Requests
  <2>2. StageOK' /\ AnnouncedOK'
    BY <1>15 DEF RecordClose, StageOK, AnnouncedOK, Sent, MergeEffects
  <2>3. MergedOK' /\ ClosedOK'
    BY <1>15 DEF RecordClose, StageOK, MergedOK, ClosedOK
  <2>4. CleanedOK' /\ UndoneOK'
    BY <1>15 DEF RecordClose, CleanedOK, Achieves, NoCleanup, Claims, UndoneOK
  <2>. QED BY <2>1, <2>2, <2>3, <2>4
<1>16. CASE DeleteBranch
  <2>1. TypeOK'
    <3>1. cleaned' \in Claims
      BY <1>16, Claiming DEF DeleteBranch, TypeOK
    <3>3. effect' \in [Effects -> {"absent", "prepared", "confirmed"}]
      BY <1>16, Confirms DEF DeleteBranch, TypeOK, Effects
    <3>2. RunTyped(run') /\ pc' \in Steps
      BY <1>16 DEF DeleteBranch, TypeOK, Scopes, RunTyped, Steps, Requests
    <3>. QED BY <1>16, <3>1, <3>2, <3>3 DEF DeleteBranch, TypeOK, RunTyped, Scopes
  <2>2. StageOK' /\ AnnouncedOK'
    BY <1>16 DEF DeleteBranch, StageOK, AnnouncedOK, Sent, MergeEffects
  <2>3. MergedOK' /\ ClosedOK'
    BY <1>16 DEF DeleteBranch, StageOK, MergedOK, ClosedOK
  <2>4. CleanedOK' /\ UndoneOK'
    BY <1>16 DEF DeleteBranch, CleanedOK, Achieves, NoCleanup, Claims, UndoneOK
  <2>. QED BY <2>1, <2>2, <2>3, <2>4
<1>17. CASE ConfirmDeletion
  <2>1. TypeOK'
    <3>1. cleaned' \in Claims
      BY <1>17, Claiming DEF ConfirmDeletion, TypeOK
    <3>3. effect' \in [Effects -> {"absent", "prepared", "confirmed"}]
      BY <1>17, Confirms DEF ConfirmDeletion, TypeOK, Effects
    <3>2. RunTyped(run') /\ pc' \in Steps
      BY <1>17 DEF ConfirmDeletion, TypeOK, Scopes, RunTyped, Steps, Requests
    <3>. QED BY <1>17, <3>1, <3>2, <3>3 DEF ConfirmDeletion, TypeOK, RunTyped, Scopes
  <2>2. StageOK' /\ AnnouncedOK'
    BY <1>17 DEF ConfirmDeletion, StageOK, AnnouncedOK, Sent, MergeEffects
  <2>3. MergedOK' /\ ClosedOK'
    BY <1>17 DEF ConfirmDeletion, StageOK, MergedOK, ClosedOK
  <2>4. CleanedOK' /\ UndoneOK'
    BY <1>17 DEF ConfirmDeletion, CleanedOK, Achieves, NoCleanup, Claims, UndoneOK
  <2>. QED BY <2>1, <2>2, <2>3, <2>4
<1>18. CASE MoveWorktree
  <2>1. Claimed /\ UNCHANGED <<effect, completion, late, applied, pr, remote, base, bead>>
    BY <1>18 DEF MoveWorktree, Cleans, Uninspected, Claimed
  <2>2. /\ checkout.place = "gone" => checkout'.place = "gone"
        /\ local = "gone" => local' = "gone"
        /\ pc' = "deleting_ref" \/ local' = "gone" => checkout'.place = "gone"
    BY <1>18 DEF MoveWorktree, Cleans, Uninspected, CleanedOK, Achieves
  <2>3. CleanedOK' /\ cleaned' \in Claims
    BY <2>1, <2>2, CleanupPreserves
  <2>4. TypeOK'
    <3>1. /\ checkout' \in [place : {"home", "quarantine", "gone"}, clean : BOOLEAN]
          /\ local' \in Heads
      BY <1>18 DEF MoveWorktree
    <3>. QED BY <1>18, <2>1, <2>3, <3>1 DEF MoveWorktree, Cleans, Uninspected
  <2>5. StageOK' /\ AnnouncedOK'
    BY <1>18, <2>1 DEF MoveWorktree, Cleans, Uninspected, StageOK, AnnouncedOK, Sent
  <2>6. MergedOK' /\ ClosedOK' /\ UndoneOK'
    BY <1>18, <2>1 DEF MoveWorktree, Cleans, Uninspected, StageOK, MergedOK, ClosedOK, UndoneOK
  <2>. QED BY <2>3, <2>4, <2>5, <2>6
<1>19. CASE RemoveWorktree
  <2>1. Claimed /\ UNCHANGED <<effect, completion, late, applied, pr, remote, base, bead>>
    BY <1>19 DEF RemoveWorktree, Cleans, Uninspected, Claimed
  <2>2. /\ checkout.place = "gone" => checkout'.place = "gone"
        /\ local = "gone" => local' = "gone"
        /\ pc' = "deleting_ref" \/ local' = "gone" => checkout'.place = "gone"
    BY <1>19 DEF RemoveWorktree, Cleans, Uninspected, CleanedOK, Achieves
  <2>3. CleanedOK' /\ cleaned' \in Claims
    BY <2>1, <2>2, CleanupPreserves
  <2>4. TypeOK'
    <3>1. /\ checkout' \in [place : {"home", "quarantine", "gone"}, clean : BOOLEAN]
          /\ local' \in Heads
      BY <1>19 DEF RemoveWorktree
    <3>. QED BY <1>19, <2>1, <2>3, <3>1 DEF RemoveWorktree, Cleans, Uninspected
  <2>5. StageOK' /\ AnnouncedOK'
    BY <1>19, <2>1 DEF RemoveWorktree, Cleans, Uninspected, StageOK, AnnouncedOK, Sent
  <2>6. MergedOK' /\ ClosedOK' /\ UndoneOK'
    BY <1>19, <2>1
      DEF RemoveWorktree, Cleans, Uninspected, StageOK, MergedOK, ClosedOK, UndoneOK
  <2>. QED BY <2>3, <2>4, <2>5, <2>6
<1>20. CASE GitRemoves
  <2>1. Claimed /\ UNCHANGED <<effect, completion, late, applied, pr, remote, base, bead>>
    BY <1>20 DEF GitRemoves, Cleans, Uninspected, Claimed
  <2>2. /\ checkout.place = "gone" => checkout'.place = "gone"
        /\ local = "gone" => local' = "gone"
        /\ pc' = "deleting_ref" \/ local' = "gone" => checkout'.place = "gone"
    BY <1>20 DEF GitRemoves, Cleans, Uninspected, CleanedOK, Achieves
  <2>3. CleanedOK' /\ cleaned' \in Claims
    BY <2>1, <2>2, CleanupPreserves
  <2>4. TypeOK'
    <3>1. /\ checkout' \in [place : {"home", "quarantine", "gone"}, clean : BOOLEAN]
          /\ local' \in Heads
      BY <1>20 DEF GitRemoves
    <3>. QED BY <1>20, <2>1, <2>3, <3>1 DEF GitRemoves, Cleans, Uninspected
  <2>5. StageOK' /\ AnnouncedOK'
    BY <1>20, <2>1 DEF GitRemoves, Cleans, Uninspected, StageOK, AnnouncedOK, Sent
  <2>6. MergedOK' /\ ClosedOK' /\ UndoneOK'
    BY <1>20, <2>1 DEF GitRemoves, Cleans, Uninspected, StageOK, MergedOK, ClosedOK, UndoneOK
  <2>. QED BY <2>3, <2>4, <2>5, <2>6
<1>21. CASE DeleteRef
  <2>1. Claimed /\ UNCHANGED <<effect, completion, late, applied, pr, remote, base, bead>>
    BY <1>21 DEF DeleteRef, Cleans, Uninspected, Claimed
  <2>2. /\ checkout.place = "gone" => checkout'.place = "gone"
        /\ local = "gone" => local' = "gone"
        /\ pc' = "deleting_ref" \/ local' = "gone" => checkout'.place = "gone"
    BY <1>21 DEF DeleteRef, Cleans, Uninspected, CleanedOK, Achieves
  <2>3. CleanedOK' /\ cleaned' \in Claims
    BY <2>1, <2>2, CleanupPreserves
  <2>4. TypeOK'
    <3>1. /\ checkout' \in [place : {"home", "quarantine", "gone"}, clean : BOOLEAN]
          /\ local' \in Heads
      BY <1>21 DEF DeleteRef
    <3>. QED BY <1>21, <2>1, <2>3, <3>1 DEF DeleteRef, Cleans, Uninspected
  <2>5. StageOK' /\ AnnouncedOK'
    BY <1>21, <2>1 DEF DeleteRef, Cleans, Uninspected, StageOK, AnnouncedOK, Sent
  <2>6. MergedOK' /\ ClosedOK' /\ UndoneOK'
    BY <1>21, <2>1 DEF DeleteRef, Cleans, Uninspected, StageOK, MergedOK, ClosedOK, UndoneOK
  <2>. QED BY <2>3, <2>4, <2>5, <2>6
<1>22. CASE GitDeletesRef
  <2>1. Claimed /\ UNCHANGED <<effect, completion, late, applied, pr, remote, base, bead>>
    BY <1>22 DEF GitDeletesRef, Cleans, Uninspected, Claimed
  <2>2. /\ checkout.place = "gone" => checkout'.place = "gone"
        /\ local = "gone" => local' = "gone"
        /\ pc' = "deleting_ref" \/ local' = "gone" => checkout'.place = "gone"
    BY <1>22 DEF GitDeletesRef, Cleans, Uninspected, CleanedOK, Achieves
  <2>3. CleanedOK' /\ cleaned' \in Claims
    BY <2>1, <2>2, CleanupPreserves
  <2>4. TypeOK'
    <3>1. /\ checkout' \in [place : {"home", "quarantine", "gone"}, clean : BOOLEAN]
          /\ local' \in Heads
      BY <1>22 DEF GitDeletesRef
    <3>. QED BY <1>22, <2>1, <2>3, <3>1 DEF GitDeletesRef, Cleans, Uninspected
  <2>5. StageOK' /\ AnnouncedOK'
    BY <1>22, <2>1 DEF GitDeletesRef, Cleans, Uninspected, StageOK, AnnouncedOK, Sent
  <2>6. MergedOK' /\ ClosedOK' /\ UndoneOK'
    BY <1>22, <2>1 DEF GitDeletesRef, Cleans, Uninspected, StageOK, MergedOK, ClosedOK, UndoneOK
  <2>. QED BY <2>3, <2>4, <2>5, <2>6
<1>23. CASE WriteCompletion
  <2>1. TypeOK'
    <3>1. /\ cleaned' \in Claims
          /\ completion' \in [seal : {"absent", "written", "sealed"}, claims : Claims]
      BY <1>23, Claiming DEF WriteCompletion, TypeOK
    <3>. QED BY <1>23, <3>1 DEF WriteCompletion, TypeOK, Steps
  <2>2. StageOK' /\ AnnouncedOK'
    BY <1>23 DEF WriteCompletion, StageOK, AnnouncedOK, Sent, MergeEffects
  <2>3. MergedOK' /\ ClosedOK'
    BY <1>23 DEF WriteCompletion, StageOK, MergedOK, ClosedOK
  <2>4. CleanedOK' /\ UndoneOK'
    BY <1>23 DEF WriteCompletion, CleanedOK, Achieves, NoCleanup, Claims, UndoneOK
  <2>. QED BY <2>1, <2>2, <2>3, <2>4
<1>24. CASE SealCompletion
  <2>1. TypeOK'
    BY <1>24 DEF SealCompletion, RunTyped, Requests
  <2>2. StageOK' /\ AnnouncedOK'
    BY <1>24 DEF SealCompletion, StageOK, AnnouncedOK, Sent, MergeEffects
  <2>3. MergedOK' /\ ClosedOK'
    BY <1>24 DEF SealCompletion, StageOK, MergedOK, ClosedOK
  <2>4. CleanedOK' /\ UndoneOK'
    BY <1>24 DEF SealCompletion, CleanedOK, Achieves, NoCleanup, Claims, UndoneOK
  <2>. QED BY <2>1, <2>2, <2>3, <2>4
<1>25. CASE RecordCompleted
  <2>. /\ run' = Achieved("completed")
       /\ RunTyped(run')
       /\ run'.checkpoint = "completed"
       /\ run'.ready
    BY <1>25, AchievesState
      DEF RecordCompleted, TypeOK, StageOK, MergeSteps, CloseSteps, CleanSteps
  <2>1. TypeOK'
    BY <1>25 DEF RecordCompleted, RunTyped, Requests
  <2>2. StageOK' /\ AnnouncedOK'
    BY <1>25 DEF RecordCompleted, StageOK, AnnouncedOK, Sent, MergeEffects
  <2>3. MergedOK' /\ ClosedOK'
    BY <1>25 DEF RecordCompleted, StageOK, MergedOK, ClosedOK
  <2>4. CleanedOK' /\ UndoneOK'
    BY <1>25 DEF RecordCompleted, CleanedOK, Achieves, NoCleanup, Claims, UndoneOK
  <2>. QED BY <2>1, <2>2, <2>3, <2>4
<1>26. CASE AlertSignal
  <2>1. TypeOK'
    BY <1>26 DEF AlertSignal, RunTyped, Requests
  <2>2. StageOK' /\ AnnouncedOK'
    BY <1>26 DEF AlertSignal, StageOK, AnnouncedOK, Sent, MergeEffects
  <2>3. MergedOK' /\ ClosedOK'
    BY <1>26 DEF AlertSignal, StageOK, MergedOK, ClosedOK
  <2>4. CleanedOK' /\ UndoneOK'
    BY <1>26 DEF AlertSignal, CleanedOK, Achieves, NoCleanup, Claims, UndoneOK
  <2>. QED BY <2>1, <2>2, <2>3, <2>4
<1>27. CASE OthersPush
  <2>1. TypeOK'
    BY <1>27 DEF OthersPush, RunTyped, Requests
  <2>2. StageOK' /\ AnnouncedOK'
    BY <1>27 DEF OthersPush, StageOK, AnnouncedOK, Sent, MergeEffects
  <2>3. MergedOK' /\ ClosedOK'
    BY <1>27 DEF OthersPush, StageOK, MergedOK, ClosedOK
  <2>4. CleanedOK' /\ UndoneOK'
    BY <1>27 DEF OthersPush, CleanedOK, Achieves, NoCleanup, Claims, UndoneOK
  <2>. QED BY <2>1, <2>2, <2>3, <2>4
<1>28. CASE OthersMoveBase
  <2>1. TypeOK'
    BY <1>28 DEF OthersMoveBase, RunTyped, Requests
  <2>2. StageOK' /\ AnnouncedOK'
    BY <1>28 DEF OthersMoveBase, StageOK, AnnouncedOK, Sent, MergeEffects
  <2>3. MergedOK' /\ ClosedOK'
    BY <1>28 DEF OthersMoveBase, StageOK, MergedOK, ClosedOK
  <2>4. CleanedOK' /\ UndoneOK'
    BY <1>28 DEF OthersMoveBase, CleanedOK, Achieves, NoCleanup, Claims, UndoneOK
  <2>. QED BY <2>1, <2>2, <2>3, <2>4
<1>29. CASE OthersToggleDraft
  <2>1. TypeOK'
    <3>1. pr' \in [state : {"open", "merged"}, draft : BOOLEAN, comment : BOOLEAN,
                    head : Heads, onto : Bases]
      BY <1>29 DEF OthersToggleDraft, TypeOK, Heads, Bases
    <3>. QED BY <1>29, <3>1 DEF OthersToggleDraft, TypeOK, Bases
  <2>2. StageOK' /\ AnnouncedOK'
    BY <1>29 DEF OthersToggleDraft, StageOK, AnnouncedOK, Sent, MergeEffects
  <2>3. MergedOK' /\ ClosedOK'
    BY <1>29 DEF OthersToggleDraft, StageOK, MergedOK, ClosedOK
  <2>4. CleanedOK' /\ UndoneOK'
    BY <1>29 DEF OthersToggleDraft, CleanedOK, Achieves, NoCleanup, Claims, UndoneOK
  <2>. QED BY <2>1, <2>2, <2>3, <2>4
<1>30. CASE OthersTouchComment
  <2>1. TypeOK'
    <3>1. pr' \in [state : {"open", "merged"}, draft : BOOLEAN, comment : BOOLEAN,
                    head : Heads, onto : Bases]
      BY <1>30 DEF OthersTouchComment, TypeOK, Heads, Bases
    <3>. QED BY <1>30, <3>1 DEF OthersTouchComment, TypeOK, Bases
  <2>2. StageOK' /\ AnnouncedOK'
    BY <1>30 DEF OthersTouchComment, StageOK, AnnouncedOK, Sent, MergeEffects
  <2>3. MergedOK' /\ ClosedOK'
    BY <1>30 DEF OthersTouchComment, StageOK, MergedOK, ClosedOK
  <2>4. CleanedOK' /\ UndoneOK'
    BY <1>30 DEF OthersTouchComment, CleanedOK, Achieves, NoCleanup, Claims, UndoneOK
  <2>. QED BY <2>1, <2>2, <2>3, <2>4
<1>31. CASE OthersMerge
  <2>1. TypeOK'
    <3>1. PICK onto \in {base, "moved"} :
              pr' = [pr EXCEPT !.state = "merged", !.head = remote, !.onto = onto]
      BY <1>31 DEF OthersMerge
    <3>2. onto \in Bases
      BY <3>1 DEF TypeOK, Bases
    <3>3. pr' \in [state : {"open", "merged"}, draft : BOOLEAN, comment : BOOLEAN,
                    head : Heads, onto : Bases]
      BY <3>1, <3>2 DEF TypeOK
    <3>. QED BY <1>31, <3>3 DEF OthersMerge, TypeOK, Bases
  <2>2. StageOK' /\ AnnouncedOK'
    BY <1>31 DEF OthersMerge, StageOK, AnnouncedOK, Sent, MergeEffects
  <2>3. MergedOK' /\ ClosedOK'
    BY <1>31 DEF OthersMerge, StageOK, MergedOK, ClosedOK
  <2>4. CleanedOK' /\ UndoneOK'
    BY <1>31 DEF OthersMerge, CleanedOK, Achieves, NoCleanup, Claims, UndoneOK
  <2>. QED BY <2>1, <2>2, <2>3, <2>4
<1>32. CASE OthersTouchBead
  <2>1. TypeOK'
    BY <1>32 DEF OthersTouchBead, RunTyped, Requests
  <2>2. StageOK' /\ AnnouncedOK'
    BY <1>32 DEF OthersTouchBead, StageOK, AnnouncedOK, Sent, MergeEffects
  <2>3. MergedOK' /\ ClosedOK'
    BY <1>32 DEF OthersTouchBead, StageOK, MergedOK, ClosedOK
  <2>4. CleanedOK' /\ UndoneOK'
    BY <1>32 DEF OthersTouchBead, CleanedOK, Achieves, NoCleanup, Claims, UndoneOK
  <2>. QED BY <2>1, <2>2, <2>3, <2>4
<1>33. CASE OthersEdit
  <2>1. TypeOK'
    <3>1. checkout' \in [place : {"home", "quarantine", "gone"}, clean : BOOLEAN]
      BY <1>33 DEF OthersEdit, TypeOK
    <3>. QED BY <1>33, <3>1 DEF OthersEdit, TypeOK
  <2>2. StageOK' /\ AnnouncedOK'
    BY <1>33 DEF OthersEdit, StageOK, AnnouncedOK, Sent, MergeEffects
  <2>3. MergedOK' /\ ClosedOK'
    BY <1>33 DEF OthersEdit, StageOK, MergedOK, ClosedOK
  <2>4. CleanedOK' /\ UndoneOK'
    BY <1>33 DEF OthersEdit, CleanedOK, Achieves, NoCleanup, Claims, UndoneOK
  <2>. QED BY <2>1, <2>2, <2>3, <2>4
<1>34. CASE OthersCommit
  <2>1. TypeOK'
    BY <1>34 DEF OthersCommit, RunTyped, Requests
  <2>2. StageOK' /\ AnnouncedOK'
    BY <1>34 DEF OthersCommit, StageOK, AnnouncedOK, Sent, MergeEffects
  <2>3. MergedOK' /\ ClosedOK'
    BY <1>34 DEF OthersCommit, StageOK, MergedOK, ClosedOK
  <2>4. CleanedOK' /\ UndoneOK'
    BY <1>34 DEF OthersCommit, CleanedOK, Achieves, NoCleanup, Claims, UndoneOK
  <2>. QED BY <2>1, <2>2, <2>3, <2>4
<1>35. CASE CheckCompletion
  <2>1. /\ cleaned' = NoCleanup
        /\ UNCHANGED <<run, effect, completion, bounds, world, late, applied>>
    BY <1>35 DEF CheckCompletion
  <2>2. TypeOK'
    <3>1. cleaned' \in Claims
      BY <2>1 DEF Claims, NoCleanup
    <3>. QED BY <1>35, <2>1, <3>1, Completions
  <2>3. StageOK' /\ AnnouncedOK'
    <3>1. pc = "check_completion"
      BY <1>35 DEF CheckCompletion
    <3>. QED BY <1>35, <2>1, <3>1, Completions DEF StageOK, AnnouncedOK, Sent
  <2>4. MergedOK' /\ ClosedOK' /\ CleanedOK' /\ UndoneOK'
    BY <1>35, <2>1, Completions
    DEF MergedOK, ClosedOK, CleanedOK, UndoneOK, Achieves, NoCleanup
  <2>. QED BY <2>2, <2>3, <2>4
<1>36. CASE Resume
  <2>1. /\ run.checkpoint # "completed" /\ pc' = Branch
        /\ UNCHANGED <<run, effect, completion, cleaned, bounds, world, late, applied>>
    BY <1>36 DEF Resume
  <2>2. TypeOK'
    BY <2>1, Branches
  <2>3. StageOK' /\ AnnouncedOK'
    BY <2>1, Branches DEF StageOK, AnnouncedOK, Sent
  <2>4. MergedOK' /\ ClosedOK' /\ CleanedOK' /\ UndoneOK'
    BY <2>1, Branches DEF MergedOK, ClosedOK, CleanedOK, UndoneOK, Achieves
  <2>. QED BY <2>2, <2>3, <2>4
<1>37. CASE \E x \in Requests : Answered(x) \/ Refused(x) \/ Unanswered(x)
  BY <1>37, RequestPreserves
<1>. QED
  BY <1>1, <1>2, <1>3, <1>4, <1>5, <1>6, <1>7, <1>8, <1>9, <1>10, <1>11, <1>12, <1>13, <1>14,
     <1>15, <1>16, <1>17, <1>18, <1>19, <1>20, <1>21, <1>22, <1>23, <1>24, <1>25, <1>26, <1>27,
     <1>28, <1>29, <1>30, <1>31, <1>32, <1>33, <1>34, <1>35, <1>36, <1>37 DEF Step, Meddle

LEMMA Preserved == IInv /\ [Next]_vars => IInv'
<1> SUFFICES ASSUME IInv, [Next]_vars PROVE IInv'
  OBVIOUS
<1>1. CASE Step \/ Resume \/ Meddle
  BY <1>1, StepPreserves
<1>2. CASE Crash \/ Signal
  BY <1>2, DyingPreserves
<1>3. CASE \E x \in Requests : Land(x)
  BY <1>3, RequestPreserves
<1>4. CASE UNCHANGED vars
  BY <1>4
  DEF vars, durable, world, bounds, IInv, TypeOK, StageOK, AnnouncedOK, Sent, Prepared,
      MergedOK,
      SquashOfCandidate, ClosedOK, CleanedOK, Achieves, UndoneOK
<1>. QED BY <1>1, <1>2, <1>3, <1>4 DEF Next

LEMMA Inductive == Spec => []IInv
BY Initially, Preserved, PTL DEF Spec
-----------------------------------------------------------------------------

\* Every variable holds what the code can put into it, however many calls fail, commands die
\* and people interfere.
THEOREM TypeCorrect == Spec => []TypeOK
<1>1. IInv => TypeOK
  BY DEF IInv
<1>. QED BY <1>1, Inductive, PTL

\* Whatever a request of AFK did to GitHub or to the Bead tracker, even behind a crash or long
\* after, an Effect on disk tells of it; and what AFK merged is the reviewed Candidate.
THEOREM MutationsCovered == Spec => []MutationsAreCovered
<1>1. ASSUME IInv PROVE MutationsAreAnnounced
  <2>1. \A x \in Requests : applied[x] # "no" => Sent(x)
    BY DEF Sent
  <2>. QED BY <1>1, <2>1 DEF IInv, AnnouncedOK, MutationsAreAnnounced, Requests, EffectOf
<1>2. IInv => ReviewedHeadIsMerged
  BY DEF IInv, MergedOK, ReviewedHeadIsMerged
<1>. QED BY <1>1, <1>2, Inductive, PTL DEF MutationsAreCovered

\* The completion record that the command wrote claims no cleanup that was not achieved.
THEOREM CompletionTrue == Spec => []CompletionIsTrue
<1>1. IInv => CompletionIsTrue
  BY DEF IInv, TypeOK, Claims, CleanedOK, Achieves, CompletionIsTrue
<1>. QED BY <1>1, Inductive, PTL
-----------------------------------------------------------------------------
(* What a step may not do *)

\* The only steps behind which a request is sent.
LEMMA Sends ==
  ASSUME IInv, [Next]_vars, pc' \in Requests, pc' # pc
  PROVE  \/ CheckReady /\ pc' = "readying" /\ pr.draft
         \/ RecheckMerge /\ pc' = "merging" /\ pr.state = "open"
         \/ Answered("merging") /\ pc' = "gh_delete" /\ pr.state = "open"
         \/ CloseBead /\ pc' = "closing" /\ bead = "open"
         \/ DeleteBranch /\ pc' = "deleting" /\ remote = "candidate"
<1>. USE DEF Goto, Record, Stop, Cleans, Uninspected, Requests
<1>1. CASE Resume
  <2>1. TypeOK /\ run.checkpoint # "completed" /\ pc' = Branch
    BY <1>1 DEF Resume, IInv
  <2>. QED BY <2>1, Branches
<1>2. CASE CheckCompletion
  BY <1>2, Completions DEF IInv
<1>3. CASE \E x \in Requests : Answered(x) \/ Refused(x) \/ Unanswered(x)
  <2>1. PICK x \in Requests : Answered(x) \/ Refused(x) \/ Unanswered(x)
    BY <1>3
  <2>2. pc = x /\ (pc' = After[x] \/ pc' = "idle")
    BY <2>1 DEF Answered, Refused, Unanswered
  <2>3. x = "merging" /\ pc' = "gh_delete"
    BY <2>2 DEF After
  <2>. QED BY <2>1, <2>3 DEF Answered, Acceptable, Refused, Unanswered, ScopeOf
<1>4. CASE CheckReady
  BY <1>4 DEF CheckReady
<1>5. CASE RecheckMerge
  BY <1>5 DEF RecheckMerge, Published
<1>6. CASE CloseBead
  BY <1>6 DEF CloseBead
<1>7. CASE DeleteBranch
  BY <1>7 DEF DeleteBranch
<1>8. CASE VerifyGate \/ ConfirmReady \/ RecordReady \/ CheckMerge \/ PrepareDelete
  BY <1>8 DEF VerifyGate, ConfirmReady, RecordReady, CheckMerge, PrepareDelete
<1>9. CASE AdoptMerge \/ RecordMerge \/ CheckDeletion \/ RecordDeletion
  BY <1>9 DEF AdoptMerge, RecordMerge, CheckDeletion, RecordDeletion
<1>10. CASE CheckClose \/ ConfirmClose \/ RecordClose \/ ConfirmDeletion
  BY <1>10 DEF CheckClose, ConfirmClose, RecordClose, ConfirmDeletion
<1>11. CASE MoveWorktree \/ RemoveWorktree \/ GitRemoves \/ DeleteRef \/ GitDeletesRef
  BY <1>11 DEF MoveWorktree, RemoveWorktree, GitRemoves, DeleteRef, GitDeletesRef
<1>12. CASE WriteCompletion \/ SealCompletion \/ RecordCompleted \/ AlertSignal
  BY <1>12 DEF WriteCompletion, SealCompletion, RecordCompleted, AlertSignal
<1>13. CASE Crash \/ Signal
  BY <1>13 DEF Crash, Signal
<1>14. CASE Meddle \/ (\E x \in Requests : Land(x)) \/ UNCHANGED vars
  BY <1>14
  DEF Meddle, OthersPush, OthersMoveBase, OthersToggleDraft, OthersTouchComment, OthersMerge,
      OthersTouchBead, OthersEdit, OthersCommit, Others, Land, vars
<1>. QED
  BY <1>1, <1>2, <1>3, <1>4, <1>5, <1>6, <1>7, <1>8, <1>9, <1>10, <1>11, <1>12, <1>13, <1>14
  DEF Next, Step

\* A request that took effect before its command ended is not sent again, unless other people
\* undid it: resume looks at the pull request, the branch and the Bead before it sends.
THEOREM NeverRepeated == Spec => NothingRepeated
<1>1. ASSUME IInv, [Next]_vars, NEW x \in Requests, pc' = x, pc # x, applied[x] = "sent"
      PROVE  meddling > 0
  <2>1. CASE x = "readying"
    BY <1>1, <2>1, Sends DEF IInv, UndoneOK, TypeOK
  <2>2. CASE x = "merging"
    BY <1>1, <2>2, Sends DEF IInv, MergedOK
  <2>3. CASE x = "gh_delete"
    BY <1>1, <2>3, Sends DEF IInv, MergedOK
  <2>4. CASE x = "closing"
    BY <1>1, <2>4, Sends DEF IInv, UndoneOK, TypeOK
  <2>5. CASE x = "deleting"
    BY <1>1, <2>5, Sends DEF IInv, UndoneOK, TypeOK
  <2>. QED BY <2>1, <2>2, <2>3, <2>4, <2>5 DEF Requests
<1>2. IInv /\ [Next]_vars =>
        [\A x \in Requests :
            pc' = x /\ pc # x /\ applied[x] = "sent" => meddling > 0]_vars
  BY <1>1
<1>. QED BY <1>2, Inductive, PTL DEF Spec, NothingRepeated

\* Any of these may let the request x take effect.
Calls(x) ==
    \/ Answered(x) \/ Refused(x) \/ Unanswered(x) \/ Land(x)
    \/ (Crash \/ Signal) /\ pc = x

\* What a request does, however it comes to take effect.
LEMMA Requested ==
  ASSUME IInv, NEW x \in Requests, Calls(x)
  PROVE  /\ Delivers(x) /\ run'.checkpoint = run.checkpoint
         /\ remote = "foreign" /\ remote' = "gone" => x = "gh_delete"
         /\ pc = x \/ x \in late
<1>1. \/ \E when \in {"sent", "late"} : Take(x, when) /\ Acceptable(x)
      \/ UNCHANGED <<world, applied>>
  BY DEF Calls, Answered, Refused, Unanswered, Land, Crash, Signal, Dies, CutOff, Looks
<1>2. Delivers(x)
  BY <1>1, TakeDelivers, NothingDelivers
<1>3. remote = "foreign" /\ remote' = "gone" => x = "gh_delete"
  BY <1>1, TakeEffect DEF Acceptable, world, Requests
<1>4. run'.checkpoint = run.checkpoint
  <2>1. CASE Answered(x) \/ Land(x)
    BY <2>1 DEF Answered, Land, Goto, durable
  <2>2. CASE Refused(x) \/ Unanswered(x)
    BY <2>2
    DEF Refused, Unanswered, Goto, Stop, Record, IInv, TypeOK
  <2>3. CASE Crash \/ Signal
    BY <2>3 DEF Crash, Signal, Goto, Record, IInv, TypeOK
  <2>. QED BY <2>1, <2>2, <2>3 DEF Calls
<1>5. pc = x \/ x \in late
  BY DEF Calls, Answered, Refused, Unanswered, Land
<1>. QED BY <1>2, <1>3, <1>4, <1>5

Deciding ==
    \/ VerifyGate \/ CheckReady \/ ConfirmReady \/ CheckMerge \/ PrepareDelete \/ RecheckMerge
    \/ AdoptMerge \/ CheckDeletion \/ RecordDeletion \/ RecordReady \/ CheckClose \/ CloseBead
    \/ ConfirmClose \/ CheckCompletion \/ DeleteBranch \/ ConfirmDeletion \/ WriteCompletion
    \/ SealCompletion \/ AlertSignal \/ Resume

Recording == RecordMerge \/ RecordClose \/ RecordCompleted

Cleaning == MoveWorktree \/ RemoveWorktree \/ GitRemoves \/ DeleteRef \/ GitDeletesRef

\* A step that decides, that records or that alerts leaves the world alone.
LEMMA LooksOnly ==
  ASSUME IInv, Deciding \/ Recording
  PROVE  UNCHANGED <<pr, remote, base, bead, checkout, local, late, applied>>
BY DEF Deciding, Recording, VerifyGate, CheckReady, ConfirmReady, RecordReady, CheckMerge,
       PrepareDelete, RecheckMerge, AdoptMerge, RecordMerge, CheckDeletion, RecordDeletion,
       CheckClose, CloseBead, ConfirmClose, RecordClose, CheckCompletion, DeleteBranch,
       ConfirmDeletion, WriteCompletion, SealCompletion, RecordCompleted, AlertSignal, Resume,
       Keeps, Looks, world

\* Only a record of an achieved state moves the Run on.
LEMMA SameStage ==
  ASSUME IInv, Deciding PROVE run'.checkpoint = run.checkpoint
<1>. USE Stops DEF Goto, Record, Scopes, IInv
<1>1. CASE VerifyGate \/ CheckReady \/ ConfirmReady \/ CheckMerge \/ PrepareDelete \/ RecheckMerge
  BY <1>1 DEF VerifyGate, CheckReady, ConfirmReady, CheckMerge, PrepareDelete, RecheckMerge
<1>2. CASE AdoptMerge \/ CheckDeletion \/ CheckClose \/ CloseBead \/ ConfirmClose \/ AlertSignal
  BY <1>2 DEF AdoptMerge, CheckDeletion, CheckClose, CloseBead, ConfirmClose, AlertSignal
<1>3. CASE CheckCompletion \/ DeleteBranch \/ ConfirmDeletion \/ WriteCompletion \/ SealCompletion
           \/ Resume
  BY <1>3
    DEF CheckCompletion, DeleteBranch, ConfirmDeletion, WriteCompletion, SealCompletion, Resume
<1>4. CASE RecordReady
  BY <1>4, AchievesState DEF RecordReady, StageOK, ReadySteps, RunTyped
<1>5. CASE RecordDeletion
  BY <1>5, AchievesState DEF RecordDeletion, StageOK, CloseSteps, RunTyped, TypeOK
<1>. QED BY <1>1, <1>2, <1>3, <1>4, <1>5 DEF Deciding

\* Every step is one of these.
LEMMA Kinds ==
  ASSUME [Next]_vars
  PROVE  \/ \E x \in Requests : Calls(x)
         \/ (Crash \/ Signal) /\ pc \notin Requests
         \/ Deciding \/ Recording \/ Cleaning \/ Meddle
         \/ UNCHANGED vars
<1>1. CASE \E x \in Requests : Answered(x) \/ Refused(x) \/ Unanswered(x) \/ Land(x)
  BY <1>1 DEF Calls
<1>2. CASE (Crash \/ Signal) /\ pc \in Requests
  <2>1. Calls(pc)
    BY <1>2 DEF Calls
  <2>. QED BY <1>2, <2>1
<1>3. CASE Step \/ Resume
  BY <1>1, <1>3 DEF Step, Deciding, Recording, Cleaning
<1>. QED BY <1>1, <1>2, <1>3 DEF Next

\* No replaced branch, no dirty worktree and no new commit is removed by any step, except for
\* the branch that gh deletes behind its own merge.
THEOREM OthersKept == Spec => OthersWorkKept
<1>1. ASSUME IInv, [Next]_vars
      PROVE  /\ remote = "foreign" /\ remote' = "gone" => pc = "gh_delete" \/ "gh_delete" \in late
             /\ local = "foreign" => local' # "gone"
             /\ checkout.place # "gone" /\ checkout'.place = "gone" => checkout.clean
  <2>1. CASE \E x \in Requests : Calls(x)
    BY <1>1, <2>1, Requested DEF Delivers
  <2>2. CASE (Crash \/ Signal) /\ pc \notin Requests
    BY <2>2 DEF Crash, Signal, Dies, world
  <2>3. CASE Deciding \/ Recording
    BY <1>1, <2>3, LooksOnly
  <2>4. CASE Cleaning
    BY <1>1, <2>4
    DEF Cleaning, MoveWorktree, RemoveWorktree, GitRemoves, DeleteRef, GitDeletesRef, Cleans,
        Uninspected, IInv, TypeOK
  <2>5. CASE Meddle
    BY <1>1, <2>5
    DEF Meddle, OthersPush, OthersMoveBase, OthersToggleDraft, OthersTouchComment, OthersMerge,
        OthersTouchBead, OthersEdit, OthersCommit, IInv, TypeOK
  <2>6. CASE UNCHANGED vars
    BY <2>6 DEF vars, world
  <2>. QED BY <1>1, <2>1, <2>2, <2>3, <2>4, <2>5, <2>6, Kinds
<1>2. IInv /\ [Next]_vars =>
        [/\ remote = "foreign" /\ remote' = "gone" => pc = "gh_delete" \/ "gh_delete" \in late
         /\ local = "foreign" => local' # "gone"
         /\ checkout.place # "gone" /\ checkout'.place = "gone" => checkout.clean]_vars
  BY <1>1
<1>. QED BY <1>2, Inductive, PTL DEF Spec, OthersWorkKept
-----------------------------------------------------------------------------
(* Integration implements Delivery *)

\* What a step does to the variables of Delivery: a merge stays what it is, a closing stays
\* known, and the stage moves on only behind the fact that it tells of.
LEMMA Moves ==
  ASSUME IInv, [Next]_vars
  PROVE  /\ pr.state = "merged" =>
               pr'.state = "merged" /\ pr'.head = pr.head /\ pr'.onto = pr.onto
         /\ applied["closing"] # "no" => applied'["closing"] # "no"
         /\ \/ run'.checkpoint = run.checkpoint
            \/ /\ UNCHANGED <<pr, applied>>
               /\ \/ run.checkpoint = "reviewed" /\ run'.checkpoint = "merged"
                  \/ run.checkpoint = "merged" /\ run'.checkpoint = "bead_closed"
                  \/ run.checkpoint = "bead_closed" /\ run'.checkpoint = "completed"
<1>1. CASE \E x \in Requests : Calls(x)
  BY <1>1, Requested DEF Delivers, Requests
<1>2. CASE (Crash \/ Signal) /\ pc \notin Requests
  BY <1>2 DEF Crash, Signal, Dies, world, Goto, Record, IInv, TypeOK
<1>3. CASE Deciding
  BY <1>3, LooksOnly, SameStage
<1>4. CASE Recording
  <2>1. UNCHANGED <<pr, applied>>
    BY <1>4, LooksOnly
  <2>2. CASE RecordMerge
    BY <2>1, <2>2, AchievesState DEF RecordMerge, Record, IInv, StageOK, MergeSteps
  <2>3. CASE RecordClose
    BY <2>1, <2>3, AchievesState DEF RecordClose, Record, IInv, TypeOK, StageOK, CloseSteps
  <2>4. CASE RecordCompleted
    BY <2>1, <2>4, AchievesState DEF RecordCompleted, Record, IInv, TypeOK, StageOK, CleanSteps
  <2>. QED BY <1>4, <2>2, <2>3, <2>4 DEF Recording
<1>5. CASE Cleaning
  BY <1>5
  DEF Cleaning, MoveWorktree, RemoveWorktree, GitRemoves, DeleteRef, GitDeletesRef, Cleans,
      Uninspected, Goto
<1>6. CASE Meddle
  BY <1>6
  DEF Meddle, Others, OthersPush, OthersMoveBase, OthersToggleDraft, OthersTouchComment,
      OthersMerge, OthersTouchBead, OthersEdit, OthersCommit, IInv, TypeOK, durable
<1>7. CASE UNCHANGED vars
  BY <1>7 DEF vars, world, durable
<1>. QED BY <1>1, <1>2, <1>3, <1>4, <1>5, <1>6, <1>7, Kinds

LEMMA RefinementStep ==
  ASSUME IInv, IInv', [Next]_vars
  PROVE  [Delivered!Next]_Delivered!vars
<1>. DEFINE merged == pr.state = "merged" /\ <<pr.head, pr.onto>> = <<"candidate", "pinned">>
            closed == applied["closing"] # "no"
            reached == run.checkpoint
<1>1. merged <=> SquashOfCandidate
  BY DEF SquashOfCandidate
<1>2. (merged => merged') /\ (closed => closed')
  BY Moves
<1>3. (reached # "reviewed" => merged /\ merged')
  BY <1>1, <1>2 DEF IInv, MergedOK
<1>4. /\ closed => reached # "reviewed"
      /\ closed' => reached' # "reviewed"
      /\ reached \in {"bead_closed", "completed"} => closed
      /\ reached' \in {"bead_closed", "completed"} => closed'
      /\ reached' # "reviewed" => merged'
  BY <1>1 DEF IInv, ClosedOK, MergedOK, SquashOfCandidate
<1>5. CASE reached' = reached
  <2>1. CASE merged' = merged /\ closed' = closed
    BY <1>5, <2>1 DEF Delivered!vars
  <2>2. CASE merged' # merged
    BY <1>2, <1>3, <1>4, <1>5, <2>2 DEF Delivered!Next, Delivered!Merge, IInv, TypeOK
  <2>3. CASE closed' # closed
    BY <1>2, <1>3, <1>4, <1>5, <2>3 DEF Delivered!Next, Delivered!Close, IInv, TypeOK
  <2>. QED BY <2>1, <2>2, <2>3
<1>6. CASE reached' # reached
  <2>1. UNCHANGED <<pr, applied>> /\ merged' = merged /\ closed' = closed
    BY <1>6, Moves
  <2>. QED BY <1>3, <1>4, <1>6, <2>1, Moves DEF Delivered!Next, Delivered!Achieve
<1>. QED BY <1>5, <1>6

\* Whatever fails, crashes or interferes: the change is merged, then its Bead is closed, then
\* the Run is completed, each stage told only behind the fact.
THEOREM Refinement == Spec => ImplementsDelivery
<1>1. Init => Delivered!Init
  BY DEF Init, Delivered!Init, Requests
<1>2. IInv /\ IInv' /\ [Next]_vars => [Delivered!Next]_Delivered!vars
  BY RefinementStep
<1>. QED BY <1>1, <1>2, Inductive, PTL DEF Spec, ImplementsDelivery, Delivered!Spec
=============================================================================
