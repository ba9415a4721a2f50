----------------------------- MODULE Integration -----------------------------
(***************************************************************************)
(* Integration of a reviewed Candidate (start.py, candidate.py): the pull  *)
(* request is marked ready and squash-merged, the Bead is closed, and the  *)
(* branch and the worktree of the Run are cleaned up.  Every afk resume    *)
(* takes one of these four stages.                                         *)
(*                                                                         *)
(* Each mutation of GitHub or of the Bead tracker is a request: AFK        *)
(* prepares an Effect, sends the request, and confirms the Effect from     *)
(* what it observes.  The answer may be lost, the command may die at any   *)
(* point, and a request that was cut off may still land later.  Other      *)
(* people act on the repository, the pull request and the Bead meanwhile.  *)
(***************************************************************************)
EXTENDS Naturals, FiniteSets

CONSTANTS
    MaxFaults,   \* bound: failed or unanswered calls per behaviour
    MaxCrashes,  \* bound: crashes and signals per behaviour
    MaxMeddling  \* bound: actions of other people per behaviour

ASSUME IntegrationConstants ==
    MaxFaults \in Nat /\ MaxCrashes \in Nat /\ MaxMeddling \in Nat

\* What a branch points to: the reviewed Candidate, someone else's commit, or nothing.
Heads   == {"candidate", "foreign", "gone"}
Bases   == {"pinned", "moved"}
Effects == {"pr-mark-ready", "pr-squash-merge", "remote-branch-delete", "bead-close"}

\* The requests of AFK.  gh deletes the branch itself, behind its merge.
Requests == {"readying", "merging", "gh_delete", "closing", "deleting"}
EffectOf == [readying |-> "pr-mark-ready", merging |-> "pr-squash-merge",
             gh_delete |-> "remote-branch-delete", closing |-> "bead-close",
             deleting |-> "remote-branch-delete"]

NoCleanup    == [remote |-> FALSE, worktree |-> FALSE, local |-> FALSE]
NoCompletion == [seal |-> "absent", claims |-> NoCleanup]

VARIABLES
    run,        \* the projection of the Event History
    effect,     \* status of each Effect
    completion, \* evidence gates/completion-<sha>
    (* the world *)
    pr,         \* the pull request, its final Gate comment, what was merged and onto what
    remote,     \* head of the Run branch on the remote; an open PR follows it
    base,       \* head of the target branch
    bead,       \* "open", or closed by "afk" or by an "other"
    checkout,   \* the Run worktree: where it is registered, whether it is clean
    local,      \* head of the Run branch in the repository, HEAD of the worktree
    late,       \* requests that were cut off and are still under way
    (* the running command *)
    pc, cleaned,
    (* history and bounds *)
    applied,    \* whether a request of AFK took effect: "no", "sent" or "late"
    faults, crashes, meddling

durable == <<run, effect, completion>>
world   == <<pr, remote, base, bead, checkout, local>>
bounds  == <<faults, crashes, meddling>>
vars    == <<durable, world, late, pc, cleaned, applied, bounds>>

\* The Gate Cycle that reviewed the Candidate was recorded, its comment confirmed.  The
\* episode of an earlier attention, if there was one, stays projected.
Init ==
    /\ \E episode \in BOOLEAN :
          run = [checkpoint |-> "reviewed", attention |-> "none", signalled |-> FALSE,
                 episode |-> episode, ready |-> FALSE, deleted |-> FALSE]
    /\ effect = [e \in Effects |-> "absent"] /\ completion = NoCompletion
    /\ pr = [state |-> "open", draft |-> TRUE, comment |-> TRUE,
             head |-> "gone", onto |-> "moved"]
    /\ remote = "candidate" /\ base = "pinned" /\ bead = "open"
    /\ checkout = [place |-> "home", clean |-> TRUE] /\ local = "candidate"
    /\ late = {} /\ pc = "idle" /\ cleaned = NoCleanup
    /\ applied = [x \in Requests |-> "no"]
    /\ faults = 0 /\ crashes = 0 /\ meddling = 0

-----------------------------------------------------------------------------
(* What every step is made of *)

Goto(next)           == pc' = next /\ UNCHANGED run
Record(fields, next) == run' = fields /\ pc' = next

\* _attention: the command records why it stops, at the checkpoint the Run has reached.
Stop(scope) ==
    Record([run EXCEPT !.attention = scope, !.signalled = FALSE, !.episode = TRUE], "idle")

\* An achieved Run State: no attention is left.
Achieved(checkpoint) ==
    [run EXCEPT !.checkpoint = checkpoint, !.attention = "none", !.signalled = FALSE]

\* prepare_effect returns an Effect that exists already; confirm_effect likewise.
Prepare(e) == effect' = [effect EXCEPT ![e] = IF @ = "absent" THEN "prepared" ELSE @]
Confirm(e) == effect' = [effect EXCEPT ![e] = "confirmed"]

\* A call fails, times out, or answers with what cannot be parsed.
Fault   == faults < MaxFaults /\ faults' = faults + 1 /\ UNCHANGED <<crashes, meddling>>
NoFault == UNCHANGED bounds

\* A step that looks at the world and writes the Run Store.
Looks == UNCHANGED <<world, late, applied>>
Keeps == UNCHANGED <<completion, cleaned>> /\ Looks

\* _verify_published: worktree, remote branch and target branch are as reviewed ...
HeadsAgree ==
    /\ checkout = [place |-> "home", clean |-> TRUE] /\ local = "candidate"
    /\ remote = "candidate" /\ base = "pinned"

\* ... and so is the PR, which is open.
Published == HeadsAgree /\ pr.state = "open"

-----------------------------------------------------------------------------
(* Requests and what becomes of them *)

\* Wrong: the merge is not bound to the head.
AcceptableAnyHead(x) ==
    \/ x = "readying" /\ pr.state = "open"
    \/ x = "merging" /\ pr.state = "open" /\ ~pr.draft
    \/ x = "gh_delete" /\ remote # "gone"
    \/ x = "closing"
    \/ x = "deleting" /\ remote = "candidate"

\* Wrong: the branch is deleted without a lease.
AcceptableNoLease(x) ==
    \/ x = "readying" /\ pr.state = "open"
    \/ x = "merging" /\ pr.state = "open" /\ ~pr.draft /\ remote = "candidate"
    \/ x \in {"gh_delete", "deleting"} /\ remote # "gone"
    \/ x = "closing"

\* What the other side accepts: gh pr merge is bound to the head, git push to the lease.
Acceptable(x) ==
    \/ x = "readying" /\ pr.state = "open"
    \/ x = "merging" /\ pr.state = "open" /\ ~pr.draft /\ remote = "candidate"
    \/ x = "gh_delete" /\ remote # "gone"
    \/ x = "closing"
    \/ x = "deleting" /\ remote = "candidate"

\* The request x takes effect.  bd close may or may not replace another's reason.
Take(x, when) ==
    /\ pr' = CASE x = "readying" -> [pr EXCEPT !.draft = FALSE]
               [] x = "merging" -> [pr EXCEPT !.state = "merged", !.head = remote, !.onto = base]
               [] OTHER -> pr
    /\ remote' = IF x \in {"gh_delete", "deleting"} THEN "gone" ELSE remote
    /\ bead' \in IF x = "closing" THEN {"afk"} \cup ({bead} \cap {"other"}) ELSE {bead}
    /\ base' = IF x = "merging" THEN "moved" ELSE base
    /\ applied' = [applied EXCEPT ![x] = when] /\ UNCHANGED <<checkout, local>>

\* A request whose sender is gone: it has taken effect, never will, or will later.
CutOff(x) ==
    \/ Acceptable(x) /\ Take(x, "sent") /\ UNCHANGED late
    \/ late' \in {late, late \cup {x}} /\ UNCHANGED <<world, applied>>

ScopeOf == [readying |-> "publication", merging |-> "merge", gh_delete |-> "merge",
            closing |-> "bead_close"]
After   == [readying |-> "confirm_ready", merging |-> "gh_delete", gh_delete |-> "adopt_merge",
            closing |-> "confirm_close", deleting |-> "confirm_deletion"]

\* The command waits for the answer.  A deletion that fails is looked at all the same.
Answered(x) ==
    /\ pc = x /\ Acceptable(x) /\ Take(x, "sent") /\ Goto(After[x])
    /\ UNCHANGED <<effect, completion, late, cleaned, bounds>>

Refused(x) ==
    /\ pc = x /\ ~Acceptable(x)
    /\ IF x \in {"gh_delete", "deleting"} THEN Goto(After[x]) ELSE Stop(ScopeOf[x])
    /\ UNCHANGED <<effect, completion, cleaned, bounds>> /\ Looks

Unanswered(x) ==
    /\ pc = x /\ Fault /\ CutOff(x)
    /\ IF x = "deleting" THEN Goto(After[x]) ELSE Stop(ScopeOf[x])
    /\ UNCHANGED <<effect, completion, cleaned>>

\* A late request arrives.  An orphaned gh goes on to delete the branch of its merge.
Land(x) ==
    /\ x \in late
    /\ \/ Acceptable(x) /\ Take(x, "late")
          /\ late' \in {(late \ {x}) \cup more :
                           more \in {{}, IF x = "merging" THEN {"gh_delete"} ELSE {}}}
       \/ ~Acceptable(x) /\ late' = late \ {x} /\ UNCHANGED <<world, applied>>
    /\ UNCHANGED <<durable, pc, cleaned, bounds>>

-----------------------------------------------------------------------------
(* The pull request is marked ready *)

\* The comment that passed the Gate is confirmed already and must still be there.
VerifyGate ==
    /\ pc = "verify_gate"
    /\ \/ pr.comment /\ NoFault /\ Goto("check_ready")
       \/ ~pr.comment /\ NoFault /\ Stop("publication")
       \/ Fault /\ Stop("publication")
    /\ UNCHANGED effect /\ Keeps

\* Wrong: only a draft can be marked ready.
ReadyConsistentDraft == pr.draft /\ effect["pr-mark-ready"] # "confirmed"

\* A PR that is ready without an Effect was made ready by someone else.
ReadyConsistent ==
    IF pr.draft THEN effect["pr-mark-ready"] # "confirmed" ELSE effect["pr-mark-ready"] # "absent"

CheckReady ==
    /\ pc = "check_ready"
    /\ \/ /\ Published /\ ReadyConsistent /\ NoFault /\ Prepare("pr-mark-ready")
          /\ Goto(IF effect["pr-mark-ready"] = "confirmed" THEN "record_ready"
                  ELSE IF pr.draft THEN "readying" ELSE "adopt_ready")
       \/ ~(Published /\ ReadyConsistent) /\ NoFault /\ Stop("publication") /\ UNCHANGED effect
       \/ Fault /\ Stop("publication") /\ UNCHANGED effect
    /\ Keeps

FoundReady == HeadsAgree /\ (pc = "adopt_ready" \/ (pr.state = "open" /\ ~pr.draft))

\* The PR is looked at again after the answer; one found ready before is taken as it was.
ConfirmReady ==
    /\ pc \in {"confirm_ready", "adopt_ready"}
    /\ \/ FoundReady /\ NoFault /\ Confirm("pr-mark-ready") /\ Goto("record_ready")
       \/ ~FoundReady /\ NoFault /\ Stop("publication") /\ UNCHANGED effect
       \/ Fault /\ Stop("publication") /\ UNCHANGED effect
    /\ Keeps

RecordReady ==
    /\ pc = "record_ready" /\ Record([Achieved("reviewed") EXCEPT !.ready = TRUE], "idle")
    /\ UNCHANGED <<effect, bounds>> /\ Keeps

-----------------------------------------------------------------------------
(* The pull request is merged *)

Prepared(e)      == effect[e] # "absent"
NotConfirmed(es) == \A e \in es : effect[e] # "confirmed"
MergeEffects     == {"pr-squash-merge", "remote-branch-delete"}

\* A PR that is merged is adopted if AFK had intended to merge it; an open one is merged.
CheckMerge ==
    LET adopt == pr.state = "merged" /\ \A e \in MergeEffects : Prepared(e)
        merge == Published /\ ~pr.draft /\ run.ready /\ NotConfirmed(MergeEffects)
    IN /\ pc = "check_merge"
       /\ \/ adopt /\ NoFault /\ Goto("adopt_merge") /\ UNCHANGED effect
          \/ merge /\ NoFault /\ Goto("prepare_delete") /\ Prepare("pr-squash-merge")
          \/ ~adopt /\ ~merge /\ NoFault /\ Stop("merge") /\ UNCHANGED effect
          \/ Fault /\ Stop("merge") /\ UNCHANGED effect
       /\ Keeps

PrepareDelete ==
    /\ pc = "prepare_delete" /\ Goto("recheck_merge") /\ Prepare("remote-branch-delete")
    /\ UNCHANGED bounds /\ Keeps

\* The last looks before the merge: PR, heads, merge rules, and the target branch.
RecheckMerge ==
    /\ pc = "recheck_merge"
    /\ \/ Published /\ ~pr.draft /\ NoFault /\ Goto("merging")
       \/ ~(Published /\ ~pr.draft) /\ NoFault /\ Stop("merge")
       \/ Fault /\ Stop("merge")
    /\ UNCHANGED effect /\ Keeps

\* Wrong: whatever was merged is taken for the reviewed change.
SquashOfCandidateLoose == pr.state = "merged"

\* _reconcile_candidate_merge, _verify_squash_commit
SquashOfCandidate == pr.state = "merged" /\ pr.head = "candidate" /\ pr.onto = "pinned"

AdoptMerge ==
    /\ pc = "adopt_merge"
    /\ \/ SquashOfCandidate /\ NoFault /\ Confirm("pr-squash-merge") /\ Goto("record_merge")
       \/ ~SquashOfCandidate /\ NoFault /\ Stop("merge") /\ UNCHANGED effect
       \/ Fault /\ Stop("merge") /\ UNCHANGED effect
    /\ Keeps

RecordMerge ==
    /\ pc = "record_merge" /\ Record(Achieved("merged"), "check_deletion")
    /\ UNCHANGED <<effect, bounds>> /\ Keeps

\* reconcile_candidate_branch_deletion: a branch that was replaced is someone else's.
CheckDeletion ==
    /\ pc = "check_deletion"
    /\ \/ /\ remote # "foreign" /\ NoFault /\ Goto("record_deletion")
          /\ cleaned' = [NoCleanup EXCEPT !.remote = remote = "gone"]
          /\ IF remote = "gone" THEN Confirm("remote-branch-delete") ELSE UNCHANGED effect
       \/ remote = "foreign" /\ NoFault /\ Stop("merge") /\ UNCHANGED <<effect, cleaned>>
       \/ Fault /\ Stop("merge") /\ UNCHANGED <<effect, cleaned>>
    /\ UNCHANGED completion /\ Looks

RecordDeletion ==
    /\ pc = "record_deletion"
    /\ IF run.attention # "none" \/ run.deleted # cleaned.remote
       THEN Record([Achieved("merged") EXCEPT !.deleted = cleaned.remote], "idle")
       ELSE Goto("idle")
    /\ cleaned' = NoCleanup
    /\ UNCHANGED <<effect, completion, bounds>> /\ Looks

-----------------------------------------------------------------------------
(* The Bead is closed *)

\* Wrong: a prepared Effect is taken for a Bead that is still open.
CheckCloseBlind ==
    /\ pc = "check_close"
    /\ \/ /\ effect["bead-close"] = "confirmed" /\ NoFault
          /\ IF bead = "afk" THEN Goto("record_close") ELSE Stop("bead_close")
       \/ effect["bead-close"] # "confirmed" /\ NoFault /\ Goto("closing")
       \/ Fault /\ Stop("bead_close")
    /\ Prepare("bead-close") /\ Keeps

\* Before AFK intends to close the Bead, it must not be closed; afterwards only by AFK.
CheckClose ==
    /\ pc = "check_close"
    /\ \/ /\ effect["bead-close"] = "absent" /\ bead = "open" /\ NoFault
          /\ Goto("close_bead") /\ Prepare("bead-close")
       \/ effect["bead-close"] = "prepared" /\ NoFault /\ Goto("close_bead") /\ UNCHANGED effect
       \/ effect["bead-close"] = "confirmed" /\ bead = "afk" /\ NoFault
          /\ Goto("record_close") /\ UNCHANGED effect
       \/ /\ \/ effect["bead-close"] = "absent" /\ bead # "open"
             \/ effect["bead-close"] = "confirmed" /\ bead # "afk"
          /\ NoFault /\ Stop("bead_close") /\ UNCHANGED effect
       \/ Fault /\ Stop("bead_close") /\ UNCHANGED effect
    /\ Keeps

CloseBead ==
    /\ pc = "close_bead"
    /\ \/ bead = "open" /\ NoFault /\ Goto("closing")
       \/ bead = "afk" /\ NoFault /\ Goto("confirm_close")
       \/ bead = "other" /\ NoFault /\ Stop("bead_close")
       \/ Fault /\ Stop("bead_close")
    /\ UNCHANGED effect /\ Keeps

\* After bd close the Bead is looked at again.
ConfirmClose ==
    /\ pc = "confirm_close"
    /\ \/ bead = "afk" /\ NoFault /\ Confirm("bead-close") /\ Goto("record_close")
       \/ bead # "afk" /\ NoFault /\ Stop("bead_close") /\ UNCHANGED effect
       \/ Fault /\ Stop("bead_close") /\ UNCHANGED effect
    /\ Keeps

RecordClose ==
    /\ pc = "record_close" /\ Record(Achieved("bead_closed"), "idle")
    /\ UNCHANGED <<effect, bounds>> /\ Keeps

-----------------------------------------------------------------------------
(* Branch and worktree are cleaned up, the Run is completed *)

\* Evidence of an earlier attempt is kept as it is, with what it says of the cleanup.
CheckCompletion ==
    /\ pc = "check_completion"
    /\ Goto(CASE completion.seal = "absent" -> "delete_branch"
              [] completion.seal = "written" -> "seal_completion"
              [] completion.seal = "sealed" -> "record_completed")
    /\ cleaned' = NoCleanup
    /\ UNCHANGED <<effect, completion, bounds>> /\ Looks

\* delete_candidate_branch; what cannot be cleaned up is left as a warning.
DeleteBranch ==
    /\ pc = "delete_branch"
    /\ \/ remote = "candidate" /\ NoFault /\ Goto("deleting") /\ UNCHANGED <<effect, cleaned>>
       \/ /\ remote = "gone" /\ NoFault /\ Goto("move_worktree")
          /\ Confirm("remote-branch-delete") /\ cleaned' = [cleaned EXCEPT !.remote = TRUE]
       \/ /\ (remote = "foreign" /\ NoFault) \/ Fault
          /\ Goto("move_worktree") /\ UNCHANGED <<effect, cleaned>>
    /\ UNCHANGED completion /\ Looks

ConfirmDeletion ==
    /\ pc = "confirm_deletion" /\ Goto("move_worktree")
    /\ \/ remote = "gone" /\ NoFault
          /\ Confirm("remote-branch-delete") /\ cleaned' = [cleaned EXCEPT !.remote = TRUE]
       \/ ((remote # "gone" /\ NoFault) \/ Fault) /\ UNCHANGED <<effect, cleaned>>
    /\ UNCHANGED completion /\ Looks

\* A step of the local cleanup: it moves or removes things and learns what it may claim.
Cleans(claims, next) ==
    /\ cleaned' = claims /\ Goto(next)
    /\ UNCHANGED <<effect, completion, late, applied, pr, remote, base, bead>>

\* A listing fails: no claim, and on with the rest.  A call raises: neither claim is made.
Uninspected(next) ==
    /\ Fault
    /\ \/ Cleans(cleaned, next)
       \/ Cleans([cleaned EXCEPT !.worktree = FALSE, !.local = FALSE], "write_completion")

Owned == local = "candidate"

MoveWorktree ==
    /\ pc = "move_worktree" /\ UNCHANGED local
    /\ \/ /\ checkout.place = "gone" /\ NoFault /\ UNCHANGED checkout
          /\ Cleans([cleaned EXCEPT !.worktree = TRUE], "delete_ref")
       \/ /\ checkout.place = "home" /\ checkout.clean /\ Owned
          /\ \/ checkout' = [checkout EXCEPT !.place = "quarantine"] /\ NoFault
             \/ checkout' \in {checkout, [checkout EXCEPT !.place = "quarantine"]} /\ Fault
          /\ Cleans(cleaned, "remove_worktree")
       \/ /\ checkout.place = "quarantine" /\ Owned /\ NoFault /\ UNCHANGED checkout
          /\ Cleans(cleaned, "remove_worktree")
       \/ /\ \/ checkout.place # "gone" /\ ~Owned
             \/ checkout.place = "home" /\ ~checkout.clean
          /\ NoFault /\ UNCHANGED checkout /\ Cleans(cleaned, "delete_ref")
       \/ Uninspected("delete_ref") /\ UNCHANGED checkout

\* owned_at_removal: only the quarantined, unchanged worktree may go.
RemoveWorktree ==
    /\ pc = "remove_worktree" /\ UNCHANGED <<checkout, local>>
    /\ \/ /\ NoFault
          /\ Cleans(cleaned, IF checkout = [place |-> "quarantine", clean |-> TRUE] /\ Owned
                             THEN "removing" ELSE "delete_ref")
       \/ Uninspected("delete_ref")

\* Wrong: the removal is believed without a look.
GitRemovesBelieved ==
    /\ pc = "removing" /\ UNCHANGED local
    /\ \/ checkout.clean /\ checkout' = [checkout EXCEPT !.place = "gone"] /\ NoFault
       \/ UNCHANGED checkout /\ ((~checkout.clean /\ NoFault) \/ Fault)
    /\ Cleans([cleaned EXCEPT !.worktree = TRUE], "delete_ref")

\* git worktree remove leaves a dirty worktree alone; AFK then looks whether it is gone.
GitRemoves ==
    /\ pc = "removing" /\ UNCHANGED local
    /\ \/ /\ checkout' = [checkout EXCEPT !.place = IF checkout.clean THEN "gone" ELSE @]
          /\ NoFault /\ Cleans([cleaned EXCEPT !.worktree = checkout.clean], "delete_ref")
       \/ /\ checkout' \in {checkout, [checkout EXCEPT !.place = IF checkout.clean THEN "gone" ELSE @]}
          /\ \/ Uninspected("delete_ref")
             \/ Fault /\ Cleans([cleaned EXCEPT !.worktree = checkout'.place = "gone"], "delete_ref")

DeleteRef ==
    /\ pc = "delete_ref" /\ UNCHANGED <<checkout, local>>
    /\ \/ /\ local = "gone" /\ NoFault
          /\ Cleans([cleaned EXCEPT !.local = TRUE], "write_completion")
       \/ /\ local = "candidate" /\ cleaned.worktree /\ NoFault
          /\ Cleans(cleaned, "deleting_ref")
       \/ /\ local = "foreign" \/ (local = "candidate" /\ ~cleaned.worktree)
          /\ NoFault /\ Cleans(cleaned, "write_completion")
       \/ Uninspected("write_completion")

\* git update-ref -d with the old value; then AFK looks whether the branch is gone.
GitDeletesRef ==
    LET rest == IF local = "candidate" THEN "gone" ELSE local
    IN /\ pc = "deleting_ref" /\ UNCHANGED checkout
       /\ \/ /\ local' = rest /\ NoFault
             /\ Cleans([cleaned EXCEPT !.local = rest = "gone"], "write_completion")
          \/ /\ local' \in {local, rest} /\ Fault
             /\ \E claim \in {FALSE, local' = "gone"} :
                   Cleans([cleaned EXCEPT !.local = claim], "write_completion")

WriteCompletion ==
    /\ pc = "write_completion" /\ Goto("seal_completion")
    /\ completion' = [seal |-> "written", claims |-> cleaned] /\ cleaned' = NoCleanup
    /\ UNCHANGED <<effect, bounds>> /\ Looks

SealCompletion ==
    /\ pc = "seal_completion" /\ Goto("record_completed")
    /\ completion' = [completion EXCEPT !.seal = "sealed"]
    /\ UNCHANGED <<effect, cleaned, bounds>> /\ Looks

\* run.completed; its retrospective and the release of the Run are part of RunStore.
RecordCompleted ==
    /\ pc = "record_completed" /\ Record(Achieved("completed"), "idle")
    /\ UNCHANGED <<effect, bounds>> /\ Keeps

-----------------------------------------------------------------------------
(* Resume, and what comes in between *)

\* The stage that resume_run takes.
Branch ==
    IF run.signalled THEN "alert_signal"
    ELSE CASE run.checkpoint = "reviewed" -> IF run.ready THEN "check_merge" ELSE "verify_gate"
           [] run.checkpoint = "merged" -> "check_close"
           [] run.checkpoint = "bead_closed" -> "check_completion"

\* The preflight asks every Run that requires attention for the episode of an attention.
EpisodeValid == run.signalled => run.episode

Resume ==
    /\ pc = "idle" /\ run.checkpoint # "completed" /\ EpisodeValid /\ Goto(Branch)
    /\ UNCHANGED <<effect, completion, cleaned, bounds>> /\ Looks

AlertSignal ==
    /\ pc = "alert_signal" /\ Stop("lifecycle")
    /\ UNCHANGED <<effect, completion, cleaned, bounds>> /\ Looks

\* The command dies; the gh or bd it started may live on.
Dies ==
    /\ pc # "idle" /\ crashes < MaxCrashes
    /\ crashes' = crashes + 1 /\ UNCHANGED <<faults, meddling>>
    /\ IF pc \in Requests THEN CutOff(pc) ELSE UNCHANGED <<world, late, applied>>
    /\ cleaned' = NoCleanup /\ UNCHANGED <<effect, completion>>

Crash == Dies /\ Goto("idle")

\* Wrong: a signal leaves no attention.
SignalSilently == Dies /\ Record([run EXCEPT !.signalled = TRUE], "idle")

\* SIGTERM or SIGINT: the command still records the signal.
Signal == Dies /\ Record([run EXCEPT !.attention = "lifecycle", !.signalled = TRUE], "idle")

Others ==
    /\ meddling < MaxMeddling
    /\ meddling' = meddling + 1
    /\ UNCHANGED <<durable, late, pc, cleaned, applied, faults, crashes>>

OthersPush == Others /\ remote' \in {"candidate", "foreign"} \ {remote}
              /\ UNCHANGED <<pr, base, bead, checkout, local>>

OthersMoveBase == Others /\ base' = "moved" /\ base # base'
                  /\ UNCHANGED <<pr, remote, bead, checkout, local>>

OthersToggleDraft == Others /\ pr.state = "open" /\ pr' = [pr EXCEPT !.draft = ~@]
                     /\ UNCHANGED <<remote, base, bead, checkout, local>>

\* Nobody looks at the comment once the Run has recorded that its PR is ready.
OthersTouchComment == Others /\ ~run.ready /\ pr' = [pr EXCEPT !.comment = ~@]
                      /\ UNCHANGED <<remote, base, bead, checkout, local>>

\* Any merge button: onto is "moved" for every commit that is no squash onto the base.
OthersMerge ==
    /\ Others /\ pr.state = "open" /\ ~pr.draft
    /\ \E onto \in {base, "moved"} :
          pr' = [pr EXCEPT !.state = "merged", !.head = remote, !.onto = onto]
    /\ base' = "moved" /\ UNCHANGED <<remote, bead, checkout, local>>

OthersTouchBead == Others /\ bead' \in {"open", "other"} \ {bead}
                   /\ UNCHANGED <<pr, remote, base, checkout, local>>

\* Someone works in the worktree, or commits on the Run branch.
OthersEdit == Others /\ checkout.place # "gone" /\ checkout' = [checkout EXCEPT !.clean = ~@]
              /\ UNCHANGED <<pr, remote, base, bead, local>>

OthersCommit == Others /\ local = "candidate" /\ local' = "foreign"
                /\ UNCHANGED <<pr, remote, base, bead, checkout>>

-----------------------------------------------------------------------------
Step ==
    \/ \E x \in Requests : Answered(x) \/ Refused(x) \/ Unanswered(x)
    \/ VerifyGate \/ CheckReady \/ ConfirmReady \/ RecordReady
    \/ CheckMerge \/ PrepareDelete \/ RecheckMerge \/ AdoptMerge \/ RecordMerge
    \/ CheckDeletion \/ RecordDeletion
    \/ CheckClose \/ CloseBead \/ ConfirmClose \/ RecordClose
    \/ CheckCompletion \/ DeleteBranch \/ ConfirmDeletion
    \/ MoveWorktree \/ RemoveWorktree \/ GitRemoves \/ DeleteRef \/ GitDeletesRef
    \/ WriteCompletion \/ SealCompletion \/ RecordCompleted \/ AlertSignal

Meddle ==
    \/ OthersPush \/ OthersMoveBase \/ OthersToggleDraft \/ OthersTouchComment
    \/ OthersMerge \/ OthersTouchBead \/ OthersEdit \/ OthersCommit

Next == Step \/ Resume \/ Crash \/ Signal \/ (\E x \in Requests : Land(x)) \/ Meddle

\* A command that runs goes on, for its calls have time limits; and the operator resumes a
\* Run as long as it is not completed.
Spec == Init /\ [][Next]_vars /\ WF_vars(Step) /\ WF_vars(Resume)

-----------------------------------------------------------------------------
(* Properties *)

Steps == Requests \cup
    {"idle", "verify_gate", "check_ready", "adopt_ready", "confirm_ready", "record_ready",
     "check_merge", "prepare_delete", "recheck_merge", "adopt_merge", "record_merge",
     "check_deletion", "record_deletion", "check_close", "close_bead", "confirm_close",
     "record_close", "check_completion", "delete_branch", "confirm_deletion",
     "move_worktree", "remove_worktree", "removing", "delete_ref", "deleting_ref",
     "write_completion", "seal_completion", "record_completed", "alert_signal"}

Claims == [remote : BOOLEAN, worktree : BOOLEAN, local : BOOLEAN]

\* Every variable holds what the code can put into it.
TypeOK ==
    /\ run \in [checkpoint : {"reviewed", "merged", "bead_closed", "completed"},
                attention : {"none", "lifecycle", "publication", "merge", "bead_close"},
                signalled : BOOLEAN, episode : BOOLEAN, ready : BOOLEAN, deleted : BOOLEAN]
    /\ run.checkpoint # "reviewed" => run.ready
    /\ run.signalled => run.attention = "lifecycle"
    /\ effect \in [Effects -> {"absent", "prepared", "confirmed"}]
    /\ completion \in [seal : {"absent", "written", "sealed"}, claims : Claims]
    /\ pr \in [state : {"open", "merged"}, draft : BOOLEAN, comment : BOOLEAN,
               head : Heads, onto : Bases]
    /\ remote \in Heads /\ base \in Bases /\ bead \in {"open", "afk", "other"}
    /\ checkout \in [place : {"home", "quarantine", "gone"}, clean : BOOLEAN]
    /\ local \in Heads /\ late \subseteq Requests
    /\ pc \in Steps /\ cleaned \in Claims
    /\ applied \in [Requests -> {"no", "sent", "late"}]
    /\ faults \in 0 .. MaxFaults /\ crashes \in 0 .. MaxCrashes /\ meddling \in 0 .. MaxMeddling

\* "External mutations are recorded as prepared and confirmed effects": whatever AFK did to
\* the outside, even behind a crash or long after, an Effect on disk tells of it.
MutationsAreAnnounced ==
    \A x \in Requests : applied[x] # "no" => Prepared(EffectOf[x])

\* "... so resume reconciles ambiguous outcomes instead of repeating them": a request that
\* took effect before its command ended is not sent again, unless other people undid it.
NothingRepeated ==
    [][\A x \in Requests :
          pc' = x /\ pc # x /\ applied[x] = "sent" => meddling > 0]_vars

\* Exact-head merge: what AFK merges is the Candidate that was reviewed, although anyone may
\* push to the branch between the last look and the merge.
ReviewedHeadIsMerged == applied["merging"] # "no" => pr.head = "candidate"

\* Nothing is done to the outside without the cover of an Effect, and nothing but the
\* reviewed change is merged.
MutationsAreCovered == MutationsAreAnnounced /\ ReviewedHeadIsMerged

\* AFK destroys nobody's work: no replaced branch, no dirty worktree, no new commit.  gh's own
\* deletion behind a merge is not bound to the head and is left out.
OthersWorkKept ==
    [][/\ remote = "foreign" /\ remote' = "gone" => pc = "gh_delete" \/ "gh_delete" \in late
       /\ local = "foreign" => local' # "gone"
       /\ checkout.place # "gone" /\ checkout'.place = "gone" => checkout.clean]_vars

\* The completion record only claims what was achieved, although each cleanup may fail, be
\* cut off and be repeated, and the record outlives the command that wrote it.
CompletionIsTrue ==
    completion.seal # "absent" =>
        /\ completion.claims.worktree => checkout.place = "gone"
        /\ completion.claims.local => local = "gone" /\ checkout.place = "gone"
        /\ completion.claims.remote => effect["remote-branch-delete"] = "confirmed"

\* The Run delivers: the stages of Delivery, each behind the fact it tells of.
Delivered == INSTANCE Delivery WITH
    stage <- run.checkpoint,
    merged <- pr.state = "merged" /\ <<pr.head, pr.onto>> = <<"candidate", "pinned">>,
    closed <- applied["closing"] # "no"

ImplementsDelivery == Delivered!Spec

\* If nobody interferes, crashes, lost answers, and signals behind an earlier attention only
\* delay: the operator's resumes bring every reviewed Run to "completed".
Recovers == <>(run.checkpoint = "completed" \/ meddling > 0 \/ ~EpisodeValid)

(* A statement of the tests that the code does not meet *)

\* test_resume_backfills_signal_attention_before_checkpoint_continuation: a reviewed Run that
\* a signal interrupted, without any attention before, is accepted by the next resume.
SignalledRunIsAccepted == pc = "idle" => EpisodeValid
=============================================================================
