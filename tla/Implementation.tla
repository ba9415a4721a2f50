--------------------------- MODULE Implementation ---------------------------
(***************************************************************************)
(* The first half of a Run (start.py, candidate.py,                        *)
(* implementation_attempt.py, resume_preflight.py): the worker claims the  *)
(* Bead, makes the Run worktree, runs the implementation agent, publishes  *)
(* its commit as branch and draft pull request, and so reaches             *)
(* "candidate_ready", where GateRepair takes over.                         *)
(*                                                                         *)
(* The worker unit does all of this in one go.  If it stops or dies, afk   *)
(* resume goes on from the projection of the Event History, the evidence   *)
(* of the attempts and what can be observed.  Other people share the       *)
(* tracker, the remote and the list of pull requests.                      *)
(***************************************************************************)
EXTENDS Integers, Sequences, FiniteSets

CONSTANTS
    Faults,       \* the kinds of failures that happen, a subset of FaultKinds
    MaxFaults,    \* bound: failed calls and acts of others per behaviour
    MaxCrashes    \* bound: crashes and signals per behaviour

FaultKinds == {"tracker", "git", "agent", "publication", "unit", "others"}

ASSUME ImplementationConstants ==
    /\ MaxFaults \in Nat /\ MaxCrashes \in Nat
    /\ Faults \subseteq FaultKinds

Ids     == {1, 2}        \* implementation-1 and implementation-2
Reports == {"completed", "blocked", "malformed"}
Phases  == {"claim", "worktree", "candidate"}

\* The projected attempt: a record of the latest implementation.attempt_* event.
Attempt(n, status, retryable) == [id |-> n, status |-> status, retryable |-> retryable]
NoAttempt == Attempt(0, "none", FALSE)

\* recovery.json: why an attempt counts as interrupted, and whether another may follow.
Ruling(why, retryable) == [why |-> why, retryable |-> retryable]
NoRuling   == Ruling("none", FALSE)
NoEvidence == [dir |-> FALSE, report |-> "none", recovery |-> NoRuling, sealed |-> FALSE]

VARIABLES
    run,        \* the projection, with the attempt and publication events it rests on
    effect,     \* status of the Effects bead-claim, worktree-create, branch-push, pr-create
    evidence,   \* attempts/implementation-<n>
    (* the world *)
    bead,       \* "open", "ours" (in progress, assigned to our claimant), "other"
    tree,       \* the Run worktree: "absent", "partial", "base", "dirty", "commit"
    remote,     \* the Run branch on the remote: "absent", "candidate", "foreign"
    target,     \* the target branch: still at the pinned "base", or "moved"
    prs,        \* pull requests from the Run branch: ours, and one of someone else
    unit,       \* the worker unit: "working", "ending" (its result is not recorded), "gone"
    ran,        \* the attempts in which the agent was started
    (* the running command *)
    pc,         \* its next step; "idle" when none runs
    todo,       \* the phases that follow the current one
    hand,       \* the ruling it is about to record
    again,      \* another attempt follows that record in the same command
    faults, crashes

durable == <<run, effect, evidence>>
world   == <<bead, tree, remote, target, prs, ran>>
local   == <<todo, hand, again>>
bounds  == <<faults, crashes>>
vars    == <<durable, world, unit, pc, local, bounds>>

\* The worker has confirmed its launch and recorded worker.launched.
Init ==
    /\ run = [checkpoint |-> "created", last |-> "worker.launched", scope |-> "none",
              episode |-> FALSE, attempts |-> <<>>, published |-> <<>>, exit |-> FALSE]
    /\ effect = [e \in {"claim", "worktree", "push", "pr"} |-> "none"]
    /\ evidence = [n \in Ids |-> NoEvidence]
    /\ bead = "open" /\ tree = "absent" /\ remote = "absent" /\ target = "base"
    /\ prs = [ours |-> 0, foreign |-> FALSE]
    /\ unit = "working" /\ ran = {}
    /\ pc = "claim" /\ todo = <<"worktree", "candidate">>
    /\ hand = NoRuling /\ again = FALSE
    /\ faults = 0 /\ crashes = 0

-----------------------------------------------------------------------------
(* What every step is made of *)

Goto(next) == pc' = next /\ UNCHANGED run

\* A durable record of the Event History, and the next step.
Record(projection, next) == run' = projection /\ pc' = next

\* _attention: the command records why it stops, and ends.
Stop(scope) ==
    Record([run EXCEPT !.scope = scope, !.episode = TRUE, !.last = "run.attention_required"],
           "end")

\* A call that failed, timed out or gave no usable answer.
Fault(kind) ==
    /\ kind \in Faults /\ faults < MaxFaults
    /\ faults' = faults + 1 /\ UNCHANGED crashes

NoFault == UNCHANGED bounds

Last(attempts) == IF attempts = <<>> THEN NoAttempt ELSE attempts[Len(attempts)]
Current        == Last(run.attempts)

\* Wrong: attempts are numbered on after every interruption.
NextIdCounted(a) == IF a = NoAttempt \/ a.status = "interrupted" THEN a.id + 1 ELSE 0

\* next_attempt_id: the second attempt follows a first one that may be repeated; 0 is none.
NextId(a) ==
    IF a = NoAttempt THEN 1
    ELSE IF a.status = "interrupted" /\ a.retryable /\ a.id = 1 THEN 2 ELSE 0

RecordAttempt(n, status, retryable, next) ==
    Record([run EXCEPT !.attempts = Append(@, Attempt(n, status, retryable)),
                       !.last = "implementation.attempt"], next)

\* prepare_effect and confirm_effect change nothing that is further on already.
Prepare(e) == effect' = [effect EXCEPT ![e] = IF @ = "none" THEN "prepared" ELSE @]
Confirm(e) == effect' = [effect EXCEPT ![e] = "confirmed"]

\* The next phase, or the end of the command.
Onward == IF todo = <<>> THEN "end" ELSE Head(todo)
Advance == todo' = IF todo = <<>> THEN <<>> ELSE Tail(todo)

-----------------------------------------------------------------------------
(* The Bead is claimed: _reconcile_bead_claim *)

Claim ==
    /\ pc = "claim" /\ Prepare("claim") /\ Goto("show")
    /\ UNCHANGED <<evidence, world, unit, local, bounds>>

ShowBead ==
    /\ pc = "show"
    /\ \/ bead = "open" /\ Goto("take") /\ NoFault
       \/ bead = "ours" /\ Goto("confirm_claim") /\ NoFault
       \/ bead = "other" /\ Stop("bead_claim") /\ NoFault
       \/ Fault("tracker") /\ Stop("bead_claim")
    /\ UNCHANGED <<effect, evidence, world, unit, local>>

\* bd update --claim takes a Bead that no one else took, and may do so without an answer.
TakeBead ==
    /\ pc = "take"
    /\ \/ bead = "open" /\ bead' = "ours" /\ Goto("show_again") /\ NoFault
       \/ bead # "open" /\ Stop("bead_claim") /\ NoFault /\ UNCHANGED bead
       \/ Fault("tracker") /\ Stop("bead_claim")
          /\ bead' \in (IF bead = "open" THEN {"open", "ours"} ELSE {bead})
    /\ UNCHANGED <<effect, evidence, tree, remote, target, prs, ran, unit, local>>

ShowAgain ==
    /\ pc = "show_again"
    /\ \/ bead = "ours" /\ Goto("confirm_claim") /\ NoFault
       \/ bead # "ours" /\ Stop("bead_claim") /\ NoFault
       \/ Fault("tracker") /\ Stop("bead_claim")
    /\ UNCHANGED <<effect, evidence, world, unit, local>>

ConfirmClaim ==
    /\ pc = "confirm_claim" /\ Confirm("claim") /\ Goto("record_claim")
    /\ UNCHANGED <<evidence, world, unit, local, bounds>>

RecordClaim ==
    LET claimed == [run EXCEPT !.checkpoint = "claimed", !.scope = "none"]
    IN /\ pc = "record_claim"
       /\ \/ run.checkpoint = "created"
             /\ Record([claimed EXCEPT !.last = "bead.claimed"], Onward)
          \/ run.checkpoint # "created" /\ run.scope = "bead_claim"
             /\ Record([claimed EXCEPT !.last = "bead.claim_reconciled"], Onward)
          \/ run.checkpoint # "created" /\ run.scope # "bead_claim" /\ Goto(Onward)
       /\ Advance
       /\ UNCHANGED <<effect, evidence, world, unit, hand, again, bounds>>

-----------------------------------------------------------------------------
(* The worktree is made: _reconcile_worktree *)

HasWorktree == run.checkpoint \notin {"created", "claimed"}

\* The Effect is prepared, then everything that may exist already is looked at.
Worktree ==
    /\ pc = "worktree"
    /\ \/ tree = "absent" /\ ~HasWorktree /\ effect.worktree # "confirmed"
          /\ Goto("add") /\ NoFault
       \/ tree = "base" /\ Goto("confirm_worktree") /\ NoFault
       \/ Stop("worktree") /\ NoFault
          /\ \/ tree \in {"partial", "dirty", "commit"}
             \/ tree = "absent" /\ (HasWorktree \/ effect.worktree = "confirmed")
       \/ Fault("git") /\ Stop("worktree")
    /\ Prepare("worktree")
    /\ UNCHANGED <<evidence, world, unit, local>>

\* git worktree add makes a branch, a directory and a registration, one after the other.
BeginAdd ==
    /\ pc = "add" /\ tree' = "partial" /\ Goto("adding")
    /\ UNCHANGED <<effect, evidence, bead, remote, target, prs, ran, unit, local, bounds>>

EndAdd ==
    /\ pc = "adding"
    /\ \/ tree' = "base" /\ Goto("worktree") /\ NoFault
       \/ tree' \in {"absent", "partial", "base"} /\ Fault("git") /\ Stop("worktree")
    /\ UNCHANGED <<effect, evidence, bead, remote, target, prs, ran, unit, local>>

ConfirmWorktree ==
    /\ pc = "confirm_worktree" /\ Confirm("worktree") /\ Goto("record_worktree")
    /\ UNCHANGED <<evidence, world, unit, local, bounds>>

RecordWorktree ==
    LET ready == [run EXCEPT !.checkpoint = "worktree_ready", !.scope = "none"]
    IN /\ pc = "record_worktree"
       /\ \/ ~HasWorktree /\ Record([ready EXCEPT !.last = "worktree.ready"], Onward)
          \/ HasWorktree /\ run.scope = "worktree"
             /\ Record([ready EXCEPT !.last = "worktree.reconciled"], Onward)
          \/ HasWorktree /\ run.scope # "worktree" /\ Goto(Onward)
       /\ Advance
       /\ UNCHANGED <<effect, evidence, world, unit, hand, again, bounds>>

-----------------------------------------------------------------------------
(* Implementation attempts: produce_candidate *)

Candidate ==
    /\ pc = "candidate"
    /\ \/ Current.status = "started" /\ Goto("recover")
       \/ NextId(Current) # 0 /\ Goto("start_attempt")
       \/ Current.status = "completed" /\ Goto("verify")
       \/ Current.status = "interrupted" /\ NextId(Current) = 0 /\ Stop("candidate")
    /\ UNCHANGED <<effect, evidence, world, unit, local, bounds>>

\* The id is paid for before anything of the attempt exists.
StartAttempt ==
    /\ pc = "start_attempt"
    /\ \/ tree = "base" /\ NoFault
          /\ RecordAttempt(NextId(Current), "started", FALSE, "prompt")
       \/ tree # "base" /\ Stop("candidate") /\ NoFault
       \/ Fault("git") /\ Stop("candidate")
    /\ UNCHANGED <<effect, evidence, world, unit, local>>

WritePrompt ==
    /\ pc = "prompt" /\ Goto("agent")
    /\ evidence' = [evidence EXCEPT ![Current.id].dir = TRUE]
    /\ UNCHANGED <<effect, world, unit, local, bounds>>

\* The agent does what it likes to the worktree, and may be cut off in the middle of it.
StartAgent(t) ==
    /\ pc = "agent" /\ tree' = t /\ ran' = ran \cup {Current.id} /\ Goto("agent_works")
    /\ UNCHANGED <<effect, evidence, bead, remote, target, prs, unit, local, bounds>>

AgentReports(report) ==
    /\ pc = "agent_works" /\ Goto("accept")
    /\ evidence' = [evidence EXCEPT ![Current.id].report = report]
    /\ UNCHANGED <<effect, world, unit, local, bounds>>

\* It exits with status 0 and without a report, or with another status.
AgentIsSilent ==
    /\ pc = "agent_works" /\ Goto("write_ruling")
    /\ hand' = Ruling("no report", FALSE) /\ again' = FALSE
    /\ UNCHANGED <<effect, evidence, world, unit, todo, bounds>>

AgentFails ==
    /\ pc = "agent_works" /\ Fault("agent") /\ Stop("candidate")
    /\ UNCHANGED <<effect, evidence, world, unit, local>>

\* _verify_candidate: the report and the worktree agree on one new commit.
Acceptable(n) == evidence[n].report = "completed" /\ tree = "commit"

\* _accept_implementation_report, right behind the agent or in a later recovery.
Accept ==
    LET n == Current.id
    IN /\ pc = "accept"
       /\ \/ Acceptable(n) /\ Goto("seal_report") /\ NoFault /\ UNCHANGED <<hand, again>>
          \/ /\ ~Acceptable(n) /\ Goto("write_ruling") /\ NoFault /\ again' = FALSE
             /\ hand' = Ruling("rejected",
                               evidence[n].report = "blocked" /\ n = 1 /\ tree = "base")
          \/ Fault("git") /\ Stop("candidate") /\ UNCHANGED <<hand, again>>
       /\ UNCHANGED <<effect, evidence, world, unit, todo>>

SealReport ==
    /\ pc = "seal_report" /\ Goto("finish_attempt")
    /\ evidence' = [evidence EXCEPT ![Current.id].sealed = TRUE]
    /\ UNCHANGED <<effect, world, unit, local, bounds>>

FinishAttempt ==
    /\ pc = "finish_attempt" /\ RecordAttempt(Current.id, "completed", FALSE, "verify")
    /\ UNCHANGED <<effect, evidence, world, unit, local, bounds>>

\* _seal_implementation_interruption: a ruling that is there already must be the same one.
WriteRuling ==
    LET n == Current.id
    IN /\ pc = "write_ruling"
       /\ \/ evidence[n].recovery = NoRuling /\ Goto("seal_ruling")
             /\ evidence' = [evidence EXCEPT ![n].dir = TRUE, ![n].recovery = hand]
          \/ evidence[n].recovery = hand /\ Goto("seal_ruling") /\ UNCHANGED evidence
          \/ evidence[n].recovery \notin {NoRuling, hand} /\ Stop("candidate")
             /\ UNCHANGED evidence
       /\ UNCHANGED <<effect, world, unit, local, bounds>>

\* Wrong: the record comes first, the seal with the next attempt.
SealRulingLater ==
    /\ pc = "seal_ruling" /\ Goto("interrupt")
    /\ UNCHANGED <<durable, world, unit, local, bounds>>

SealRuling ==
    /\ pc = "seal_ruling" /\ Goto("interrupt")
    /\ evidence' = [evidence EXCEPT ![Current.id].sealed = TRUE]
    /\ UNCHANGED <<effect, world, unit, local, bounds>>

InterruptAttempt ==
    /\ pc = "interrupt"
    /\ RecordAttempt(Current.id, "interrupted", hand.retryable, "interrupted")
    /\ UNCHANGED <<effect, evidence, world, unit, local, bounds>>

AfterInterruption ==
    /\ pc = "interrupted"
    /\ \/ again /\ Goto("start_attempt")
       \/ ~again /\ Stop("candidate")
    /\ UNCHANGED <<effect, evidence, world, unit, local, bounds>>

\* What an attempt without report, sealed evidence or end counts as.
Verdict(n) ==
    IF tree # "base" THEN Ruling(tree, FALSE)
    ELSE IF ~evidence[n].dir THEN Ruling("no evidence", n = 1)
    ELSE IF n = 1 THEN Ruling("no end", TRUE)
    ELSE Ruling("budget", FALSE)

\* _recover_implementation_attempt: an attempt that is open although no one works on it.
Recover ==
    LET n == Current.id
        e == evidence[n]
        rule(ruling, next) == hand' = ruling /\ again' = ruling.retryable /\ Goto(next)
    IN /\ pc = "recover"
       /\ \/ NoFault
             /\ \/ e.sealed /\ e.recovery # NoRuling /\ rule(e.recovery, "interrupt")
                \/ /\ e.sealed /\ e.recovery = NoRuling /\ UNCHANGED <<hand, again>>
                   /\ IF Acceptable(n) THEN Goto("finish_attempt") ELSE Stop("candidate")
                \/ ~e.sealed /\ e.report # "none" /\ Goto("accept")
                   /\ UNCHANGED <<hand, again>>
                \/ ~e.sealed /\ e.report = "none" /\ rule(Verdict(n), "write_ruling")
          \/ Fault("git") /\ Stop("candidate") /\ UNCHANGED <<hand, again>>
       /\ UNCHANGED <<effect, evidence, world, unit, todo>>

-----------------------------------------------------------------------------
(* The commit is published: produce_candidate, _reconcile_push, _reconcile_pr *)

Verify ==
    /\ pc = "verify"
    /\ \/ tree = "commit" /\ NoFault
          /\ \/ run.checkpoint = "worktree_ready"
                /\ Record([run EXCEPT !.checkpoint = "change_committed",
                                      !.last = "candidate.change_committed"], "push")
             \/ run.checkpoint = "change_committed" /\ Goto("push")
       \/ tree # "commit" /\ Stop("candidate") /\ NoFault
       \/ Fault("git") /\ Stop("candidate")
    /\ UNCHANGED <<effect, evidence, world, unit, local>>

\* The branch on the remote is looked at before anything is pushed.
ObserveBranch ==
    /\ pc = "push" /\ Prepare("push")
    /\ \/ remote = "candidate" /\ NoFault
          /\ Goto(IF effect.push = "confirmed" THEN "announce_branch" ELSE "confirm_push")
       \/ remote = "absent" /\ effect.push # "confirmed" /\ Goto("pushing") /\ NoFault
       \/ remote = "foreign" /\ Stop("candidate") /\ NoFault
       \/ remote = "absent" /\ effect.push = "confirmed" /\ Stop("candidate") /\ NoFault
       \/ Fault("publication") /\ Stop("candidate")
    /\ UNCHANGED <<evidence, world, unit, local>>

\* Wrong: git push --force.
PushForced ==
    /\ pc = "pushing"
    /\ \/ remote' = "candidate" /\ Goto("confirm_push") /\ NoFault
       \/ Fault("publication") /\ Stop("candidate")
          /\ remote' \in {remote, "candidate"}
    /\ UNCHANGED <<effect, evidence, bead, tree, target, prs, ran, unit, local>>

\* The lease says that the branch must not exist; the remote is looked at again behind it.
Push ==
    /\ pc = "pushing"
    /\ \/ remote = "absent" /\ remote' = "candidate" /\ Goto("confirm_push") /\ NoFault
       \/ remote # "absent" /\ Stop("candidate") /\ NoFault /\ UNCHANGED remote
       \/ Fault("publication") /\ Stop("candidate")
          /\ remote' \in (IF remote = "absent" THEN {"absent", "candidate"} ELSE {remote})
    /\ UNCHANGED <<effect, evidence, bead, tree, target, prs, ran, unit, local>>

ConfirmPush ==
    /\ pc = "confirm_push" /\ Confirm("push") /\ Goto("announce_branch")
    /\ UNCHANGED <<evidence, world, unit, local, bounds>>

\* candidate.branch_published and candidate.pr_published clear the attention.
Publish(what) ==
    Record([run EXCEPT !.published = Append(@, what), !.scope = "none",
                       !.last = "candidate.published"],
           IF what = "branch" THEN "pr" ELSE "ready")

IsPublished(what) == \E i \in DOMAIN run.published : run.published[i] = what

\* Wrong: announces the branch whenever its push is confirmed.
AnnounceBranchAlways ==
    /\ pc = "announce_branch" /\ Publish("branch")
    /\ UNCHANGED <<effect, evidence, world, unit, local, bounds>>

AnnounceBranch ==
    /\ pc = "announce_branch"
    /\ \/ IsPublished("branch") /\ Goto("pr")
       \/ ~IsPublished("branch") /\ Publish("branch")
    /\ UNCHANGED <<effect, evidence, world, unit, local, bounds>>

PublishedTree == tree = "commit" /\ remote = "candidate" /\ target = "base"
NoPullRequest == prs.ours = 0 /\ ~prs.foreign

\* Wrong: creates what is not confirmed.
ObservePullRequestBlind ==
    /\ pc = "pr"
    /\ \/ PublishedTree /\ NoFault /\ Prepare("pr")
          /\ Goto(IF effect.pr = "confirmed" THEN "judge_pr" ELSE "create_pr")
       \/ ~PublishedTree /\ NoFault /\ Stop("candidate") /\ UNCHANGED effect
       \/ Fault("publication") /\ Stop("candidate") /\ UNCHANGED effect
    /\ UNCHANGED <<evidence, world, unit, local>>

ObservePullRequest ==
    /\ pc = "pr"
    /\ \/ PublishedTree /\ NoFault /\ Prepare("pr")
          /\ \/ NoPullRequest /\ effect.pr = "confirmed" /\ Stop("candidate")
             \/ NoPullRequest /\ effect.pr # "confirmed" /\ Goto("create_pr")
             \/ ~NoPullRequest /\ Goto("judge_pr")
       \/ ~PublishedTree /\ NoFault /\ Stop("candidate") /\ UNCHANGED effect
       \/ Fault("publication") /\ Stop("candidate")
          /\ (UNCHANGED effect \/ Prepare("pr"))
    /\ UNCHANGED <<evidence, world, unit, local>>

\* gh pr create may create the pull request and fail; the list behind it tells.
CreatePullRequest ==
    /\ pc = "create_pr"
    /\ \/ prs' = [prs EXCEPT !.ours = @ + 1] /\ Goto("judge_pr") /\ NoFault
       \/ Fault("publication") /\ Stop("candidate")
          /\ prs' \in {prs, [prs EXCEPT !.ours = @ + 1]}
    /\ UNCHANGED <<effect, evidence, bead, tree, remote, target, ran, unit, local>>

JudgePullRequest ==
    LET exact == prs = [ours |-> 1, foreign |-> FALSE] /\ remote = "candidate"
    IN /\ pc = "judge_pr"
       /\ \/ exact /\ Goto("confirm_pr")
          \/ ~exact /\ Stop("candidate")
       /\ UNCHANGED <<effect, evidence, world, unit, local, bounds>>

ConfirmPullRequest ==
    /\ pc = "confirm_pr" /\ Confirm("pr") /\ Goto("announce_pr")
    /\ UNCHANGED <<evidence, world, unit, local, bounds>>

AnnouncePullRequest ==
    /\ pc = "announce_pr"
    /\ \/ IsPublished("pr") /\ Goto("ready")
       \/ ~IsPublished("pr") /\ Publish("pr")
    /\ UNCHANGED <<effect, evidence, world, unit, local, bounds>>

\* _verify_published, and candidate.ready.
Ready ==
    /\ pc = "ready"
    /\ \/ PublishedTree /\ NoFault
          /\ Record([run EXCEPT !.checkpoint = "candidate_ready",
                                !.last = "candidate.ready"], "end")
       \/ ~PublishedTree /\ NoFault /\ Stop("candidate")
       \/ Fault("publication") /\ Stop("candidate")
    /\ UNCHANGED <<effect, evidence, world, unit, local>>

-----------------------------------------------------------------------------
(* The worker unit, and resume *)

\* A command ends and gives the lock back; the worker still has its result to record.
End ==
    /\ pc = "end" /\ Goto("idle")
    /\ unit' = IF unit = "working" THEN "ending" ELSE unit
    /\ todo' = <<>> /\ hand' = NoRuling /\ again' = FALSE
    /\ UNCHANGED <<effect, evidence, world, bounds>>

\* run_worker_unit: worker.terminal, once the lock is free; another command may have
\* worked on the Run in between.
RecordTerminal ==
    /\ unit = "ending" /\ pc = "idle" /\ unit' = "gone"
    /\ run' = [run EXCEPT !.exit = TRUE, !.last = "worker.terminal"]
    /\ UNCHANGED <<effect, evidence, world, pc, local, bounds>>

\* Wrong: an attempt is taken up again only when it has ended.
AttemptReadyEnded ==
    \/ run.checkpoint = "change_committed" /\ Current.status = "completed"
    \/ run.checkpoint = "worktree_ready" /\ Current.status = "completed"
    \/ /\ run.checkpoint = "worktree_ready" /\ Current # NoAttempt
       /\ NextId(Current) # 0 /\ Current.status = "interrupted"

\* _implementation_attempt_resume_ready
AttemptReady ==
    \/ run.checkpoint = "change_committed" /\ Current.status = "completed"
    \/ run.checkpoint = "worktree_ready" /\ Current.status \in {"started", "completed"}
    \/ /\ run.checkpoint = "worktree_ready" /\ Current.status = "interrupted"
       /\ NextId(Current) # 0

\* _candidate_resume_ready
CandidateReady ==
    run.checkpoint \in {"worktree_ready", "change_committed"} /\ run.scope = "candidate"

\* _bead_claim_resume_ready
ClaimReady ==
    run.checkpoint = "created" /\ (run.last = "worker.launched" \/ effect.claim # "none")

\* The order in which resume_run tries its branches: the first row that applies gives the
\* next step and the phases behind it.
Branches == <<
    <<run.last = "lifecycle.signal_interrupted", "alert_signal", <<>>>>,
    <<run.last \in {"bead.claimed", "bead.claim_reconciled"}, "claim", <<"worktree">>>>,
    <<run.scope = "bead_claim", "claim", <<"worktree">>>>,
    <<run.last \in {"worktree.ready", "worktree.reconciled"}, "worktree", <<"candidate">>>>,
    <<run.scope = "worktree", "worktree", <<>>>>,
    <<AttemptReady, "candidate", <<>>>>,
    <<run.exit /\ CandidateReady, "candidate", <<>>>>,
    <<run.exit, "idle", <<>>>>,
    <<unit = "ending", "note_unit", <<>>>>,
    <<ClaimReady, "claim", <<>>>>,
    <<CandidateReady, "candidate", <<>>>>,
    <<TRUE, "alert_worker", <<>>>> >>

Branch == Branches[CHOOSE i \in DOMAIN Branches :
                      Branches[i][1] /\ \A j \in 1 .. i - 1 : ~Branches[j][1]]

\* _open_implementation_attempt: an attempt starts behind nothing or behind one that lets
\* it, and ends as the one that was open.
AttemptsValid ==
    \A i \in DOMAIN run.attempts :
        LET prior == Last(SubSeq(run.attempts, 1, i - 1))
            this  == run.attempts[i]
        IN IF this.status = "started" THEN this.id = NextId(prior)
           ELSE prior.status = "started" /\ this.id = prior.id

\* _candidate_publication_invalid, _candidate_pr_publication_invalid
PublicationsValid ==
    /\ \A i, j \in DOMAIN run.published : i # j => run.published[i] # run.published[j]
    /\ run.published # <<>> => run.checkpoint \in {"change_committed", "candidate_ready"}

PreflightValid == AttemptsValid /\ PublicationsValid

\* A Run that requires attention must have an attention episode; a signal opens none.
EpisodeValid == run.last = "lifecycle.signal_interrupted" => run.episode

Resumable == pc = "idle" /\ unit # "working" /\ run.checkpoint # "candidate_ready"

Resume ==
    /\ Resumable /\ EpisodeValid /\ PreflightValid
    /\ Branch[2] # "idle" /\ Goto(Branch[2]) /\ todo' = Branch[3]
    /\ UNCHANGED <<effect, evidence, world, unit, hand, again, bounds>>

\* systemctl gives no answer: reached only when none of the rows before the unit applies.
UnitUnknown ==
    /\ Resumable /\ EpisodeValid /\ PreflightValid
    /\ \A i \in 1 .. 8 : ~Branches[i][1]
    /\ Fault("unit") /\ Stop("worker_launch")
    /\ UNCHANGED <<effect, evidence, world, unit, local>>

\* worker.launch_reconciled: the unit is still active.
NoteUnit ==
    /\ pc = "note_unit"
    /\ \/ run.last \in {"worker.launched", "worker.launch_reconciled"} /\ Goto("end")
       \/ run.last \notin {"worker.launched", "worker.launch_reconciled"}
          /\ Record([run EXCEPT !.last = "worker.launch_reconciled"], "end")
    /\ UNCHANGED <<effect, evidence, world, unit, local, bounds>>

\* The next resume turns a signal into an attention episode.
AlertSignal ==
    /\ pc = "alert_signal" /\ Stop("lifecycle")
    /\ UNCHANGED <<effect, evidence, world, unit, local, bounds>>

AlertWorker ==
    /\ pc = "alert_worker" /\ Stop("worker_launch")
    /\ UNCHANGED <<effect, evidence, world, unit, local, bounds>>

-----------------------------------------------------------------------------
(* Failures, and what others do to the Bead, the worktree, the branches and the PRs *)

CutOff ==
    /\ pc # "idle" /\ crashes < MaxCrashes
    /\ crashes' = crashes + 1 /\ UNCHANGED faults
    /\ unit' = IF unit = "working" THEN "gone" ELSE unit
    /\ todo' = <<>> /\ hand' = NoRuling /\ again' = FALSE
    /\ UNCHANGED <<effect, evidence, world>>

Crash == CutOff /\ Goto("idle")

\* SIGTERM or SIGINT: the command still records the signal.
Signal ==
    /\ CutOff
    /\ Record([run EXCEPT !.scope = "lifecycle", !.last = "lifecycle.signal_interrupted"],
              "idle")

\* The worker dies between its last stage and worker.terminal.
UnitDies ==
    /\ unit = "ending" /\ unit' = "gone" /\ crashes < MaxCrashes
    /\ crashes' = crashes + 1
    /\ UNCHANGED <<durable, world, pc, local, faults>>

OthersAct ==
    /\ Fault("others")
    /\ \/ bead' \in {"open", "other"} \ {bead} /\ UNCHANGED <<tree, remote, target, prs>>
       \/ tree \in {"base", "commit"} /\ tree' = "dirty"
          /\ UNCHANGED <<bead, remote, target, prs>>
       \/ remote # "foreign" /\ remote' = "foreign" /\ UNCHANGED <<bead, tree, target, prs>>
       \/ target = "base" /\ target' = "moved" /\ UNCHANGED <<bead, tree, remote, prs>>
       \/ remote # "absent" /\ ~prs.foreign /\ prs' = [prs EXCEPT !.foreign = TRUE]
          /\ UNCHANGED <<bead, tree, remote, target>>
    /\ UNCHANGED <<durable, ran, unit, pc, local>>

-----------------------------------------------------------------------------
ClaimStep == Claim \/ ShowBead \/ TakeBead \/ ShowAgain \/ ConfirmClaim \/ RecordClaim

WorktreeStep == Worktree \/ BeginAdd \/ EndAdd \/ ConfirmWorktree \/ RecordWorktree

AttemptStep ==
    \/ Candidate \/ StartAttempt \/ WritePrompt
    \/ \E t \in {"base", "dirty", "commit"} : StartAgent(t)
    \/ \E r \in Reports : AgentReports(r)
    \/ AgentIsSilent \/ AgentFails \/ Accept \/ SealReport \/ FinishAttempt
    \/ WriteRuling \/ SealRuling \/ InterruptAttempt \/ AfterInterruption \/ Recover

PublishStep ==
    \/ Verify \/ ObserveBranch \/ Push \/ ConfirmPush \/ AnnounceBranch
    \/ ObservePullRequest \/ CreatePullRequest \/ JudgePullRequest
    \/ ConfirmPullRequest \/ AnnouncePullRequest \/ Ready

Step ==
    \/ ClaimStep \/ WorktreeStep \/ AttemptStep \/ PublishStep
    \/ End \/ NoteUnit \/ AlertSignal \/ AlertWorker

Next ==
    \/ Step \/ RecordTerminal \/ Resume \/ UnitUnknown
    \/ Crash \/ Signal \/ UnitDies \/ OthersAct

\* A command that runs goes on: its subprocesses have time limits.  The worker retries
\* worker.terminal until it has the lock, and the operator repeats afk resume.
Spec ==
    Init /\ [][Next]_vars
    /\ WF_vars(Step) /\ SF_vars(RecordTerminal) /\ SF_vars(Resume)

-----------------------------------------------------------------------------
(* Properties *)

Steps == {"idle", "end", "claim", "show", "take", "show_again", "confirm_claim",
          "record_claim", "worktree", "add", "adding", "confirm_worktree",
          "record_worktree", "candidate", "start_attempt", "prompt", "agent",
          "agent_works", "accept", "seal_report", "finish_attempt", "write_ruling",
          "seal_ruling", "interrupt", "interrupted", "recover", "verify", "push",
          "pushing", "confirm_push", "announce_branch", "pr", "create_pr", "judge_pr",
          "confirm_pr", "announce_pr", "ready", "note_unit", "alert_signal",
          "alert_worker"}

Rulings  == [why : {"none", "no report", "rejected", "no evidence", "no end", "budget",
                    "partial", "dirty", "commit"}, retryable : BOOLEAN]
Attempts == [id : Ids, status : {"started", "completed", "interrupted"},
             retryable : BOOLEAN]

\* Every variable holds what the code can put into it: there are two attempts, and at most
\* one pull request of ours for every time that no one was found.
TypeOK ==
    /\ run.checkpoint \in {"created", "claimed", "worktree_ready", "change_committed",
                           "candidate_ready"}
    /\ run.scope \in {"none", "bead_claim", "worktree", "candidate", "worker_launch",
                      "lifecycle"}
    /\ run.attempts \in Seq(Attempts) /\ run.published \in Seq({"branch", "pr"})
    /\ run.episode \in BOOLEAN /\ run.exit \in BOOLEAN
    /\ effect \in [{"claim", "worktree", "push", "pr"} -> {"none", "prepared", "confirmed"}]
    /\ evidence \in [Ids -> [dir : BOOLEAN, report : Reports \cup {"none"},
                             recovery : Rulings, sealed : BOOLEAN]]
    /\ bead \in {"open", "ours", "other"}
    /\ tree \in {"absent", "partial", "base", "dirty", "commit"}
    /\ remote \in {"absent", "candidate", "foreign"} /\ target \in {"base", "moved"}
    /\ prs \in [ours : Nat, foreign : BOOLEAN]
    /\ unit \in {"working", "ending", "gone"} /\ ran \subseteq Ids
    /\ pc \in Steps /\ todo \in Seq(Phases) /\ hand \in Rulings /\ again \in BOOLEAN
    /\ faults \in 0 .. MaxFaults /\ crashes \in 0 .. MaxCrashes

\* Whatever AFK did to the tracker, the repository or GitHub was announced by a durable
\* Effect before, and what the Event History claims was confirmed before: a restart knows
\* which mutations it has to look for.
EffectsLead ==
    /\ bead = "ours" => effect.claim # "none"
    /\ tree # "absent" => effect.worktree # "none"
    /\ remote = "candidate" => effect.push # "none"
    /\ prs.ours > 0 => effect.pr # "none"
    /\ run.checkpoint # "created" => effect.claim = "confirmed"
    /\ HasWorktree => effect.worktree = "confirmed"
    /\ IsPublished("branch") => effect.push = "confirmed"
    /\ IsPublished("pr") => effect.pr = "confirmed"

\* gh pr create may create the pull request and fail: it is found and not created again.
CreatedOnce == prs.ours <= 1

\* A restart knows what may have been done, finds it, and does it no second time.
EffectsCoverTheWorld == EffectsLead /\ CreatedOnce

\* The agent is started once for each attempt, and a second time only when the first
\* attempt is sealed as one that may be repeated, and never behind a published commit.
AttemptsSpentOnce ==
    [][pc = "agent" /\ pc' = "agent_works" =>
          /\ Current.id \notin ran /\ remote # "candidate"
          /\ Current.id = 2 => evidence[1].sealed /\ evidence[1].recovery.retryable]_vars

\* What the Event History says about an attempt is what its sealed evidence says.
RecordTellsEvidence ==
    \A i \in DOMAIN run.attempts :
        LET a == run.attempts[i]
            e == evidence[a.id]
        IN /\ a.status = "completed" =>
                  e.sealed /\ e.report = "completed" /\ e.recovery = NoRuling
           /\ a.status = "interrupted" =>
                  e.sealed /\ e.recovery # NoRuling /\ e.recovery.retryable = a.retryable

\* The preflight of resume accepts every history that AFK writes, wherever a command was
\* cut off and however often steps were repeated.
PreflightAccepts == PreflightValid

\* A Bead that someone else has taken is not taken from them, and a push never overwrites a
\* branch head that AFK did not put there.
OthersKept ==
    [][/\ remote = "foreign" => remote' = "foreign"
       /\ bead = "other" => bead' # "ours"]_vars

\* A person is needed: the attempts are used up or ruled out; others changed what AFK
\* relies on; git left half a worktree; a ruling was written that a restart contradicts; or
\* the record on which resume would go on is covered by a later one before an attempt
\* exists.
Refused   == Current.status = "interrupted" /\ NextId(Current) = 0
Disturbed ==
    \/ bead = "other" \/ tree = "dirty" \/ remote = "foreign"
    \/ target = "moved" \/ prs.foreign
HalfMade  == tree = "partial"
Ambiguous ==
    /\ Current.status = "started" /\ ~evidence[Current.id].sealed
    /\ evidence[Current.id].recovery \notin {NoRuling, Verdict(Current.id)}
Covered ==
    /\ run.attempts = <<>>
    /\ \/ run.scope \in {"lifecycle", "worker_launch"}
       \/ run.last \in {"worker.terminal", "worker.launch_reconciled"} /\ run.scope = "none"
NeedsPerson ==
    Refused \/ Disturbed \/ HalfMade \/ Ambiguous \/ Covered \/ ~EpisodeValid

\* "Records the facts needed to resume safely after interruption": a Run whose commands
\* fail and die is brought to its Candidate by repeating afk resume, or needs a person.
Recovers == <>[](run.checkpoint = "candidate_ready" \/ NeedsPerson)

(* Statements of the documents that the code does not meet *)

\* README: the facts needed to resume are recorded.  A ruling that was being written when
\* the command died is the one that the next resume comes to.
RulingIsReproducible ==
    pc = "write_ruling" => evidence[Current.id].recovery \in {NoRuling, hand}
=============================================================================
