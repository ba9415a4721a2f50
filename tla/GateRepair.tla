------------------------------ MODULE GateRepair ------------------------------
(***************************************************************************)
(* Validation, Gate Cycles and repairs of one Run (start.py, candidate.py, *)
(* candidate_gate.py, candidate_validation.py): from the published         *)
(* Candidate to "reviewed", or to a stop that needs a person.              *)
(*                                                                         *)
(* One command at a time works on the Run, under the lock of RunStore.  It *)
(* may die between any two durable or external effects, and its calls to   *)
(* git, gh and Codex may fail.  afk resume then picks its next step from   *)
(* the projection of the Event History and from the evidence on disk.      *)
(***************************************************************************)
EXTENDS Integers, Sequences, FiniteSets

CONSTANTS
    MaxRepairs,   \* repair slots of a Run (4 in the code)
    MaxComments,  \* Gate evidence comments of a Run (MAX_GATE_COMMENTS)
    Axes,         \* review axes (REVIEW_AXES)
    Faults,       \* the kinds of failures that happen, a subset of FaultKinds
    MaxFaults,    \* bound: failures per behaviour
    MaxCrashes    \* bound: crashes and signals per behaviour

FaultKinds == {"publication", "validation", "comment", "agent", "push", "foreign"}

ASSUME GateConstants ==
    /\ MaxRepairs \in Nat \ {0} /\ MaxComments \in Nat
    /\ MaxFaults \in Nat /\ MaxCrashes \in Nat
    /\ Faults \subseteq FaultKinds

\* Candidate 0 is the implementation's; Candidate k is the commit of repair slot k.
Candidates == 0 .. MaxRepairs
Slots      == 1 .. MaxRepairs
None       == -1
Foreign    == MaxRepairs + 1    \* a commit that someone else pushed to the Run branch
Dirty      == MaxRepairs + 2    \* a worktree that is no clean Candidate

Verdicts == {"passed", "rejected", "inconclusive"}
Errors   == {"interrupted", "head_mismatch", "invalid"}

\* A Repair Brief names the rejected Candidate and the slot that pays for its repair.
Brief(c, n) == [candidate |-> c, slot |-> n]
NoBrief     == Brief(None, 0)

\* outcome.json of a Gate Cycle; stop stands for its stop_reason.
NoOutcome   == [cycle |-> 0, retry |-> 0, candidate |-> None, action |-> "attention",
                stop |-> FALSE]
BriefOf(o)  == Brief(o.candidate, o.cycle)
Marker(o)   == [cycle |-> o.cycle, retry |-> o.retry]

Attention(scope, kind) == [scope |-> scope, kind |-> kind]
Result(c, status)      == [candidate |-> c, status |-> status]
Interruption(c, n, status) == [candidate |-> c, slot |-> n, status |-> status]
NoAttention == Attention("none", "none")
NoResult    == Result(None, "none")
NoRetry     == [candidate |-> None, retry |-> 0]
NoInterruption == Interruption(None, 0, "none")

NoGate == [bundle |-> "absent", reviews |-> [a \in Axes |-> "absent"],
           sealed |-> NoOutcome, drift |-> FALSE]

VARIABLES
    run,        \* the projection of the Event History
    (* evidence on disk *)
    verdict,    \* verdict in the sealed evidence of the last validation attempt
    slot,       \* per slot: attempts/repair-<n>
    gate,       \* evidence of the Gate Cycle that is not recorded yet
    confirmed,  \* markers whose comment Effect is confirmed
    pushed,     \* Candidates whose push Effect is confirmed
    (* the world *)
    tree,       \* HEAD of the Run worktree, or Dirty
    remote,     \* head of the Run branch on the remote, which the PR follows
    comments,   \* markers of the comments on the PR, in order
    (* the running command *)
    pc,         \* its next step; "idle" when none runs
    hand,       \* the outcome it acts on
    retry,      \* the Gate retry it works on
    thenGate,   \* its validation is to be followed by the gate
    faults, crashes

evidence == <<verdict, slot, gate, confirmed, pushed>>
world    == <<tree, remote, comments>>
local    == <<hand, retry, thenGate>>
bounds   == <<faults, crashes>>
vars     == <<run, evidence, world, pc, local, bounds>>

\* The Candidate was just published: produce_candidate recorded candidate.ready, behind
\* publication records that leave the attention empty; the episode of an earlier attention
\* stays projected.
Init ==
    /\ \E episode \in BOOLEAN :
          run = [checkpoint |-> "candidate_ready", last |-> "candidate.ready",
                 attention |-> NoAttention, episode |-> episode, candidate |-> 0,
                 published |-> 0, validation |-> NoResult, attempt |-> NoResult,
                 used |-> 0, brief |-> NoBrief, open |-> {},
                 interrupted |-> NoInterruption, cycles |-> <<>>, authorized |-> NoRetry]
    /\ verdict = "none" /\ slot = [n \in Slots |-> "absent"] /\ gate = NoGate
    /\ confirmed = {} /\ pushed = {0}
    /\ tree = 0 /\ remote = 0 /\ comments = <<>>
    /\ pc = "check" /\ hand = NoOutcome /\ retry = 0 /\ thenGate = TRUE
    /\ faults = 0 /\ crashes = 0

-----------------------------------------------------------------------------
(* What every step is made of *)

\* A durable record of the Event History, and the next step.
Record(projection, next) == run' = projection /\ pc' = next

\* _attention: the command records why it stops, and ends.
Stop(projection, scope, kind) ==
    Record([projection EXCEPT !.attention = Attention(scope, kind), !.episode = TRUE,
                              !.last = "run.attention_required"], "idle")

Goto(next) == pc' = next /\ UNCHANGED run

\* A failure that the environment injects.
Fault(kind) ==
    /\ kind \in Faults /\ faults < MaxFaults
    /\ faults' = faults + 1 /\ UNCHANGED crashes

NoFault == UNCHANGED bounds

\* verify_candidate_publication: worktree, remote branch and PR agree on the Candidate.
Published(c) == tree = c /\ remote = c
Unpublished(c, kind) ==
    \/ kind = "head_mismatch" /\ ~Published(c) /\ NoFault
    \/ kind = "inconclusive" /\ Fault("publication")

LastCycle == IF run.cycles = <<>> THEN NoOutcome ELSE run.cycles[Len(run.cycles)]
Occurs(marker) == Cardinality({i \in DOMAIN comments : comments[i] = marker})

-----------------------------------------------------------------------------
(* Validation *)

\* Wrong: waits for the heads to agree.
CheckPublicationWaits ==
    /\ pc = "check"
    /\ \/ Published(run.candidate) /\ Goto("start_validation") /\ NoFault
       \/ ~Published(run.candidate) /\ Goto("check") /\ NoFault
       \/ Fault("publication") /\ Stop(run, "candidate", "inconclusive")
    /\ thenGate' = TRUE
    /\ UNCHANGED <<evidence, world, hand, retry>>

CheckPublication ==
    /\ pc = "check"
    /\ \/ Published(run.candidate) /\ Goto("start_validation") /\ NoFault
       \/ \E kind \in {"head_mismatch", "inconclusive"} :
             Unpublished(run.candidate, kind) /\ Stop(run, "candidate", kind)
    /\ thenGate' = TRUE
    /\ UNCHANGED <<evidence, world, hand, retry>>

StartValidation ==
    /\ pc = "start_validation"
    /\ Record([run EXCEPT !.checkpoint = "candidate_ready",
                          !.attempt = Result(run.candidate, "started"),
                          !.last = "validation.attempt_started"], "validate")
    /\ verdict' = "none"
    /\ UNCHANGED <<slot, gate, confirmed, pushed, world, local, bounds>>

\* The harness ran on the immutable Candidate and its evidence is sealed.
Validate(v) ==
    /\ pc = "validate" /\ tree = run.candidate
    /\ verdict' = v /\ Goto("finish_validation")
    /\ UNCHANGED <<slot, gate, confirmed, pushed, world, local, bounds>>

ValidationFails(error) ==
    /\ pc = "validate" /\ Fault("validation")
    /\ Record([run EXCEPT !.attempt.status = error,
                          !.last = "validation.attempt_finished"], "alert_validation")
    /\ UNCHANGED <<evidence, world, local>>

FinishValidation ==
    /\ pc = "finish_validation"
    /\ Record([run EXCEPT !.attempt.status = verdict,
                          !.last = "validation.attempt_finished"], "record_validation")
    /\ UNCHANGED <<evidence, world, local, bounds>>

\* validation.passed leaves the attention alone, validation.rejected clears it.
RecordValidation ==
    LET validated == [run EXCEPT !.validation = Result(run.attempt.candidate, verdict)]
        next      == IF thenGate THEN "gate" ELSE "idle"
    IN /\ pc = "record_validation"
       /\ \/ /\ verdict = "passed"
             /\ Record([validated EXCEPT !.checkpoint = "validated",
                                         !.last = "validation.passed"], next)
          \/ /\ verdict = "rejected"
             /\ Record([validated EXCEPT !.checkpoint = "candidate_ready",
                                         !.attention = NoAttention,
                                         !.last = "validation.rejected"], next)
          \/ verdict = "inconclusive" /\ Stop(validated, "validation", verdict)
       /\ UNCHANGED <<evidence, world, hand, bounds>>
       /\ retry' = 0 /\ thenGate' = TRUE

\* An attempt without sealed verdict that a resume finds open.
InterruptValidation ==
    /\ pc = "interrupt_validation"
    /\ Record([run EXCEPT !.attempt.status = "interrupted",
                          !.last = "validation.attempt_finished"], "alert_validation")
    /\ UNCHANGED <<evidence, world, local, bounds>>

AlertValidation ==
    /\ pc = "alert_validation"
    /\ Stop([run EXCEPT !.checkpoint = "candidate_ready"], "validation", run.attempt.status)
    /\ UNCHANGED <<evidence, world, local, bounds>>

-----------------------------------------------------------------------------
(* The Gate Cycle *)

Conclusive == /\ run.validation.candidate = run.candidate
              /\ run.validation.status \in {"passed", "rejected"}

Reviewing == run.validation.status = "passed"

\* The outcome of this cycle, if its evidence is sealed: a resume may come back to a cycle
\* that is recorded.
Outcome == {o \in {gate.sealed} \cup {run.cycles[i] : i \in DOMAIN run.cycles} :
               o.cycle = run.used + 1 /\ o.retry = retry /\ o.candidate = run.candidate}

\* complete_gate_cycle up to the evidence: what it refuses, and where it takes up.
GateRefuses(kind) ==
    /\ pc = "gate"
    /\ \/ kind = "exhausted" /\ Len(run.cycles) >= MaxComments /\ NoFault
       \/ Len(run.cycles) < MaxComments /\ Unpublished(run.candidate, kind)
       \/ /\ Len(run.cycles) < MaxComments /\ Published(run.candidate) /\ NoFault
          /\ \/ kind = "invalid" /\ ((gate.drift /\ Outcome = {}) \/ ~Conclusive)
             \/ kind = "unavailable" /\ Conclusive /\ gate.bundle = "writing" /\ Outcome = {}
    /\ Stop(run, "gate", kind)
    /\ UNCHANGED <<evidence, world, local>>

GateEnter ==
    /\ pc = "gate" /\ Len(run.cycles) < MaxComments
    /\ Published(run.candidate) /\ Conclusive
    /\ \/ hand' \in Outcome /\ Goto("publish") /\ UNCHANGED gate
       \/ Outcome = {} /\ ~gate.drift /\ UNCHANGED hand
          /\ \/ ~Reviewing /\ Goto("decide") /\ UNCHANGED gate
             \/ Reviewing /\ gate.bundle = "absent" /\ Goto("bundle")
                /\ gate' = [gate EXCEPT !.bundle = "writing"]
             \/ Reviewing /\ gate.bundle = "sealed" /\ Goto("review")
                /\ UNCHANGED gate
    /\ UNCHANGED <<verdict, slot, confirmed, pushed, world, retry, thenGate, bounds>>

SealBundle ==
    /\ pc = "bundle" /\ Goto("review")
    /\ gate' = [gate EXCEPT !.bundle = "sealed"]
    /\ UNCHANGED <<verdict, slot, confirmed, pushed, world, local, bounds>>

Review(axis, from, to, next) ==
    /\ gate.reviews[axis] = from /\ Goto(next)
    /\ gate' = [gate EXCEPT !.reviews[axis] = to]
    /\ UNCHANGED <<verdict, slot, confirmed, pushed, world, local, bounds>>

StartReview(axis) ==
    /\ pc = "review" /\ \A a \in Axes : gate.reviews[a] # "started"
    /\ Review(axis, "absent", "started", "reviewing")

FinishReview(axis, result) ==
    pc = "reviewing" /\ Review(axis, "started", result, "review")

\* A review that a crash cut off counts as inconclusive.
RecoverReview(axis) ==
    pc = "review" /\ Review(axis, "started", "inconclusive", "review")

ReviewsDone ==
    /\ pc = "review" /\ \A a \in Axes : gate.reviews[a] \in Verdicts
    /\ Goto("decide")
    /\ UNCHANGED <<evidence, world, local, bounds>>

Reviewed(status) == Reviewing /\ \E a \in Axes : gate.reviews[a] = status
Rejected         == ~Reviewing \/ Reviewed("rejected")

\* Wrong: a review without result is no objection.
NextActionLenient ==
    IF Rejected THEN IF run.used < MaxRepairs THEN "repair" ELSE "attention"
    ELSE "complete"

NextAction ==
    IF Reviewed("inconclusive") THEN "attention"
    ELSE IF Rejected THEN IF run.used < MaxRepairs THEN "repair" ELSE "attention"
    ELSE "complete"

Decide ==
    LET outcome == [cycle |-> run.used + 1, retry |-> retry, candidate |-> run.candidate,
                    action |-> NextAction,
                    stop |-> NextAction = "attention" /\ run.used >= MaxRepairs /\ Rejected]
    IN /\ pc = "decide"
       /\ \/ /\ Published(run.candidate) /\ NoFault
             /\ gate' = [gate EXCEPT !.sealed = outcome] /\ hand' = outcome
             /\ Goto("publish")
          \/ /\ \E kind \in {"head_mismatch", "inconclusive"} :
                   Unpublished(run.candidate, kind) /\ Stop(run, "gate", kind)
             /\ gate' = [gate EXCEPT !.drift = Reviewing] /\ UNCHANGED hand
       /\ UNCHANGED <<verdict, slot, confirmed, pushed, world, retry, thenGate>>

Publish ==
    /\ pc = "publish"
    /\ \/ Published(run.candidate) /\ NoFault /\ Goto("comment")
       \/ \E kind \in {"head_mismatch", "inconclusive"} :
             Unpublished(run.candidate, kind) /\ Stop(run, "gate", kind)
    /\ UNCHANGED <<evidence, world, local>>

\* reconcile_gate_comment: look for the marker, post it when it is not there, confirm.
Comment ==
    LET marker == Marker(hand)
        fails  == Fault("comment") /\ Stop(run, "gate", "inconclusive")
    IN /\ pc = "comment"
       /\ \/ Occurs(marker) = 1 /\ Goto("confirm_comment") /\ NoFault /\ UNCHANGED comments
          \/ /\ Occurs(marker) = 0 /\ marker \notin confirmed
             /\ comments' = Append(comments, marker)
             /\ (Goto("confirm_comment") /\ NoFault) \/ fails
          \/ /\ Occurs(marker) > 1 \/ (Occurs(marker) = 0 /\ marker \in confirmed)
             /\ Stop(run, "gate", "conflict") /\ NoFault /\ UNCHANGED comments
          \/ fails /\ UNCHANGED comments
       /\ UNCHANGED <<evidence, tree, remote, local>>

ConfirmComment ==
    /\ pc = "confirm_comment" /\ Goto("record_cycle")
    /\ confirmed' = confirmed \cup {Marker(hand)}
    /\ UNCHANGED <<verdict, slot, gate, pushed, world, local, bounds>>

\* A cycle that is recorded is not recorded again.
Told == \E i \in DOMAIN run.cycles :
            Marker(run.cycles[i]) = Marker(hand) /\ run.cycles[i].candidate = run.candidate

RecordCycle ==
    LET checkpoint == IF hand.action = "complete" THEN "reviewed"
                      ELSE IF Reviewing THEN "validated" ELSE "candidate_ready"
    IN /\ pc = "record_cycle"
       /\ \/ Told /\ Goto("decided") /\ UNCHANGED gate
          \/ /\ ~Told /\ gate' = NoGate
             /\ Record([run EXCEPT !.checkpoint = checkpoint, !.cycles = Append(@, hand),
                                   !.authorized = NoRetry, !.attention = NoAttention,
                                   !.last = "gate.cycle_completed"], "decided")
       /\ UNCHANGED <<verdict, slot, confirmed, pushed, world, local, bounds>>

-----------------------------------------------------------------------------
(* After the Gate Cycle *)

\* A resume first looks for the comment of the cycle again.
Reobserve(next) ==
    /\ \/ Occurs(Marker(LastCycle)) = 1 /\ next /\ NoFault
       \/ Fault("comment") /\ Stop(run, "gate", "inconclusive")
    /\ hand' = LastCycle
    /\ UNCHANGED <<evidence, world, thenGate>>

ReobserveComment ==
    pc = "reobserve" /\ Reobserve(Goto("decided")) /\ UNCHANGED retry

\* A person's note authorizes another review of the same Candidate.
AuthorizeRetry ==
    LET prior == {run.cycles[i].retry : i \in {j \in DOMAIN run.cycles :
                     BriefOf(run.cycles[j]) = BriefOf(LastCycle)}}
        next  == 1 + CHOOSE r \in prior : \A q \in prior : q <= r
    IN /\ pc = "authorize"
       /\ Reobserve(Record([run EXCEPT !.checkpoint = "validated", !.attention = NoAttention,
                                       !.authorized = [candidate |-> run.candidate,
                                                       retry |-> next],
                                       !.last = "gate.retry_authorized"], "gate"))
       /\ retry' = next

\* _advance_completed_gate.
Decided ==
    LET exhausted == /\ hand.action # "complete" /\ ~hand.stop
                     /\ Len(run.cycles) >= MaxComments
    IN /\ pc = "decided"
       /\ \/ hand.action = "complete" /\ Goto("idle")
          \/ exhausted /\ Stop(run, "gate", "exhausted")
          \/ /\ hand.action = "attention" /\ ~exhausted
             /\ Stop(run, "gate", IF hand.stop THEN "exhausted" ELSE "inconclusive")
          \/ hand.action = "repair" /\ ~exhausted /\ Goto("repair")
       /\ UNCHANGED <<evidence, world, local, bounds>>

-----------------------------------------------------------------------------
(* Repairs *)

\* produce_repair_candidate: a slot that was never used is taken, a sealed report is
\* adopted, anything else is refused.
Bound(b) == run.used = b.slot /\ run.brief = b

RepairRefused ==
    LET b == BriefOf(hand)
    IN /\ pc = "repair"
       /\ \/ b.candidate # run.candidate /\ Stop(run, "repair", "invalid")
          \/ /\ b.candidate = run.candidate /\ slot[b.slot] # "absent"
             /\ ~Bound(b) \/ slot[b.slot] # "report"
             /\ Stop(run, "repair", "inconclusive")
       /\ UNCHANGED <<evidence, world, local, bounds>>

AdoptReport ==
    LET b == BriefOf(hand)
    IN /\ pc = "repair" /\ b.candidate = run.candidate
       /\ slot[b.slot] = "report" /\ Bound(b)
       /\ Goto("finish_repair")
       /\ UNCHANGED <<evidence, world, local, bounds>>

StartRepair ==
    LET b == BriefOf(hand)
    IN /\ pc = "repair" /\ b.candidate = run.candidate /\ slot[b.slot] = "absent"
       /\ Record([run EXCEPT !.used = b.slot, !.brief = b, !.open = @ \cup {b},
                             !.interrupted = NoInterruption,
                             !.last = "repair.started"], "agent")
       /\ UNCHANGED <<evidence, world, local, bounds>>

Agent(from, to, head, next) ==
    /\ slot[run.used] = from /\ slot' = [slot EXCEPT ![run.used] = to] /\ tree' = head
    /\ next
    /\ UNCHANGED <<verdict, gate, confirmed, pushed, remote, comments, local>>

AgentStarts ==
    pc = "agent" /\ Agent("absent", "started", Dirty, Goto("agent_works")) /\ NoFault

\* The report may not match what the worktree holds.
AgentReports(head) ==
    /\ pc = "agent_works"
    /\ IF head = run.used THEN NoFault ELSE Fault("agent")
    /\ Agent("started", "report", head, Goto("finish_repair"))

AgentFails ==
    /\ pc = "agent_works" /\ Fault("agent")
    /\ Agent("started", "failed", Dirty, Stop(run, "repair", "inconclusive"))

\* _finish_repair_candidate: check the commit, then push it with a lease on the Candidate.
FinishRepair ==
    /\ pc = "finish_repair"
    /\ IF tree = run.used THEN Goto("push") ELSE Stop(run, "repair", "inconclusive")
    /\ UNCHANGED <<evidence, world, local, bounds>>

ObserveRemote ==
    LET n         == run.used
        conflict  == remote \notin {n, run.candidate} \/ (n \in pushed /\ remote # n)
    IN /\ pc = "push"
       /\ \/ conflict /\ Stop(run, "repair", "conflict")
          \/ ~conflict /\ n \in pushed /\ Goto("announce")
          \/ ~conflict /\ n \notin pushed
             /\ Goto(IF remote = n THEN "confirm_push" ELSE "pushing")
       /\ UNCHANGED <<evidence, world, local, bounds>>

\* Wrong: git push --force.
PushForce ==
    LET fails == Stop(run, "repair", "inconclusive")
    IN /\ pc = "pushing"
       /\ \/ remote' = run.used /\ Goto("confirm_push") /\ NoFault
          \/ fails /\ Fault("push") /\ remote' \in {remote, run.used}
       /\ UNCHANGED <<evidence, tree, comments, local>>

\* git push --force-with-lease, then another look at the remote.
Push ==
    LET fails == Stop(run, "repair", "inconclusive")
    IN /\ pc = "pushing"
       /\ \/ remote = run.candidate /\ remote' = run.used /\ Goto("confirm_push") /\ NoFault
          \/ remote = run.candidate /\ remote' = run.used /\ fails /\ Fault("push")
          \/ remote # run.candidate /\ fails /\ NoFault /\ UNCHANGED remote
          \/ fails /\ Fault("push") /\ UNCHANGED remote
       /\ UNCHANGED <<evidence, tree, comments, local>>

ConfirmPush ==
    /\ pc = "confirm_push" /\ Goto("announce")
    /\ pushed' = pushed \cup {run.used}
    /\ UNCHANGED <<verdict, slot, gate, confirmed, world, local, bounds>>

Announce ==
    /\ pc = "announce"
    /\ IF run.published = run.used THEN Goto("verify_repair")
       ELSE IF run.published # run.candidate THEN Stop(run, "repair", "conflict")
       ELSE Record([run EXCEPT !.published = run.used, !.attention = NoAttention,
                               !.last = "candidate.branch_published"], "verify_repair")
    /\ UNCHANGED <<evidence, world, local, bounds>>

\* A closing record must match the open repair, or the preflight of resume refuses it.
Close(b) == IF run.open = {b} THEN {} ELSE run.open \cup {NoBrief}

VerifyRepair ==
    /\ pc = "verify_repair"
    /\ \/ /\ Published(run.used) /\ NoFault
          /\ Record([run EXCEPT !.checkpoint = "candidate_ready", !.candidate = run.used,
                                !.attention = NoAttention,
                                !.open = Close(Brief(run.candidate, run.used)),
                                !.last = "candidate.repaired"], "check")
       \/ \E kind \in {"head_mismatch", "inconclusive"} :
             Unpublished(run.used, kind) /\ Stop(run, "repair", kind)
    /\ UNCHANGED <<evidence, world, local>>

\* Wrong: the slot of an interrupted agent is given back.
SealInterruptionFrees ==
    /\ pc = "seal_interruption" /\ Goto("record_interruption")
    /\ slot' = [slot EXCEPT ![run.used] = "absent"]
    /\ UNCHANGED <<verdict, gate, confirmed, pushed, world, local, bounds>>

\* An agent that a crash cut off keeps its slot; the next slot goes on from the Candidate.
SealInterruption ==
    /\ pc = "seal_interruption" /\ Goto("record_interruption")
    /\ slot' = [slot EXCEPT ![run.used] = "interrupted"]
    /\ UNCHANGED <<verdict, gate, confirmed, pushed, world, local, bounds>>

\* Wrong: the next brief has no bound.
RecordInterruptionUnbounded ==
    /\ pc = "record_interruption"
    /\ Record([run EXCEPT !.brief = Brief(run.candidate, run.used + 1),
                          !.open = Close(Brief(run.candidate, run.used)),
                          !.interrupted = Interruption(run.candidate, run.used, "interrupted"),
                          !.last = "repair.interrupted"], "continue_repair")
    /\ UNCHANGED <<evidence, world, local, bounds>>

\* Wrong: the brief of the interrupted repair stays.
RecordInterruptionSameBrief ==
    /\ pc = "record_interruption"
    /\ Record([run EXCEPT !.open = Close(Brief(run.candidate, run.used)),
                          !.interrupted = Interruption(run.candidate, run.used, "interrupted"),
                          !.last = "repair.interrupted"], "continue_repair")
    /\ UNCHANGED <<evidence, world, local, bounds>>

RecordInterruption ==
    LET next == IF run.used < MaxRepairs THEN Brief(run.candidate, run.used + 1) ELSE NoBrief
    IN /\ pc = "record_interruption"
       /\ Record([run EXCEPT !.brief = next, !.open = Close(Brief(run.candidate, run.used)),
                             !.interrupted = Interruption(run.candidate, run.used,
                                                          "interrupted"),
                             !.last = "repair.interrupted"], "continue_repair")
       /\ UNCHANGED <<evidence, world, local, bounds>>

InterruptedReady ==
    /\ run.interrupted = Interruption(run.candidate, run.used, "interrupted")
    /\ run.brief = IF run.used < MaxRepairs THEN Brief(run.candidate, run.used + 1)
                   ELSE NoBrief

ContinueRepair ==
    /\ pc = "continue_repair" /\ InterruptedReady
    /\ \/ /\ run.used < MaxRepairs /\ tree' = run.candidate /\ remote = run.candidate
          /\ hand' = [cycle |-> run.used + 1, retry |-> 0, candidate |-> run.candidate,
                      action |-> "repair", stop |-> FALSE]
          /\ Goto("decided") /\ NoFault
       \/ /\ run.used < MaxRepairs /\ tree' = run.candidate /\ UNCHANGED hand
          /\ \/ remote # run.candidate /\ NoFault /\ Stop(run, "repair", "head_mismatch")
             \/ Fault("publication") /\ Stop(run, "repair", "inconclusive")
       \/ /\ run.used = MaxRepairs /\ NoFault /\ UNCHANGED <<tree, hand>>
          /\ Stop([run EXCEPT !.interrupted.status = "exhausted"], "repair", "exhausted")
    /\ UNCHANGED <<evidence, remote, comments, retry, thenGate>>

-----------------------------------------------------------------------------
(* Resume *)

CurrentBrief == run.brief = Brief(run.candidate, run.used)

\* Wrong: every repair that is still open counts as interrupted.
RepairInterruptedAlways == CurrentBrief

\* _repair_interruption_pending: the slot is paid for, and its evidence tells of no end.
RepairInterrupted == CurrentBrief /\ slot[run.used] \notin {"report", "failed"}

RepairExhausted ==
    /\ run.interrupted = Interruption(run.candidate, MaxRepairs, "exhausted")
    /\ run.used = MaxRepairs /\ run.brief = NoBrief

RetryPending == run.authorized.candidate = run.candidate /\ run.authorized.retry > 0

RetryAuthorized(note) ==
    /\ note /\ run.attention.kind = "inconclusive" /\ run.cycles # <<>>
    /\ LastCycle.action = "attention" /\ ~LastCycle.stop
    /\ LastCycle.candidate = run.candidate
    /\ run.validation = Result(run.candidate, "passed")

GateSealed ==
    /\ gate.sealed # NoOutcome /\ gate.sealed.retry = 0
    /\ \A i \in DOMAIN run.cycles : BriefOf(run.cycles[i]) # BriefOf(gate.sealed)

AtCandidate == run.checkpoint = "candidate_ready"

\* The order in which resume_run tries its branches: the first row that applies wins.
\* "idle" is a resume that changes nothing here: it pauses, or, once the Candidate is
\* reviewed, goes on to the integration.
Branches(note) == <<
    <<run.last = "lifecycle.signal_interrupted", "alert_signal">>,
    <<run.attempt.status = "started",
      IF verdict = "none" THEN "interrupt_validation" ELSE "finish_validation">>,
    <<AtCandidate /\ run.validation = NoResult /\ run.attempt.status \in Verdicts,
      "record_validation">>,
    <<AtCandidate /\ run.attention = NoAttention /\ run.attempt.status = "interrupted",
      "alert_validation">>,
    <<RepairInterrupted, "seal_interruption">>,
    <<RepairExhausted, "idle">>,
    <<InterruptedReady \/ run.last = "repair.interrupted", "continue_repair">>,
    <<run.checkpoint # "reviewed" /\ CurrentBrief, "reobserve">>,
    <<RetryPending, "gate">>,
    <<run.attention.scope = "gate" /\ RetryAuthorized(note), "authorize">>,
    <<run.attention.scope = "gate" /\ GateSealed, "gate">>,
    <<run.attention.scope = "gate", "idle">>,
    <<run.checkpoint = "reviewed", "idle">>,
    <<run.last = "gate.cycle_completed", "reobserve">>,
    <<run.checkpoint = "validated" \/ run.last = "validation.rejected", "gate">>,
    <<run.last \in {"candidate.repaired", "candidate.ready"}, "check">>,
    <<AtCandidate /\ run.attention.scope = "candidate", "check">>,
    <</\ AtCandidate /\ run.attention.scope = "validation"
      /\ run.attention.kind \in {"inconclusive", "interrupted", "head_mismatch"},
      "start_validation">>,
    <<TRUE, "alert_worker">> >>

Branch(note) ==
    LET rows == Branches(note)
    IN rows[CHOOSE i \in DOMAIN rows : rows[i][1] /\ \A j \in 1 .. i - 1 : ~rows[j][1]][2]

\* validate_open_attempts, the preflight of resume: every open attempt is the projected one.
PreflightValid ==
    /\ run.attempt.status = "started" => run.attempt.candidate = run.candidate
    /\ Cardinality(run.open) <= 1
    /\ \A b \in run.open : Bound(b) /\ b.candidate = run.candidate
    /\ CurrentBrief => run.open # {}

\* The preflight asks every Run that requires attention for the episode of an attention,
\* which a signal does not record.
EpisodeValid == run.last = "lifecycle.signal_interrupted" => run.episode

Resume(note) ==
    /\ pc = "idle" /\ EpisodeValid /\ PreflightValid
    /\ Branch(note) # "idle" /\ Goto(Branch(note))
    /\ retry' = IF RetryPending THEN run.authorized.retry ELSE 0
    /\ thenGate' = FALSE /\ hand' = NoOutcome
    /\ UNCHANGED <<evidence, world, bounds>>

\* Nothing else applies, and no worker unit runs that could be waited for.
AlertWorker ==
    /\ pc = "alert_worker" /\ Stop(run, "worker_launch", "inconclusive")
    /\ UNCHANGED <<evidence, world, local, bounds>>

-----------------------------------------------------------------------------
(* Failures *)

CutOff ==
    /\ pc # "idle" /\ crashes < MaxCrashes
    /\ hand' = NoOutcome /\ retry' = 0 /\ thenGate' = FALSE
    /\ crashes' = crashes + 1 /\ UNCHANGED <<evidence, world, faults>>

Crash == CutOff /\ Goto("idle")

\* SIGTERM or SIGINT: the command ends like in a crash, but it still records the signal.
Signal ==
    /\ CutOff
    /\ Record([run EXCEPT !.attention = Attention("lifecycle", "interrupted"),
                          !.last = "lifecycle.signal_interrupted"], "idle")

\* The next resume only turns the signal into an attention episode.
AlertSignal ==
    /\ pc = "alert_signal" /\ Stop(run, "lifecycle", "interrupted")
    /\ UNCHANGED <<evidence, world, local, bounds>>

\* Someone else pushes to the Run branch.
ForeignPush ==
    /\ remote # Foreign /\ Fault("foreign")
    /\ remote' = Foreign
    /\ UNCHANGED <<run, evidence, tree, comments, pc, local>>

-----------------------------------------------------------------------------
ValidationStep ==
    \/ CheckPublication \/ StartValidation \/ FinishValidation \/ RecordValidation
    \/ InterruptValidation \/ AlertValidation
    \/ \E v \in Verdicts : Validate(v)
    \/ \E e \in Errors : ValidationFails(e)

GateStep ==
    \/ GateEnter \/ SealBundle \/ ReviewsDone \/ Decide \/ Publish
    \/ Comment \/ ConfirmComment \/ RecordCycle
    \/ ReobserveComment \/ AuthorizeRetry \/ Decided
    \/ \E kind \in {"exhausted", "head_mismatch", "inconclusive", "invalid", "unavailable"} :
          GateRefuses(kind)
    \/ \E a \in Axes :
          \/ StartReview(a) \/ RecoverReview(a)
          \/ \E result \in Verdicts : FinishReview(a, result)

RepairStep ==
    \/ RepairRefused \/ AdoptReport \/ StartRepair
    \/ AgentStarts \/ AgentFails \/ FinishRepair
    \/ \E head \in {run.used, Dirty} : AgentReports(head)
    \/ ObserveRemote \/ Push \/ ConfirmPush \/ Announce \/ VerifyRepair
    \/ SealInterruption \/ RecordInterruption \/ ContinueRepair

Step == ValidationStep \/ GateStep \/ RepairStep \/ AlertWorker \/ AlertSignal

Next ==
    \/ Step
    \/ \E note \in BOOLEAN : Resume(note)
    \/ Crash \/ Signal
    \/ ForeignPush

\* A command that runs goes on: its subprocesses have time limits.
Spec == Init /\ [][Next]_vars /\ WF_vars(Step)

-----------------------------------------------------------------------------
(* Properties *)

Steps == {"idle", "check", "start_validation", "validate", "finish_validation",
          "record_validation", "interrupt_validation", "alert_validation",
          "gate", "bundle", "review", "reviewing", "decide", "publish", "comment",
          "confirm_comment", "record_cycle", "reobserve", "authorize", "decided",
          "repair", "agent", "agent_works", "finish_repair", "push", "pushing",
          "confirm_push", "announce", "verify_repair", "seal_interruption",
          "record_interruption", "continue_repair", "alert_worker", "alert_signal"}

Retries  == 0 .. MaxComments
Outcomes == [cycle : 0 .. MaxRepairs + 1, retry : Retries, candidate : Candidates \cup {None},
             action : {"complete", "repair", "attention"}, stop : BOOLEAN]
Briefs   == [candidate : Candidates \cup {None}, slot : 0 .. MaxRepairs]
Results  == [candidate : Candidates \cup {None},
             status : Verdicts \cup Errors \cup {"none", "started"}]

\* Every variable holds what the code can put into it: no slot beyond the budget, no
\* cycle beyond the last slot, no commit that no one made.
TypeOK ==
    /\ run.checkpoint \in {"candidate_ready", "validated", "reviewed"}
    /\ run.candidate \in Candidates /\ run.published \in Candidates
    /\ run.validation \in Results /\ run.attempt \in Results /\ run.episode \in BOOLEAN
    /\ run.used \in 0 .. MaxRepairs /\ run.brief \in Briefs /\ run.open \subseteq Briefs
    /\ run.interrupted \in [candidate : Candidates \cup {None}, slot : 0 .. MaxRepairs,
                            status : {"none", "interrupted", "exhausted"}]
    /\ run.cycles \in Seq(Outcomes)
    /\ run.authorized \in [candidate : Candidates \cup {None}, retry : Retries]
    /\ verdict \in Verdicts \cup {"none"}
    /\ slot \in [Slots -> {"absent", "started", "report", "failed", "interrupted"}]
    /\ gate \in [bundle : {"absent", "writing", "sealed"}, drift : BOOLEAN, sealed : Outcomes,
                 reviews : [Axes -> Verdicts \cup {"absent", "started"}]]
    /\ confirmed \subseteq [cycle : 1 .. MaxRepairs + 1, retry : Retries]
    /\ pushed \subseteq Candidates
    /\ tree \in Candidates \cup {Dirty} /\ remote \in Candidates \cup {Foreign}
    /\ comments \in Seq([cycle : 1 .. MaxRepairs + 1, retry : Retries])
    /\ pc \in Steps /\ hand \in Outcomes /\ retry \in Retries /\ thenGate \in BOOLEAN
    /\ faults \in 0 .. MaxFaults /\ crashes \in 0 .. MaxCrashes

\* "Four-slot budget": the agent runs once in a slot at most, and what a slot ended with
\* stays, whatever crashes, failed pushes and resumes lie in between.
SlotsSpentOnce ==
    [][\A n \in Slots : slot'[n] # slot[n] =>
          \/ slot[n] = "absent" /\ run.used = n
          \/ slot[n] = "started" /\ slot'[n] # "absent"]_vars

\* The evidence on the PR: no Gate Cycle is told twice, although a comment may be posted
\* without an answer and the command may die before it confirms it.
CommentedOnce == Len(comments) <= MaxComments /\ \A i \in DOMAIN comments : Occurs(comments[i]) = 1

\* A Gate Cycle is only recorded, and acted upon, after its comment is confirmed.
RecordedCyclesAreCommented ==
    \A i \in DOMAIN run.cycles :
        Marker(run.cycles[i]) \in confirmed /\ Occurs(Marker(run.cycles[i])) = 1

\* A Run becomes "reviewed" only with a passed validation of exactly this Candidate and
\* all axes passed: a review that crashed or failed never counts as approval.
ReviewedIsApproved ==
    [][run'.checkpoint = "reviewed" /\ run.checkpoint # "reviewed" =>
          /\ run.validation = Result(run.candidate, "passed")
          /\ hand.candidate = run.candidate
          /\ \A a \in Axes : gate.reviews[a] = "passed"]_vars

\* The PR follows the recorded Candidate, or the sealed report of the slot that is being
\* paid for, or someone else's push: never a half-done or abandoned repair.
HeadIsExplained ==
    \/ remote \in {run.candidate, Foreign}
    \/ remote = run.used /\ slot[remote] = "report" /\ CurrentBrief

\* What the pull request shows, its head and its comments, is what the Run can account for.
PullRequestIsExplained == CommentedOnce /\ RecordedCyclesAreCommented /\ HeadIsExplained

\* A push never overwrites a commit that AFK did not put on the branch, even when it
\* arrives between the look at the remote and the push.
ForeignHeadKept == [][remote = Foreign => remote' = Foreign]_vars

\* AFK's own preflight accepts every history AFK writes: wherever a command dies, the
\* next resume is not turned away.
PreflightAccepts == pc = "idle" => PreflightValid

\* The repair loop ends: every command, and so every chain of validation, review and
\* repair, comes to a stop or a reviewed Candidate.
CommandEnds == pc # "idle" ~> pc = "idle"

(* A statement of the tests that the code does not meet *)

\* test_repair_resume_reconciles_crash_windows_without_rerunning_codex: a resume that
\* finds the sealed report of the current repair adopts it.
FinishedRepairIsAdopted ==
    pc = "repair" /\ CurrentBrief /\ slot[run.used] = "report" => BriefOf(hand) = run.brief
=============================================================================
