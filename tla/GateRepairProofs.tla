--------------------------- MODULE GateRepairProofs ---------------------------
(***************************************************************************)
(* Proofs about GateRepair, for any budget of repairs and comments, any    *)
(* review axes and any number of failures and crashes: it is well typed,   *)
(* spends every repair slot once, tells every Gate Cycle once and before   *)
(* it acts on it, approves only what was validated and reviewed, pushes    *)
(* over nobody's commit, and writes what its own preflight accepts.        *)
(***************************************************************************)
EXTENDS GateRepair, TLAPS, FiniteSetTheorems, SequenceTheorems, WellFoundedInduction

\* The steps of a validation, of a Gate Cycle that is not recorded, of what follows a
\* recorded one, and of the repair that pays with the slot in use.
ValidationSteps == {"check", "start_validation", "validate", "finish_validation",
                    "record_validation", "interrupt_validation", "alert_validation"}
OpenSteps       == {"validate", "finish_validation", "interrupt_validation"}
ReviewSteps     == {"bundle", "review", "reviewing", "decide"}
TellSteps       == {"publish", "comment", "confirm_comment", "record_cycle"}
CycleSteps      == {"gate"} \cup ReviewSteps \cup TellSteps
DecidedSteps    == {"decided", "repair"}
PushSteps       == {"finish_repair", "push", "pushing", "confirm_push", "announce",
                    "verify_repair"}
PaidSteps       == {"agent", "agent_works", "seal_interruption", "record_interruption"}
                   \cup PushSteps

Kinds == {"candidate.ready", "validation.attempt_started", "validation.attempt_finished",
          "validation.passed", "validation.rejected", "gate.cycle_completed",
          "gate.retry_authorized", "repair.started", "candidate.branch_published",
          "candidate.repaired", "repair.interrupted", "run.attention_required",
          "lifecycle.signal_interrupted"}
Scopes == {"none", "candidate", "validation", "gate", "repair", "worker_launch", "lifecycle"}
Reasons == Verdicts \cup Errors \cup {"none", "started", "exhausted", "unavailable", "conflict"}
Markers == [cycle : 1 .. MaxRepairs + 1, retry : Retries]

\* What TypeOK says of the projection, and of everything else.
RunTyped(r) ==
    r \in [checkpoint : {"candidate_ready", "validated", "reviewed"}, last : Kinds,
           attention : [scope : Scopes, kind : Reasons], episode : BOOLEAN,
           candidate : Candidates, published : Candidates, validation : Results,
           attempt : Results, used : 0 .. MaxRepairs, brief : Briefs, open : SUBSET Briefs,
           interrupted : [candidate : Candidates \cup {None}, slot : 0 .. MaxRepairs,
                          status : {"none", "interrupted", "exhausted"}],
           cycles : Seq(Outcomes),
           authorized : [candidate : Candidates \cup {None}, retry : Retries]]

StateTyped ==
    /\ verdict \in Verdicts \cup {"none"}
    /\ slot \in [Slots -> {"absent", "started", "report", "failed", "interrupted"}]
    /\ gate \in [bundle : {"absent", "writing", "sealed"}, drift : BOOLEAN, sealed : Outcomes,
                 reviews : [Axes -> Verdicts \cup {"absent", "started"}]]
    /\ confirmed \subseteq Markers /\ pushed \subseteq Candidates
    /\ tree \in Candidates \cup {Dirty} /\ remote \in Candidates \cup {Foreign}
    /\ comments \in Seq(Markers)
    /\ pc \in Steps /\ hand \in Outcomes /\ retry \in Retries /\ thenGate \in BOOLEAN
    /\ faults \in 0 .. MaxFaults /\ crashes \in 0 .. MaxCrashes

\* How far a repair is: it is paid for with the slot in use until the Candidate of that slot
\* is verified, or the interruption of that slot is recorded.
RepairOK ==
    /\ run.candidate <= run.used
    /\ run.candidate = run.used => run.brief.candidate < run.candidate
    /\ run.candidate < run.used =>
          /\ run.checkpoint # "reviewed"
          /\ CurrentBrief \/ InterruptedReady \/ RepairExhausted
    /\ run.open = IF CurrentBrief THEN {run.brief} ELSE {}
    /\ run.interrupted # NoInterruption => run.interrupted.candidate < run.interrupted.slot
    /\ run.last = "repair.interrupted" => run.candidate < run.used

\* No slot is left out: only the one in use may be without evidence.
SlotsOK ==
    \A n \in Slots : n < run.used \/ (n = run.used /\ ~CurrentBrief) => slot[n] # "absent"

\* The validation attempt is that of the Candidate while it is open, and its record says
\* what its evidence says.
AttemptOK ==
    /\ run.attempt.status = "started" => run.attempt.candidate = run.candidate
    /\ run.attempt.status # "none" => run.attempt.candidate \in 0 .. run.candidate
    /\ run.attempt.status \in Verdicts => verdict = run.attempt.status
    /\ run.validation.status = "none" => run.used = 0

\* The Candidate has a verdict that leads to a Gate Cycle, and nothing leads back.
Settled ==
    /\ Conclusive /\ run.attempt = run.validation
    /\ Reviewing => run.checkpoint \in {"validated", "reviewed"}
    /\ ~Reviewing => /\ run.checkpoint = "candidate_ready"
                     /\ run.attention.scope \notin {"candidate", "validation"}
                     /\ run.last \notin {"candidate.ready", "candidate.repaired"}

\* The Candidate has come to a Gate Cycle, as the evidence or the history shows.
Judged ==
    \/ gate # NoGate \/ run.candidate < run.used \/ run.authorized # NoRetry
    \/ \E i \in DOMAIN run.cycles : run.cycles[i].candidate = run.candidate

JudgedOK ==
    /\ Judged \/ run.checkpoint # "candidate_ready" \/ run.last = "validation.rejected" => Settled
    /\ run.last = "gate.cycle_completed" =>
          /\ run.candidate = run.used /\ gate = NoGate /\ run.authorized = NoRetry
          /\ \E i \in DOMAIN run.cycles : run.cycles[i].candidate = run.candidate

\* The retry whose turn it is, and whether it has not been recorded.
Turn == run.authorized.retry
Fresh ==
    \A i \in DOMAIN run.cycles : Marker(run.cycles[i]) # [cycle |-> run.used + 1, retry |-> Turn]

\* Each recorded cycle is of its own, and its retries follow a first review.
CyclesOK ==
    /\ Len(run.cycles) <= MaxComments
    /\ \A i \in DOMAIN run.cycles :
          LET o == run.cycles[i]
          IN /\ o.cycle = o.candidate + 1 /\ o.candidate \in 0 .. run.candidate /\ o.retry < i
             /\ o.action = "repair" => o.cycle \in Slots
             /\ \E j \in DOMAIN run.cycles :
                   run.cycles[j].candidate = o.candidate /\ run.cycles[j].retry = 0
             /\ \A j \in DOMAIN run.cycles : Marker(run.cycles[j]) = Marker(o) => i = j

\* Evidence of a Gate Cycle is that of the cycle, and the retry, whose turn it is.
GateOK ==
    /\ gate # NoGate => run.candidate = run.used /\ run.checkpoint # "reviewed" /\ Fresh
    /\ gate # NoGate /\ (\E i \in DOMAIN run.cycles : run.cycles[i].candidate = run.candidate) =>
          run.authorized # NoRetry
    /\ run.authorized # NoRetry =>
          /\ run.authorized.candidate = run.candidate
          /\ run.authorized.retry > 0 /\ run.authorized.retry <= Len(run.cycles)
          /\ run.candidate = run.used /\ Fresh /\ run.checkpoint = "validated"
          /\ \E i \in DOMAIN run.cycles : run.cycles[i].candidate = run.candidate
    /\ gate.sealed # NoOutcome =>
          /\ gate.sealed.cycle = run.used + 1 /\ gate.sealed.candidate = run.candidate
          /\ gate.sealed.retry = Turn
          /\ gate.sealed.action = "repair" => gate.sealed.cycle \in Slots
          /\ gate.sealed.action = "complete" =>
                Reviewing /\ \A a \in Axes : gate.reviews[a] = "passed"

\* The comments are those of the recorded cycles in their order, and behind them at most the
\* one of the outcome that is sealed and not recorded.
CommentsOK ==
    /\ Len(comments) \in {Len(run.cycles), Len(run.cycles) + 1}
    /\ \A i \in DOMAIN run.cycles :
          comments[i] = Marker(run.cycles[i]) /\ Marker(run.cycles[i]) \in confirmed
    /\ Len(comments) > Len(run.cycles) =>
          /\ Len(run.cycles) < MaxComments /\ gate.sealed # NoOutcome
          /\ comments[Len(comments)] = Marker(gate.sealed)

\* What the command knows at each of its steps.
ValidatingOK ==
    /\ pc \in ValidationSteps => ~Judged /\ run.checkpoint = "candidate_ready"
    /\ pc \in OpenSteps => run.attempt.status = "started"
    /\ pc \notin OpenSteps \cup {"idle", "alert_signal"} => run.attempt.status # "started"
    /\ pc = "finish_validation" => verdict \in Verdicts
    /\ pc = "record_validation" =>
          run.attempt.status \in Verdicts /\ run.attempt.candidate = run.candidate

CyclingOK ==
    /\ pc \in CycleSteps =>
          /\ Settled /\ retry = Turn
          /\ run.candidate = run.used /\ run.checkpoint # "reviewed"
    /\ pc \in ReviewSteps \cup TellSteps => Len(run.cycles) < MaxComments
    /\ pc \in ReviewSteps =>
          /\ gate.sealed = NoOutcome /\ ~gate.drift /\ Fresh
          /\ (\E i \in DOMAIN run.cycles : run.cycles[i].candidate = run.candidate) =>
                run.authorized # NoRetry
    /\ pc = "decide" /\ Reviewing => \A a \in Axes : gate.reviews[a] \in Verdicts
    /\ pc \in TellSteps =>
          /\ hand # NoOutcome
          /\ hand = gate.sealed \/ \E i \in DOMAIN run.cycles : hand = run.cycles[i]
    /\ pc \in TellSteps =>
          hand.cycle = run.used + 1 /\ hand.candidate = run.candidate /\ hand.retry = Turn
    /\ pc \in {"confirm_comment", "record_cycle"} =>
          \E i \in DOMAIN comments : comments[i] = Marker(hand)
    /\ pc = "record_cycle" => Marker(hand) \in confirmed

DecidedOK ==
    /\ pc \in {"reobserve"} \cup DecidedSteps =>
          /\ Settled /\ gate = NoGate /\ run.authorized = NoRetry
          /\ ~RepairInterrupted
    /\ pc = "reobserve" => run.checkpoint # "reviewed" /\ (run.candidate = run.used \/ CurrentBrief)
    /\ pc = "authorize" =>
          /\ gate = NoGate /\ run.authorized = NoRetry /\ run.cycles # <<>>
          /\ LastCycle.candidate = run.candidate /\ run.candidate = run.used
          /\ Reviewing
    /\ pc = "repair" => hand.action = "repair"
    /\ pc \in DecidedSteps /\ hand.action = "repair" =>
          /\ run.checkpoint # "reviewed" /\ hand.cycle \in Slots
          /\ CurrentBrief => hand.cycle <= run.used
          /\ ~CurrentBrief /\ hand.candidate = run.candidate => hand.cycle = run.used + 1

PaidOK ==
    /\ pc \in PaidSteps => CurrentBrief
    /\ pc \in PushSteps => slot[run.used] = "report"
    /\ pc = "seal_interruption" => RepairInterrupted
    /\ pc = "record_interruption" => slot[run.used] = "interrupted"

IData == /\ RepairOK /\ SlotsOK /\ AttemptOK /\ JudgedOK /\ CyclesOK /\ GateOK /\ CommentsOK
         /\ HeadIsExplained
ICommand == ValidatingOK /\ CyclingOK /\ DecidedOK /\ PaidOK
IInv == RunTyped(run) /\ StateTyped /\ IData /\ ICommand
-----------------------------------------------------------------------------
LEMMA Initially == Init => IInv
<1> SUFFICES ASSUME Init PROVE IInv
  OBVIOUS
<1> USE GateConstants
<1>1. RunTyped(run)
  BY EmptySeq DEF Init, RunTyped, Kinds, Scopes, Reasons, Candidates, Results, Briefs, NoBrief,
     Brief, NoAttention, Attention, NoResult, Result, NoInterruption, Interruption, NoRetry, Retries
<1>2. StateTyped
  BY EmptySeq DEF Init, StateTyped, NoGate, NoOutcome, Outcomes, Retries, Candidates, Steps
<1>3. RepairOK /\ SlotsOK /\ AttemptOK /\ CyclesOK /\ CommentsOK /\ HeadIsExplained
  BY DEF Init, RepairOK, SlotsOK, AttemptOK, CyclesOK, CommentsOK, HeadIsExplained, CurrentBrief,
     NoBrief, Brief, NoResult, Result, NoInterruption, Interruption, None, Slots, Verdicts
<1>4. ~Judged
  BY DEF Init, Judged
<1>5. JudgedOK /\ GateOK
  BY <1>4 DEF Init, JudgedOK, GateOK, NoGate, NoRetry
<1>6. ICommand
  BY <1>4 DEF Init, ICommand, ValidatingOK, CyclingOK, DecidedOK, PaidOK, ValidationSteps,
     OpenSteps, CycleSteps, ReviewSteps, TellSteps, DecidedSteps, PaidSteps, PushSteps,
     NoResult, Result
<1>. QED BY <1>1, <1>2, <1>3, <1>5, <1>6 DEF IInv, IData
-----------------------------------------------------------------------------
(* What leaves the evidence alone *)

\* The records that only change the attention, the episode and the last event.
Noted(r, s) ==
    /\ s.checkpoint = r.checkpoint /\ s.candidate = r.candidate /\ s.validation = r.validation
    /\ s.attempt = r.attempt /\ s.used = r.used /\ s.brief = r.brief /\ s.open = r.open
    /\ s.interrupted = r.interrupted /\ s.cycles = r.cycles /\ s.authorized = r.authorized

Alerted ==
    /\ run'.last \notin {"candidate.ready", "candidate.repaired", "repair.interrupted",
                          "validation.rejected", "gate.cycle_completed"}
    /\ run'.attention.scope \in {"candidate", "validation"} =>
          ~Judged /\ run.checkpoint = "candidate_ready"

LEMMA DataKept ==
  ASSUME IData, Noted(run, run'), UNCHANGED <<verdict, slot, gate, remote>>, CommentsOK',
         (run'.last = run.last /\ run'.attention = run.attention) \/ Alerted
  PROVE  IData'
<1>1. RepairOK' /\ SlotsOK' /\ AttemptOK' /\ HeadIsExplained'
  BY DEF IData, RepairOK, SlotsOK, AttemptOK, HeadIsExplained, CurrentBrief, InterruptedReady,
     RepairExhausted, Noted, Alerted
<1>2. CyclesOK'
  BY DEF IData, CyclesOK, Noted
<1>3. Judged' = Judged
  BY DEF Judged, Noted
<1>4. JudgedOK'
  BY <1>3 DEF IData, JudgedOK, Settled, Conclusive, Reviewing, Noted, Alerted
<1>5. GateOK'
  BY DEF IData, GateOK, Fresh, Turn, Reviewing, Noted
<1>. QED BY <1>1, <1>2, <1>4, <1>5 DEF IData

LEMMA DataUnchanged ==
  ASSUME IData, UNCHANGED <<run, verdict, slot, gate, confirmed, comments, remote>>
  PROVE  IData'
<1>1. CommentsOK'
  BY DEF IData, CommentsOK
<1>. QED BY <1>1, DataKept DEF Noted

LEMMA DataNoted ==
  ASSUME IData, Noted(run, run'), UNCHANGED <<verdict, slot, gate, confirmed, comments, remote>>,
         Alerted
  PROVE  IData'
<1>1. CommentsOK'
  BY DEF IData, CommentsOK, Noted
<1>. QED BY <1>1, DataKept

LEMMA CommandIdle == ASSUME pc' = "idle" PROVE ICommand'
BY DEF ICommand, ValidatingOK, CyclingOK, DecidedOK, PaidOK, ValidationSteps, OpenSteps,
   CycleSteps, ReviewSteps, TellSteps, DecidedSteps, PaidSteps, PushSteps

\* _attention: the command records why it stops.
LEMMA Stopped ==
  ASSUME NEW scope \in Scopes, NEW kind \in Reasons, RunTyped(run), Stop(run, scope, kind)
  PROVE  /\ RunTyped(run') /\ Noted(run, run') /\ pc' = "idle"
         /\ run'.last = "run.attention_required" /\ run'.attention.scope = scope
BY DEF RunTyped, Stop, Record, Noted, Attention, Kinds

\* What a stop, whose alert sends nobody back to the validation, leaves is accepted.
LEMMA StopKeeps ==
  ASSUME IInv, NEW scope \in Scopes, NEW kind \in Reasons, Stop(run, scope, kind),
         scope \in {"candidate", "validation"} => ~Judged /\ run.checkpoint = "candidate_ready",
         UNCHANGED <<evidence, world>>, StateTyped'
  PROVE  IInv'
<1>1. UNCHANGED <<verdict, slot, gate, confirmed, comments, remote>>
  BY DEF evidence, world
<1>2. RunTyped(run')
  BY Stopped DEF IInv
<1>3. IData'
  BY <1>1, Stopped, DataNoted DEF IInv, Alerted
<1>4. ICommand'
  BY Stopped, CommandIdle DEF IInv
<1>. QED BY <1>2, <1>3, <1>4 DEF IInv

\* What a command has to know depends on the stage of its next step.
LEMMA CommandIn ==
  /\ pc' \in ValidationSteps /\ ValidatingOK' => ICommand'
  /\ pc' \in CycleSteps /\ CyclingOK' /\ run'.attempt.status # "started" => ICommand'
  /\ pc' \in {"reobserve", "authorize"} \cup DecidedSteps /\ DecidedOK'
        /\ run'.attempt.status # "started" => ICommand'
  /\ pc' \in PaidSteps /\ PaidOK' /\ run'.attempt.status # "started" => ICommand'
  /\ pc' \in {"alert_worker", "continue_repair"} /\ run'.attempt.status # "started" => ICommand'
  /\ pc' = "alert_signal" => ICommand'
<1> USE DEF ValidationSteps, OpenSteps, CycleSteps, ReviewSteps, TellSteps, DecidedSteps, PaidSteps,
            PushSteps, ICommand
<1>1. ASSUME pc' \in ValidationSteps PROVE CyclingOK' /\ DecidedOK' /\ PaidOK'
  BY <1>1 DEF CyclingOK, DecidedOK, PaidOK
<1>2. ASSUME pc' \in CycleSteps, run'.attempt.status # "started"
      PROVE  ValidatingOK' /\ DecidedOK' /\ PaidOK'
  BY <1>2 DEF ValidatingOK, DecidedOK, PaidOK
<1>3. ASSUME pc' \in {"reobserve", "authorize"} \cup DecidedSteps, run'.attempt.status # "started"
      PROVE  ValidatingOK' /\ CyclingOK' /\ PaidOK'
  BY <1>3 DEF ValidatingOK, CyclingOK, PaidOK
<1>4. ASSUME pc' \in PaidSteps, run'.attempt.status # "started"
      PROVE  ValidatingOK' /\ CyclingOK' /\ DecidedOK'
  BY <1>4 DEF ValidatingOK, CyclingOK, DecidedOK
<1>5. ASSUME pc' \in {"alert_worker", "continue_repair"}, run'.attempt.status # "started"
      PROVE  ICommand'
  BY <1>5 DEF ValidatingOK, CyclingOK, DecidedOK, PaidOK
<1>6. ASSUME pc' = "alert_signal" PROVE ICommand'
  BY <1>6 DEF ValidatingOK, CyclingOK, DecidedOK, PaidOK
<1>. QED BY <1>1, <1>2, <1>3, <1>4, <1>5, <1>6

\* The evidence of a Candidate that has not come to a Gate Cycle.
LEMMA Unjudged ==
  /\ ~Judged => gate = NoGate /\ gate.sealed = NoOutcome /\ run.authorized = NoRetry
  /\ ~Judged => \A i \in DOMAIN run.cycles : run.cycles[i].candidate # run.candidate
  /\ ~Judged /\ RepairOK /\ RunTyped(run) => run.candidate = run.used /\ ~CurrentBrief
  /\ ~Judged => GateOK
<1>1. NoGate.sealed = NoOutcome
  BY DEF NoGate
<1>2. RunTyped(run) => run.candidate \in Int /\ run.used \in Int
  BY GateConstants DEF RunTyped, Candidates
<1>3. RunTyped(run) /\ run.brief.candidate < run.candidate => ~CurrentBrief
  BY <1>2 DEF CurrentBrief, Brief
<1>. QED BY <1>1, <1>2, <1>3 DEF Judged, RepairOK, GateOK

\* Before a Gate Cycle, what a record of the validation changes does not concern the rest.
LEMMA Validated ==
  ASSUME IData, RunTyped(run), RunTyped(run'), ~Judged,
         UNCHANGED <<slot, gate, confirmed, comments, remote>>,
         run'.candidate = run.candidate, run'.used = run.used, run'.brief = run.brief,
         run'.open = run.open, run'.interrupted = run.interrupted, run'.cycles = run.cycles,
         run'.authorized = run.authorized, run'.last # "gate.cycle_completed",
         run'.last # "repair.interrupted"
  PROVE  /\ ~Judged' /\ RepairOK' /\ SlotsOK' /\ CyclesOK' /\ GateOK' /\ CommentsOK'
         /\ HeadIsExplained'
         /\ (run'.checkpoint # "candidate_ready" \/ run'.last = "validation.rejected" => Settled')
               => JudgedOK'
<1>1. ~Judged'
  BY DEF Judged
<1>2. run.candidate = run.used /\ gate = NoGate /\ gate.sealed = NoOutcome
  BY Unjudged DEF IData
<1>3. RepairOK'
  BY <1>2, GateConstants DEF IData, RepairOK, CurrentBrief, RunTyped, Candidates
<1>4. SlotsOK' /\ HeadIsExplained'
  BY DEF IData, SlotsOK, HeadIsExplained, CurrentBrief
<1>5. CyclesOK' /\ CommentsOK'
  BY DEF IData, CyclesOK, CommentsOK
<1>6. GateOK'
  <2>1. gate' = NoGate /\ gate'.sealed = NoOutcome /\ run'.authorized = NoRetry
    BY <1>2, Unjudged
  <2>. QED BY <2>1 DEF GateOK
<1>. QED BY <1>1, <1>3, <1>4, <1>5, <1>6 DEF JudgedOK

\* The bounds are kept, and a step that leaves evidence and world alone only has to say
\* what the command does.
LEMMA BoundsTyped ==
  /\ StateTyped /\ NoFault => faults' \in 0 .. MaxFaults /\ crashes' \in 0 .. MaxCrashes
  /\ \A kind : StateTyped /\ Fault(kind) =>
        faults' \in 0 .. MaxFaults /\ crashes' \in 0 .. MaxCrashes
  /\ \A c, kind : StateTyped /\ Unpublished(c, kind) =>
        faults' \in 0 .. MaxFaults /\ crashes' \in 0 .. MaxCrashes
BY GateConstants DEF StateTyped, NoFault, Fault, Unpublished, bounds

LEMMA CommandTyped ==
  ASSUME StateTyped, UNCHANGED <<evidence, world>>, pc' \in Steps, hand' \in Outcomes,
         retry' \in Retries, thenGate' \in BOOLEAN,
         faults' \in 0 .. MaxFaults /\ crashes' \in 0 .. MaxCrashes
  PROVE  StateTyped'
BY DEF StateTyped, evidence, world

LEMMA Moves ==
  /\ \A p, s, k : Stop(p, s, k) => pc' = "idle"
  /\ \A next : Goto(next) => pc' = next /\ run' = run
  /\ "idle" \in Steps
BY DEF Stop, Record, Goto, Steps

LEMMA CheckKeeps == IInv /\ CheckPublication => IInv'
<1> SUFFICES ASSUME IInv, CheckPublication PROVE IInv'
  OBVIOUS
<1>1. ~Judged /\ run.attempt.status # "started" /\ run.checkpoint = "candidate_ready"
  BY DEF IInv, ICommand, ValidatingOK, CheckPublication, ValidationSteps, OpenSteps
<1>2. StateTyped'
  <2>1. pc' \in {"idle", "start_validation"} /\ thenGate' = TRUE /\ UNCHANGED <<hand, retry>>
    BY Moves DEF CheckPublication
  <2>2. faults' \in 0 .. MaxFaults /\ crashes' \in 0 .. MaxCrashes
    BY BoundsTyped DEF CheckPublication, IInv
  <2>3. pc' \in Steps
    BY <2>1 DEF Steps
  <2>. QED BY <2>1, <2>2, <2>3, CommandTyped DEF CheckPublication, IInv, StateTyped
<1>3. CASE Goto("start_validation")
  <2>1. UNCHANGED <<run, verdict, slot, gate, confirmed, comments, remote>>
    BY <1>3 DEF Goto, CheckPublication, evidence, world
  <2>2. ValidatingOK' /\ pc' = "start_validation"
    BY <1>1, <1>3, <2>1 DEF Goto, ValidatingOK, ValidationSteps, OpenSteps, Judged
  <2>3. "start_validation" \in ValidationSteps
    BY DEF ValidationSteps
  <2>. QED BY <1>2, <2>1, <2>2, <2>3, DataUnchanged, CommandIn DEF IInv
<1>4. ASSUME NEW kind \in {"head_mismatch", "inconclusive"}, Stop(run, "candidate", kind)
      PROVE  IInv'
  <2>1. kind \in Reasons /\ "candidate" \in Scopes
    BY DEF Reasons, Scopes, Verdicts, Errors
  <2>. QED BY <1>1, <1>2, <1>4, <2>1, StopKeeps DEF CheckPublication
<1>. QED BY <1>3, <1>4 DEF CheckPublication

LEMMA StartValidationKeeps == IInv /\ StartValidation => IInv'
<1> SUFFICES ASSUME IInv, StartValidation PROVE IInv'
  OBVIOUS
<1>1. ~Judged /\ RunTyped(run) /\ IData
  BY DEF IInv, ICommand, ValidatingOK, StartValidation, ValidationSteps
<1>2. /\ run' = [run EXCEPT !.checkpoint = "candidate_ready",
                            !.attempt = Result(run.candidate, "started"),
                            !.last = "validation.attempt_started"]
      /\ pc' = "validate" /\ verdict' = "none"
      /\ UNCHANGED <<slot, gate, confirmed, pushed, world, local, bounds>>
  BY DEF StartValidation, Record
<1>3. RunTyped(run')
  BY <1>1, <1>2 DEF RunTyped, Result, Results, Kinds, Candidates
<1>4. /\ run'.candidate = run.candidate /\ run'.used = run.used /\ run'.brief = run.brief
      /\ run'.open = run.open /\ run'.interrupted = run.interrupted /\ run'.cycles = run.cycles
      /\ run'.authorized = run.authorized /\ run'.last = "validation.attempt_started"
      /\ run'.checkpoint = "candidate_ready" /\ run'.validation = run.validation
      /\ run'.attempt = Result(run.candidate, "started")
  BY <1>1, <1>2 DEF RunTyped
<1>5. StateTyped'
  BY <1>2 DEF IInv, StateTyped, Steps, world, local, bounds
<1>6. IData' /\ ~Judged'
  <2>1. AttemptOK'
    BY <1>1, <1>4, GateConstants DEF IData, AttemptOK, Result, Verdicts, RunTyped, Candidates
  <2>2. UNCHANGED <<slot, gate, confirmed, comments, remote>>
    BY <1>2 DEF world
  <2>. QED BY <1>1, <1>3, <1>4, <2>1, <2>2, Validated DEF IData
<1>7. ValidatingOK' /\ pc' \in ValidationSteps
  BY <1>2, <1>4, <1>6 DEF ValidatingOK, ValidationSteps, OpenSteps, Result
<1>. QED BY <1>3, <1>5, <1>6, <1>7, CommandIn DEF IInv

LEMMA ValidateKeeps == \A v \in Verdicts : IInv /\ Validate(v) => IInv'
<1> SUFFICES ASSUME NEW v \in Verdicts, IInv, Validate(v) PROVE IInv'
  OBVIOUS
<1>1. ~Judged /\ IData /\ run.attempt.status = "started" /\ run.checkpoint = "candidate_ready"
  BY DEF IInv, ICommand, ValidatingOK, Validate, ValidationSteps, OpenSteps
<1>2. /\ run' = run /\ pc' = "finish_validation" /\ verdict' = v
      /\ UNCHANGED <<slot, gate, confirmed, pushed, world, local, bounds>>
  BY DEF Validate, Goto
<1>3. StateTyped'
  BY <1>2 DEF IInv, StateTyped, Steps, world, local, bounds
<1>4. IData' /\ ~Judged'
  <2>1. AttemptOK'
    BY <1>1, <1>2 DEF IData, AttemptOK, Verdicts
  <2>2. ~Judged' /\ RepairOK' /\ SlotsOK' /\ JudgedOK' /\ CyclesOK' /\ GateOK' /\ CommentsOK'
    BY <1>1, <1>2 DEF IData, Judged, RepairOK, SlotsOK, JudgedOK, Settled, Conclusive, Reviewing,
       CyclesOK, GateOK, CommentsOK, CurrentBrief, InterruptedReady, RepairExhausted, Fresh, Turn,
       world
  <2>3. HeadIsExplained'
    BY <1>1, <1>2 DEF IData, HeadIsExplained, CurrentBrief, world
  <2>. QED BY <2>1, <2>2, <2>3 DEF IData
<1>5. ValidatingOK' /\ pc' \in ValidationSteps
  BY <1>1, <1>2, <1>4 DEF ValidatingOK, ValidationSteps, OpenSteps
<1>. QED BY <1>2, <1>3, <1>4, <1>5, CommandIn DEF IInv

\* The record of how a validation attempt ended.
LEMMA Finished ==
  ASSUME NEW status \in Verdicts \cup Errors,
         NEW next \in {"record_validation", "alert_validation"},
         IInv, pc \in OpenSteps, status \in Verdicts => verdict = status,
         next = "record_validation" => status \in Verdicts,
         Record([run EXCEPT !.attempt.status = status, !.last = "validation.attempt_finished"],
                next),
         UNCHANGED <<evidence, world, local>>,
         faults' \in 0 .. MaxFaults /\ crashes' \in 0 .. MaxCrashes
  PROVE  IInv'
<1>1. /\ ~Judged /\ RunTyped(run) /\ IData /\ run.attempt.status = "started"
      /\ run.checkpoint = "candidate_ready"
  BY DEF IInv, ICommand, ValidatingOK, ValidationSteps, OpenSteps
<1>2. /\ run' = [run EXCEPT !.attempt.status = status, !.last = "validation.attempt_finished"]
      /\ pc' = next
  BY DEF Record
<1>3. RunTyped(run')
  <2>1. [run.attempt EXCEPT !.status = status] \in Results
    BY <1>1 DEF RunTyped, Results
  <2>2. "validation.attempt_finished" \in Kinds
    BY DEF Kinds
  <2>. QED BY <1>1, <1>2, <2>1, <2>2 DEF RunTyped
<1>4. /\ run'.candidate = run.candidate /\ run'.used = run.used /\ run'.brief = run.brief
      /\ run'.open = run.open /\ run'.interrupted = run.interrupted /\ run'.cycles = run.cycles
      /\ run'.authorized = run.authorized /\ run'.last = "validation.attempt_finished"
      /\ run'.checkpoint = run.checkpoint /\ run'.validation = run.validation
      /\ run'.attempt.status = status /\ run'.attempt.candidate = run.attempt.candidate
  BY <1>1, <1>2 DEF RunTyped, Results
<1>5. StateTyped'
  <2>1. pc' \in Steps
    BY <1>2 DEF Steps
  <2>. QED BY <2>1, CommandTyped DEF IInv, StateTyped, local
<1>6. IData' /\ ~Judged'
  <2>1. AttemptOK'
    BY <1>1, <1>4 DEF IData, AttemptOK, Verdicts, Errors, evidence
  <2>2. UNCHANGED <<slot, gate, confirmed, comments, remote>>
    BY DEF world, evidence
  <2>. QED BY <1>1, <1>3, <1>4, <2>1, <2>2, Validated DEF IData
<1>7. ValidatingOK' /\ pc' \in ValidationSteps
  <2>1. run'.attempt.candidate = run.candidate
    BY <1>1, <1>4 DEF IData, AttemptOK
  <2>. QED BY <1>1, <1>2, <1>4, <1>6, <2>1
       DEF ValidatingOK, ValidationSteps, OpenSteps, Verdicts, Errors
<1>. QED BY <1>3, <1>5, <1>6, <1>7, CommandIn DEF IInv

LEMMA FinishValidationKeeps ==
  /\ \A error \in Errors : IInv /\ ValidationFails(error) => IInv'
  /\ IInv /\ (FinishValidation \/ InterruptValidation) => IInv'
<1>1. ASSUME NEW error \in Errors, IInv, ValidationFails(error) PROVE IInv'
  <2>1. faults' \in 0 .. MaxFaults /\ crashes' \in 0 .. MaxCrashes
    BY <1>1, BoundsTyped DEF IInv, ValidationFails
  <2>2. "alert_validation" \in {"record_validation", "alert_validation"}
        /\ error \notin Verdicts /\ pc \in OpenSteps
    BY <1>1 DEF Verdicts, Errors, OpenSteps, ValidationFails
  <2>. QED BY <1>1, <2>1, <2>2, Finished DEF ValidationFails
<1>2. ASSUME IInv, FinishValidation PROVE IInv'
  <2>1. faults' \in 0 .. MaxFaults /\ crashes' \in 0 .. MaxCrashes
    BY <1>2 DEF IInv, FinishValidation, bounds, StateTyped
  <2>2. verdict \in Verdicts /\ pc \in OpenSteps
        /\ "record_validation" \in {"record_validation", "alert_validation"}
    BY <1>2 DEF FinishValidation, OpenSteps, IInv, ICommand, ValidatingOK
  <2>. QED BY <1>2, <2>1, <2>2, Finished DEF FinishValidation
<1>3. ASSUME IInv, InterruptValidation PROVE IInv'
  <2>1. faults' \in 0 .. MaxFaults /\ crashes' \in 0 .. MaxCrashes
    BY <1>3 DEF IInv, InterruptValidation, bounds, StateTyped
  <2>2. "interrupted" \in Errors /\ "interrupted" \notin Verdicts /\ pc \in OpenSteps
        /\ "alert_validation" \in {"record_validation", "alert_validation"}
    BY <1>3 DEF InterruptValidation, OpenSteps, Errors, Verdicts
  <2>. QED BY <1>3, <2>1, <2>2, Finished DEF InterruptValidation
<1>. QED BY <1>1, <1>2, <1>3

\* What a verdict that is recorded says of the Candidate.
LEMMA RecordValidationKeeps == IInv /\ RecordValidation => IInv'
<1> SUFFICES ASSUME IInv, RecordValidation PROVE IInv'
  OBVIOUS
<1> DEFINE result == Result(run.attempt.candidate, verdict)
<1>1. /\ ~Judged /\ RunTyped(run) /\ IData /\ run.checkpoint = "candidate_ready"
      /\ run.attempt.status # "started" /\ run.attempt.status \in Verdicts
      /\ run.attempt.candidate = run.candidate
  BY DEF IInv, ICommand, ValidatingOK, RecordValidation, ValidationSteps, OpenSteps
<1>2. run.attempt = result /\ verdict \in Verdicts /\ result \in Results
  BY <1>1 DEF IData, AttemptOK, RunTyped, Results, Result
<1>3. /\ UNCHANGED <<verdict, slot, gate, confirmed, pushed, comments, remote, tree, hand>>
      /\ UNCHANGED <<faults, crashes>> /\ retry' = 0 /\ thenGate' = TRUE
  BY DEF RecordValidation, evidence, world, bounds
<1>4. ASSUME NEW next \in {"idle", "gate"}, pc' = next PROVE StateTyped'
  BY <1>3, <1>4, GateConstants DEF IInv, StateTyped, Steps, Retries
<1>5. ASSUME RunTyped(run'), run'.candidate = run.candidate, run'.used = run.used,
             run'.brief = run.brief, run'.open = run.open, run'.interrupted = run.interrupted,
             run'.cycles = run.cycles, run'.authorized = run.authorized,
             run'.attempt = run.attempt, run'.validation = result,
             run'.last # "gate.cycle_completed", run'.last # "repair.interrupted",
             run'.checkpoint # "candidate_ready" \/ run'.last = "validation.rejected" => Settled'
      PROVE  IData' /\ ~Judged'
  <2>1. AttemptOK'
    BY <1>1, <1>2, <1>3, <1>5 DEF IData, AttemptOK, Result, Verdicts
  <2>. QED BY <1>1, <1>3, <1>5, <2>1, Validated DEF IData
<1>6. ASSUME NEW next \in {"idle", "gate"}, pc' = next, Settled', RunTyped(run'), IData', ~Judged',
             run'.authorized = run.authorized, run'.attempt = run.attempt,
             run'.checkpoint # "reviewed"
      PROVE  ICommand'
  <2>1. CASE next = "idle"
    BY <1>6, <2>1, CommandIdle
  <2>2. CASE next = "gate"
    <3>1. retry' = Turn'
      BY <1>1, <1>3, <1>6, Unjudged DEF Turn, NoRetry
    <3>2. run'.candidate = run'.used
      BY <1>6, GateConstants DEF Judged, IData, RepairOK, RunTyped, Candidates
    <3>3. CyclingOK' /\ pc' \in CycleSteps
      BY <1>6, <2>2, <3>1, <3>2 DEF CyclingOK, CycleSteps, ReviewSteps, TellSteps
    <3>. QED BY <1>1, <1>6, <3>3, CommandIn
  <2>. QED BY <2>1, <2>2
<1>7. PICK next \in {"idle", "gate"} : next = IF thenGate THEN "gate" ELSE "idle"
  OBVIOUS
<1>8. CASE verdict = "passed" /\ pc' = next
           /\ run' = [run EXCEPT !.validation = result, !.checkpoint = "validated",
                                 !.last = "validation.passed"]
  <2>1. RunTyped(run')
    BY <1>1, <1>2, <1>8 DEF RunTyped, Kinds
  <2>2. /\ run'.candidate = run.candidate /\ run'.used = run.used /\ run'.brief = run.brief
        /\ run'.open = run.open /\ run'.interrupted = run.interrupted /\ run'.cycles = run.cycles
        /\ run'.authorized = run.authorized /\ run'.attempt = run.attempt
        /\ run'.validation = result /\ run'.last = "validation.passed"
        /\ run'.checkpoint = "validated"
    BY <1>1, <1>8 DEF RunTyped
  <2>3. Settled'
    BY <1>1, <1>2, <1>8, <2>2 DEF Settled, Conclusive, Reviewing, Result
  <2>. QED BY <1>4, <1>5, <1>6, <1>8, <2>1, <2>2, <2>3 DEF IInv
<1>9. CASE verdict = "rejected" /\ pc' = next
           /\ run' = [run EXCEPT !.validation = result, !.checkpoint = "candidate_ready",
                                 !.attention = NoAttention, !.last = "validation.rejected"]
  <2>1. RunTyped(run')
    BY <1>1, <1>2, <1>9 DEF RunTyped, Kinds, NoAttention, Attention, Scopes, Reasons
  <2>2. /\ run'.candidate = run.candidate /\ run'.used = run.used /\ run'.brief = run.brief
        /\ run'.open = run.open /\ run'.interrupted = run.interrupted /\ run'.cycles = run.cycles
        /\ run'.authorized = run.authorized /\ run'.attempt = run.attempt
        /\ run'.validation = result /\ run'.last = "validation.rejected"
        /\ run'.checkpoint = "candidate_ready" /\ run'.attention.scope = "none"
    BY <1>1, <1>9 DEF RunTyped, NoAttention, Attention
  <2>3. Settled'
    BY <1>1, <1>2, <1>9, <2>2 DEF Settled, Conclusive, Reviewing, Result
  <2>. QED BY <1>4, <1>5, <1>6, <1>9, <2>1, <2>2, <2>3 DEF IInv
<1>10. CASE verdict = "inconclusive"
            /\ Stop([run EXCEPT !.validation = result], "validation", verdict)
  <2>1. /\ run' = [run EXCEPT !.validation = result,
                              !.attention = Attention("validation", verdict), !.episode = TRUE,
                              !.last = "run.attention_required"]
        /\ pc' = "idle"
    BY <1>1, <1>10 DEF Stop, Record, RunTyped
  <2>2. RunTyped(run')
    BY <1>1, <1>2, <2>1 DEF RunTyped, Kinds, Attention, Scopes, Reasons
  <2>3. /\ run'.candidate = run.candidate /\ run'.used = run.used /\ run'.brief = run.brief
        /\ run'.open = run.open /\ run'.interrupted = run.interrupted /\ run'.cycles = run.cycles
        /\ run'.authorized = run.authorized /\ run'.attempt = run.attempt
        /\ run'.validation = result /\ run'.last = "run.attention_required"
        /\ run'.checkpoint = "candidate_ready"
    BY <1>1, <2>1 DEF RunTyped
  <2>. QED BY <1>4, <1>5, <2>1, <2>2, <2>3, CommandIdle DEF IInv
<1>. QED BY <1>7, <1>8, <1>9, <1>10 DEF RecordValidation, Record

LEMMA AlertValidationKeeps == IInv /\ AlertValidation => IInv'
<1> SUFFICES ASSUME IInv, AlertValidation PROVE IInv'
  OBVIOUS
<1>1. /\ ~Judged /\ RunTyped(run) /\ run.checkpoint = "candidate_ready"
  BY DEF IInv, ICommand, ValidatingOK, AlertValidation, ValidationSteps
<1>2. [run EXCEPT !.checkpoint = "candidate_ready"] = run
  BY <1>1 DEF RunTyped
<1>3. Stop(run, "validation", run.attempt.status)
  BY <1>2 DEF AlertValidation
<1>4. run.attempt.status \in Reasons /\ "validation" \in Scopes
  BY <1>1 DEF RunTyped, Results, Reasons, Scopes
<1>5. StateTyped'
  <2>1. pc' \in Steps
    BY <1>3, Moves
  <2>. QED BY <2>1, CommandTyped DEF AlertValidation, IInv, StateTyped, local, bounds
<1>. QED BY <1>1, <1>3, <1>4, <1>5, StopKeeps DEF AlertValidation
-----------------------------------------------------------------------------
(* The Gate Cycle *)

LEMMA GateRefusesKeeps ==
  \A kind \in {"exhausted", "head_mismatch", "inconclusive", "invalid", "unavailable"} :
     IInv /\ GateRefuses(kind) => IInv'
<1> SUFFICES ASSUME NEW kind \in {"exhausted", "head_mismatch", "inconclusive", "invalid",
                                  "unavailable"},
                    IInv, GateRefuses(kind)
             PROVE  IInv'
  OBVIOUS
<1>1. kind \in Reasons /\ "gate" \in Scopes
  BY DEF Reasons, Scopes, Verdicts, Errors
<1>2. Stop(run, "gate", kind) /\ UNCHANGED <<evidence, world, local>>
  BY DEF GateRefuses
<1>3. faults' \in 0 .. MaxFaults /\ crashes' \in 0 .. MaxCrashes
  BY BoundsTyped DEF GateRefuses, IInv
<1>4. StateTyped'
  <2>1. pc' \in Steps
    BY <1>2, Moves
  <2>. QED BY <1>2, <1>3, <2>1, CommandTyped DEF IInv, StateTyped, local
<1>. QED BY <1>1, <1>2, <1>4, StopKeeps

\* An outcome that is there is that of this cycle, and the retry whose turn it is.
LEMMA OutcomeIs ==
  ASSUME StateTyped, RunTyped(run), IData, pc = "gate", CyclingOK
  PROVE  /\ \A o \in Outcome :
               /\ o \in Outcomes /\ o # NoOutcome
               /\ o = gate.sealed \/ \E i \in DOMAIN run.cycles : o = run.cycles[i]
               /\ o.cycle = run.used + 1 /\ o.candidate = run.candidate /\ o.retry = Turn
         /\ Outcome = {} => gate.sealed = NoOutcome /\ Fresh
         /\ Outcome = {} /\ (\E i \in DOMAIN run.cycles : run.cycles[i].candidate = run.candidate)
               => run.authorized # NoRetry
<1>1. retry = Turn /\ run.candidate = run.used
  BY DEF CyclingOK, CycleSteps
<1>2. run.candidate \in 0 .. MaxRepairs /\ run.used \in 0 .. MaxRepairs
  BY DEF RunTyped, Candidates
<1>3. ASSUME NEW o \in Outcome
      PROVE  /\ o \in Outcomes /\ o # NoOutcome
             /\ o = gate.sealed \/ \E i \in DOMAIN run.cycles : o = run.cycles[i]
             /\ o.cycle = run.used + 1 /\ o.candidate = run.candidate /\ o.retry = Turn
  <2>1. o = gate.sealed \/ \E i \in DOMAIN run.cycles : o = run.cycles[i]
    BY DEF Outcome
  <2>2. o.cycle = run.used + 1 /\ o.candidate = run.candidate /\ o.retry = Turn
    BY <1>1 DEF Outcome
  <2>3. o \in Outcomes
    BY <2>1 DEF RunTyped, StateTyped
  <2>4. NoOutcome.cycle = 0
    BY DEF NoOutcome
  <2>. QED BY <1>2, <2>1, <2>2, <2>3, <2>4, GateConstants
<1>4. ASSUME Outcome = {} PROVE gate.sealed = NoOutcome
  BY <1>1, <1>4 DEF Outcome, IData, GateOK
<1>5. ASSUME Outcome = {} PROVE Fresh
  <2>1. SUFFICES ASSUME NEW i \in DOMAIN run.cycles,
                        Marker(run.cycles[i]) = [cycle |-> run.used + 1, retry |-> Turn]
                 PROVE  FALSE
    BY DEF Fresh
  <2>2. run.cycles[i].cycle = run.used + 1 /\ run.cycles[i].retry = Turn
    BY <2>1 DEF Marker
  <2>3. run.cycles[i].cycle = run.cycles[i].candidate + 1 /\ run.cycles[i].candidate \in Int
    <3>1. CyclesOK
      BY DEF IData
    <3>2. run.candidate \in Int
      BY <1>2
    <3>. QED BY <2>1, <3>1, <3>2 DEF CyclesOK
  <2>4. run.cycles[i].candidate = run.candidate
    BY <1>1, <1>2, <2>2, <2>3
  <2>. QED BY <1>1, <1>5, <2>2, <2>4 DEF Outcome
<1>6. ASSUME Outcome = {}, NEW i \in DOMAIN run.cycles, run.cycles[i].candidate = run.candidate
      PROVE  run.authorized # NoRetry
  <2>1. PICK j \in DOMAIN run.cycles :
           run.cycles[j].candidate = run.candidate /\ run.cycles[j].retry = 0
    BY <1>6 DEF IData, CyclesOK
  <2>2. run.cycles[j].cycle = run.cycles[j].candidate + 1
    BY DEF IData, CyclesOK
  <2>3. retry # 0
    BY <1>1, <1>6, <2>1, <2>2 DEF Outcome
  <2>. QED BY <1>1, <2>3 DEF Turn, NoRetry
<1>. QED BY <1>3, <1>4, <1>5, <1>6

\* What the steps of a review may change of the evidence.
Open(o) ==
    \/ o = NoOutcome
    \/ /\ o.cycle = run.used + 1 /\ o.candidate = run.candidate /\ o.retry = Turn
       /\ o.action = "repair" => o.cycle \in Slots

LEMMA DataReviewed ==
  ASSUME IData, Noted(run, run'), UNCHANGED <<verdict, slot, confirmed, comments, remote>>,
         \/ run'.last = run.last /\ run'.attention = run.attention
         \/ run'.last = "run.attention_required" /\ run'.attention.scope = "gate",
         Settled, run.candidate = run.used, run.checkpoint # "reviewed",
         gate.sealed = NoOutcome, Fresh,
         (\E i \in DOMAIN run.cycles : run.cycles[i].candidate = run.candidate) =>
            run.authorized # NoRetry,
         Open(gate'.sealed),
         gate'.sealed # NoOutcome /\ gate'.sealed.action = "complete" =>
            Reviewing /\ \A a \in Axes : gate'.reviews[a] = "passed"
  PROVE  IData' /\ Settled'
<1>1. RepairOK' /\ SlotsOK' /\ AttemptOK' /\ HeadIsExplained'
  BY DEF IData, RepairOK, SlotsOK, AttemptOK, HeadIsExplained, CurrentBrief, InterruptedReady,
     RepairExhausted, Noted
<1>2. CyclesOK' /\ CommentsOK'
  BY DEF IData, CyclesOK, CommentsOK, Noted
<1>3. Settled'
  BY DEF Settled, Conclusive, Reviewing, Noted
<1>4. run'.last # "gate.cycle_completed"
  BY DEF IData, JudgedOK
<1>5. JudgedOK'
  BY <1>3, <1>4 DEF JudgedOK
<1>6. GateOK'
  <2>1. Fresh' /\ Turn' = Turn
    BY DEF Fresh, Turn, Noted
  <2>2. gate'.sealed # NoOutcome =>
          /\ gate'.sealed.cycle = run'.used + 1 /\ gate'.sealed.candidate = run'.candidate
          /\ gate'.sealed.retry = Turn'
          /\ gate'.sealed.action = "repair" => gate'.sealed.cycle \in Slots
    BY <2>1 DEF Open, Noted
  <2>3. run'.authorized # NoRetry =>
          /\ run'.authorized.candidate = run'.candidate
          /\ run'.authorized.retry > 0 /\ run'.authorized.retry <= Len(run'.cycles)
          /\ run'.candidate = run'.used /\ Fresh' /\ run'.checkpoint = "validated"
          /\ \E i \in DOMAIN run'.cycles : run'.cycles[i].candidate = run'.candidate
    BY <2>1 DEF IData, GateOK, Noted
  <2>4. Reviewing' = Reviewing /\ run'.candidate = run'.used /\ run'.checkpoint # "reviewed"
    BY DEF Reviewing, Noted
  <2>5. run'.cycles = run.cycles /\ run'.candidate = run.candidate
        /\ run'.authorized = run.authorized
    BY DEF Noted
  <2>. QED BY <2>1, <2>2, <2>3, <2>4, <2>5 DEF GateOK
<1>. QED BY <1>1, <1>2, <1>3, <1>5, <1>6 DEF IData

LEMMA GateEnterKeeps == IInv /\ GateEnter => IInv'
<1> SUFFICES ASSUME IInv, GateEnter PROVE IInv'
  OBVIOUS
<1>1. /\ pc = "gate" /\ Settled /\ retry = Turn /\ run.candidate = run.used
      /\ run.checkpoint # "reviewed" /\ run.attempt.status # "started"
      /\ Len(run.cycles) < MaxComments
  BY DEF GateEnter, IInv, ICommand, ValidatingOK, OpenSteps, CyclingOK, CycleSteps
<1>2. /\ run' = run
      /\ UNCHANGED <<verdict, slot, confirmed, pushed, world, retry, thenGate, bounds>>
  BY DEF GateEnter, Goto
<1>3. /\ UNCHANGED <<verdict, slot, confirmed, comments, remote>>
  BY <1>2 DEF world
<1>4. CASE hand' \in Outcome /\ Goto("publish") /\ UNCHANGED gate
  <2>1. pc' = "publish"
    BY <1>4 DEF Goto
  <2>2. /\ hand' \in Outcomes /\ hand' # NoOutcome
        /\ hand' = gate.sealed \/ \E i \in DOMAIN run.cycles : hand' = run.cycles[i]
        /\ hand'.cycle = run.used + 1 /\ hand'.candidate = run.candidate /\ hand'.retry = Turn
    BY <1>1, <1>4, OutcomeIs DEF IInv, ICommand
  <2>3. StateTyped'
    BY <1>2, <1>4, <2>1, <2>2 DEF IInv, StateTyped, Steps, world, bounds
  <2>4. IData'
    BY <1>2, <1>3, <1>4, DataUnchanged DEF IInv
  <2>5. Settled' /\ Turn' = Turn
    BY <1>1, <1>2 DEF Settled, Conclusive, Reviewing, Turn
  <2>6. CyclingOK' /\ pc' \in CycleSteps
    BY <1>1, <1>2, <1>4, <2>1, <2>2, <2>5 DEF CyclingOK, CycleSteps, ReviewSteps, TellSteps
  <2>. QED BY <1>1, <1>2, <2>3, <2>4, <2>6, CommandIn DEF IInv
<1>5. CASE /\ Outcome = {} /\ ~gate.drift /\ UNCHANGED hand
           /\ \/ ~Reviewing /\ Goto("decide") /\ UNCHANGED gate
              \/ Reviewing /\ gate.bundle = "absent" /\ Goto("bundle")
                 /\ gate' = [gate EXCEPT !.bundle = "writing"]
              \/ Reviewing /\ gate.bundle = "sealed" /\ Goto("review")
                 /\ UNCHANGED gate
  <2>1. /\ gate.sealed = NoOutcome /\ Fresh
        /\ (\E i \in DOMAIN run.cycles : run.cycles[i].candidate = run.candidate)
               => run.authorized # NoRetry
    BY <1>1, <1>5, OutcomeIs DEF IInv, ICommand
  <2>2. PICK next \in {"decide", "bundle", "review"} :
           pc' = next /\ (next = "decide" => ~Reviewing)
    BY <1>5 DEF Goto
  <2>3. /\ gate'.sealed = NoOutcome /\ ~gate'.drift
        /\ gate' = gate \/ Reviewing
        /\ gate' \in [bundle : {"absent", "writing", "sealed"}, drift : BOOLEAN,
                      sealed : Outcomes, reviews : [Axes -> Verdicts \cup {"absent", "started"}]]
    BY <1>5, <2>1 DEF IInv, StateTyped
  <2>4. StateTyped'
    BY <1>2, <1>5, <2>2, <2>3 DEF IInv, StateTyped, Steps, world, bounds
  <2>5. gate'.sealed = NoOutcome /\ ~gate'.drift
    BY <1>5, <2>1 DEF IInv, StateTyped
  <2>6. IData' /\ Settled'
    BY <1>1, <1>2, <1>3, <2>1, <2>5, DataReviewed DEF IInv, Noted, Open
  <2>7. Fresh' /\ Turn' = Turn /\ Reviewing' = Reviewing
    BY <1>2, <2>1 DEF Fresh, Turn, Reviewing
  <2>8. CyclingOK' /\ pc' \in CycleSteps
    BY <1>1, <1>2, <2>1, <2>2, <2>5, <2>6, <2>7 DEF CyclingOK, CycleSteps, ReviewSteps, TellSteps
  <2>. QED BY <1>1, <1>2, <2>4, <2>6, <2>8, CommandIn DEF IInv
<1>. QED BY <1>4, <1>5 DEF GateEnter

\* A step of the reviews: it leaves the outcome open.
LEMMA Reviews ==
  ASSUME IInv, NEW next \in {"review", "reviewing", "decide"}, pc \in ReviewSteps, pc' = next,
         UNCHANGED <<run, verdict, slot, confirmed, pushed, world, local, bounds>>,
         gate' \in [bundle : {"absent", "writing", "sealed"}, drift : BOOLEAN, sealed : Outcomes,
                    reviews : [Axes -> Verdicts \cup {"absent", "started"}]],
         gate'.sealed = gate.sealed, gate'.drift = gate.drift,
         next = "decide" => \A a \in Axes : gate'.reviews[a] \in Verdicts
  PROVE  IInv'
<1>1. /\ Settled /\ retry = Turn /\ run.candidate = run.used
      /\ run.checkpoint # "reviewed" /\ run.attempt.status # "started"
      /\ Len(run.cycles) < MaxComments
      /\ gate.sealed = NoOutcome /\ ~gate.drift /\ Fresh
      /\ (\E i \in DOMAIN run.cycles : run.cycles[i].candidate = run.candidate) =>
                run.authorized # NoRetry
  BY DEF IInv, ICommand, ValidatingOK, OpenSteps, CyclingOK, CycleSteps, ReviewSteps
<1>2. StateTyped'
  BY DEF IInv, StateTyped, Steps, world, local, bounds
<1>3. IData' /\ Settled'
  BY <1>1, DataReviewed DEF IInv, Noted, Open, world
<1>4. Fresh' /\ Turn' = Turn /\ Reviewing' = Reviewing
  BY <1>1 DEF Fresh, Turn, Reviewing
<1>5. CyclingOK' /\ pc' \in CycleSteps
  BY <1>1, <1>3, <1>4 DEF CyclingOK, CycleSteps, ReviewSteps, TellSteps, local
<1>. QED BY <1>1, <1>2, <1>3, <1>5, CommandIn DEF IInv

LEMMA ReviewKeeps ==
  /\ IInv /\ (SealBundle \/ ReviewsDone) => IInv'
  /\ \A a \in Axes : IInv /\ (StartReview(a) \/ RecoverReview(a)) => IInv'
  /\ \A a \in Axes, result \in Verdicts : IInv /\ FinishReview(a, result) => IInv'
<1> DEFINE Gates == [bundle : {"absent", "writing", "sealed"}, drift : BOOLEAN, sealed : Outcomes,
                     reviews : [Axes -> Verdicts \cup {"absent", "started"}]]
<1>1. IInv => gate \in Gates
  BY DEF IInv, StateTyped
<1>2. ASSUME IInv, SealBundle PROVE IInv'
  <2>1. gate' \in Gates /\ gate'.sealed = gate.sealed /\ gate'.drift = gate.drift
    BY <1>1, <1>2 DEF SealBundle
  <2>2. pc \in ReviewSteps
    BY <1>2 DEF SealBundle, ReviewSteps
  <2>. QED BY <1>2, <2>1, <2>2, Reviews DEF SealBundle, Goto
<1>3. ASSUME IInv, ReviewsDone PROVE IInv'
  <2>1. gate' = gate /\ pc \in ReviewSteps
    BY <1>3 DEF ReviewsDone, ReviewSteps, evidence
  <2>. QED BY <1>1, <1>3, <2>1, Reviews DEF ReviewsDone, Goto, evidence
<1>4. ASSUME IInv, NEW a \in Axes, NEW from, NEW to \in Verdicts \cup {"started"},
             NEW next \in {"review", "reviewing"}, pc \in ReviewSteps, Review(a, from, to, next)
      PROVE  IInv'
  <2>1. gate' = [gate EXCEPT !.reviews = [@ EXCEPT ![a] = to]]
    BY <1>4 DEF Review
  <2>2. gate' \in Gates /\ gate'.sealed = gate.sealed /\ gate'.drift = gate.drift
    BY <1>1, <1>4, <2>1
  <2>. QED BY <1>4, <2>2, Reviews DEF Review, Goto
<1>5. ASSUME IInv, NEW a \in Axes, StartReview(a) \/ RecoverReview(a) PROVE IInv'
  BY <1>4, <1>5 DEF StartReview, RecoverReview, ReviewSteps, Verdicts
<1>6. ASSUME IInv, NEW a \in Axes, NEW result \in Verdicts, FinishReview(a, result) PROVE IInv'
  BY <1>4, <1>6 DEF FinishReview, ReviewSteps
<1>. QED BY <1>2, <1>3, <1>5, <1>6

\* What decides about a Candidate: it is complete only if every axis passed.
LEMMA ActionIs ==
  ASSUME StateTyped, RunTyped(run)
  PROVE  /\ NextAction \in {"complete", "repair", "attention"}
         /\ NextAction = "repair" => run.used < MaxRepairs
         /\ NextAction = "complete" /\ (Reviewing => \A a \in Axes : gate.reviews[a] \in Verdicts)
               => Reviewing /\ \A a \in Axes : gate.reviews[a] = "passed"
BY DEF NextAction, Rejected, Reviewed, Verdicts

LEMMA DecideKeeps == IInv /\ Decide => IInv'
<1> SUFFICES ASSUME IInv, Decide PROVE IInv'
  OBVIOUS
<1> DEFINE outcome == [cycle |-> run.used + 1, retry |-> retry, candidate |-> run.candidate,
                       action |-> NextAction,
                       stop |-> NextAction = "attention" /\ run.used >= MaxRepairs /\ Rejected]
<1>1. /\ Settled /\ retry = Turn /\ run.candidate = run.used
      /\ run.checkpoint # "reviewed" /\ run.attempt.status # "started"
      /\ Len(run.cycles) < MaxComments
      /\ gate.sealed = NoOutcome /\ ~gate.drift /\ Fresh
      /\ (\E i \in DOMAIN run.cycles : run.cycles[i].candidate = run.candidate) =>
                run.authorized # NoRetry
      /\ Reviewing => \A a \in Axes : gate.reviews[a] \in Verdicts
  BY DEF IInv, ICommand, ValidatingOK, OpenSteps, CyclingOK, CycleSteps, ReviewSteps, Decide
<1>2. UNCHANGED <<verdict, slot, confirmed, pushed, world, retry, thenGate>>
  BY DEF Decide
<1>3. UNCHANGED <<verdict, slot, confirmed, comments, remote>>
  BY <1>2 DEF world
<1>4. CASE /\ Published(run.candidate) /\ NoFault
           /\ gate' = [gate EXCEPT !.sealed = outcome] /\ hand' = outcome
           /\ Goto("publish")
  <2>1. run' = run /\ pc' = "publish" /\ UNCHANGED <<faults, crashes>>
    BY <1>4 DEF Goto, NoFault, bounds
  <2>2. outcome \in Outcomes /\ outcome # NoOutcome
    <3>1. run.used + 1 \in 0 .. MaxRepairs + 1 /\ run.candidate \in Candidates \cup {None}
      BY GateConstants DEF IInv, RunTyped
    <3>2. NextAction \in {"complete", "repair", "attention"}
      BY ActionIs DEF IInv
    <3>3. (NextAction = "attention" /\ run.used >= MaxRepairs /\ Rejected) \in BOOLEAN
      BY DEF Rejected
    <3>4. outcome \in Outcomes
      BY <3>1, <3>2, <3>3 DEF Outcomes, IInv, StateTyped
    <3>5. outcome.cycle # NoOutcome.cycle
      BY GateConstants DEF IInv, RunTyped, NoOutcome
    <3>. QED BY <3>4, <3>5
  <2>3. /\ outcome.cycle = run.used + 1 /\ outcome.candidate = run.candidate
        /\ outcome.retry = Turn /\ outcome.action = NextAction
    BY <1>1
  <2>4. /\ gate'.sealed = outcome /\ gate'.reviews = gate.reviews
        /\ gate' \in [bundle : {"absent", "writing", "sealed"}, drift : BOOLEAN,
                      sealed : Outcomes, reviews : [Axes -> Verdicts \cup {"absent", "started"}]]
    BY <1>4, <2>2 DEF IInv, StateTyped
  <2>5. /\ outcome.action = "repair" => outcome.cycle \in Slots
        /\ outcome.action = "complete" => Reviewing /\ \A a \in Axes : gate'.reviews[a] = "passed"
    <3>1. outcome.action = "repair" => outcome.cycle \in Slots
      BY <2>3, ActionIs, GateConstants DEF IInv, RunTyped, Slots
    <3>2. outcome.action = "complete" =>
             Reviewing /\ \A a \in Axes : gate'.reviews[a] = "passed"
      BY <1>1, <2>3, <2>4, ActionIs DEF IInv
    <3>. QED BY <3>1, <3>2
  <2> HIDE DEF outcome
  <2>6. StateTyped'
    BY <1>2, <1>4, <2>1, <2>2, <2>4 DEF IInv, StateTyped, Steps, world
  <2>7. Open(gate'.sealed)
    BY <2>3, <2>4, <2>5 DEF Open
  <2>8. IData' /\ Settled'
    BY <1>1, <1>3, <2>1, <2>4, <2>5, <2>7, DataReviewed DEF IInv, Noted
  <2>9. CyclingOK' /\ pc' \in CycleSteps
    <3>1. Turn' = Turn
      BY <2>1 DEF Turn
    <3>. QED BY <1>1, <1>2, <1>4, <2>1, <2>2, <2>3, <2>4, <2>8, <3>1
         DEF CyclingOK, CycleSteps, ReviewSteps, TellSteps
  <2>. QED BY <1>1, <2>1, <2>6, <2>8, <2>9, CommandIn DEF IInv
<1>5. ASSUME NEW kind \in {"head_mismatch", "inconclusive"}, Unpublished(run.candidate, kind),
             Stop(run, "gate", kind), gate' = [gate EXCEPT !.drift = Reviewing],
             UNCHANGED hand
      PROVE  IInv'
  <2>1. kind \in Reasons /\ "gate" \in Scopes
    BY DEF Reasons, Scopes, Verdicts, Errors
  <2>2. /\ RunTyped(run') /\ Noted(run, run') /\ pc' = "idle"
        /\ run'.last = "run.attention_required" /\ run'.attention.scope = "gate"
    BY <1>5, <2>1, Stopped DEF IInv
  <2>3. /\ gate'.sealed = NoOutcome
        /\ gate' \in [bundle : {"absent", "writing", "sealed"}, drift : BOOLEAN,
                      sealed : Outcomes, reviews : [Axes -> Verdicts \cup {"absent", "started"}]]
    BY <1>1, <1>5 DEF IInv, StateTyped, Reviewing
  <2>4. faults' \in 0 .. MaxFaults /\ crashes' \in 0 .. MaxCrashes
    BY <1>5, BoundsTyped DEF IInv
  <2>5. StateTyped'
    BY <1>2, <1>5, <2>2, <2>3, <2>4 DEF IInv, StateTyped, Steps, world
  <2>6. IData'
    BY <1>1, <1>3, <2>2, <2>3, DataReviewed DEF IInv, Open
  <2>. QED BY <2>2, <2>5, <2>6, CommandIdle DEF IInv
<1>. QED BY <1>4, <1>5 DEF Decide

\* What is known while an outcome is told.
Telling ==
    /\ Settled /\ retry = Turn /\ run.candidate = run.used /\ run.checkpoint # "reviewed"
    /\ run.attempt.status # "started" /\ Len(run.cycles) < MaxComments /\ hand # NoOutcome
    /\ hand = gate.sealed \/ \E i \in DOMAIN run.cycles : hand = run.cycles[i]
    /\ hand.cycle = run.used + 1 /\ hand.candidate = run.candidate /\ hand.retry = Turn

LEMMA TellStep == ASSUME IInv, pc \in TellSteps PROVE Telling
BY DEF Telling, IInv, ICommand, ValidatingOK, OpenSteps, CyclingOK, CycleSteps, ReviewSteps,
   TellSteps

LEMMA TellOn ==
  ASSUME Telling, UNCHANGED <<run, gate, local>>, pc' \in TellSteps,
         pc' \in {"confirm_comment", "record_cycle"} =>
            \E i \in DOMAIN comments' : comments'[i] = Marker(hand),
         pc' = "record_cycle" => Marker(hand) \in confirmed'
  PROVE  ICommand'
<1>1. Settled' /\ Turn' = Turn /\ hand' = hand /\ retry' = retry
  BY DEF Telling, Settled, Conclusive, Reviewing, Turn, local
<1>2. pc' \in CycleSteps /\ pc' \notin ReviewSteps /\ pc' # "decide" /\ pc' \notin {"gate"}
  BY DEF CycleSteps, ReviewSteps, TellSteps
<1>3. CyclingOK'
  BY <1>1, <1>2 DEF CyclingOK, Telling, Marker
<1>. QED BY <1>2, <1>3, CommandIn DEF Telling

LEMMA PublishKeeps == IInv /\ Publish => IInv'
<1> SUFFICES ASSUME IInv, Publish PROVE IInv'
  OBVIOUS
<1>1. Telling
  BY TellStep DEF Publish, TellSteps
<1>2. faults' \in 0 .. MaxFaults /\ crashes' \in 0 .. MaxCrashes
  BY BoundsTyped DEF IInv, Publish
<1>3. StateTyped'
  <2>1. pc' \in Steps
    BY Moves DEF Publish, Steps
  <2>. QED BY <1>2, <2>1, CommandTyped DEF Publish, IInv, StateTyped, local
<1>4. CASE Goto("comment")
  <2>1. UNCHANGED <<run, verdict, slot, gate, confirmed, comments, remote>>
        /\ UNCHANGED local /\ pc' = "comment"
    BY <1>4 DEF Goto, Publish, evidence, world
  <2>2. pc' \in TellSteps /\ pc' \notin {"confirm_comment", "record_cycle"}
    BY <2>1 DEF TellSteps
  <2>. QED BY <1>1, <1>3, <2>1, <2>2, DataUnchanged, TellOn DEF IInv
<1>5. ASSUME NEW kind \in {"head_mismatch", "inconclusive"}, Stop(run, "gate", kind)
      PROVE  IInv'
  <2>1. kind \in Reasons /\ "gate" \in Scopes
    BY DEF Reasons, Scopes, Verdicts, Errors
  <2>. QED BY <1>3, <1>5, <2>1, StopKeeps DEF Publish
<1>. QED BY <1>4, <1>5 DEF Publish

\* How often a marker is found among the comments.
LEMMA OccursIs ==
  ASSUME StateTyped, NEW m
  PROVE  /\ Occurs(m) = 0 <=> \A i \in DOMAIN comments : comments[i] # m
         /\ \A i \in DOMAIN comments :
               comments[i] = m /\ (\A j \in DOMAIN comments : comments[j] = m => j = i)
                  => Occurs(m) = 1
<1> DEFINE found == {i \in DOMAIN comments : comments[i] = m}
<1>1. IsFiniteSet(found)
  <2>1. DOMAIN comments = 1 .. Len(comments) /\ Len(comments) \in Nat
    BY DEF StateTyped
  <2>2. IsFiniteSet(1 .. Len(comments))
    BY <2>1, FS_Interval
  <2>. QED BY <2>1, <2>2, FS_Subset
<1>2. Cardinality(found) = 0 <=> found = {}
  BY <1>1, FS_EmptySet
<1>3. ASSUME NEW i \in DOMAIN comments, comments[i] = m,
             \A j \in DOMAIN comments : comments[j] = m => j = i
      PROVE  Cardinality(found) = 1
  <2>1. found = {i}
    BY <1>3
  <2>. QED BY <2>1, FS_Singleton
<1>4. Occurs(m) = Cardinality(found)
  BY DEF Occurs
<1>. QED BY <1>2, <1>3, <1>4

\* The evidence of a sealed outcome that is not recorded.
LEMMA SealedIsOpen ==
  IData /\ gate.sealed # NoOutcome =>
     /\ Fresh /\ gate # NoGate /\ gate.sealed.cycle = run.used + 1 /\ gate.sealed.retry = Turn
     /\ Marker(gate.sealed) = [cycle |-> run.used + 1, retry |-> Turn]
BY DEF IData, GateOK, NoGate, Marker

\* No two comments have the same marker.
LEMMA CommentsDiffer ==
  ASSUME IData, StateTyped, RunTyped(run)
  PROVE  /\ Len(comments) <= MaxComments
         /\ \A i, j \in DOMAIN comments : comments[i] = comments[j] => i = j
<1>1. /\ DOMAIN comments = 1 .. Len(comments) /\ Len(comments) \in Nat
      /\ DOMAIN run.cycles = 1 .. Len(run.cycles) /\ Len(run.cycles) \in Nat
  BY DEF StateTyped, RunTyped
<1>2. Len(comments) <= MaxComments
  <2>1. /\ Len(run.cycles) <= MaxComments
        /\ Len(comments) \in {Len(run.cycles), Len(run.cycles) + 1}
        /\ Len(comments) > Len(run.cycles) => Len(run.cycles) < MaxComments
    BY DEF IData, CommentsOK, CyclesOK
  <2>2. Len(comments) \in Nat /\ Len(run.cycles) \in Nat /\ MaxComments \in Nat
    BY <1>1, GateConstants
  <2>. QED BY <2>1, <2>2
<1>3. \A i \in DOMAIN run.cycles : comments[i] = Marker(run.cycles[i])
  BY DEF IData, CommentsOK
<1>4. \A i, j \in DOMAIN run.cycles : Marker(run.cycles[i]) = Marker(run.cycles[j]) => i = j
  BY DEF IData, CyclesOK
<1>5. CASE Len(comments) = Len(run.cycles)
  BY <1>1, <1>2, <1>3, <1>4, <1>5
<1>6. CASE Len(comments) = Len(run.cycles) + 1
  <2>1. \A i \in DOMAIN comments : i # Len(comments) => i \in DOMAIN run.cycles
    BY <1>1, <1>6
  <2>2. comments[Len(comments)] = [cycle |-> run.used + 1, retry |-> Turn] /\ Fresh
    <3>1. Len(comments) > Len(run.cycles)
      BY <1>1, <1>6
    <3>. QED BY <3>1, SealedIsOpen DEF IData, CommentsOK
  <2>3. \A i \in DOMAIN comments :
           i # Len(comments) => comments[i] # comments[Len(comments)]
    BY <1>3, <2>1, <2>2 DEF Fresh
  <2>. QED BY <1>2, <1>3, <1>4, <2>1, <2>3
<1>. QED BY <1>5, <1>6 DEF IData, CommentsOK

LEMMA OccursOnce ==
  ASSUME IData, StateTyped, RunTyped(run), NEW i \in DOMAIN comments
  PROVE  Occurs(comments[i]) = 1
BY CommentsDiffer, OccursIs

\* A recorded cycle, and nothing else that is told, has its comment.
LEMMA RecordedIsFound ==
  ASSUME IData, StateTyped, RunTyped(run), NEW i \in DOMAIN run.cycles
  PROVE  Occurs(Marker(run.cycles[i])) = 1 /\ Marker(run.cycles[i]) \in confirmed
<1>1. i \in DOMAIN comments /\ comments[i] = Marker(run.cycles[i])
  BY DEF IData, CommentsOK, StateTyped, RunTyped
<1>. QED BY <1>1, OccursOnce DEF IData, CommentsOK

\* A new comment is that of the sealed outcome, behind those of the recorded cycles.
LEMMA Appended ==
  ASSUME IInv, Telling, Occurs(Marker(hand)) = 0, comments' = Append(comments, Marker(hand)),
         UNCHANGED <<confirmed, gate>>, run'.cycles = run.cycles
  PROVE  /\ CommentsOK' /\ comments' \in Seq(Markers)
         /\ \E i \in DOMAIN comments' : comments'[i] = Marker(hand)
<1>1. hand = gate.sealed
  <2>1. \A i \in DOMAIN run.cycles : Occurs(Marker(run.cycles[i])) = 1
    BY RecordedIsFound DEF IInv
  <2>. QED BY <2>1 DEF Telling
<1>2. /\ DOMAIN comments = 1 .. Len(comments) /\ Len(comments) \in Nat
      /\ DOMAIN run.cycles = 1 .. Len(run.cycles) /\ Len(run.cycles) \in Nat
      /\ comments \in Seq(Markers)
  BY DEF IInv, StateTyped, RunTyped
<1>3. gate.sealed # NoOutcome /\ Len(run.cycles) < MaxComments
  BY <1>1 DEF Telling
<1>4. \A i \in DOMAIN comments : comments[i] # Marker(hand)
  BY OccursIs DEF IInv
<1>5. Len(comments) = Len(run.cycles)
  <2>1. ASSUME Len(comments) = Len(run.cycles) + 1 PROVE FALSE
    <3>1. Len(comments) \in DOMAIN comments /\ Len(comments) > Len(run.cycles)
      BY <1>2, <2>1
    <3>2. comments[Len(comments)] = Marker(hand)
      BY <1>1, <3>1 DEF IInv, IData, CommentsOK
    <3>. QED BY <1>4, <3>1, <3>2
  <2>. QED BY <2>1 DEF IInv, IData, CommentsOK
<1>6. Marker(hand) \in Markers
  BY GateConstants DEF Telling, Marker, Markers, IInv, RunTyped, StateTyped, Retries, Outcomes
<1>7. /\ Len(comments') = Len(comments) + 1 /\ comments' \in Seq(Markers)
      /\ comments'[Len(comments) + 1] = Marker(hand)
      /\ \A i \in 1 .. Len(comments) : comments'[i] = comments[i]
      /\ DOMAIN comments' = 1 .. Len(comments) + 1
  BY <1>2, <1>6
<1>8. CommentsOK'
  <2>1. \A i \in DOMAIN run.cycles :
           comments[i] = Marker(run.cycles[i]) /\ Marker(run.cycles[i]) \in confirmed
    BY DEF IInv, IData, CommentsOK
  <2>2. \A i \in DOMAIN run.cycles :
           comments'[i] = Marker(run.cycles[i]) /\ Marker(run.cycles[i]) \in confirmed
    BY <1>2, <1>5, <1>7, <2>1
  <2>3. Len(comments') = Len(run.cycles) + 1 /\ comments'[Len(comments')] = Marker(gate.sealed)
    BY <1>1, <1>5, <1>7
  <2>. QED BY <1>3, <2>2, <2>3 DEF CommentsOK
<1>9. Len(comments) + 1 \in DOMAIN comments'
  BY <1>2, <1>7
<1>. QED BY <1>7, <1>8, <1>9

LEMMA CommentKeeps == IInv /\ Comment => IInv'
<1> SUFFICES ASSUME IInv, Comment PROVE IInv'
  OBVIOUS
<1> DEFINE marker == Marker(hand)
           fails  == Fault("comment") /\ Stop(run, "gate", "inconclusive")
<1>1. Telling
  BY TellStep DEF Comment, TellSteps
<1>2. UNCHANGED <<verdict, slot, gate, confirmed, pushed, tree, remote, hand, retry, thenGate>>
  BY DEF Comment, evidence, local
<1>3. faults' \in 0 .. MaxFaults /\ crashes' \in 0 .. MaxCrashes
  BY BoundsTyped DEF Comment, IInv
<1>4. pc' \in {"idle", "confirm_comment"}
  BY Moves DEF Comment
<1>5. ASSUME comments' \in Seq(Markers) PROVE StateTyped'
  BY <1>2, <1>3, <1>4, <1>5 DEF IInv, StateTyped, Steps
<1>6. "gate" \in Scopes /\ {"inconclusive", "conflict"} \subseteq Reasons
  BY DEF Scopes, Reasons, Verdicts
<1>7. ASSUME NEW kind \in {"inconclusive", "conflict"}, Stop(run, "gate", kind),
             UNCHANGED comments
      PROVE  IInv'
  <2>1. StateTyped'
    BY <1>5, <1>7 DEF IInv, StateTyped
  <2>. QED BY <1>2, <1>6, <1>7, <2>1, StopKeeps DEF evidence, world
<1>8. CASE Occurs(marker) = 1 /\ Goto("confirm_comment") /\ UNCHANGED comments
  <2>1. run' = run /\ pc' = "confirm_comment"
    BY <1>8 DEF Goto
  <2>2. \E i \in DOMAIN comments : comments[i] = marker
    BY <1>8, OccursIs DEF IInv
  <2>3. StateTyped' /\ IData'
    BY <1>2, <1>5, <1>8, <2>1, DataUnchanged DEF IInv, StateTyped
  <2>4. pc' \in TellSteps
    BY <2>1 DEF TellSteps
  <2>5. ICommand'
    BY <1>1, <1>2, <1>8, <2>1, <2>2, <2>4, TellOn DEF local
  <2>. QED BY <2>1, <2>3, <2>5 DEF IInv
<1>9. CASE /\ Occurs(marker) = 0 /\ comments' = Append(comments, marker)
           /\ Goto("confirm_comment")
  <2>1. run' = run /\ pc' = "confirm_comment"
    BY <1>9 DEF Goto
  <2>2. /\ CommentsOK' /\ comments' \in Seq(Markers)
        /\ \E i \in DOMAIN comments' : comments'[i] = Marker(hand)
    BY <1>1, <1>2, <1>9, <2>1, Appended
  <2>3. IData'
    BY <1>2, <2>1, <2>2, DataKept DEF IInv, Noted
  <2>4. pc' \in TellSteps
    BY <2>1 DEF TellSteps
  <2>5. ICommand'
    BY <1>1, <1>2, <2>1, <2>2, <2>4, TellOn DEF local
  <2>. QED BY <1>5, <2>1, <2>2, <2>3, <2>5 DEF IInv
<1>10. CASE Occurs(marker) = 0 /\ comments' = Append(comments, marker) /\ fails
  <2>1. /\ RunTyped(run') /\ Noted(run, run') /\ pc' = "idle"
        /\ run'.last = "run.attention_required" /\ run'.attention.scope = "gate"
    BY <1>6, <1>10, Stopped DEF IInv
  <2>2. CommentsOK' /\ comments' \in Seq(Markers)
    BY <1>1, <1>2, <1>10, <2>1, Appended DEF Noted
  <2>3. IData'
    BY <1>2, <2>1, <2>2, DataKept DEF IInv, Alerted
  <2>. QED BY <1>5, <2>1, <2>2, <2>3, CommandIdle DEF IInv
<1>. QED BY <1>7, <1>8, <1>9, <1>10 DEF Comment

LEMMA ConfirmCommentKeeps == IInv /\ ConfirmComment => IInv'
<1> SUFFICES ASSUME IInv, ConfirmComment PROVE IInv'
  OBVIOUS
<1>1. /\ pc = "confirm_comment" /\ pc' = "record_cycle" /\ run' = run
      /\ confirmed' = confirmed \cup {Marker(hand)}
      /\ UNCHANGED <<verdict, slot, gate, pushed, tree, remote, comments>>
      /\ UNCHANGED <<hand, retry, thenGate, faults, crashes>> /\ UNCHANGED local
  BY DEF ConfirmComment, Goto, world, local, bounds
<1>2. Telling /\ \E i \in DOMAIN comments : comments[i] = Marker(hand)
  BY <1>1, TellStep DEF TellSteps, IInv, ICommand, CyclingOK
<1>3. Marker(hand) \in Markers
  BY <1>2 DEF IInv, StateTyped
<1>4. StateTyped'
  BY <1>1, <1>3 DEF IInv, StateTyped, Steps
<1>5. CommentsOK'
  BY <1>1 DEF IInv, IData, CommentsOK
<1>6. IData'
  BY <1>1, <1>5, DataKept DEF IInv, Noted
<1>7. pc' \in TellSteps
  BY <1>1 DEF TellSteps
<1>8. ICommand'
  BY <1>1, <1>2, <1>7, TellOn
<1>. QED BY <1>1, <1>4, <1>6, <1>8 DEF IInv

\* The repair that may follow the outcome of the command.
Repairable ==
    hand.action = "repair" =>
       /\ run.checkpoint # "reviewed" /\ hand.cycle \in Slots
       /\ CurrentBrief => hand.cycle <= run.used
       /\ ~CurrentBrief /\ hand.candidate = run.candidate => hand.cycle = run.used + 1

LEMMA NotInRepair ==
  ASSUME RunTyped(run), RepairOK, run.candidate = run.used
  PROVE  ~CurrentBrief
BY GateConstants DEF RunTyped, RepairOK, CurrentBrief, Brief, Candidates

\* A cycle that is told again has been followed by nothing.
LEMMA ToldKeeps ==
  ASSUME IInv, pc = "record_cycle", Told, pc' = "decided",
         UNCHANGED <<run, evidence, world, local, bounds>>
  PROVE  IInv'
<1>1. Telling
  BY TellStep DEF TellSteps
<1>2. ~Fresh
  BY <1>1 DEF Told, Fresh, Telling, Marker
<1>3. gate = NoGate /\ run.authorized = NoRetry
  BY <1>2 DEF IInv, IData, GateOK
<1>4. ~CurrentBrief
  BY <1>1, NotInRepair DEF IInv, IData, Telling
<1>5. hand.action = "repair" => hand.cycle \in Slots
  <2>1. CASE hand = gate.sealed
    BY <1>1, <2>1 DEF Telling, IInv, IData, GateOK
  <2>2. CASE \E i \in DOMAIN run.cycles : hand = run.cycles[i]
    BY <2>2 DEF IInv, IData, CyclesOK
  <2>. QED BY <1>1, <2>1, <2>2 DEF Telling
<1>6. UNCHANGED <<verdict, slot, gate, confirmed, comments, remote, hand>>
  BY DEF evidence, world, local
<1>7. IData'
  BY <1>6, DataUnchanged DEF IInv
<1>8. StateTyped'
  BY DEF IInv, StateTyped, Steps, evidence, world, local, bounds
<1>9. DecidedOK'
  BY <1>1, <1>3, <1>4, <1>5, <1>6
     DEF DecidedOK, DecidedSteps, Telling, Settled, Conclusive, Reviewing, RepairInterrupted,
         CurrentBrief
<1>10. pc' \in {"reobserve", "authorize"} \cup DecidedSteps /\ run'.attempt.status # "started"
  BY <1>1 DEF DecidedSteps, Telling
<1>. QED BY <1>7, <1>8, <1>9, <1>10, CommandIn DEF IInv

\* The cycle that is recorded is the one that was told last.
LEMMA TellingNew ==
  ASSUME IInv, pc = "record_cycle", ~Told
  PROVE  /\ Telling /\ hand = gate.sealed /\ Fresh /\ Marker(hand) \in confirmed
         /\ hand.retry <= Len(run.cycles)
         /\ hand.action = "repair" => hand.cycle \in Slots
         /\ hand.action = "complete" => Reviewing
         /\ hand.retry # 0 => \E j \in DOMAIN run.cycles :
               run.cycles[j].candidate = run.candidate /\ run.cycles[j].retry = 0
         /\ Len(comments) = Len(run.cycles) + 1 /\ comments[Len(comments)] = Marker(hand)
<1>1. Telling
  BY TellStep DEF TellSteps
<1>2. hand = gate.sealed
  BY <1>1 DEF Telling, Told
<1>3. gate.sealed # NoOutcome /\ Fresh /\ Marker(hand) = [cycle |-> run.used + 1, retry |-> Turn]
  BY <1>1, <1>2, SealedIsOpen DEF IInv, Telling
<1>4. Marker(hand) \in confirmed /\ \E i \in DOMAIN comments : comments[i] = Marker(hand)
  BY DEF IInv, ICommand, CyclingOK
<1>5. Len(comments) = Len(run.cycles) + 1 /\ comments[Len(comments)] = Marker(hand)
  <2>1. PICK i \in DOMAIN comments : comments[i] = Marker(hand)
    BY <1>4
  <2>2. i \notin DOMAIN run.cycles
    BY <1>3, <2>1 DEF Fresh, IInv, IData, CommentsOK
  <2>3. /\ DOMAIN comments = 1 .. Len(comments) /\ Len(comments) \in Nat
        /\ DOMAIN run.cycles = 1 .. Len(run.cycles) /\ Len(run.cycles) \in Nat
    BY DEF IInv, StateTyped, RunTyped
  <2>4. Len(comments) > Len(run.cycles)
    BY <2>1, <2>2, <2>3
  <2>5. Len(comments) \in {Len(run.cycles), Len(run.cycles) + 1}
    BY DEF IInv, IData, CommentsOK
  <2>6. Len(comments) \in Nat /\ Len(run.cycles) \in Nat
    BY <2>3
  <2>7. Len(comments) = Len(run.cycles) + 1
    BY <2>4, <2>5, <2>6
  <2>. QED BY <1>2, <2>4, <2>7 DEF IInv, IData, CommentsOK
<1>6. /\ hand.action = "repair" => hand.cycle \in Slots
      /\ hand.action = "complete" => Reviewing
  BY <1>2, <1>3 DEF IInv, IData, GateOK
<1>7. CASE run.authorized = NoRetry
  <2>1. hand.retry = 0
    BY <1>1, <1>7 DEF Telling, Turn, NoRetry
  <2>. QED BY <1>1, <1>2, <1>3, <1>4, <1>5, <1>6, <2>1 DEF IInv, RunTyped
<1>8. CASE run.authorized # NoRetry
  <2>1. PICK i \in DOMAIN run.cycles : run.cycles[i].candidate = run.candidate
    BY <1>8 DEF IInv, IData, GateOK
  <2>2. \E j \in DOMAIN run.cycles :
           run.cycles[j].candidate = run.candidate /\ run.cycles[j].retry = 0
    BY <2>1 DEF IInv, IData, CyclesOK
  <2>3. hand.retry <= Len(run.cycles)
    BY <1>1, <1>8 DEF Telling, Turn, IInv, IData, GateOK
  <2>. QED BY <1>1, <1>2, <1>3, <1>4, <1>5, <1>6, <2>2, <2>3
<1>. QED BY <1>7, <1>8

LEMMA CyclesAppended ==
  ASSUME IInv, pc = "record_cycle", ~Told, run'.cycles = Append(run.cycles, hand),
         run'.candidate = run.candidate, UNCHANGED <<comments, confirmed>>
  PROVE  /\ CyclesOK' /\ CommentsOK' /\ run'.cycles \in Seq(Outcomes)
         /\ \E i \in DOMAIN run'.cycles : run'.cycles[i].candidate = run'.candidate
<1> DEFINE old == run.cycles
           new == run'.cycles
<1>1. /\ old \in Seq(Outcomes) /\ hand \in Outcomes
      /\ Len(old) \in Nat /\ DOMAIN old = 1 .. Len(old)
      /\ run.candidate \in 0 .. MaxRepairs /\ run.used \in 0 .. MaxRepairs
  BY DEF IInv, RunTyped, StateTyped, Candidates
<1>2. /\ new \in Seq(Outcomes) /\ Len(new) = Len(old) + 1 /\ DOMAIN new = 1 .. Len(old) + 1
      /\ new[Len(old) + 1] = hand /\ \A i \in DOMAIN old : new[i] = old[i]
  BY <1>1
<1>3. /\ Telling /\ Fresh /\ Marker(hand) \in confirmed
      /\ hand.retry <= Len(old)
      /\ hand.action = "repair" => hand.cycle \in Slots
      /\ hand.retry # 0 =>
            \E j \in DOMAIN old : old[j].candidate = run.candidate /\ old[j].retry = 0
      /\ Len(comments) = Len(old) + 1 /\ comments[Len(comments)] = Marker(hand)
  BY TellingNew
<1>4. \A i \in DOMAIN old : Marker(old[i]) # Marker(hand)
  BY <1>3 DEF Fresh, Telling, Marker
<1>5. /\ Len(old) < MaxComments /\ hand.cycle = run.candidate + 1
      /\ hand.candidate = run.candidate
  BY <1>3 DEF Telling
<1>6. \A i \in DOMAIN new : i \in DOMAIN old \/ i = Len(old) + 1
  BY <1>1, <1>2
<1>7. \A i \in DOMAIN old : i \in DOMAIN new
  BY <1>1, <1>2
<1>8. Len(old) + 1 \in DOMAIN new
  BY <1>1, <1>2
<1> HIDE DEF old, new
<1>9. \A i \in DOMAIN new : new[i].cycle = new[i].candidate + 1
                            /\ new[i].candidate \in 0 .. run.candidate
                            /\ (new[i].action = "repair" => new[i].cycle \in Slots)
  <2>1. \A i \in DOMAIN old : old[i].cycle = old[i].candidate + 1
                              /\ old[i].candidate \in 0 .. run.candidate
                              /\ (old[i].action = "repair" => old[i].cycle \in Slots)
    BY DEF IInv, IData, CyclesOK, old
  <2>. QED BY <1>1, <1>2, <1>3, <1>5, <1>6, <2>1
<1>10. \A i \in DOMAIN new : new[i].retry < i
  <2>1. \A i \in DOMAIN old : old[i].retry < i
    BY DEF IInv, IData, CyclesOK, old
  <2>2. hand.retry \in Int
    BY <1>1, GateConstants DEF Outcomes, Retries
  <2>. QED BY <1>1, <1>2, <1>3, <1>6, <2>1, <2>2
<1>11. \A i \in DOMAIN new : \E j \in DOMAIN new :
          new[j].candidate = new[i].candidate /\ new[j].retry = 0
  <2>1. \A i \in DOMAIN old : \E j \in DOMAIN old :
           old[j].candidate = old[i].candidate /\ old[j].retry = 0
    BY DEF IInv, IData, CyclesOK, old
  <2>2. ASSUME NEW i \in DOMAIN old
        PROVE  \E j \in DOMAIN new : new[j].candidate = new[i].candidate /\ new[j].retry = 0
    <3>1. PICK j \in DOMAIN old : old[j].candidate = old[i].candidate /\ old[j].retry = 0
      BY <2>1
    <3>. QED BY <1>2, <1>7, <3>1
  <2>3. \E j \in DOMAIN new : new[j].candidate = run.candidate /\ new[j].retry = 0
    <3>1. CASE hand.retry = 0
      BY <1>2, <1>5, <1>8, <3>1
    <3>2. CASE hand.retry # 0
      <4>1. PICK j \in DOMAIN old : old[j].candidate = run.candidate /\ old[j].retry = 0
        BY <1>3, <3>2
      <4>. QED BY <1>2, <1>7, <4>1
    <3>. QED BY <3>1, <3>2
  <2>4. new[Len(old) + 1].candidate = run.candidate
    BY <1>2, <1>5
  <2>. QED BY <1>6, <2>2, <2>3, <2>4
<1>12. \A i, j \in DOMAIN new : Marker(new[i]) = Marker(new[j]) => i = j
  <2>1. \A i, j \in DOMAIN old : Marker(old[i]) = Marker(old[j]) => i = j
    BY DEF IInv, IData, CyclesOK, old
  <2>2. \A i \in DOMAIN old : Marker(new[i]) = Marker(old[i])
    BY <1>2
  <2>3. Marker(new[Len(old) + 1]) = Marker(hand)
    BY <1>2
  <2>. QED BY <1>4, <1>6, <2>1, <2>2, <2>3
<1>13. CyclesOK'
  <2>1. Len(new) <= MaxComments
    BY <1>1, <1>2, <1>5, GateConstants
  <2>. QED BY <1>9, <1>10, <1>11, <1>12, <2>1 DEF CyclesOK, new, Marker
<1>14. CommentsOK'
  <2>1. \A i \in DOMAIN old : comments[i] = Marker(old[i]) /\ Marker(old[i]) \in confirmed
    BY DEF IInv, IData, CommentsOK, old
  <2>2. \A i \in DOMAIN new : comments[i] = Marker(new[i]) /\ Marker(new[i]) \in confirmed
    BY <1>2, <1>3, <1>6, <2>1
  <2>3. Len(comments) = Len(new) /\ Len(new) \in Nat
    BY <1>1, <1>2, <1>3
  <2>. QED BY <2>2, <2>3 DEF CommentsOK, new, Marker
<1>. QED BY <1>2, <1>5, <1>8, <1>13, <1>14 DEF new

LEMMA RecordCycleKeeps == IInv /\ RecordCycle => IInv'
<1> SUFFICES ASSUME IInv, RecordCycle PROVE IInv'
  OBVIOUS
<1>1. CASE Told /\ Goto("decided") /\ UNCHANGED gate
  <2>1. UNCHANGED <<run, evidence, world, local, bounds>> /\ pc' = "decided" /\ pc = "record_cycle"
    BY <1>1 DEF RecordCycle, Goto, evidence
  <2>. QED BY <1>1, <2>1, ToldKeeps
<1>2. CASE ~Told
  <2>0. PICK checkpoint \in {"candidate_ready", "validated", "reviewed"} :
           checkpoint = IF hand.action = "complete" THEN "reviewed"
                        ELSE IF Reviewing THEN "validated" ELSE "candidate_ready"
    OBVIOUS
  <2>1. /\ pc = "record_cycle" /\ pc' = "decided" /\ gate' = NoGate
        /\ UNCHANGED <<verdict, slot, confirmed, pushed, comments, remote, tree, hand, retry>>
        /\ UNCHANGED <<thenGate, faults, crashes>>
        /\ run' = [run EXCEPT !.checkpoint = checkpoint, !.cycles = Append(run.cycles, hand),
                              !.authorized = NoRetry, !.attention = NoAttention,
                              !.last = "gate.cycle_completed"]
    BY <1>2, <2>0 DEF RecordCycle, Record, world, local, bounds
  <2>2. /\ Telling /\ hand = gate.sealed /\ Fresh
        /\ hand.action = "repair" => hand.cycle \in Slots
        /\ hand.action = "complete" => Reviewing
    BY <1>2, <2>1, TellingNew
  <2>3. RunTyped(run) /\ hand \in Outcomes
    BY DEF IInv, StateTyped
  <2>4. /\ run'.candidate = run.candidate /\ run'.used = run.used /\ run'.brief = run.brief
        /\ run'.open = run.open /\ run'.interrupted = run.interrupted
        /\ run'.cycles = Append(run.cycles, hand) /\ run'.authorized = NoRetry
        /\ run'.attempt = run.attempt /\ run'.validation = run.validation
        /\ run'.last = "gate.cycle_completed" /\ run'.checkpoint = checkpoint
        /\ run'.attention = NoAttention
    BY <2>1, <2>3 DEF RunTyped
  <2>5. RunTyped(run')
    <3>1. Append(run.cycles, hand) \in Seq(Outcomes)
      BY <2>3 DEF RunTyped
    <3>2. /\ NoAttention \in [scope : Scopes, kind : Reasons] /\ "gate.cycle_completed" \in Kinds
          /\ NoRetry \in [candidate : Candidates \cup {None}, retry : Retries]
      BY GateConstants DEF Kinds, Scopes, Reasons, NoAttention, Attention, NoRetry, Retries
    <3>. QED BY <2>0, <2>1, <2>3, <3>1, <3>2 DEF RunTyped
  <2>6. StateTyped'
    BY <2>1, GateConstants DEF IInv, StateTyped, Steps, NoGate, NoOutcome, Outcomes, Retries,
       Candidates
  <2>7. /\ CyclesOK' /\ CommentsOK'
        /\ \E i \in DOMAIN run'.cycles : run'.cycles[i].candidate = run'.candidate
    BY <1>2, <2>1, <2>4, CyclesAppended
  <2>8. /\ run.candidate = run.used /\ Settled /\ ~CurrentBrief
        /\ run.candidate \in Int /\ run.used \in Int
    BY <2>2, <2>3, NotInRepair, GateConstants
       DEF Telling, IInv, IData, RunTyped, Candidates
  <2>9. RepairOK' /\ SlotsOK' /\ AttemptOK' /\ HeadIsExplained'
    <3>1. RepairOK'
      BY <2>4, <2>8 DEF IInv, IData, RepairOK, CurrentBrief
    <3>2. SlotsOK' /\ HeadIsExplained'
      BY <2>1, <2>4 DEF IInv, IData, SlotsOK, HeadIsExplained, CurrentBrief
    <3>3. AttemptOK'
      BY <2>1, <2>4 DEF IInv, IData, AttemptOK
    <3>. QED BY <3>1, <3>2, <3>3
  <2>10. Settled'
    <3>1. Conclusive' /\ Reviewing' = Reviewing
      BY <2>4, <2>8 DEF Settled, Conclusive, Reviewing
    <3>2. run'.attention.scope = "none"
      BY <2>4 DEF NoAttention, Attention
    <3>. QED BY <2>0, <2>2, <2>4, <2>8, <3>1, <3>2 DEF Settled
  <2>11. JudgedOK'
    BY <2>1, <2>4, <2>7, <2>8, <2>10 DEF JudgedOK
  <2>12. GateOK'
    <3>1. gate' = NoGate /\ run'.authorized = NoRetry /\ gate'.sealed = NoOutcome
      BY <2>1, <2>4 DEF NoGate
    <3>. QED BY <3>1 DEF GateOK
  <2>13. DecidedOK'
    <3>1. ~CurrentBrief'
      BY <2>4, <2>8 DEF CurrentBrief
    <3>2. hand'.action = "repair" => run'.checkpoint # "reviewed" /\ hand'.cycle \in Slots
      BY <2>0, <2>1, <2>2, <2>4
    <3>3. hand'.cycle = run'.used + 1
      BY <2>1, <2>2, <2>4 DEF Telling
    <3>. QED BY <2>1, <2>4, <2>10, <3>1, <3>2, <3>3 DEF DecidedOK, DecidedSteps, RepairInterrupted
  <2>14. pc' \in {"reobserve", "authorize"} \cup DecidedSteps /\ run'.attempt.status # "started"
    BY <2>1, <2>2, <2>4 DEF DecidedSteps, Telling
  <2>. QED BY <2>5, <2>6, <2>7, <2>9, <2>11, <2>12, <2>13, <2>14, CommandIn DEF IInv, IData
<1>. QED BY <1>1, <1>2 DEF RecordCycle
-----------------------------------------------------------------------------
(* After the Gate Cycle *)

\* What was recorded last allows what follows a cycle.
LEMMA LastIs ==
  ASSUME RunTyped(run), IData
  PROVE  /\ LastCycle \in Outcomes
         /\ run.cycles # <<>> => \E i \in DOMAIN run.cycles : LastCycle = run.cycles[i]
         /\ LastCycle.action = "repair" =>
               /\ LastCycle.cycle \in Slots
               /\ CurrentBrief => LastCycle.cycle <= run.used
               /\ ~CurrentBrief /\ run.candidate = run.used /\ LastCycle.candidate = run.candidate
                     => LastCycle.cycle = run.used + 1
<1>1. CASE run.cycles = <<>>
  <2>1. LastCycle = NoOutcome
    BY <1>1 DEF LastCycle
  <2>2. NoOutcome \in Outcomes /\ NoOutcome.action = "attention"
    BY GateConstants DEF NoOutcome, Outcomes, Retries, Candidates
  <2>. QED BY <1>1, <2>1, <2>2
<1>2. CASE run.cycles # <<>>
  <2>1. Len(run.cycles) \in DOMAIN run.cycles /\ run.cycles \in Seq(Outcomes)
    BY <1>2 DEF RunTyped
  <2>2. LastCycle = run.cycles[Len(run.cycles)]
    BY <1>2 DEF LastCycle
  <2>3. LastCycle \in Outcomes
    BY <2>1, <2>2
  <2>4. /\ LastCycle.cycle = LastCycle.candidate + 1 /\ LastCycle.candidate \in 0 .. run.candidate
        /\ LastCycle.action = "repair" => LastCycle.cycle \in Slots
    BY <2>1, <2>2 DEF IData, CyclesOK
  <2>5. CurrentBrief => run.candidate < run.used
    BY GateConstants DEF IData, RepairOK, CurrentBrief, Brief, RunTyped, Candidates
  <2>6. run.candidate \in Int /\ run.used \in Int
    BY GateConstants DEF RunTyped, Candidates
  <2>. QED BY <2>1, <2>2, <2>3, <2>4, <2>5, <2>6
<1>. QED BY <1>1, <1>2

LEMMA ReobserveKeeps == IInv /\ ReobserveComment => IInv'
<1> SUFFICES ASSUME IInv, ReobserveComment PROVE IInv'
  OBVIOUS
<1>1. /\ pc = "reobserve" /\ Settled /\ gate = NoGate /\ run.authorized = NoRetry
      /\ ~RepairInterrupted /\ run.checkpoint # "reviewed"
      /\ run.candidate = run.used \/ CurrentBrief
      /\ run.attempt.status # "started"
  BY DEF ReobserveComment, IInv, ICommand, DecidedOK, ValidatingOK, OpenSteps
<1>2. hand' = LastCycle /\ UNCHANGED <<evidence, world, thenGate, retry>>
  BY DEF ReobserveComment, Reobserve
<1>3. faults' \in 0 .. MaxFaults /\ crashes' \in 0 .. MaxCrashes
  BY BoundsTyped DEF IInv, ReobserveComment, Reobserve
<1>4. StateTyped'
  <2>1. pc' \in Steps
    BY Moves DEF ReobserveComment, Reobserve, Steps
  <2>2. hand' \in Outcomes
    BY <1>2, LastIs DEF IInv
  <2>. QED BY <1>2, <1>3, <2>1, <2>2, CommandTyped DEF IInv, StateTyped
<1>5. CASE Goto("decided")
  <2>1. /\ pc' = "decided" /\ run' = run
        /\ UNCHANGED <<verdict, slot, gate, confirmed, comments, remote>>
    BY <1>2, <1>5 DEF Goto, evidence, world
  <2>2. IData'
    BY <2>1, DataUnchanged DEF IInv
  <2>3. Settled' /\ ~RepairInterrupted' /\ CurrentBrief' = CurrentBrief
    BY <1>1, <2>1 DEF Settled, Conclusive, Reviewing, RepairInterrupted, CurrentBrief
  <2>4. DecidedOK'
    BY <1>1, <1>2, <2>1, <2>3, LastIs DEF DecidedOK, DecidedSteps, IInv
  <2>5. pc' \in {"reobserve", "authorize"} \cup DecidedSteps
    BY <2>1 DEF DecidedSteps
  <2>. QED BY <1>1, <1>4, <2>1, <2>2, <2>4, <2>5, CommandIn DEF IInv
<1>6. CASE Stop(run, "gate", "inconclusive")
  <2>1. "inconclusive" \in Reasons /\ "gate" \in Scopes
    BY DEF Reasons, Scopes, Verdicts
  <2>. QED BY <1>2, <1>4, <1>6, <2>1, StopKeeps
<1>. QED BY <1>5, <1>6 DEF ReobserveComment, Reobserve

\* A set of numbers without a limit has a least one, with a limit a greatest one.
LEMMA Least ==
  ASSUME NEW T, T \subseteq Nat, T # {}
  PROVE  \E x \in T : \A y \in T : x <= y
<1>1. PICK x \in T : \A y \in T : ~ (<<y, x>> \in OpToRel(<, Nat))
  BY NatLessThanWellFounded, WFMin
<1>2. \A y \in T : ~(y < x)
  BY <1>1 DEF OpToRel
<1>. QED BY <1>2

LEMMA Greatest ==
  ASSUME NEW n \in Nat, NEW S, S \subseteq 0 .. n, S # {}
  PROVE  \E x \in S : \A y \in S : y <= x
<1> DEFINE T == {n - x : x \in S}
<1>1. T \subseteq Nat /\ T # {}
  <2>1. \A x \in S : n - x \in Nat
    OBVIOUS
  <2>2. T \subseteq Nat
    BY <2>1
  <2>. QED BY <2>2
<1>2. \E d \in T : \A e \in T : d <= e
  <2> HIDE DEF T
  <2>. QED BY <1>1, Least
<1>3. PICK d \in T : \A e \in T : d <= e
  BY <1>2
<1>4. PICK x \in S : d = n - x
  OBVIOUS
<1>5. \A y \in S : n - x <= n - y
  BY <1>3, <1>4
<1>6. x \in Int /\ \A y \in S : y \in Int
  OBVIOUS
<1>. QED BY <1>5, <1>6

\* The retry that a note authorizes was not reviewed yet.
LEMMA NextRetry ==
  ASSUME RunTyped(run), IData, run.cycles # <<>>, LastCycle.candidate = run.candidate,
         run.candidate = run.used, NEW next,
         next = 1 + CHOOSE r \in {run.cycles[i].retry : i \in {j \in DOMAIN run.cycles :
                                     BriefOf(run.cycles[j]) = BriefOf(LastCycle)}} :
                       \A q \in {run.cycles[i].retry : i \in {j \in DOMAIN run.cycles :
                                     BriefOf(run.cycles[j]) = BriefOf(LastCycle)}} : q <= r
  PROVE  /\ next \in Retries /\ next > 0 /\ next <= Len(run.cycles)
         /\ \A i \in DOMAIN run.cycles :
               Marker(run.cycles[i]) # [cycle |-> run.used + 1, retry |-> next]
<1> DEFINE same  == {j \in DOMAIN run.cycles : BriefOf(run.cycles[j]) = BriefOf(LastCycle)}
           prior == {run.cycles[i].retry : i \in same}
<1>1. /\ DOMAIN run.cycles = 1 .. Len(run.cycles) /\ Len(run.cycles) \in Nat
      /\ \A i \in DOMAIN run.cycles : run.cycles[i] \in Outcomes
  BY DEF RunTyped
<1>2. \A i \in DOMAIN run.cycles : run.cycles[i].retry \in Nat /\ run.cycles[i].retry < i
  BY <1>1 DEF IData, CyclesOK, Outcomes, Retries
<1>3. Len(run.cycles) \in same
  BY <1>1 DEF LastCycle
<1>4. prior \subseteq 0 .. Len(run.cycles) /\ prior # {}
  <2>1. \A i \in DOMAIN run.cycles : run.cycles[i].retry \in 0 .. Len(run.cycles)
    BY <1>1, <1>2
  <2>. QED BY <1>3, <2>1
<1>5. \E r \in prior : \A q \in prior : q <= r
  <2> HIDE DEF prior
  <2>. QED BY <1>1, <1>4, Greatest
<1>6. next - 1 \in prior /\ \A q \in prior : q <= next - 1
  <2>1. next = 1 + CHOOSE r \in prior : \A q \in prior : q <= r
    OBVIOUS
  <2> HIDE DEF prior
  <2>2. PICK r \in prior : next = 1 + r /\ \A q \in prior : q <= r
    BY <1>5, <2>1
  <2>3. r \in Int
    BY <1>4
  <2>4. next - 1 = r
    BY <2>2, <2>3
  <2>. QED BY <2>2, <2>4
<1>7. PICK k \in same : next - 1 = run.cycles[k].retry
  BY <1>6
<1>8. next \in Nat /\ next > 0 /\ next <= Len(run.cycles)
  <2>1. run.cycles[k].retry \in Nat /\ run.cycles[k].retry < k /\ k \in 1 .. Len(run.cycles)
    BY <1>1, <1>2
  <2>2. next \in Int
    BY <1>7, <1>5
  <2>. QED BY <1>1, <1>7, <2>1, <2>2
<1>9. next \in Retries
  <2>1. Len(run.cycles) <= MaxComments
    BY DEF IData, CyclesOK
  <2>. QED BY <1>1, <1>8, <2>1, GateConstants DEF Retries
<1>10. ASSUME NEW i \in DOMAIN run.cycles,
              Marker(run.cycles[i]) = [cycle |-> run.used + 1, retry |-> next]
       PROVE  FALSE
  <2>1. run.cycles[i].cycle = run.used + 1 /\ run.cycles[i].retry = next
    BY <1>10 DEF Marker
  <2>2. /\ run.cycles[i].cycle = run.cycles[i].candidate + 1
        /\ LastCycle.cycle = LastCycle.candidate + 1
    <3>1. PICK n \in DOMAIN run.cycles : LastCycle = run.cycles[n]
      BY <1>3 DEF LastCycle
    <3>. QED BY <3>1 DEF IData, CyclesOK
  <2>6. run.cycles[i].candidate \in Int /\ run.candidate \in Int /\ run.used \in Int
    <3>1. run.cycles[i] \in Outcomes
      BY <1>1 DEF RunTyped
    <3>2. run.cycles[i].candidate \in Candidates \cup {None}
      BY <3>1 DEF Outcomes
    <3>. QED BY <1>1, <3>2, GateConstants DEF RunTyped, Candidates, None
  <2>3. run.cycles[i].candidate = LastCycle.candidate /\ run.cycles[i].cycle = LastCycle.cycle
    BY <2>1, <2>2, <2>6
  <2>4. i \in same
    BY <2>3 DEF BriefOf
  <2>5. next \in prior
    BY <2>1, <2>4
  <2>7. next <= next - 1
    <3> HIDE DEF prior
    <3>. QED BY <1>6, <2>5
  <2>. QED BY <1>8, <2>7
<1>. QED BY <1>8, <1>9, <1>10

LEMMA AuthorizeKeeps == IInv /\ AuthorizeRetry => IInv'
<1> SUFFICES ASSUME IInv, AuthorizeRetry PROVE IInv'
  OBVIOUS
<1>1. /\ pc = "authorize" /\ gate = NoGate /\ run.authorized = NoRetry /\ run.cycles # <<>>
      /\ LastCycle.candidate = run.candidate /\ run.candidate = run.used /\ Reviewing
      /\ run.attempt.status # "started" /\ RunTyped(run) /\ IData
  BY DEF AuthorizeRetry, IInv, ICommand, DecidedOK, ValidatingOK, OpenSteps
<1>2. PICK next : next = 1 + CHOOSE r \in {run.cycles[i].retry : i \in {j \in DOMAIN run.cycles :
                                     BriefOf(run.cycles[j]) = BriefOf(LastCycle)}} :
                       \A q \in {run.cycles[i].retry : i \in {j \in DOMAIN run.cycles :
                                     BriefOf(run.cycles[j]) = BriefOf(LastCycle)}} : q <= r
  OBVIOUS
<1>3. /\ Reobserve(Record([run EXCEPT !.checkpoint = "validated", !.attention = NoAttention,
                                      !.authorized = [candidate |-> run.candidate,
                                                      retry |-> next],
                                      !.last = "gate.retry_authorized"], "gate"))
      /\ retry' = next
  BY <1>2 DEF AuthorizeRetry
<1>4. /\ next \in Retries /\ next > 0 /\ next <= Len(run.cycles)
      /\ \A i \in DOMAIN run.cycles :
            Marker(run.cycles[i]) # [cycle |-> run.used + 1, retry |-> next]
  BY <1>1, <1>2, NextRetry
<1>5. hand' = LastCycle /\ UNCHANGED <<evidence, world, thenGate>>
  BY <1>3 DEF Reobserve
<1>6. faults' \in 0 .. MaxFaults /\ crashes' \in 0 .. MaxCrashes
  BY <1>3, BoundsTyped DEF IInv, Reobserve
<1>7. StateTyped'
  <2>1. pc' \in Steps
    BY <1>3, Moves DEF Reobserve, Record, Steps
  <2>2. hand' \in Outcomes
    BY <1>1, <1>5, LastIs
  <2>. QED BY <1>3, <1>4, <1>5, <1>6, <2>1, <2>2, CommandTyped DEF IInv, StateTyped
<1>8. \E i \in DOMAIN run.cycles : run.cycles[i].candidate = run.candidate
  BY <1>1, LastIs
<1>9. Settled
  BY <1>1, <1>8 DEF IData, JudgedOK, Judged
<1>10. CASE /\ run' = [run EXCEPT !.checkpoint = "validated", !.attention = NoAttention,
                                  !.authorized = [candidate |-> run.candidate, retry |-> next],
                                  !.last = "gate.retry_authorized"]
            /\ pc' = "gate"
  <2>1. RunTyped(run')
    <3>1. /\ NoAttention \in [scope : Scopes, kind : Reasons] /\ "gate.retry_authorized" \in Kinds
      BY DEF Kinds, Scopes, Reasons, NoAttention, Attention
    <3>2. [candidate |-> run.candidate, retry |-> next]
              \in [candidate : Candidates \cup {None}, retry : Retries]
      BY <1>1, <1>4 DEF RunTyped
    <3>. QED BY <1>1, <1>10, <3>1, <3>2 DEF RunTyped
  <2>2. /\ run'.candidate = run.candidate /\ run'.used = run.used /\ run'.brief = run.brief
        /\ run'.open = run.open /\ run'.interrupted = run.interrupted
        /\ run'.cycles = run.cycles /\ run'.checkpoint = "validated"
        /\ run'.authorized = [candidate |-> run.candidate, retry |-> next]
        /\ run'.attempt = run.attempt /\ run'.validation = run.validation
        /\ run'.last = "gate.retry_authorized" /\ run'.attention = NoAttention
    BY <1>1, <1>10 DEF RunTyped
  <2>3. UNCHANGED <<verdict, slot, gate, confirmed, comments, remote>>
    BY <1>5 DEF evidence, world
  <2>4. run.candidate \in Int /\ run.used \in Int /\ next # 0
    BY <1>1, <1>4, GateConstants DEF RunTyped, Candidates, Retries
  <2>5. RepairOK' /\ SlotsOK' /\ AttemptOK' /\ HeadIsExplained'
    <3>1. RepairOK'
      BY <1>1, <2>2, <2>4 DEF IData, RepairOK, CurrentBrief
    <3>2. SlotsOK' /\ AttemptOK' /\ HeadIsExplained'
      BY <1>1, <2>2, <2>3 DEF IData, SlotsOK, AttemptOK, HeadIsExplained, CurrentBrief
    <3>. QED BY <3>1, <3>2
  <2>6. CyclesOK' /\ CommentsOK'
    BY <1>1, <2>2, <2>3 DEF IData, CyclesOK, CommentsOK
  <2>7. Settled'
    BY <1>1, <1>9, <2>2 DEF Settled, Conclusive, Reviewing
  <2>8. JudgedOK'
    BY <2>2, <2>7 DEF JudgedOK
  <2>9. GateOK'
    <3>1. gate' = NoGate /\ gate'.sealed = NoOutcome /\ Turn' = next
      BY <1>1, <2>2, <2>3 DEF NoGate, Turn
    <3>2. Fresh'
      BY <1>4, <2>2, <3>1 DEF Fresh, Marker
    <3>3. run'.authorized.candidate = run'.candidate /\ run'.authorized.retry = next
      BY <2>2
    <3>. QED BY <1>1, <1>4, <1>8, <2>2, <3>1, <3>2, <3>3 DEF GateOK
  <2>10. CyclingOK' /\ pc' \in CycleSteps
    <3>1. retry' = Turn'
      BY <1>3, <2>2 DEF Turn
    <3>. QED BY <1>1, <1>10, <2>2, <2>7, <3>1 DEF CyclingOK, CycleSteps, ReviewSteps, TellSteps
  <2>. QED BY <1>1, <1>7, <2>1, <2>2, <2>5, <2>6, <2>8, <2>9, <2>10, CommandIn DEF IInv, IData
<1>11. CASE Stop(run, "gate", "inconclusive")
  <2>1. "inconclusive" \in Reasons /\ "gate" \in Scopes
    BY DEF Reasons, Scopes, Verdicts
  <2>. QED BY <1>5, <1>7, <1>11, <2>1, StopKeeps
<1>. QED BY <1>3, <1>10, <1>11 DEF Reobserve, Record

LEMMA DecidedKeeps == IInv /\ Decided => IInv'
<1> SUFFICES ASSUME IInv, Decided PROVE IInv'
  OBVIOUS
<1>1. UNCHANGED <<evidence, world, local, bounds>> /\ pc = "decided"
  BY DEF Decided
<1>2. StateTyped'
  <2>1. pc' \in Steps
    BY Moves DEF Decided, Steps
  <2>. QED BY <1>1, <2>1, CommandTyped DEF IInv, StateTyped, local, bounds
<1>3. UNCHANGED <<verdict, slot, gate, confirmed, comments, remote>>
  BY <1>1 DEF evidence, world
<1>4. CASE Goto("idle")
  <2>1. pc' = "idle" /\ run' = run
    BY <1>4 DEF Goto
  <2>2. IData'
    BY <1>3, <2>1, DataUnchanged DEF IInv
  <2>. QED BY <1>2, <2>1, <2>2, CommandIdle DEF IInv
<1>5. ASSUME NEW kind \in {"exhausted", "inconclusive"}, Stop(run, "gate", kind) PROVE IInv'
  <2>1. kind \in Reasons /\ "gate" \in Scopes
    BY DEF Reasons, Scopes, Verdicts
  <2>. QED BY <1>1, <1>2, <1>5, <2>1, StopKeeps
<1>6. CASE hand.action = "repair" /\ Goto("repair")
  <2>1. pc' = "repair" /\ run' = run /\ UNCHANGED hand
    BY <1>1, <1>6 DEF Goto, local
  <2>2. IData'
    BY <1>3, <2>1, DataUnchanged DEF IInv
  <2>3. DecidedOK /\ pc \in DecidedSteps /\ run.attempt.status # "started"
    BY <1>1 DEF IInv, ICommand, ValidatingOK, OpenSteps, DecidedSteps
  <2>4. DecidedOK'
    BY <1>1, <1>3, <1>6, <2>1, <2>3
       DEF DecidedOK, DecidedSteps, Settled, Conclusive, Reviewing, RepairInterrupted, CurrentBrief
  <2>5. pc' \in {"reobserve", "authorize"} \cup DecidedSteps
    BY <2>1 DEF DecidedSteps
  <2>. QED BY <1>2, <2>1, <2>2, <2>3, <2>4, <2>5, CommandIn DEF IInv
<1>. QED BY <1>4, <1>5, <1>6 DEF Decided
-----------------------------------------------------------------------------
(* Repairs *)

\* What is known of the Run while a repair is paid for, or was interrupted.
LEMMA Behind ==
  ASSUME RunTyped(run), IData, run.candidate < run.used
  PROVE  /\ run.used \in Slots /\ run.candidate \in Candidates /\ run.used \in Candidates
         /\ run.candidate \in Int /\ run.used \in Int
         /\ Settled /\ run.checkpoint # "reviewed"
         /\ gate = NoGate /\ gate.sealed = NoOutcome /\ run.authorized = NoRetry
         /\ run.last # "gate.cycle_completed"
         /\ \A i \in DOMAIN run.cycles : run.cycles[i].candidate # run.used
<1>1. /\ run.candidate \in 0 .. MaxRepairs /\ run.used \in 0 .. MaxRepairs
  BY DEF RunTyped, Candidates
<1>2. /\ run.used \in Slots /\ run.candidate \in Candidates /\ run.used \in Candidates
      /\ run.candidate \in Int /\ run.used \in Int
  BY <1>1, GateConstants DEF Slots, Candidates
<1>3. Settled /\ run.last # "gate.cycle_completed"
  BY <1>2 DEF IData, JudgedOK, Judged
<1>4. gate = NoGate /\ run.authorized = NoRetry
  BY <1>2 DEF IData, GateOK
<1>5. gate.sealed = NoOutcome
  BY <1>4 DEF NoGate
<1>6. run.checkpoint # "reviewed"
  BY DEF IData, RepairOK
<1>7. \A i \in DOMAIN run.cycles : run.cycles[i].candidate # run.used
  BY <1>2 DEF IData, CyclesOK
<1>. QED BY <1>2, <1>3, <1>4, <1>5, <1>6, <1>7

LEMMA Paid ==
  ASSUME RunTyped(run), IData, CurrentBrief
  PROVE  /\ run.candidate < run.used /\ run.brief.candidate = run.candidate
         /\ run.open = {Brief(run.candidate, run.used)}
<1>1. run.candidate \in Int /\ run.used \in Int
  BY GateConstants DEF RunTyped, Candidates
<1>2. run.brief.candidate = run.candidate /\ run.open = {Brief(run.candidate, run.used)}
  BY DEF CurrentBrief, Brief, IData, RepairOK
<1>. QED BY <1>1, <1>2 DEF IData, RepairOK

LEMMA RefusedKeeps == IInv /\ RepairRefused => IInv'
<1> SUFFICES ASSUME IInv, RepairRefused PROVE IInv'
  OBVIOUS
<1>1. PICK kind \in {"invalid", "inconclusive"} : Stop(run, "repair", kind)
  BY DEF RepairRefused
<1>2. kind \in Reasons /\ "repair" \in Scopes
  BY DEF Reasons, Scopes, Verdicts, Errors
<1>3. StateTyped'
  <2>1. pc' \in Steps
    BY <1>1, Moves
  <2>. QED BY <2>1, CommandTyped DEF RepairRefused, IInv, StateTyped, local, bounds
<1>. QED BY <1>1, <1>2, <1>3, StopKeeps DEF RepairRefused

\* A step of a repair that leaves the data alone.
LEMMA PaidOn ==
  ASSUME IInv, CurrentBrief, run.attempt.status # "started", pc' \in PaidSteps,
         UNCHANGED <<run, evidence, world, local, bounds>>,
         pc' \in PushSteps => slot[run.used] = "report",
         pc' \notin {"seal_interruption", "record_interruption"}
  PROVE  IInv'
<1>1. UNCHANGED <<verdict, slot, gate, confirmed, comments, remote>>
  BY DEF evidence, world
<1>2. StateTyped'
  <2>1. pc' \in Steps
    BY DEF Steps, PaidSteps, PushSteps
  <2>. QED BY <2>1, CommandTyped DEF IInv, StateTyped, local, bounds
<1>3. IData'
  BY <1>1, DataUnchanged DEF IInv
<1>4. PaidOK'
  BY <1>1 DEF PaidOK, CurrentBrief
<1>. QED BY <1>2, <1>3, <1>4, CommandIn DEF IInv

LEMMA AdoptKeeps == IInv /\ AdoptReport => IInv'
<1> SUFFICES ASSUME IInv, AdoptReport PROVE IInv'
  OBVIOUS
<1>1. /\ run.used = hand.cycle /\ run.brief = Brief(hand.candidate, hand.cycle)
      /\ slot[run.used] = "report" /\ hand.candidate = run.candidate
  BY DEF AdoptReport, Bound, BriefOf, Brief
<1>2. CurrentBrief
  BY <1>1 DEF CurrentBrief
<1>3. run.attempt.status # "started"
  BY DEF IInv, ICommand, ValidatingOK, OpenSteps, AdoptReport
<1>4. pc' = "finish_repair" /\ run' = run
  BY DEF AdoptReport, Goto
<1>5. pc' \in PaidSteps /\ pc' \notin {"seal_interruption", "record_interruption"}
  BY <1>4 DEF PaidSteps, PushSteps
<1>6. UNCHANGED <<run, evidence, world, local, bounds>>
  BY <1>4 DEF AdoptReport
<1>. QED BY <1>1, <1>2, <1>3, <1>5, <1>6, PaidOn

\* A slot that is without evidence is the next one.
LEMMA NextSlot ==
  ASSUME IInv, pc = "repair", hand.candidate = run.candidate, slot[hand.cycle] = "absent"
  PROVE  /\ ~CurrentBrief /\ hand.cycle = run.used + 1 /\ hand.cycle \in Slots
<1>1. /\ ~RepairInterrupted /\ hand.cycle \in Slots
      /\ CurrentBrief => hand.cycle <= run.used
      /\ ~CurrentBrief => hand.cycle = run.used + 1
  BY DEF IInv, ICommand, DecidedOK, DecidedSteps
<1>2. ASSUME CurrentBrief PROVE FALSE
  <2>1. slot[run.used] \in {"report", "failed"}
    BY <1>1, <1>2 DEF RepairInterrupted
  <2>2. hand.cycle < run.used
    BY <1>1, <1>2, <2>1, GateConstants DEF Slots, IInv, RunTyped
  <2>. QED BY <1>1, <2>2 DEF IInv, IData, SlotsOK
<1>. QED BY <1>1, <1>2

LEMMA StartRepairKeeps == IInv /\ StartRepair => IInv'
<1> SUFFICES ASSUME IInv, StartRepair PROVE IInv'
  OBVIOUS
<1> DEFINE b == Brief(run.candidate, run.used + 1)
<1>1. /\ pc = "repair" /\ hand.candidate = run.candidate /\ slot[hand.cycle] = "absent"
      /\ UNCHANGED <<evidence, world, local, bounds>>
  BY DEF StartRepair, BriefOf, Brief
<1>2. ~CurrentBrief /\ hand.cycle = run.used + 1 /\ hand.cycle \in Slots
  BY <1>1, NextSlot
<1>3. BriefOf(hand) = b /\ b.slot = run.used + 1 /\ b.candidate = run.candidate
  BY <1>1, <1>2 DEF BriefOf, Brief
<1>4. /\ Settled /\ gate = NoGate /\ run.authorized = NoRetry /\ run.checkpoint # "reviewed"
      /\ run.attempt.status # "started" /\ RunTyped(run) /\ IData
  BY <1>1, NextSlot
     DEF IInv, ICommand, ValidatingOK, OpenSteps, DecidedOK, DecidedSteps, StartRepair
<1>5. /\ run' = [run EXCEPT !.used = run.used + 1, !.brief = b, !.open = run.open \cup {b},
                            !.interrupted = NoInterruption, !.last = "repair.started"]
      /\ pc' = "agent"
  BY <1>3 DEF StartRepair, Record
<1>6. /\ run.candidate \in 0 .. MaxRepairs /\ run.used + 1 \in 1 .. MaxRepairs
      /\ run.used \in 0 .. MaxRepairs
  BY <1>2, <1>4 DEF RunTyped, Candidates, Slots
<1>7. RunTyped(run')
  <2>1. b \in Briefs
    BY <1>6 DEF Brief, Briefs, Candidates
  <2>2. "repair.started" \in Kinds /\ NoInterruption \in [candidate : Candidates \cup {None},
             slot : 0 .. MaxRepairs, status : {"none", "interrupted", "exhausted"}]
    BY GateConstants DEF Kinds, NoInterruption, Interruption
  <2>3. run.used + 1 \in 0 .. MaxRepairs
    BY <1>6
  <2> HIDE DEF b
  <2>4. run.open \cup {b} \in SUBSET Briefs
    BY <1>4, <2>1 DEF RunTyped
  <2>. QED BY <1>4, <1>5, <2>1, <2>2, <2>3, <2>4 DEF RunTyped
<1>8. /\ run'.candidate = run.candidate /\ run'.used = run.used + 1 /\ run'.brief = b
      /\ run'.open = run.open \cup {b} /\ run'.interrupted = NoInterruption
      /\ run'.cycles = run.cycles /\ run'.authorized = run.authorized
      /\ run'.attempt = run.attempt /\ run'.validation = run.validation
      /\ run'.last = "repair.started" /\ run'.checkpoint = run.checkpoint
      /\ run'.attention = run.attention
  BY <1>4, <1>5 DEF RunTyped
<1>9. UNCHANGED <<verdict, slot, gate, confirmed, comments, remote>>
  BY <1>1 DEF evidence, world
<1>10. CurrentBrief'
  BY <1>8 DEF CurrentBrief
<1>11. RepairOK'
  <2>1. run.open = {} /\ run.candidate <= run.used
    BY <1>2, <1>4 DEF IData, RepairOK
  <2>2. run'.open = {run'.brief}
    BY <1>8, <2>1
  <2>3. run'.candidate < run'.used
    BY <1>6, <1>8, <2>1
  <2>4. run'.candidate \in Int /\ run'.used \in Int
    BY <1>6, <1>8
  <2>. QED BY <1>4, <1>8, <1>10, <2>2, <2>3, <2>4 DEF RepairOK
<1>12. SlotsOK'
  BY <1>2, <1>4, <1>6, <1>8, <1>9, <1>10 DEF IData, SlotsOK, Slots
<1>13. AttemptOK'
  BY <1>4, <1>8, <1>9 DEF IData, AttemptOK, Settled, Conclusive
<1>14. HeadIsExplained'
  BY <1>2, <1>4, <1>8, <1>9 DEF IData, HeadIsExplained
<1>15. CyclesOK' /\ CommentsOK'
  BY <1>4, <1>8, <1>9 DEF IData, CyclesOK, CommentsOK
<1>16. JudgedOK'
  <2>1. Settled'
    BY <1>4, <1>8 DEF Settled, Conclusive, Reviewing
  <2>. QED BY <1>8, <2>1 DEF JudgedOK
<1>17. GateOK'
  <2>1. gate' = NoGate /\ gate'.sealed = NoOutcome /\ run'.authorized = NoRetry
    BY <1>4, <1>8, <1>9 DEF NoGate
  <2>. QED BY <2>1 DEF GateOK
<1>18. StateTyped'
  <2>1. pc' \in Steps
    BY <1>5 DEF Steps
  <2>. QED BY <1>1, <2>1, CommandTyped DEF IInv, StateTyped, local, bounds
<1>19. PaidOK' /\ pc' \in PaidSteps /\ run'.attempt.status # "started"
  BY <1>4, <1>5, <1>8, <1>10 DEF PaidOK, PaidSteps, PushSteps
<1>. QED BY <1>7, <1>11, <1>12, <1>13, <1>14, <1>15, <1>16, <1>17, <1>18, <1>19, CommandIn
         DEF IInv, IData

\* What the slot in use ends with is new evidence; only a report may be pushed.
LEMMA SlotSet ==
  ASSUME IInv, CurrentBrief, NEW to \in {"started", "report", "failed", "interrupted"},
         slot' = [slot EXCEPT ![run.used] = to], slot[run.used] # "report",
         Noted(run, run'), UNCHANGED <<verdict, gate, confirmed, comments, remote>>,
         (run'.last = run.last /\ run'.attention = run.attention) \/ Alerted
  PROVE  /\ IData' /\ slot'[run.used] = to
         /\ slot' \in [Slots -> {"absent", "started", "report", "failed", "interrupted"}]
<1>1. run.used \in Slots
  BY Paid, Behind DEF IInv
<1>2. slot \in [Slots -> {"absent", "started", "report", "failed", "interrupted"}]
  BY DEF IInv, StateTyped
<1>3. /\ slot' \in [Slots -> {"absent", "started", "report", "failed", "interrupted"}]
      /\ slot'[run.used] = to /\ \A n \in Slots : n # run.used => slot'[n] = slot[n]
  BY <1>1, <1>2
<1>4. SlotsOK'
  <2>1. \A n \in Slots : slot[n] # "absent" => slot'[n] # "absent"
    BY <1>3
  <2>2. CurrentBrief' = CurrentBrief /\ run'.used = run.used
    BY DEF CurrentBrief, Noted
  <2>. QED BY <2>1, <2>2 DEF IInv, IData, SlotsOK
<1>5. HeadIsExplained'
  <2>1. remote \in {run.candidate, Foreign}
    BY DEF IInv, IData, HeadIsExplained
  <2>. QED BY <2>1 DEF HeadIsExplained, Noted
<1>6. RepairOK' /\ AttemptOK'
  BY DEF IInv, IData, RepairOK, AttemptOK, CurrentBrief, InterruptedReady, RepairExhausted, Noted,
     Alerted
<1>7. CyclesOK' /\ CommentsOK'
  BY DEF IInv, IData, CyclesOK, CommentsOK, Noted
<1>8. JudgedOK'
  <2>1. Judged' = Judged
    BY DEF Judged, Noted
  <2>. QED BY <2>1 DEF IInv, IData, JudgedOK, Settled, Conclusive, Reviewing, Noted, Alerted
<1>9. GateOK'
  BY DEF IInv, IData, GateOK, Fresh, Turn, Reviewing, Noted
<1>. QED BY <1>3, <1>4, <1>5, <1>6, <1>7, <1>8, <1>9 DEF IData

LEMMA PaidStep ==
  ASSUME IInv, pc \in PaidSteps
  PROVE  /\ CurrentBrief /\ run.attempt.status # "started"
         /\ run.used \in Slots /\ run.used \in Candidates /\ run.candidate \in Candidates
         /\ pc \in PushSteps => slot[run.used] = "report"
<1>1. CurrentBrief /\ (pc \in PushSteps => slot[run.used] = "report")
  BY DEF IInv, ICommand, PaidOK
<1>2. run.attempt.status # "started"
  BY DEF IInv, ICommand, ValidatingOK, OpenSteps, PaidSteps, PushSteps
<1>. QED BY <1>1, <1>2, Paid, Behind DEF IInv

LEMMA AgentKeeps ==
  /\ IInv /\ AgentStarts => IInv'
  /\ \A head \in {run.used, Dirty} : IInv /\ AgentReports(head) => IInv'
  /\ IInv /\ AgentFails => IInv'
  /\ IInv /\ SealInterruption => IInv'
<1>1. ASSUME IInv, NEW to \in {"started", "report", "failed", "interrupted"},
             pc \in PaidSteps, slot' = [slot EXCEPT ![run.used] = to],
             slot[run.used] # "report", tree' \in Candidates \cup {Dirty},
             UNCHANGED <<run, verdict, gate, confirmed, pushed, remote, comments, local>>,
             faults' \in 0 .. MaxFaults /\ crashes' \in 0 .. MaxCrashes,
             \/ pc' = "agent_works"
             \/ pc' = "finish_repair" /\ to = "report"
             \/ pc' = "record_interruption" /\ to = "interrupted"
      PROVE  IInv'
  <2>1. CurrentBrief /\ run.attempt.status # "started"
    BY <1>1, PaidStep
  <2>2. /\ IData' /\ slot'[run.used] = to
        /\ slot' \in [Slots -> {"absent", "started", "report", "failed", "interrupted"}]
    BY <1>1, <2>1, SlotSet DEF Noted
  <2>3. StateTyped'
    BY <1>1, <2>2 DEF IInv, StateTyped, Steps, local
  <2>4. PaidOK' /\ pc' \in PaidSteps
    BY <1>1, <2>1, <2>2 DEF PaidOK, PaidSteps, PushSteps, CurrentBrief
  <2>. QED BY <1>1, <2>1, <2>2, <2>3, <2>4, CommandIn DEF IInv
<1>2. ASSUME IInv, AgentStarts PROVE IInv'
  <2>1. /\ pc \in PaidSteps /\ pc' = "agent_works" /\ slot[run.used] # "report"
        /\ slot' = [slot EXCEPT ![run.used] = "started"] /\ tree' = Dirty
        /\ UNCHANGED <<run, verdict, gate, confirmed, pushed, remote, comments, local>>
    BY <1>2 DEF AgentStarts, Agent, Goto, PaidSteps
  <2>2. faults' \in 0 .. MaxFaults /\ crashes' \in 0 .. MaxCrashes
    BY <1>2, BoundsTyped DEF IInv, AgentStarts
  <2>. QED BY <1>1, <1>2, <2>1, <2>2
<1>3. ASSUME IInv, NEW head \in {run.used, Dirty}, AgentReports(head) PROVE IInv'
  <2>1. /\ pc \in PaidSteps /\ pc' = "finish_repair" /\ slot[run.used] # "report"
        /\ slot' = [slot EXCEPT ![run.used] = "report"] /\ tree' = head
        /\ UNCHANGED <<run, verdict, gate, confirmed, pushed, remote, comments, local>>
    BY <1>3 DEF AgentReports, Agent, Goto, PaidSteps
  <2>2. faults' \in 0 .. MaxFaults /\ crashes' \in 0 .. MaxCrashes
    BY <1>3, BoundsTyped DEF IInv, AgentReports
  <2>3. tree' \in Candidates \cup {Dirty}
    BY <1>3, <2>1, PaidStep
  <2>. QED BY <1>1, <1>3, <2>1, <2>2, <2>3
<1>4. ASSUME IInv, AgentFails PROVE IInv'
  <2>1. /\ pc \in PaidSteps /\ slot[run.used] # "report"
        /\ slot' = [slot EXCEPT ![run.used] = "failed"] /\ tree' = Dirty
        /\ UNCHANGED <<verdict, gate, confirmed, pushed, remote, comments, local>>
        /\ Stop(run, "repair", "inconclusive") /\ Fault("agent")
    BY <1>4 DEF AgentFails, Agent, PaidSteps
  <2>2. faults' \in 0 .. MaxFaults /\ crashes' \in 0 .. MaxCrashes
    BY <1>4, <2>1, BoundsTyped DEF IInv
  <2>3. "repair" \in Scopes /\ "inconclusive" \in Reasons
    BY DEF Scopes, Reasons, Verdicts
  <2>4. /\ RunTyped(run') /\ Noted(run, run') /\ pc' = "idle"
        /\ run'.last = "run.attention_required" /\ run'.attention.scope = "repair"
    BY <1>4, <2>1, <2>3, Stopped DEF IInv
  <2>5. CurrentBrief
    BY <1>4, <2>1, PaidStep
  <2>6. /\ IData'
        /\ slot' \in [Slots -> {"absent", "started", "report", "failed", "interrupted"}]
    BY <1>4, <2>1, <2>4, <2>5, SlotSet DEF Alerted
  <2>7. StateTyped'
    BY <1>4, <2>1, <2>2, <2>4, <2>6 DEF IInv, StateTyped, Steps, local
  <2>. QED BY <2>4, <2>6, <2>7, CommandIdle DEF IInv
<1>5. ASSUME IInv, SealInterruption PROVE IInv'
  <2>1. /\ pc \in PaidSteps /\ pc' = "record_interruption"
        /\ slot' = [slot EXCEPT ![run.used] = "interrupted"] /\ tree' = tree
        /\ UNCHANGED <<run, verdict, gate, confirmed, pushed, remote, comments, local>>
        /\ UNCHANGED <<faults, crashes>>
    BY <1>5 DEF SealInterruption, Goto, PaidSteps, world, bounds
  <2>2. slot[run.used] # "report"
    BY <1>5 DEF SealInterruption, IInv, ICommand, PaidOK, RepairInterrupted
  <2>3. faults' \in 0 .. MaxFaults /\ crashes' \in 0 .. MaxCrashes
        /\ tree' \in Candidates \cup {Dirty}
    BY <1>5, <2>1 DEF IInv, StateTyped
  <2>. QED BY <1>1, <1>5, <2>1, <2>2, <2>3
<1>. QED BY <1>2, <1>3, <1>4, <1>5

\* A stop of a repair that leaves evidence and world alone.
LEMMA RepairStops ==
  ASSUME IInv, NEW kind \in {"inconclusive", "conflict", "head_mismatch"},
         Stop(run, "repair", kind), UNCHANGED <<evidence, world, local>>,
         faults' \in 0 .. MaxFaults /\ crashes' \in 0 .. MaxCrashes
  PROVE  IInv'
<1>1. kind \in Reasons /\ "repair" \in Scopes
  BY DEF Reasons, Scopes, Verdicts, Errors
<1>2. StateTyped'
  <2>1. pc' \in Steps
    BY Moves
  <2>. QED BY <2>1, CommandTyped DEF IInv, StateTyped, local
<1>. QED BY <1>1, <1>2, StopKeeps

LEMMA FinishRepairKeeps == IInv /\ (FinishRepair \/ ObserveRemote) => IInv'
<1> SUFFICES ASSUME IInv, FinishRepair \/ ObserveRemote PROVE IInv'
  OBVIOUS
<1>1. UNCHANGED <<evidence, world, local, bounds>> /\ pc \in PaidSteps /\ pc \in PushSteps
  BY DEF FinishRepair, ObserveRemote, PaidSteps, PushSteps
<1>2. CurrentBrief /\ run.attempt.status # "started" /\ slot[run.used] = "report"
  BY <1>1, PaidStep
<1>3. ASSUME NEW next \in {"push", "announce", "confirm_push", "pushing"}, Goto(next) PROVE IInv'
  <2>1. pc' = next /\ UNCHANGED <<run, evidence, world, local, bounds>>
    BY <1>1, <1>3 DEF Goto
  <2>2. pc' \in PaidSteps /\ pc' \notin {"seal_interruption", "record_interruption"}
    BY <2>1 DEF PaidSteps, PushSteps
  <2>. QED BY <1>2, <2>1, <2>2, PaidOn
<1>4. ASSUME NEW kind \in {"inconclusive", "conflict"}, Stop(run, "repair", kind) PROVE IInv'
  BY <1>1, <1>4, RepairStops DEF bounds, IInv, StateTyped
<1>. QED BY <1>3, <1>4 DEF FinishRepair, ObserveRemote

LEMMA PushKeeps == IInv /\ Push => IInv'
<1> SUFFICES ASSUME IInv, Push PROVE IInv'
  OBVIOUS
<1>1. /\ pc \in PaidSteps /\ pc \in PushSteps
      /\ UNCHANGED <<verdict, slot, gate, confirmed, pushed, tree, comments, local>>
      /\ UNCHANGED <<evidence, tree, comments, local>>
  BY DEF Push, PaidSteps, PushSteps, evidence
<1>2. /\ CurrentBrief /\ run.attempt.status # "started" /\ slot[run.used] = "report"
      /\ run.used \in Candidates
  BY <1>1, PaidStep
<1>3. faults' \in 0 .. MaxFaults /\ crashes' \in 0 .. MaxCrashes
  BY BoundsTyped DEF IInv, Push
<1>4. remote' = run.used \/ remote' = remote
  BY DEF Push
<1>5. StateTyped'
  <2>1. pc' \in Steps
    BY Moves DEF Push, Steps
  <2>2. remote' \in Candidates \cup {Foreign}
    BY <1>2, <1>4 DEF IInv, StateTyped
  <2>. QED BY <1>1, <1>3, <2>1, <2>2 DEF IInv, StateTyped, local
<1>6. ASSUME Noted(run, run'),
             (run'.last = run.last /\ run'.attention = run.attention) \/ Alerted
      PROVE  IData'
  <2>1. HeadIsExplained'
    <3>1. CASE remote' = run.used
      BY <1>1, <1>2, <1>6, <3>1 DEF HeadIsExplained, Noted, CurrentBrief
    <3>2. CASE remote' = remote
      BY <1>1, <1>6, <3>2 DEF HeadIsExplained, Noted, CurrentBrief, IInv, IData
    <3>. QED BY <1>4, <3>1, <3>2
  <2>2. RepairOK' /\ SlotsOK' /\ AttemptOK'
    BY <1>1, <1>6 DEF IInv, IData, RepairOK, SlotsOK, AttemptOK, CurrentBrief, InterruptedReady,
       RepairExhausted, Noted, Alerted
  <2>3. CyclesOK' /\ CommentsOK'
    BY <1>1, <1>6 DEF IInv, IData, CyclesOK, CommentsOK, Noted
  <2>4. Judged' = Judged
    BY <1>1, <1>6 DEF Judged, Noted
  <2>5. JudgedOK'
    BY <1>1, <1>6, <2>4
       DEF IInv, IData, JudgedOK, Settled, Conclusive, Reviewing, Noted, Alerted
  <2>6. GateOK'
    BY <1>1, <1>6 DEF IInv, IData, GateOK, Fresh, Turn, Reviewing, Noted
  <2>. QED BY <2>1, <2>2, <2>3, <2>5, <2>6 DEF IData
<1>7. CASE Goto("confirm_push")
  <2>1. pc' = "confirm_push" /\ run' = run
    BY <1>7 DEF Goto
  <2>2. IData'
    BY <1>6, <2>1 DEF Noted
  <2>3. PaidOK' /\ pc' \in PaidSteps
    BY <1>1, <1>2, <2>1 DEF PaidOK, PaidSteps, PushSteps, CurrentBrief
  <2>. QED BY <1>2, <1>5, <2>1, <2>2, <2>3, CommandIn DEF IInv
<1>8. CASE Stop(run, "repair", "inconclusive")
  <2>1. "repair" \in Scopes /\ "inconclusive" \in Reasons
    BY DEF Scopes, Reasons, Verdicts
  <2>2. /\ RunTyped(run') /\ Noted(run, run') /\ pc' = "idle"
        /\ run'.last = "run.attention_required" /\ run'.attention.scope = "repair"
    BY <1>8, <2>1, Stopped DEF IInv
  <2>3. IData'
    BY <1>6, <2>2 DEF Alerted
  <2>. QED BY <1>5, <2>2, <2>3, CommandIdle DEF IInv
<1>. QED BY <1>7, <1>8 DEF Push

LEMMA ConfirmPushKeeps == IInv /\ ConfirmPush => IInv'
<1> SUFFICES ASSUME IInv, ConfirmPush PROVE IInv'
  OBVIOUS
<1>1. /\ pc \in PaidSteps /\ pc \in PushSteps /\ pc' = "announce" /\ run' = run
      /\ pushed' = pushed \cup {run.used}
      /\ UNCHANGED <<verdict, slot, gate, confirmed, tree, remote, comments>>
      /\ UNCHANGED <<hand, retry, thenGate, faults, crashes>>
  BY DEF ConfirmPush, Goto, PaidSteps, PushSteps, world, local, bounds
<1>2. /\ CurrentBrief /\ run.attempt.status # "started" /\ slot[run.used] = "report"
      /\ run.used \in Candidates
  BY <1>1, PaidStep
<1>3. StateTyped'
  BY <1>1, <1>2 DEF IInv, StateTyped, Steps
<1>4. IData'
  BY <1>1, DataUnchanged DEF IInv
<1>5. PaidOK' /\ pc' \in PaidSteps
  BY <1>1, <1>2 DEF PaidOK, PaidSteps, PushSteps, CurrentBrief
<1>. QED BY <1>1, <1>2, <1>3, <1>4, <1>5, CommandIn DEF IInv

LEMMA AnnounceKeeps == IInv /\ Announce => IInv'
<1> SUFFICES ASSUME IInv, Announce PROVE IInv'
  OBVIOUS
<1>1. /\ pc \in PaidSteps /\ pc \in PushSteps /\ UNCHANGED <<evidence, world, local, bounds>>
  BY DEF Announce, PaidSteps, PushSteps
<1>2. /\ CurrentBrief /\ run.attempt.status # "started" /\ slot[run.used] = "report"
      /\ run.used \in Candidates /\ RunTyped(run)
  BY <1>1, PaidStep DEF IInv
<1>3. CASE Goto("verify_repair")
  <2>1. pc' = "verify_repair" /\ UNCHANGED <<run, evidence, world, local, bounds>>
    BY <1>1, <1>3 DEF Goto
  <2>2. pc' \in PaidSteps /\ pc' \notin {"seal_interruption", "record_interruption"}
    BY <2>1 DEF PaidSteps, PushSteps
  <2>. QED BY <1>2, <2>1, <2>2, PaidOn
<1>4. CASE Stop(run, "repair", "conflict")
  BY <1>1, <1>4, RepairStops DEF bounds, IInv, StateTyped
<1>5. CASE Record([run EXCEPT !.published = run.used, !.attention = NoAttention,
                              !.last = "candidate.branch_published"], "verify_repair")
  <2>1. /\ run' = [run EXCEPT !.published = run.used, !.attention = NoAttention,
                              !.last = "candidate.branch_published"]
        /\ pc' = "verify_repair"
    BY <1>5 DEF Record
  <2>2. RunTyped(run')
    <3>1. NoAttention \in [scope : Scopes, kind : Reasons]
          /\ "candidate.branch_published" \in Kinds
      BY DEF NoAttention, Attention, Scopes, Reasons, Kinds
    <3>. QED BY <1>2, <2>1, <3>1 DEF RunTyped
  <2>3. /\ Noted(run, run') /\ run'.last = "candidate.branch_published"
        /\ run'.attention = NoAttention
    BY <1>2, <2>1 DEF RunTyped, Noted
  <2>4. UNCHANGED <<verdict, slot, gate, confirmed, comments, remote>>
    BY <1>1 DEF evidence, world
  <2>5. IData'
    BY <2>3, <2>4, DataNoted DEF IInv, Alerted, NoAttention, Attention
  <2>6. StateTyped'
    <3>1. pc' \in Steps
      BY <2>1 DEF Steps
    <3>. QED BY <1>1, <3>1, CommandTyped DEF IInv, StateTyped, local, bounds
  <2>7. PaidOK' /\ pc' \in PaidSteps /\ run'.attempt.status # "started"
    BY <1>2, <2>1, <2>3, <2>4 DEF PaidOK, PaidSteps, PushSteps, CurrentBrief, Noted
  <2>. QED BY <2>2, <2>5, <2>6, <2>7, CommandIn DEF IInv
<1>. QED BY <1>3, <1>4, <1>5 DEF Announce

LEMMA VerifyRepairKeeps == IInv /\ VerifyRepair => IInv'
<1> SUFFICES ASSUME IInv, VerifyRepair PROVE IInv'
  OBVIOUS
<1>1. /\ pc \in PaidSteps /\ pc \in PushSteps /\ UNCHANGED <<evidence, world, local>>
  BY DEF VerifyRepair, PaidSteps, PushSteps
<1>2. /\ CurrentBrief /\ run.attempt.status # "started" /\ slot[run.used] = "report"
      /\ RunTyped(run) /\ IData
  BY <1>1, PaidStep DEF IInv
<1>3. faults' \in 0 .. MaxFaults /\ crashes' \in 0 .. MaxCrashes
  BY BoundsTyped DEF IInv, VerifyRepair
<1>4. ASSUME NEW kind \in {"head_mismatch", "inconclusive"}, Stop(run, "repair", kind) PROVE IInv'
  BY <1>1, <1>3, <1>4, RepairStops
<1>5. CASE /\ Published(run.used)
           /\ Record([run EXCEPT !.checkpoint = "candidate_ready", !.candidate = run.used,
                                 !.attention = NoAttention,
                                 !.open = Close(Brief(run.candidate, run.used)),
                                 !.last = "candidate.repaired"], "check")
  <2>1. /\ run.candidate < run.used /\ run.brief.candidate = run.candidate
        /\ run.open = {Brief(run.candidate, run.used)}
    BY <1>2, Paid
  <2>2. Close(Brief(run.candidate, run.used)) = {}
    BY <2>1 DEF Close
  <2>3. /\ run' = [run EXCEPT !.checkpoint = "candidate_ready", !.candidate = run.used,
                              !.attention = NoAttention, !.open = {},
                              !.last = "candidate.repaired"]
        /\ pc' = "check" /\ remote = run.used
    BY <1>5, <2>2 DEF Record, Published
  <2>4. /\ run.used \in Slots /\ run.used \in Candidates
        /\ run.candidate \in Int /\ run.used \in Int
        /\ gate = NoGate /\ gate.sealed = NoOutcome /\ run.authorized = NoRetry
        /\ \A i \in DOMAIN run.cycles : run.cycles[i].candidate # run.used
    BY <1>2, <2>1, Behind
  <2>5. RunTyped(run')
    <3>1. NoAttention \in [scope : Scopes, kind : Reasons] /\ "candidate.repaired" \in Kinds
      BY DEF NoAttention, Attention, Scopes, Reasons, Kinds
    <3>. QED BY <1>2, <2>3, <2>4, <3>1 DEF RunTyped
  <2>6. /\ run'.candidate = run.used /\ run'.used = run.used /\ run'.brief = run.brief
        /\ run'.open = {} /\ run'.interrupted = run.interrupted
        /\ run'.cycles = run.cycles /\ run'.authorized = run.authorized
        /\ run'.attempt = run.attempt /\ run'.validation = run.validation
        /\ run'.last = "candidate.repaired" /\ run'.checkpoint = "candidate_ready"
        /\ run'.attention = NoAttention
    BY <1>2, <2>3 DEF RunTyped
  <2>7. UNCHANGED <<verdict, slot, gate, confirmed, comments, remote>>
    BY <1>1 DEF evidence, world
  <2>8. ~Judged'
    BY <2>4, <2>6, <2>7 DEF Judged
  <2>9. RepairOK'
    <3>1. ~CurrentBrief'
      BY <2>1, <2>4, <2>6 DEF CurrentBrief, Brief
    <3>. QED BY <1>2, <2>1, <2>4, <2>6, <3>1 DEF IData, RepairOK
  <2>10. SlotsOK'
    BY <1>2, <2>6, <2>7 DEF IData, SlotsOK
  <2>11. AttemptOK'
    <3>1. run.attempt.status # "none" => run.attempt.candidate \in 0 .. run.used
      BY <1>2, <2>1, <2>4 DEF IData, AttemptOK
    <3>. QED BY <1>2, <2>6, <2>7, <3>1 DEF IData, AttemptOK
  <2>12. CyclesOK'
    <3>1. CyclesOK
      BY <1>2 DEF IData
    <3>2. \A i \in DOMAIN run.cycles : run.cycles[i].candidate \in 0 .. run.used
      <4>1. \A x : x \in 0 .. run.candidate => x \in 0 .. run.used
        BY <2>1, <2>4
      <4>. QED BY <3>1, <4>1 DEF CyclesOK
    <3>. QED BY <2>6, <3>1, <3>2 DEF CyclesOK
  <2>13. CommentsOK'
    BY <1>2, <2>6, <2>7 DEF IData, CommentsOK
  <2>14. HeadIsExplained'
    BY <2>3, <2>6, <2>7 DEF HeadIsExplained
  <2>15. JudgedOK'
    BY <2>6, <2>8 DEF JudgedOK
  <2>16. GateOK'
    BY <2>4, <2>6, <2>7 DEF GateOK
  <2>17. StateTyped'
    <3>1. pc' \in Steps
      BY <2>3 DEF Steps
    <3>. QED BY <1>1, <1>3, <3>1, CommandTyped DEF IInv, StateTyped, local
  <2>18. ValidatingOK' /\ pc' \in ValidationSteps
    BY <1>2, <2>3, <2>6, <2>8 DEF ValidatingOK, ValidationSteps, OpenSteps
  <2>. QED BY <2>5, <2>9, <2>10, <2>11, <2>12, <2>13, <2>14, <2>15, <2>16, <2>17, <2>18, CommandIn
           DEF IInv, IData
<1>. QED BY <1>4, <1>5 DEF VerifyRepair

LEMMA RecordInterruptionKeeps == IInv /\ RecordInterruption => IInv'
<1> SUFFICES ASSUME IInv, RecordInterruption PROVE IInv'
  OBVIOUS
<1>1. /\ pc = "record_interruption" /\ UNCHANGED <<evidence, world, local, bounds>>
      /\ pc \in PaidSteps
  BY DEF RecordInterruption, PaidSteps, PushSteps
<1>2. /\ CurrentBrief /\ run.attempt.status # "started" /\ slot[run.used] = "interrupted"
      /\ RunTyped(run) /\ IData
  BY <1>1, PaidStep DEF IInv, ICommand, PaidOK
<1>3. /\ run.candidate < run.used /\ run.open = {Brief(run.candidate, run.used)}
      /\ run.used \in Slots /\ run.used \in Candidates /\ run.candidate \in Candidates
      /\ run.candidate \in Int /\ run.used \in Int
      /\ Settled /\ run.checkpoint # "reviewed"
      /\ gate = NoGate /\ gate.sealed = NoOutcome /\ run.authorized = NoRetry
  BY <1>2, Paid, Behind
<1>4. PICK next : next = IF run.used < MaxRepairs THEN Brief(run.candidate, run.used + 1)
                         ELSE NoBrief
  OBVIOUS
<1>5. Close(Brief(run.candidate, run.used)) = {}
  BY <1>3 DEF Close
<1>6. PICK cut : cut = Interruption(run.candidate, run.used, "interrupted")
  OBVIOUS
<1>7. /\ run' = [run EXCEPT !.brief = next, !.open = {}, !.interrupted = cut,
                            !.last = "repair.interrupted"]
      /\ pc' = "continue_repair"
  BY <1>4, <1>5, <1>6 DEF RecordInterruption, Record
<1>8. next \in Briefs /\ next # Brief(run.candidate, run.used)
  <2>1. CASE run.used < MaxRepairs
    <3>1. run.used + 1 \in 0 .. MaxRepairs /\ run.used + 1 # run.used
      BY <1>3, <2>1, GateConstants DEF Candidates
    <3>2. next = Brief(run.candidate, run.used + 1)
      BY <1>4, <2>1
    <3>. QED BY <1>3, <3>1, <3>2 DEF Brief, Briefs
  <2>2. CASE ~(run.used < MaxRepairs)
    <3>1. next = Brief(None, 0) /\ None # run.candidate
      BY <1>3, <1>4, <2>2, GateConstants DEF NoBrief, None, Candidates
    <3>2. 0 \in 0 .. MaxRepairs
      BY GateConstants
    <3>. QED BY <3>1, <3>2 DEF Brief, Briefs
  <2>. QED BY <2>1, <2>2
<1>9. RunTyped(run')
  <2>1. cut \in [candidate : Candidates \cup {None}, slot : 0 .. MaxRepairs,
                 status : {"none", "interrupted", "exhausted"}]
    BY <1>3, <1>6 DEF Interruption, Candidates
  <2>2. "repair.interrupted" \in Kinds
    BY DEF Kinds
  <2>. QED BY <1>2, <1>7, <1>8, <2>1, <2>2 DEF RunTyped
<1>10. /\ run'.candidate = run.candidate /\ run'.used = run.used /\ run'.brief = next
       /\ run'.open = {} /\ run'.interrupted = cut
       /\ run'.cycles = run.cycles /\ run'.authorized = run.authorized
       /\ run'.attempt = run.attempt /\ run'.validation = run.validation
       /\ run'.last = "repair.interrupted" /\ run'.checkpoint = run.checkpoint
       /\ run'.attention = run.attention
  BY <1>2, <1>7 DEF RunTyped
<1>11. UNCHANGED <<verdict, slot, gate, confirmed, comments, remote>>
  BY <1>1 DEF evidence, world
<1>12. ~CurrentBrief'
  BY <1>8, <1>10 DEF CurrentBrief
<1>13. RepairOK'
  <2>1. InterruptedReady'
    BY <1>4, <1>6, <1>10 DEF InterruptedReady
  <2>2. cut.candidate = run.candidate /\ cut.slot = run.used
    BY <1>6 DEF Interruption
  <2>. QED BY <1>3, <1>10, <1>12, <2>1, <2>2 DEF RepairOK
<1>14. SlotsOK' /\ AttemptOK'
  BY <1>2, <1>10, <1>11 DEF IData, SlotsOK, AttemptOK
<1>15. CyclesOK' /\ CommentsOK'
  BY <1>2, <1>10, <1>11 DEF IData, CyclesOK, CommentsOK
<1>16. HeadIsExplained'
  BY <1>2, <1>10, <1>11 DEF IData, HeadIsExplained
<1>17. JudgedOK'
  <2>1. Settled'
    BY <1>3, <1>10 DEF Settled, Conclusive, Reviewing
  <2>. QED BY <1>10, <2>1 DEF JudgedOK
<1>18. GateOK'
  BY <1>3, <1>10, <1>11 DEF GateOK
<1>19. StateTyped'
  <2>1. pc' \in Steps
    BY <1>7 DEF Steps
  <2>. QED BY <1>1, <2>1, CommandTyped DEF IInv, StateTyped, local, bounds
<1>20. ICommand'
  BY <1>2, <1>7, <1>10, CommandIn
<1>. QED BY <1>9, <1>13, <1>14, <1>15, <1>16, <1>17, <1>18, <1>19, <1>20 DEF IInv, IData

\* What an interruption leaves: the brief of the next slot, or none.
LEMMA Interrupted ==
  ASSUME RunTyped(run), IData, InterruptedReady
  PROVE  run.candidate < run.used /\ ~CurrentBrief
<1>1. run.interrupted.candidate = run.candidate /\ run.interrupted.slot = run.used
      /\ run.interrupted.status = "interrupted"
  BY DEF InterruptedReady, Interruption
<1>2. NoInterruption.status = "none"
  BY DEF NoInterruption, Interruption
<1>3. run.candidate < run.used
  BY <1>1, <1>2 DEF IData, RepairOK
<1>4. run.candidate \in Candidates /\ run.used \in Int
  BY <1>3, Behind
<1>5. CASE run.used < MaxRepairs
  <2>1. run.brief = Brief(run.candidate, run.used + 1) /\ run.used + 1 # run.used
    BY <1>4, <1>5 DEF InterruptedReady
  <2>. QED BY <1>3, <2>1 DEF CurrentBrief, Brief
<1>6. CASE ~(run.used < MaxRepairs)
  <2>1. run.brief = Brief(None, 0) /\ None # run.candidate
    BY <1>4, <1>6, GateConstants DEF InterruptedReady, NoBrief, None, Candidates
  <2>. QED BY <1>3, <2>1 DEF CurrentBrief, Brief
<1>. QED BY <1>5, <1>6

LEMMA ContinueKeeps == IInv /\ ContinueRepair => IInv'
<1> SUFFICES ASSUME IInv, ContinueRepair PROVE IInv'
  OBVIOUS
<1>1. /\ pc = "continue_repair" /\ InterruptedReady /\ run.attempt.status # "started"
      /\ RunTyped(run) /\ IData
      /\ UNCHANGED <<evidence, remote, comments, retry, thenGate>>
  BY DEF ContinueRepair, IInv, ICommand, ValidatingOK, OpenSteps
<1>2. run.candidate < run.used /\ ~CurrentBrief
  BY <1>1, Interrupted
<1>3. /\ run.used \in Slots /\ run.used \in Candidates /\ run.candidate \in Candidates
      /\ run.candidate \in Int /\ run.used \in Int
      /\ Settled /\ run.checkpoint # "reviewed"
      /\ gate = NoGate /\ gate.sealed = NoOutcome /\ run.authorized = NoRetry
      /\ run.last # "gate.cycle_completed"
  BY <1>1, <1>2, Behind
<1>4. UNCHANGED <<verdict, slot, gate, confirmed, comments, remote>>
  BY <1>1 DEF evidence
<1>5. faults' \in 0 .. MaxFaults /\ crashes' \in 0 .. MaxCrashes
  BY BoundsTyped DEF IInv, ContinueRepair
<1>6. ASSUME pc' \in Steps, hand' \in Outcomes, tree' \in Candidates PROVE StateTyped'
  BY <1>1, <1>5, <1>6 DEF IInv, StateTyped, evidence
<1>7. CASE /\ run.used < MaxRepairs /\ tree' = run.candidate
           /\ hand' = [cycle |-> run.used + 1, retry |-> 0, candidate |-> run.candidate,
                       action |-> "repair", stop |-> FALSE]
           /\ Goto("decided")
  <2>1. pc' = "decided" /\ run' = run
    BY <1>7 DEF Goto
  <2>2. /\ run.used + 1 \in Slots /\ run.used + 1 \in 0 .. MaxRepairs + 1 /\ 0 \in Retries
    BY <1>3, <1>7, GateConstants DEF Slots, Retries
  <2>3. hand' \in Outcomes /\ hand'.cycle = run.used + 1 /\ hand'.candidate = run.candidate
        /\ hand'.action = "repair"
    BY <1>3, <1>7, <2>2 DEF Outcomes
  <2>4. StateTyped'
    BY <1>3, <1>6, <1>7, <2>1, <2>3 DEF Steps
  <2>5. IData'
    BY <1>1, <1>4, <2>1, DataUnchanged
  <2>6. ~CurrentBrief'
    BY <1>2, <2>1 DEF CurrentBrief
  <2>7. Settled'
    BY <1>3, <2>1 DEF Settled, Conclusive, Reviewing
  <2>8. DecidedOK'
    BY <1>3, <1>4, <2>1, <2>2, <2>3, <2>6, <2>7 DEF DecidedOK, DecidedSteps, RepairInterrupted
  <2>9. pc' \in {"reobserve", "authorize"} \cup DecidedSteps /\ run'.attempt.status # "started"
    BY <1>1, <2>1 DEF DecidedSteps
  <2>. QED BY <1>1, <2>1, <2>4, <2>5, <2>8, <2>9, CommandIn DEF IInv
<1>8. ASSUME NEW kind \in {"head_mismatch", "inconclusive"}, tree' = run.candidate,
             hand' = hand, Stop(run, "repair", kind)
      PROVE  IInv'
  <2>1. kind \in Reasons /\ "repair" \in Scopes
    BY DEF Reasons, Scopes, Verdicts, Errors
  <2>2. /\ RunTyped(run') /\ Noted(run, run') /\ pc' = "idle"
        /\ run'.last = "run.attention_required" /\ run'.attention.scope = "repair"
    BY <1>1, <1>8, <2>1, Stopped
  <2>3. IData'
    BY <1>1, <1>4, <2>2, DataNoted DEF Alerted
  <2>4. StateTyped'
    BY <1>3, <1>6, <1>8, <2>2 DEF Steps, IInv, StateTyped
  <2>. QED BY <2>2, <2>3, <2>4, CommandIdle DEF IInv
<1>9. CASE /\ run.used = MaxRepairs /\ UNCHANGED <<tree, hand>>
           /\ Stop([run EXCEPT !.interrupted.status = "exhausted"], "repair", "exhausted")
  <2>1. PICK spent : spent = Interruption(run.candidate, MaxRepairs, "exhausted")
    OBVIOUS
  <2>2. [run.interrupted EXCEPT !.status = "exhausted"] = spent
    BY <1>1, <1>9, <2>1 DEF InterruptedReady, Interruption
  <2>3. /\ run' = [run EXCEPT !.interrupted = spent, !.attention = Attention("repair", "exhausted"),
                              !.episode = TRUE, !.last = "run.attention_required"]
        /\ pc' = "idle"
    BY <1>1, <1>9, <2>2 DEF Stop, Record, RunTyped
  <2>4. RunTyped(run')
    <3>1. spent \in [candidate : Candidates \cup {None}, slot : 0 .. MaxRepairs,
                     status : {"none", "interrupted", "exhausted"}]
      BY <1>3, <2>1, GateConstants DEF Interruption, Candidates
    <3>2. Attention("repair", "exhausted") \in [scope : Scopes, kind : Reasons]
          /\ "run.attention_required" \in Kinds
      BY DEF Attention, Scopes, Reasons, Kinds
    <3>. QED BY <1>1, <2>3, <3>1, <3>2 DEF RunTyped
  <2>5. /\ run'.candidate = run.candidate /\ run'.used = run.used /\ run'.brief = run.brief
        /\ run'.open = run.open /\ run'.interrupted = spent
        /\ run'.cycles = run.cycles /\ run'.authorized = run.authorized
        /\ run'.attempt = run.attempt /\ run'.validation = run.validation
        /\ run'.last = "run.attention_required" /\ run'.checkpoint = run.checkpoint
        /\ run'.attention.scope = "repair"
    BY <1>1, <2>3 DEF RunTyped, Attention
  <2>6. RepairOK'
    <3>1. run.brief = NoBrief
      BY <1>1, <1>3, <1>9, GateConstants DEF InterruptedReady
    <3>2. RepairExhausted'
      BY <1>9, <2>1, <2>5, <3>1 DEF RepairExhausted
    <3>3. ~CurrentBrief' /\ run.open = {}
      BY <1>1, <1>2, <2>5 DEF CurrentBrief, IData, RepairOK
    <3>4. spent.candidate = run.candidate /\ spent.slot = run.used
      BY <1>9, <2>1 DEF Interruption
    <3>. QED BY <1>2, <1>3, <2>5, <3>2, <3>3, <3>4 DEF RepairOK
  <2>7. SlotsOK' /\ AttemptOK' /\ HeadIsExplained'
    BY <1>1, <1>4, <2>5 DEF IData, SlotsOK, AttemptOK, HeadIsExplained, CurrentBrief
  <2>8. CyclesOK' /\ CommentsOK'
    BY <1>1, <1>4, <2>5 DEF IData, CyclesOK, CommentsOK
  <2>9. JudgedOK'
    <3>1. Settled'
      BY <1>3, <2>5 DEF Settled, Conclusive, Reviewing
    <3>. QED BY <2>5, <3>1 DEF JudgedOK
  <2>10. GateOK'
    BY <1>3, <1>4, <2>5 DEF GateOK
  <2>11. StateTyped'
    BY <1>1, <1>5, <1>9, <2>3 DEF IInv, StateTyped, Steps, evidence
  <2>. QED BY <2>3, <2>4, <2>6, <2>7, <2>8, <2>9, <2>10, <2>11, CommandIdle DEF IInv, IData
<1>. QED BY <1>7, <1>8, <1>9 DEF ContinueRepair
-----------------------------------------------------------------------------
(* Resume *)

\* A resume follows the first row whose condition holds, and the last row always applies.
LEMMA FirstRow ==
  ASSUME NEW note \in BOOLEAN
  PROVE  \E i \in 1 .. 19 : /\ Branch(note) = Branches(note)[i][2] /\ Branches(note)[i][1]
                            /\ \A j \in 1 .. i - 1 : ~Branches(note)[j][1]
<1> DEFINE First(i) == Branches(note)[i][1] /\ \A j \in 1 .. i - 1 : ~Branches(note)[j][1]
           S == {i \in 1 .. 19 : Branches(note)[i][1]}
<1>1. DOMAIN Branches(note) = 1 .. 19
  BY DEF Branches
<1>2. 19 \in S /\ S \subseteq Nat
  <2>1. Branches(note)[19][1]
    BY DEF Branches
  <2>. QED BY <2>1
<1>3. PICK n \in S : \A m \in S : n <= m
  <2> HIDE DEF S
  <2>. QED BY <1>2, Least
<1>4. First(n) /\ n \in 1 .. 19
  BY <1>3
<1>5. Branch(note) = Branches(note)[CHOOSE i \in 1 .. 19 : First(i)][2]
  BY <1>1 DEF Branch
<1>6. First(CHOOSE i \in 1 .. 19 : First(i)) /\ (CHOOSE i \in 1 .. 19 : First(i)) \in 1 .. 19
  BY <1>4
<1>. QED BY <1>5, <1>6

\* A resume only picks a step.
LEMMA Resumed ==
  ASSUME IInv, NEW note \in BOOLEAN, Resume(note)
  PROVE  /\ RunTyped(run) /\ IData /\ IData'
         /\ run' = run /\ pc' = Branch(note) /\ Branch(note) # "idle" /\ hand' = NoOutcome
         /\ UNCHANGED <<evidence, world>> /\ thenGate' = FALSE
         /\ UNCHANGED <<verdict, slot, gate>> /\ UNCHANGED bounds
         /\ retry' \in Retries /\ (~RetryPending => retry' = 0)
         /\ RetryPending => retry' = run.authorized.retry
<1>1. RunTyped(run) /\ IData
  BY DEF IInv
<1>2. /\ run' = run /\ pc' = Branch(note) /\ Branch(note) # "idle" /\ hand' = NoOutcome
      /\ UNCHANGED <<evidence, world>> /\ thenGate' = FALSE /\ UNCHANGED bounds
      /\ retry' = IF RetryPending THEN run.authorized.retry ELSE 0
  BY DEF Resume, Goto
<1>3. UNCHANGED <<verdict, slot, gate, confirmed, comments, remote>>
  BY <1>2 DEF evidence, world
<1>4. IData'
  BY <1>1, <1>2, <1>3, DataUnchanged
<1>5. run.authorized.retry \in Retries /\ 0 \in Retries
  BY <1>1, GateConstants DEF RunTyped, Retries
<1>. QED BY <1>1, <1>2, <1>3, <1>4, <1>5

LEMMA ResumedTyped ==
  ASSUME IInv, NEW note \in BOOLEAN, Resume(note), pc' \in Steps
  PROVE  StateTyped'
<1>1. hand' \in Outcomes
  <2>1. NoOutcome \in Outcomes
    BY GateConstants DEF NoOutcome, Outcomes, Retries, Candidates
  <2>. QED BY <2>1, Resumed
<1>2. faults' \in 0 .. MaxFaults /\ crashes' \in 0 .. MaxCrashes
  BY Resumed DEF bounds, IInv, StateTyped
<1>. QED BY <1>1, <1>2, Resumed, CommandTyped DEF IInv, StateTyped

\* A Candidate that came to a Gate Cycle has a validation that ended.
LEMMA SettledEnded ==
  ASSUME Settled
  PROVE  run.attempt.status \in {"passed", "rejected"} /\ run.validation # NoResult
BY DEF Settled, Conclusive, NoResult, Result

\* Where no repair is under way, the Candidate is that of the slot in use.
LEMMA NoRepairLeft ==
  ASSUME RunTyped(run), IData, ~RepairExhausted,
         ~(InterruptedReady \/ run.last = "repair.interrupted"),
         ~(run.checkpoint # "reviewed" /\ CurrentBrief)
  PROVE  run.candidate = run.used
BY GateConstants DEF IData, RepairOK, RunTyped, Candidates

LEMMA NotPending ==
  ASSUME RunTyped(run), IData, ~RetryPending
  PROVE  run.authorized = NoRetry /\ Turn = 0
<1>1. run.authorized = NoRetry
  BY DEF RetryPending, IData, GateOK
<1>. QED BY <1>1 DEF Turn, NoRetry

\* A resume that goes on with the Gate Cycle whose turn it is.
LEMMA ToGate ==
  ASSUME IInv, NEW note \in BOOLEAN, Resume(note), pc' = "gate", Settled,
         run.candidate = run.used, run.checkpoint # "reviewed"
  PROVE  ICommand'
<1>1. retry' = Turn
  <2>1. CASE RetryPending
    BY <2>1, Resumed DEF Turn
  <2>2. CASE ~RetryPending
    BY <2>2, Resumed, NotPending
  <2>. QED BY <2>1, <2>2
<1>2. run' = run
  BY Resumed
<1>3. Settled' /\ Turn' = Turn
  BY <1>2 DEF Settled, Conclusive, Reviewing, Turn
<1>4. CyclingOK' /\ pc' \in CycleSteps
  BY <1>1, <1>2, <1>3 DEF CyclingOK, CycleSteps, ReviewSteps, TellSteps
<1>5. run'.attempt.status # "started"
  BY <1>2, SettledEnded
<1>. QED BY <1>4, <1>5, CommandIn

\* A resume that goes on with the validation.
LEMMA ToValidation ==
  ASSUME IInv, NEW note \in BOOLEAN, Resume(note), pc' \in ValidationSteps, ~Settled,
         pc' \in OpenSteps <=> run.attempt.status = "started",
         pc' = "finish_validation" => verdict \in Verdicts,
         pc' = "record_validation" =>
            run.attempt.status \in Verdicts /\ run.attempt.candidate = run.candidate
  PROVE  ICommand'
<1>1. ~Judged /\ run.checkpoint = "candidate_ready"
  BY DEF IInv, IData, JudgedOK
<1>2. run' = run /\ verdict' = verdict /\ gate' = gate
  BY Resumed
<1>3. ~Judged'
  BY <1>1, <1>2 DEF Judged
<1>4. ValidatingOK'
  BY <1>1, <1>2, <1>3 DEF ValidatingOK
<1>. QED BY <1>4, CommandIn

\* A resume that goes on behind a recorded cycle.
LEMMA ToReobserve ==
  ASSUME IInv, NEW note \in BOOLEAN, Resume(note), pc' = "reobserve", Settled,
         gate = NoGate, run.authorized = NoRetry, ~RepairInterrupted, run.checkpoint # "reviewed",
         run.candidate = run.used \/ CurrentBrief
  PROVE  ICommand'
<1>1. run' = run /\ slot' = slot /\ gate' = gate
  BY Resumed
<1>2. Settled' /\ ~RepairInterrupted' /\ CurrentBrief' = CurrentBrief
  BY <1>1 DEF Settled, Conclusive, Reviewing, RepairInterrupted, CurrentBrief
<1>3. DecidedOK'
  BY <1>1, <1>2 DEF DecidedOK, DecidedSteps
<1>4. pc' \in {"reobserve", "authorize"} \cup DecidedSteps
  OBVIOUS
<1>5. run'.attempt.status # "started"
  BY <1>1, SettledEnded
<1>. QED BY <1>3, <1>4, <1>5, CommandIn

\* What a resume has ruled out before it follows a row.
LEMMA RuledOut ==
  ASSUME NEW note \in BOOLEAN, NEW i \in 1 .. 19,
         \A j \in 1 .. i - 1 : ~Branches(note)[j][1]
  PROVE  /\ i > 2 => ~(run.attempt.status = "started")
         /\ i > 5 => ~RepairInterrupted
         /\ i > 6 => ~RepairExhausted
         /\ i > 7 => ~(InterruptedReady \/ run.last = "repair.interrupted")
         /\ i > 8 => ~(run.checkpoint # "reviewed" /\ CurrentBrief)
         /\ i > 9 => ~RetryPending
         /\ i > 13 => ~(run.checkpoint = "reviewed")
         /\ i > 15 => ~(run.checkpoint = "validated" \/ run.last = "validation.rejected")
<1>1. \A j \in 1 .. 19 : i > j => ~Branches(note)[j][1]
  OBVIOUS
<1>2. i > 2 => ~(run.attempt.status = "started")
  <2>1. i > 2 => ~Branches(note)[2][1]
    BY <1>1
  <2>2. Branches(note)[2][1] = (run.attempt.status = "started")
    BY DEF Branches
  <2>. QED BY <2>1, <2>2
<1>3. i > 5 => ~RepairInterrupted
  <2>1. i > 5 => ~Branches(note)[5][1]
    BY <1>1
  <2>2. Branches(note)[5][1] = RepairInterrupted
    BY DEF Branches
  <2>. QED BY <2>1, <2>2
<1>4. i > 6 => ~RepairExhausted
  <2>1. i > 6 => ~Branches(note)[6][1]
    BY <1>1
  <2>2. Branches(note)[6][1] = RepairExhausted
    BY DEF Branches
  <2>. QED BY <2>1, <2>2
<1>5. i > 7 => ~(InterruptedReady \/ run.last = "repair.interrupted")
  <2>1. i > 7 => ~Branches(note)[7][1]
    BY <1>1
  <2>2. Branches(note)[7][1] = (InterruptedReady \/ run.last = "repair.interrupted")
    BY DEF Branches
  <2>. QED BY <2>1, <2>2
<1>6. i > 8 => ~(run.checkpoint # "reviewed" /\ CurrentBrief)
  <2>1. i > 8 => ~Branches(note)[8][1]
    BY <1>1
  <2>2. Branches(note)[8][1] = (run.checkpoint # "reviewed" /\ CurrentBrief)
    BY DEF Branches
  <2>. QED BY <2>1, <2>2
<1>7. i > 9 => ~RetryPending
  <2>1. i > 9 => ~Branches(note)[9][1]
    BY <1>1
  <2>2. Branches(note)[9][1] = RetryPending
    BY DEF Branches
  <2>. QED BY <2>1, <2>2
<1>8. i > 13 => ~(run.checkpoint = "reviewed")
  <2>1. i > 13 => ~Branches(note)[13][1]
    BY <1>1
  <2>2. Branches(note)[13][1] = (run.checkpoint = "reviewed")
    BY DEF Branches
  <2>. QED BY <2>1, <2>2
<1>9. i > 15 => ~(run.checkpoint = "validated" \/ run.last = "validation.rejected")
  <2>1. i > 15 => ~Branches(note)[15][1]
    BY <1>1
  <2>2. Branches(note)[15][1] = (run.checkpoint = "validated" \/ run.last = "validation.rejected")
    BY DEF Branches
  <2>. QED BY <2>1, <2>2
<1>. QED BY <1>2, <1>3, <1>4, <1>5, <1>6, <1>7, <1>8, <1>9

LEMMA ResumeKeeps == \A note \in BOOLEAN : IInv /\ Resume(note) => IInv'
<1> SUFFICES ASSUME NEW note \in BOOLEAN, IInv, Resume(note) PROVE IInv'
  OBVIOUS
<1>1. PICK i \in 1 .. 19 : /\ Branch(note) = Branches(note)[i][2] /\ Branches(note)[i][1]
                           /\ \A j \in 1 .. i - 1 : ~Branches(note)[j][1]
  BY FirstRow
<1>2. /\ RunTyped(run) /\ IData /\ IData' /\ run' = run
      /\ pc' = Branches(note)[i][2] /\ pc' # "idle"
      /\ UNCHANGED <<verdict, slot, gate>>
  BY <1>1, Resumed
<1>3. /\ i > 2 => run.attempt.status # "started"
      /\ i > 5 => ~RepairInterrupted
      /\ i > 8 => run.candidate = run.used
      /\ i > 9 => ~RetryPending
      /\ i > 9 => run.authorized = NoRetry
      /\ i > 13 => run.checkpoint # "reviewed"
      /\ i > 15 => run.checkpoint = "candidate_ready"
  <2>1. i > 8 => run.candidate = run.used
    <3>1. i > 8 => i > 6 /\ i > 7
      OBVIOUS
    <3>. QED BY <1>1, <1>2, <3>1, RuledOut, NoRepairLeft
  <2>2. i > 9 => ~RetryPending
    BY <1>1, RuledOut
  <2>3. i > 2 => run.attempt.status # "started"
    BY <1>1, RuledOut
  <2>4. i > 5 => ~RepairInterrupted
    BY <1>1, RuledOut
  <2>5. i > 13 => run.checkpoint # "reviewed"
    BY <1>1, RuledOut
  <2>6. i > 15 => run.checkpoint = "candidate_ready"
    <3>1. i > 15 => run.checkpoint # "validated" /\ i > 13
      BY <1>1, RuledOut
    <3>. QED BY <1>2, <2>5, <3>1 DEF RunTyped
  <2>. QED BY <1>2, <2>1, <2>2, <2>3, <2>4, <2>5, <2>6, NotPending
<1>4. ASSUME pc' \in Steps, ICommand' PROVE IInv'
  BY <1>2, <1>4, ResumedTyped DEF IInv
<1>5. Settled => run.attempt.status \in {"passed", "rejected"} /\ run.validation # NoResult
  BY SettledEnded
<1>6. Judged => Settled
  BY <1>2 DEF IData, JudgedOK
<1>7. CASE i = 1
  <2>1. pc' = "alert_signal"
    BY <1>2, <1>7 DEF Branches
  <2>. QED BY <1>4, <2>1, CommandIn DEF Steps
<1>8. CASE i = 2
  <2>1. run.attempt.status = "started"
    BY <1>1, <1>8 DEF Branches
  <2>2. pc' = IF verdict = "none" THEN "interrupt_validation" ELSE "finish_validation"
    BY <1>2, <1>8 DEF Branches
  <2>3. verdict # "none" => verdict \in Verdicts
    BY DEF IInv, StateTyped
  <2>4. pc' \in ValidationSteps /\ pc' \in OpenSteps /\ pc' \in Steps /\ pc' # "record_validation"
    BY <2>2 DEF ValidationSteps, OpenSteps, Steps
  <2>5. pc' = "finish_validation" => verdict \in Verdicts
    BY <2>2, <2>3
  <2>6. ICommand'
    BY <1>5, <2>1, <2>4, <2>5, ToValidation
  <2>. QED BY <1>4, <2>4, <2>6
<1>9. CASE i = 3
  <2>1. /\ run.checkpoint = "candidate_ready" /\ run.validation = NoResult
        /\ run.attempt.status \in Verdicts
    BY <1>1, <1>9 DEF Branches, AtCandidate
  <2>2. pc' = "record_validation"
    BY <1>2, <1>9 DEF Branches
  <2>3. pc' \in ValidationSteps /\ pc' \notin OpenSteps /\ pc' \in Steps
        /\ pc' # "finish_validation"
    BY <2>2 DEF ValidationSteps, OpenSteps, Steps
  <2>4. run.attempt.candidate = run.candidate
    <3>1. run.used = 0
      BY <1>2, <2>1 DEF IData, AttemptOK, NoResult, Result
    <3>2. run.candidate = 0
      BY <1>2, <3>1 DEF IData, RepairOK, RunTyped, Candidates
    <3>3. run.attempt.candidate \in 0 .. 0
      BY <1>2, <2>1, <3>2 DEF IData, AttemptOK, Verdicts
    <3>. QED BY <3>2, <3>3
  <2>5. run.attempt.status # "started"
    BY <2>1 DEF Verdicts
  <2>6. ICommand'
    BY <1>5, <2>1, <2>3, <2>4, <2>5, ToValidation
  <2>. QED BY <1>4, <2>3, <2>6
<1>10. CASE i = 4
  <2>1. run.attempt.status = "interrupted"
    BY <1>1, <1>10 DEF Branches
  <2>2. pc' = "alert_validation"
    BY <1>2, <1>10 DEF Branches
  <2>3. pc' \in ValidationSteps /\ pc' \notin OpenSteps /\ pc' \in Steps
        /\ pc' # "finish_validation" /\ pc' # "record_validation"
    BY <2>2 DEF ValidationSteps, OpenSteps, Steps
  <2>4. ICommand'
    BY <1>5, <2>1, <2>3, ToValidation
  <2>. QED BY <1>4, <2>3, <2>4
<1>11. CASE i = 5
  <2>1. RepairInterrupted
    BY <1>1, <1>11 DEF Branches
  <2>2. pc' = "seal_interruption"
    BY <1>2, <1>11 DEF Branches
  <2>3. PaidOK'
    BY <1>2, <2>1, <2>2 DEF PaidOK, PaidSteps, PushSteps, RepairInterrupted, CurrentBrief
  <2>4. pc' \in PaidSteps /\ pc' \in Steps
    BY <2>2 DEF PaidSteps, Steps
  <2>. QED BY <1>2, <1>3, <1>4, <1>11, <2>3, <2>4, CommandIn
<1>12. CASE i \in {6, 12, 13}
  <2>1. i = 6 \/ i = 12 \/ i = 13
    BY <1>12
  <2>2. /\ Branches(note)[6][2] = "idle" /\ Branches(note)[12][2] = "idle"
        /\ Branches(note)[13][2] = "idle"
    BY DEF Branches
  <2>. QED BY <1>2, <2>1, <2>2
<1>13. CASE i = 7
  <2>1. pc' = "continue_repair"
    BY <1>2, <1>13 DEF Branches
  <2>. QED BY <1>2, <1>3, <1>4, <1>13, <2>1, CommandIn DEF Steps
<1>14. CASE i = 8
  <2>1. run.checkpoint # "reviewed" /\ CurrentBrief
    BY <1>1, <1>14 DEF Branches
  <2>2. pc' = "reobserve" /\ pc' \in Steps
    BY <1>2, <1>14 DEF Branches, Steps
  <2>3. Settled /\ gate = NoGate /\ run.authorized = NoRetry
    BY <1>2, <2>1, Paid, Behind
  <2>4. ~RepairInterrupted
    BY <1>3, <1>14
  <2>. QED BY <1>4, <2>1, <2>2, <2>3, <2>4, ToReobserve
<1>15. CASE i = 9
  <2>1. RetryPending
    BY <1>1, <1>15 DEF Branches
  <2>2. pc' = "gate" /\ pc' \in Steps
    BY <1>2, <1>15 DEF Branches, Steps
  <2>3. run.authorized # NoRetry
    BY <2>1 DEF RetryPending, NoRetry
  <2>4. Settled /\ run.candidate = run.used /\ run.checkpoint # "reviewed"
    BY <1>2, <1>6, <2>3 DEF Judged, IData, GateOK
  <2>. QED BY <1>4, <2>2, <2>4, ToGate
<1>16. CASE i = 10
  <2>1. RetryAuthorized(note)
    BY <1>1, <1>16 DEF Branches
  <2>2. pc' = "authorize" /\ pc' \in Steps
    BY <1>2, <1>16 DEF Branches, Steps
  <2>3. /\ run.candidate = run.used /\ run.authorized = NoRetry
        /\ run.attempt.status # "started"
    BY <1>3, <1>16
  <2>4. run.cycles # <<>> /\ LastCycle.candidate = run.candidate /\ Reviewing
    BY <2>1 DEF RetryAuthorized, Reviewing, Result
  <2>5. gate = NoGate
    <3>1. \E k \in DOMAIN run.cycles : run.cycles[k].candidate = run.candidate
      BY <1>2, <2>4, LastIs
    <3>. QED BY <1>2, <2>3, <3>1 DEF IData, GateOK
  <2>6. DecidedOK'
    BY <1>2, <2>2, <2>3, <2>4, <2>5 DEF DecidedOK, DecidedSteps, LastCycle, Reviewing
  <2>. QED BY <1>2, <1>4, <2>2, <2>3, <2>6, CommandIn
<1>17. CASE i = 11
  <2>1. gate # NoGate
    <3>1. gate.sealed # NoOutcome
      BY <1>1, <1>17 DEF Branches, GateSealed
    <3>. QED BY <3>1 DEF NoGate
  <2>2. pc' = "gate" /\ pc' \in Steps
    BY <1>2, <1>17 DEF Branches, Steps
  <2>3. Settled /\ run.candidate = run.used /\ run.checkpoint # "reviewed"
    BY <1>2, <1>6, <2>1 DEF Judged, IData, GateOK
  <2>. QED BY <1>4, <2>2, <2>3, ToGate
<1>18. CASE i = 14
  <2>1. run.last = "gate.cycle_completed"
    BY <1>1, <1>18 DEF Branches
  <2>2. pc' = "reobserve" /\ pc' \in Steps
    BY <1>2, <1>18 DEF Branches, Steps
  <2>3. /\ run.candidate = run.used /\ gate = NoGate /\ run.authorized = NoRetry
        /\ \E k \in DOMAIN run.cycles : run.cycles[k].candidate = run.candidate
    BY <1>2, <2>1 DEF IData, JudgedOK
  <2>4. Settled
    BY <1>6, <2>3 DEF Judged
  <2>5. ~RepairInterrupted /\ run.checkpoint # "reviewed"
    BY <1>3, <1>18
  <2>. QED BY <1>4, <2>2, <2>3, <2>4, <2>5, ToReobserve
<1>19. CASE i = 15
  <2>1. run.checkpoint = "validated" \/ run.last = "validation.rejected"
    BY <1>1, <1>19 DEF Branches
  <2>2. pc' = "gate" /\ pc' \in Steps
    BY <1>2, <1>19 DEF Branches, Steps
  <2>3. Settled
    BY <1>2, <2>1 DEF IData, JudgedOK
  <2>4. run.candidate = run.used /\ run.checkpoint # "reviewed"
    BY <1>3, <1>19
  <2>. QED BY <1>4, <2>2, <2>3, <2>4, ToGate
<1>20. CASE i \in {16, 17, 18}
  <2>1. /\ \/ run.last \in {"candidate.repaired", "candidate.ready"}
           \/ run.attention.scope \in {"candidate", "validation"}
        /\ run.checkpoint = "candidate_ready" /\ run.attempt.status # "started"
    <3>1. run.checkpoint = "candidate_ready" /\ run.attempt.status # "started"
      BY <1>3, <1>20
    <3>2. CASE i = 16
      BY <1>1, <3>1, <3>2 DEF Branches
    <3>3. CASE i = 17
      BY <1>1, <3>1, <3>3 DEF Branches
    <3>4. CASE i = 18
      BY <1>1, <3>1, <3>4 DEF Branches
    <3>. QED BY <1>20, <3>2, <3>3, <3>4
  <2>2. ~Settled
    BY <2>1 DEF Settled
  <2>3. pc' \in {"check", "start_validation"}
    <3>1. i = 16 \/ i = 17 \/ i = 18
      BY <1>20
    <3>2. /\ Branches(note)[16][2] = "check" /\ Branches(note)[17][2] = "check"
          /\ Branches(note)[18][2] = "start_validation"
      BY DEF Branches
    <3>. QED BY <1>2, <3>1, <3>2
  <2>4. pc' \in ValidationSteps /\ pc' \notin OpenSteps /\ pc' \in Steps
        /\ pc' # "finish_validation" /\ pc' # "record_validation"
    BY <2>3 DEF ValidationSteps, OpenSteps, Steps
  <2>5. ICommand'
    BY <2>1, <2>2, <2>4, ToValidation
  <2>. QED BY <1>4, <2>4, <2>5
<1>21. CASE i = 19
  <2>1. pc' = "alert_worker"
    BY <1>2, <1>21 DEF Branches
  <2>. QED BY <1>2, <1>3, <1>4, <1>21, <2>1, CommandIn DEF Steps
<1>. QED BY <1>7, <1>8, <1>9, <1>10, <1>11, <1>12, <1>13, <1>14, <1>15, <1>16, <1>17, <1>18,
            <1>19, <1>20, <1>21
-----------------------------------------------------------------------------
(* Failures *)

LEMMA AlertKeeps == IInv /\ (AlertWorker \/ AlertSignal) => IInv'
<1> SUFFICES ASSUME IInv, AlertWorker \/ AlertSignal PROVE IInv'
  OBVIOUS
<1>1. UNCHANGED <<evidence, world, local, bounds>>
  BY DEF AlertWorker, AlertSignal
<1>2. PICK scope \in {"worker_launch", "lifecycle"}, kind \in {"inconclusive", "interrupted"} :
         Stop(run, scope, kind)
  BY DEF AlertWorker, AlertSignal
<1>3. scope \in Scopes /\ kind \in Reasons /\ scope \notin {"candidate", "validation"}
  BY DEF Scopes, Reasons, Verdicts, Errors
<1>4. StateTyped'
  <2>1. pc' \in Steps
    BY <1>2, Moves
  <2>. QED BY <1>1, <2>1, CommandTyped DEF IInv, StateTyped, local, bounds
<1>. QED BY <1>1, <1>2, <1>3, <1>4, StopKeeps

LEMMA CutOffTyped ==
  ASSUME StateTyped, CutOff, pc' = "idle"
  PROVE  StateTyped'
<1>1. NoOutcome \in Outcomes /\ 0 \in Retries
  BY GateConstants DEF NoOutcome, Outcomes, Retries, Candidates
<1>2. faults' \in 0 .. MaxFaults /\ crashes' \in 0 .. MaxCrashes
  BY GateConstants DEF CutOff, StateTyped
<1>3. pc' \in Steps
  BY DEF Steps
<1>. QED BY <1>1, <1>2, <1>3, CommandTyped DEF CutOff

\* A command may end between any two steps.
LEMMA CutKeeps == IInv /\ (Crash \/ Signal) => IInv'
<1> SUFFICES ASSUME IInv, Crash \/ Signal PROVE IInv'
  OBVIOUS
<1>1. CutOff /\ pc' = "idle"
  BY DEF Crash, Signal, Goto, Record
<1>2. StateTyped' /\ ICommand'
  BY <1>1, CutOffTyped, CommandIdle DEF IInv
<1>3. UNCHANGED <<verdict, slot, gate, confirmed, comments, remote>>
  BY <1>1 DEF CutOff, evidence, world
<1>4. CASE run' = run
  BY <1>2, <1>3, <1>4, DataUnchanged DEF IInv
<1>5. CASE run' = [run EXCEPT !.attention = Attention("lifecycle", "interrupted"),
                              !.last = "lifecycle.signal_interrupted"]
  <2>1. Attention("lifecycle", "interrupted") \in [scope : Scopes, kind : Reasons]
        /\ "lifecycle.signal_interrupted" \in Kinds
    BY DEF Attention, Scopes, Reasons, Errors, Kinds
  <2>2. RunTyped(run')
    BY <1>5, <2>1 DEF IInv, RunTyped
  <2>3. /\ Noted(run, run') /\ run'.last = "lifecycle.signal_interrupted"
        /\ run'.attention = Attention("lifecycle", "interrupted")
    BY <1>5 DEF IInv, RunTyped, Noted
  <2>4. IData'
    BY <1>3, <2>3, DataNoted DEF IInv, Alerted, Attention
  <2>. QED BY <1>2, <2>2, <2>4 DEF IInv
<1>. QED BY <1>4, <1>5 DEF Crash, Signal, Goto, Record

\* What the command knows does not depend on the head of the branch.
LEMMA CommandKept ==
  ASSUME ICommand, UNCHANGED <<run, evidence, comments, pc, local>>
  PROVE  ICommand'
<1>1. UNCHANGED <<verdict, slot, gate, confirmed, hand, retry>>
  BY DEF evidence, local
<1>2. Judged' = Judged /\ Settled' = Settled /\ Fresh' = Fresh /\ Turn' = Turn
  BY <1>1 DEF Judged, Settled, Conclusive, Reviewing, Fresh, Turn
<1>3. ValidatingOK'
  BY <1>1, <1>2 DEF ICommand, ValidatingOK
<1>4. CyclingOK'
  BY <1>1, <1>2 DEF ICommand, CyclingOK, Reviewing
<1>5. DecidedOK'
  BY <1>1, <1>2 DEF ICommand, DecidedOK, RepairInterrupted, CurrentBrief, LastCycle, Reviewing
<1>6. PaidOK'
  BY <1>1 DEF ICommand, PaidOK, RepairInterrupted, CurrentBrief
<1>. QED BY <1>3, <1>4, <1>5, <1>6 DEF ICommand

LEMMA ForeignKeeps == IInv /\ ForeignPush => IInv'
<1> SUFFICES ASSUME IInv, ForeignPush PROVE IInv'
  OBVIOUS
<1>1. /\ remote' = Foreign
      /\ UNCHANGED <<run, verdict, slot, gate, confirmed, pushed, tree, comments, pc, local>>
      /\ UNCHANGED <<run, evidence, comments, pc, local>>
  BY DEF ForeignPush, evidence
<1>2. faults' \in 0 .. MaxFaults /\ crashes' \in 0 .. MaxCrashes
  BY BoundsTyped DEF ForeignPush, IInv
<1>3. StateTyped'
  BY <1>1, <1>2 DEF IInv, StateTyped, local
<1>4. IData'
  <2>1. HeadIsExplained'
    BY <1>1 DEF HeadIsExplained
  <2>2. RepairOK' /\ SlotsOK' /\ AttemptOK' /\ CyclesOK' /\ CommentsOK'
    BY <1>1 DEF IInv, IData, RepairOK, SlotsOK, AttemptOK, CyclesOK, CommentsOK, CurrentBrief,
       InterruptedReady, RepairExhausted
  <2>3. JudgedOK' /\ GateOK'
    BY <1>1 DEF IInv, IData, JudgedOK, GateOK, Judged, Settled, Conclusive, Reviewing, Fresh, Turn
  <2>. QED BY <2>1, <2>2, <2>3 DEF IData
<1>5. ICommand'
  BY <1>1, CommandKept DEF IInv
<1>. QED BY <1>1, <1>3, <1>4, <1>5 DEF IInv

LEMMA StutterKeeps == IInv /\ UNCHANGED vars => IInv'
<1> SUFFICES ASSUME IInv, UNCHANGED vars PROVE IInv'
  OBVIOUS
<1>1. /\ UNCHANGED <<run, evidence, world, pc, local, bounds>>
      /\ UNCHANGED <<run, verdict, slot, gate, confirmed, comments, remote>>
      /\ UNCHANGED <<run, evidence, comments, pc, local>>
  BY DEF vars, evidence, world
<1>2. IData'
  BY <1>1, DataUnchanged DEF IInv
<1>3. ICommand'
  BY <1>1, CommandKept DEF IInv
<1>4. StateTyped'
  BY <1>1, CommandTyped DEF IInv, StateTyped, local, bounds
<1>. QED BY <1>1, <1>2, <1>3, <1>4 DEF IInv
-----------------------------------------------------------------------------
(* The theorems *)

LEMMA ValidationStepKeeps == IInv /\ ValidationStep => IInv'
BY CheckKeeps, StartValidationKeeps, ValidateKeeps, FinishValidationKeeps, RecordValidationKeeps,
   AlertValidationKeeps DEF ValidationStep

LEMMA GateStepKeeps == IInv /\ GateStep => IInv'
BY GateRefusesKeeps, GateEnterKeeps, ReviewKeeps, DecideKeeps, PublishKeeps, CommentKeeps,
   ConfirmCommentKeeps, RecordCycleKeeps, ReobserveKeeps, AuthorizeKeeps, DecidedKeeps
   DEF GateStep

LEMMA RepairStepKeeps == IInv /\ RepairStep => IInv'
BY RefusedKeeps, AdoptKeeps, StartRepairKeeps, AgentKeeps, FinishRepairKeeps, PushKeeps,
   ConfirmPushKeeps, AnnounceKeeps, VerifyRepairKeeps, RecordInterruptionKeeps, ContinueKeeps
   DEF RepairStep

LEMMA NextKeeps == IInv /\ [Next]_vars => IInv'
BY ValidationStepKeeps, GateStepKeeps, RepairStepKeeps, ResumeKeeps, AlertKeeps, CutKeeps,
   ForeignKeeps, StutterKeeps DEF Next, Step

\* The inductive invariant: what the projection, the evidence, the pull request and the
\* command know of each other, wherever a command dies.
THEOREM Inductive == Spec => []IInv
BY Initially, NextKeeps, PTL DEF Spec

\* The projection, the evidence and the world only hold what the code can put into them:
\* no slot beyond the budget of four, no cycle beyond the one that follows the last slot.
THEOREM TypeCorrect == Spec => []TypeOK
<1>1. IInv => TypeOK
  BY DEF IInv, RunTyped, StateTyped, TypeOK, Markers
<1>. QED BY <1>1, Inductive, PTL

\* _ensure_gate_comment and _repair: every comment on the PR is told once and there are no
\* more than MAX_GATE_COMMENTS, a cycle that is recorded has its confirmed comment, and the
\* head of the branch is the Candidate, the reported repair that is paid for, or foreign.
THEOREM PullRequestExplained == Spec => []PullRequestIsExplained
<1>1. IInv => CommentedOnce
  BY CommentsDiffer, OccursOnce DEF IInv, CommentedOnce
<1>2. IInv => RecordedCyclesAreCommented
  BY RecordedIsFound DEF IInv, RecordedCyclesAreCommented
<1>3. IInv => HeadIsExplained
  BY DEF IInv, IData
<1>4. IInv => PullRequestIsExplained
  BY <1>1, <1>2, <1>3 DEF PullRequestIsExplained
<1>. QED BY <1>4, Inductive, PTL

\* validate_open_attempts: wherever a command dies, the open attempts are those of the
\* projection, so the preflight of the next resume lets it through.
THEOREM PreflightPasses == Spec => []PreflightAccepts
<1>1. IInv => PreflightAccepts
  <2> SUFFICES ASSUME IInv PROVE PreflightValid
    BY DEF PreflightAccepts
  <2>2. run.attempt.status = "started" => run.attempt.candidate = run.candidate
    BY DEF IInv, IData, AttemptOK
  <2>3. CASE CurrentBrief
    <3>1. run.open = {run.brief} /\ run.brief = Brief(run.candidate, run.used)
      BY <2>3 DEF IInv, IData, RepairOK, CurrentBrief
    <3>2. Cardinality(run.open) <= 1
      <4>1. \A x : Cardinality({x}) = 1
        BY FS_Singleton
      <4>. QED BY <3>1, <4>1
    <3>3. \A b \in run.open : Bound(b) /\ b.candidate = run.candidate
      BY <3>1 DEF Bound, Brief
    <3>. QED BY <2>2, <3>1, <3>2, <3>3 DEF PreflightValid
  <2>4. CASE ~CurrentBrief
    <3>1. run.open = {}
      BY <2>4 DEF IInv, IData, RepairOK
    <3>2. Cardinality(run.open) <= 1
      BY <3>1, FS_EmptySet
    <3>. QED BY <2>2, <2>4, <3>1, <3>2 DEF PreflightValid
  <2>. QED BY <2>3, <2>4
<1>. QED BY <1>1, Inductive, PTL

\* produce_repair_candidate: the agent runs once in a slot, and what a slot ended with stays,
\* whatever crashes and resumes lie in between.
THEOREM SlotsOnce == Spec => SlotsSpentOnce
<1> DEFINE A == \A n \in Slots : slot'[n] # slot[n] =>
                   \/ slot[n] = "absent" /\ run.used = n
                   \/ slot[n] = "started" /\ slot'[n] # "absent"
<1>1. IInv /\ [Next]_vars => A
  <2> SUFFICES ASSUME IInv, [Next]_vars PROVE A
    OBVIOUS
  <2>2. slot \in [Slots -> {"absent", "started", "report", "failed", "interrupted"}]
    BY DEF IInv, StateTyped
  <2>3. CASE slot' = slot
    BY <2>3
  <2>4. ASSUME NEW from, NEW to, slot[run.used] = from, slot' = [slot EXCEPT ![run.used] = to],
               from = "absent" \/ (from = "started" /\ to # "absent")
        PROVE  A
    BY <2>2, <2>4
  <2>5. CASE AgentStarts \/ AgentFails \/ \E head \in {run.used, Dirty} : AgentReports(head)
    BY <2>4, <2>5 DEF AgentStarts, AgentFails, AgentReports, Agent
  <2>6. CASE SealInterruption
    <3>1. slot[run.used] \in {"absent", "started", "interrupted"} /\ run.used \in Slots
          /\ slot' = [slot EXCEPT ![run.used] = "interrupted"]
      <4>1. pc = "seal_interruption" /\ "seal_interruption" \in PaidSteps
        BY <2>6 DEF SealInterruption, PaidSteps
      <4>2. run.used \in Slots /\ RepairInterrupted
        BY <4>1, PaidStep DEF IInv, ICommand, PaidOK
      <4>. QED BY <2>2, <2>6, <4>2 DEF RepairInterrupted, SealInterruption
    <3>2. CASE slot[run.used] = "interrupted"
      BY <2>2, <2>3, <3>1, <3>2
    <3>3. CASE slot[run.used] # "interrupted"
      BY <2>4, <3>1, <3>3
    <3>. QED BY <3>2, <3>3
  <2>7. \/ slot' = slot \/ SealInterruption \/ AgentStarts \/ AgentFails
        \/ \E head \in {run.used, Dirty} : AgentReports(head)
    <3>1. CASE ValidationStep \/ AlertWorker \/ AlertSignal \/ UNCHANGED vars \/ ForeignPush
               \/ Crash \/ Signal \/ \E note \in BOOLEAN : Resume(note)
      BY <3>1 DEF ValidationStep, CheckPublication, StartValidation, FinishValidation,
         RecordValidation, InterruptValidation, AlertValidation, Validate, ValidationFails,
         AlertWorker, AlertSignal, vars, ForeignPush, Crash, Signal, CutOff, Resume, evidence
    <3>2. CASE GateStep
      BY <3>2 DEF GateStep, GateEnter, SealBundle, ReviewsDone, Decide, Publish, Comment,
         ConfirmComment, RecordCycle, ReobserveComment, AuthorizeRetry, Reobserve, Decided,
         GateRefuses, StartReview, RecoverReview, FinishReview, Review, evidence
    <3>3. ASSUME RepairRefused \/ AdoptReport \/ StartRepair \/ FinishRepair \/ ObserveRemote
                 \/ Announce \/ VerifyRepair \/ RecordInterruption
          PROVE  slot' = slot
      BY <3>3 DEF RepairRefused, AdoptReport, StartRepair, FinishRepair, ObserveRemote, Announce,
         VerifyRepair, RecordInterruption, evidence
    <3>4. ASSUME Push \/ ConfirmPush \/ ContinueRepair PROVE slot' = slot
      BY <3>4 DEF Push, ConfirmPush, ContinueRepair, evidence
    <3>. QED BY <3>1, <3>2, <3>3, <3>4 DEF Next, Step, RepairStep
  <2>. QED BY <2>3, <2>5, <2>6, <2>7
<1>2. IInv /\ [Next]_vars => [A]_vars
  BY <1>1
<1>. QED BY <1>2, Inductive, PTL DEF Spec, SlotsSpentOnce

\* _gate_action and _advance_completed_gate: a step makes the Run "reviewed" only when this
\* very Candidate passed its validation and every review axis passed on it.
THEOREM OnlyApproved == Spec => ReviewedIsApproved
<1> DEFINE A == run'.checkpoint = "reviewed" /\ run.checkpoint # "reviewed" =>
                   /\ run.validation = Result(run.candidate, "passed")
                   /\ hand.candidate = run.candidate
                   /\ \A a \in Axes : gate.reviews[a] = "passed"
<1>1. ASSUME IInv, RecordCycle, run'.checkpoint = "reviewed", run.checkpoint # "reviewed"
      PROVE  A
  <2>1. pc = "record_cycle" /\ ~Told
    BY <1>1 DEF RecordCycle, Goto
  <2>2. hand.action = "complete"
    BY <1>1, <2>1 DEF RecordCycle, Record, IInv, RunTyped
  <2>3. /\ hand.candidate = run.candidate /\ hand = gate.sealed /\ gate.sealed # NoOutcome
    BY <1>1, <2>1, TellingNew DEF Telling
  <2>4. Reviewing /\ \A a \in Axes : gate.reviews[a] = "passed"
    BY <1>1, <2>2, <2>3 DEF IInv, IData, GateOK
  <2>5. run.validation.candidate = run.candidate
    BY <1>1, <2>1, TellStep DEF TellSteps, Telling, Settled, Conclusive
  <2>6. run.validation = Result(run.candidate, "passed")
    BY <1>1, <2>4, <2>5 DEF IInv, RunTyped, Results, Result, Reviewing
  <2>. QED BY <2>3, <2>4, <2>6
<1>2. ASSUME IInv, [Next]_vars, ~RecordCycle
      PROVE  run'.checkpoint = "reviewed" => run.checkpoint = "reviewed"
  <2>1. "checkpoint" \in DOMAIN run
    <3>1. RunTyped(run)
      BY <1>2 DEF IInv
    <3>. QED BY <3>1 DEF RunTyped
  <2> DEFINE Kept == run'.checkpoint = "reviewed" => run.checkpoint = "reviewed"
  <2>2. CASE ValidationStep
    <3>1. ASSUME CheckPublication \/ StartValidation \/ InterruptValidation PROVE Kept
      BY <2>1, <3>1 DEF CheckPublication, StartValidation, InterruptValidation, Record, Goto,
         Stop
    <3>2. ASSUME FinishValidation \/ RecordValidation \/ AlertValidation PROVE Kept
      BY <2>1, <3>2 DEF FinishValidation, RecordValidation, AlertValidation, Record, Goto, Stop
    <3>3. ASSUME NEW s \in Verdicts \cup Errors, Validate(s) \/ ValidationFails(s) PROVE Kept
      BY <2>1, <3>3 DEF Validate, ValidationFails, Record, Goto
    <3>. QED BY <2>2, <3>1, <3>2, <3>3 DEF ValidationStep
  <2>3. CASE GateStep
    <3>1. ASSUME SealBundle \/ ReviewsDone \/ Decide \/ Publish PROVE Kept
      BY <2>1, <3>1 DEF SealBundle, ReviewsDone, Decide, Publish, Record, Goto, Stop
    <3>2. ASSUME Comment \/ ConfirmComment PROVE Kept
      BY <2>1, <3>2 DEF Comment, ConfirmComment, Record, Goto, Stop
    <3>3. ASSUME NEW a, NEW s, StartReview(a) \/ RecoverReview(a) \/ FinishReview(a, s)
          PROVE  run' = run
      BY <3>3 DEF StartReview, RecoverReview, FinishReview, Review, Goto
    <3>4. ASSUME GateEnter \/ Decided PROVE Kept
      BY <2>1, <3>4 DEF GateEnter, Decided, Record, Goto, Stop
    <3>5. ASSUME AuthorizeRetry PROVE Kept
      BY <2>1, <3>5 DEF AuthorizeRetry, Reobserve, Record, Goto, Stop
    <3>6. ASSUME ReobserveComment PROVE Kept
      BY <2>1, <3>6 DEF ReobserveComment, Reobserve, Record, Goto, Stop
    <3>7. ASSUME NEW kind, GateRefuses(kind) PROVE Kept
      BY <2>1, <3>7 DEF GateRefuses, Record, Goto, Stop
    <3>. QED BY <1>2, <2>3, <3>1, <3>2, <3>3, <3>4, <3>5, <3>6, <3>7 DEF GateStep
  <2>4. CASE RepairStep
    <3>1. ASSUME RepairRefused \/ AdoptReport \/ FinishRepair \/ ObserveRemote PROVE Kept
      BY <2>1, <3>1 DEF RepairRefused, AdoptReport, FinishRepair, ObserveRemote, Record, Goto,
         Stop
    <3>2. ASSUME StartRepair \/ RecordInterruption \/ ContinueRepair PROVE Kept
      BY <2>1, <3>2 DEF StartRepair, RecordInterruption, ContinueRepair, Record, Goto, Stop
    <3>3. ASSUME Announce \/ VerifyRepair \/ Push \/ ConfirmPush PROVE Kept
      BY <2>1, <3>3 DEF Announce, VerifyRepair, Push, ConfirmPush, Record, Goto, Stop
    <3>4. ASSUME NEW h, AgentStarts \/ AgentFails \/ AgentReports(h) \/ SealInterruption
          PROVE  Kept
      BY <2>1, <3>4 DEF AgentStarts, AgentFails, AgentReports, Agent, SealInterruption, Record,
         Goto, Stop
    <3>. QED BY <2>4, <3>1, <3>2, <3>3, <3>4 DEF RepairStep
  <2>5. CASE AlertWorker \/ AlertSignal \/ UNCHANGED vars \/ ForeignPush \/ Crash \/ Signal
             \/ \E note \in BOOLEAN : Resume(note)
    BY <2>1, <2>5 DEF AlertWorker, AlertSignal, vars, ForeignPush, Crash, Signal, Resume, Record,
       Goto, Stop
  <2>. QED BY <1>2, <2>2, <2>3, <2>4, <2>5 DEF Next, Step
<1>3. IInv /\ [Next]_vars => A
  BY <1>1, <1>2
<1>4. IInv /\ [Next]_vars => [A]_vars
  BY <1>3
<1>. QED BY <1>4, Inductive, PTL DEF Spec, ReviewedIsApproved

\* _push_repair: force-with-lease names the Candidate that the remote was seen at, so what
\* someone else pushed stays on the branch.
THEOREM ForeignKept == Spec => ForeignHeadKept
<1> DEFINE A == remote = Foreign => remote' = Foreign
<1>1. IInv /\ [Next]_vars => A
  <2> SUFFICES ASSUME IInv, [Next]_vars, remote = Foreign PROVE remote' = Foreign
    OBVIOUS
  <2>1. CASE Push
    <3>1. run.candidate # Foreign
      BY GateConstants DEF IInv, RunTyped, Candidates, Foreign
    <3>. QED BY <2>1, <3>1 DEF Push
  <2>2. CASE ForeignPush
    BY <2>2 DEF ForeignPush
  <2>3. CASE ValidationStep
    BY <2>3 DEF ValidationStep, CheckPublication, StartValidation, FinishValidation,
       RecordValidation, InterruptValidation, AlertValidation, Validate, ValidationFails, world
  <2>4. CASE GateStep
    BY <2>4 DEF GateStep, GateEnter, SealBundle, ReviewsDone, Decide, Publish, Comment,
       ConfirmComment, RecordCycle, ReobserveComment, AuthorizeRetry, Reobserve, Decided,
       GateRefuses, StartReview, RecoverReview, FinishReview, Review, world
  <2>5. CASE RepairStep /\ ~Push
    BY <2>5 DEF RepairStep, RepairRefused, AdoptReport, StartRepair, FinishRepair,
       ObserveRemote, Announce, VerifyRepair, RecordInterruption, ConfirmPush,
       ContinueRepair, AgentStarts, AgentReports, AgentFails, Agent, SealInterruption, world
  <2>6. CASE AlertWorker \/ AlertSignal \/ UNCHANGED vars \/ Crash \/ Signal
             \/ \E note \in BOOLEAN : Resume(note)
    BY <2>6 DEF AlertWorker, AlertSignal, vars, Crash, Signal, CutOff, Resume, world
  <2>. QED BY <2>1, <2>2, <2>3, <2>4, <2>5, <2>6 DEF Next, Step
<1>2. IInv /\ [Next]_vars => [A]_vars
  BY <1>1
<1>. QED BY <1>2, Inductive, PTL DEF Spec, ForeignHeadKept
=============================================================================
