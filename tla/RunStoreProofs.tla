--------------------------- MODULE RunStoreProofs ---------------------------
(***************************************************************************)
(* Proofs about RunStore, for any sets of Runs, commands, alerts and       *)
(* reasons and any bounds.                                                 *)
(*                                                                         *)
(* Lemmas about histories come first (what truncating and appending does   *)
(* to them), then the inductive invariant IInv: what the disk always looks *)
(* like (DiskOK), what the flock holder may rely on at each of its steps   *)
(* (Holding), and that a worker unit exists only for a recorded Run        *)
(* (WorkersRecorded).                                                      *)
(***************************************************************************)
EXTENDS RunStore, TLAPS

Events == StateEvents \cup FactEvents

-----------------------------------------------------------------------------
(* The inductive invariant *)

\* No record but the last is torn.
Parses(l) == \A i \in DOMAIN l : l[i].event = "torn" => i = Len(l)

\* A Run with any durable fact has the record of its creation.
DiskOK ==
    /\ \A r \in Runs : Parses(log[r])
    /\ \A r \in Runs, e \in Events : Has(log[r], e) => Created(r)
    /\ \A r \in Runs : final[r] => retro[r] /\ Has(log[r], "run.completed")
    /\ \A r \in Runs : snapshot[r] <= Len(Complete(log[r]))
    /\ pointer # NoRun => Created(pointer)

\* The steps of create_run up to its first record.
Opening(a) ==
    \/ pc[a] \in {"make_directory", "write_identity", "write_log"}
    \/ pc[a] = "append" /\ job[a].rec.event = "run.created"

\* Actor a is about to do step s, or a record it is projecting is all before s.
Nears(a, s) == pc[a] = s \/ (pc[a] = "project" /\ job[a].then = s)

\* Where an actor continues after a record.
Thens == {"point", "prepare_launch", "launch", "work", "advance", "query", "analyse",
          "clear", "release"}

\* Only job[a].run owns work, if any Run does.
SoleOwner(r) == \A q \in Runs : Owns(q) => q = r

\* What the flock holder may rely on.
Holding(a) ==
    LET r == job[a].run IN
    /\ lock = a
    /\ r \in Runs
    /\ Opening(a) => pointer = NoRun /\ \A q \in Runs : ~Owns(q)
    /\ ~Opening(a) => Created(r)
    /\ pc[a] = "append" => /\ job[a].rec.event \in Events
                           /\ job[a].rec.event = "run.created" <=> job[a].then = "point"
                           /\ job[a].then = "analyse" => job[a].rec.event = "run.completed"
    /\ pc[a] \in {"append", "project"} => job[a].then \in Thens
    /\ Nears(a, "point") \/ pc[a] \in {"restore", "repoint"} => SoleOwner(r)
    /\ pc[a] = "restore" => Complete(log[r]) = log[r]
    /\ Nears(a, "analyse") \/ pc[a] = "finalize" => Has(log[r], "run.completed")

HoldersOK == \A a \in Actors : pc[a] \in HeldSteps => Holding(a)

\* A unit is only ever launched for a Run whose creation is recorded.
WorkersRecorded == \A w \in Runs : pc[w] # "idle" => Created(w)

IInv ==
    /\ TypeOK
    /\ DiskOK
    /\ HoldersOK
    /\ WorkersRecorded
    /\ OneActiveRun
    /\ PointerNamesOwner

-----------------------------------------------------------------------------
(* Histories *)

\* The valid bytes of a history are a prefix that lacks at most a torn last record.
LEMMA CompletePrefix ==
    ASSUME NEW l \in Seq(Record)
    PROVE  /\ Complete(l) \in Seq(Record)
           /\ Len(Complete(l)) <= Len(l)
           /\ \A i \in 1 .. Len(Complete(l)) : Complete(l)[i] = l[i]
           /\ \A i \in 1 .. Len(l) : l[i].event # "torn" => i \in 1 .. Len(Complete(l))
<1>1. CASE l # <<>> /\ l[Len(l)].event = "torn"
  BY <1>1 DEF Complete
<1>2. CASE ~(l # <<>> /\ l[Len(l)].event = "torn")
  BY <1>2 DEF Complete
<1>. QED BY <1>1, <1>2

\* Nothing but a torn record is lost by truncating to the valid bytes.
LEMMA CompleteHas ==
    ASSUME NEW l \in Seq(Record), NEW e, e # "torn"
    PROVE  Has(Complete(l), e) <=> Has(l, e)
  BY CompletePrefix DEF Has

\* Truncating a history whose only torn record is its last leaves none.
LEMMA CompleteClean ==
    ASSUME NEW l \in Seq(Record), Parses(l)
    PROVE  \A i \in 1 .. Len(Complete(l)) : Complete(l)[i].event # "torn"
<1>1. CASE l # <<>> /\ l[Len(l)].event = "torn"
  BY <1>1 DEF Complete, Parses
<1>2. CASE ~(l # <<>> /\ l[Len(l)].event = "torn")
  BY <1>2 DEF Complete, Parses
<1>. QED BY <1>1, <1>2

\* A clean history is its own valid bytes.
LEMMA CleanComplete ==
    ASSUME NEW l \in Seq(Record), \A i \in 1 .. Len(l) : l[i].event # "torn"
    PROVE  Complete(l) = l
  BY DEF Complete

\* Appending as _append_event_unlocked does, behind the valid bytes.
LEMMA AppendBehind ==
    ASSUME NEW l \in Seq(Record), NEW c \in Record, Parses(l), c.event # "torn"
    PROVE  LET m == Append(Complete(l), c) IN
           /\ m \in Seq(Record)
           /\ Parses(m)
           /\ Complete(m) = m
           /\ Len(m) = Len(Complete(l)) + 1
           /\ Extends(Complete(l), Complete(m))
           /\ \A e : e # "torn" => (Has(m, e) <=> Has(l, e) \/ c.event = e)
<1>. DEFINE k == Complete(l)
            m == Append(k, c)
<1>1. k \in Seq(Record) /\ \A i \in 1 .. Len(k) : k[i].event # "torn"
  BY CompletePrefix, CompleteClean
<1>2. \A e : e # "torn" => (Has(k, e) <=> Has(l, e))
  BY CompleteHas
<1>. HIDE DEF k
<1>3. /\ m \in Seq(Record) /\ Len(m) = Len(k) + 1
      /\ \A i \in 1 .. Len(k) : m[i] = k[i]
      /\ m[Len(k) + 1] = c
  BY <1>1
<1>4. \A i \in 1 .. Len(m) : m[i].event # "torn"
  BY <1>1, <1>3
<1>5. Complete(m) = m
  BY <1>3, <1>4, CleanComplete
<1>6. Parses(m)
  BY <1>3, <1>4 DEF Parses
<1>7. Extends(k, m)
  BY <1>1, <1>3 DEF Extends
<1>8. ASSUME NEW e PROVE Has(m, e) <=> Has(k, e) \/ c.event = e
  BY <1>1, <1>3 DEF Has
<1>. QED BY <1>2, <1>3, <1>5, <1>6, <1>7, <1>8 DEF k

LEMMA CutOffType ==
    ASSUME NEW l \in Seq(Record), NEW rest \in {<<>>, <<Torn>>}
    PROVE  Complete(l) \o rest \in Seq(Record)
<1>1. Torn \in Record
  BY DEF Torn, Rec, Record
<1>2. Complete(l) \in Seq(Record)
  BY CompletePrefix
<1>3. CASE rest = <<>> BY <1>2, <1>3
<1>4. CASE rest = <<Torn>> BY <1>1, <1>2, <1>4
<1>. QED BY <1>3, <1>4

\* What a crash inside the append may leave: the valid bytes, or those and a torn record.
LEMMA CutOff ==
    ASSUME NEW l \in Seq(Record), Parses(l), NEW rest \in {<<>>, <<Torn>>}
    PROVE  LET m == Complete(l) \o rest IN
           /\ m \in Seq(Record)
           /\ Parses(m)
           /\ Complete(m) = Complete(l)
           /\ \A e : e # "torn" => (Has(m, e) <=> Has(l, e))
<1>. DEFINE k == Complete(l)
            m == k \o rest
<1>1. k \in Seq(Record) /\ \A i \in 1 .. Len(k) : k[i].event # "torn"
  BY CompletePrefix, CompleteClean
<1>2. \A e : e # "torn" => (Has(k, e) <=> Has(l, e))
  BY CompleteHas
<1>. HIDE DEF k
<1>3. CASE rest = <<>>
  <2>1. m = k
    BY <1>1, <1>3
  <2>2. Parses(m) /\ Complete(m) = k
    BY <1>1, <2>1, CleanComplete DEF Parses
  <2>. QED BY <1>1, <1>2, <2>1, <2>2 DEF k
<1>4. CASE rest = <<Torn>>
  <2>1. Torn \in Record /\ Torn.event = "torn"
    BY DEF Torn, Rec, Record
  <2>2. /\ m \in Seq(Record) /\ Len(m) = Len(k) + 1 /\ m # <<>>
        /\ \A i \in 1 .. Len(k) : m[i] = k[i]
        /\ m[Len(m)] = Torn
    BY <1>1, <1>4, <2>1
  <2>3. Parses(m)
    BY <1>1, <2>1, <2>2 DEF Parses
  <2>4. Complete(m) = SubSeq(m, 1, Len(m) - 1)
    BY <2>1, <2>2 DEF Complete
  <2>5. Complete(m) = k
    BY <1>1, <2>2, <2>4
  <2>6. \A e : e # "torn" => (Has(m, e) <=> Has(k, e))
    BY <1>1, <2>1, <2>2 DEF Has
  <2>. QED BY <1>2, <2>2, <2>3, <2>5, <2>6 DEF k
<1>. QED BY <1>3, <1>4

\* The last record with a state is a record.
LEMMA InStateHas ==
    ASSUME NEW l \in Seq(Record), NEW e, e # "torn", InState(Complete(l), e)
    PROVE  Has(l, e)
  BY CompleteHas DEF InState, Has

\* A Run that owns work by its durable facts is one the scan counts as active.
LEMMA OwnsActive ==
    ASSUME NEW r \in Runs, log[r] \in Seq(Record), Owns(r)
    PROVE  Active(r)
<1>1. Has(log[r], "run.created") /\ ~Has(log[r], "run.superseded") /\ ~final[r]
  BY DEF Owns, Retired, Created
<1>2. Complete(log[r]) # <<>>
  <2>1. Has(Complete(log[r]), "run.created")
    BY <1>1, CompleteHas
  <2>2. SUFFICES ASSUME Complete(log[r]) = <<>> PROVE FALSE
    OBVIOUS
  <2>3. ~Has(<<>>, "run.created")
    BY DEF Has
  <2>. QED BY <2>1, <2>2, <2>3
<1>3. ~InState(Complete(log[r]), "run.superseded")
  BY <1>1, InStateHas
<1>. QED BY <1>1, <1>2, <1>3 DEF Active

\* A history with a complete record tells of the creation of its Run.
LEMMA CompleteCreated ==
    ASSUME TypeOK, DiskOK, NEW r \in Runs, Complete(log[r]) # <<>>
    PROVE  Created(r)
<1>1. log[r] \in Seq(Record) /\ Parses(log[r])
  BY DEF TypeOK, DiskOK
<1>2. Complete(log[r]) \in Seq(Record) /\ 1 \in 1 .. Len(Complete(log[r]))
  BY <1>1, CompletePrefix
<1>3. Complete(log[r])[1] = log[r][1] /\ 1 \in 1 .. Len(log[r])
  BY <1>1, <1>2, CompletePrefix
<1>4. log[r][1].event # "torn" /\ log[r][1] \in Record
  BY <1>1, <1>2, <1>3, CompleteClean
<1>5. log[r][1].event \in Events
  BY <1>4 DEF Record, Events
<1>6. Has(log[r], log[r][1].event)
  BY <1>1, <1>3 DEF Has
<1>. QED BY <1>5, <1>6 DEF DiskOK

-----------------------------------------------------------------------------
(* Type correctness *)

LEMMA RecordFacts ==
    /\ Torn \in Record
    /\ \A e \in Events : Rec(e) \in Record
    /\ \A e \in Events, w \in Alerts \cup Reasons : [event |-> e, why |-> w] \in Record
  BY DEF Torn, Rec, Record, Events

Steps == FreeSteps \cup HeldSteps
Jobs  == [run : Runs \cup {NoRun}, rec : Record, then : Steps]

LEMMA TypeInit == Init => TypeOK
  BY RecordFacts DEF Init, TypeOK, NoJob, Actors, Layouts, Effect, FreeSteps, HeldSteps

\* Moving an actor on, with or without a new job, keeps the locals well typed.
LEMMA SubmitType ==
    ASSUME TypeOK, NEW a \in Actors, NEW c \in Record, NEW step \in Steps,
           Submit(a, c, step)
    PROVE  TypeOK'
<1>1. UNCHANGED <<layout, log, snapshot, launch, retro, final, pointer, lock, crashes>>
  BY DEF Submit, disk
<1>2. pc' \in [Actors -> Steps]
  BY DEF Submit, Goto, TypeOK, Steps, HeldSteps
<1>3. job' \in [Actors -> Jobs]
  BY DEF Submit, TypeOK, Steps, Jobs
<1>. QED BY <1>1, <1>2, <1>3 DEF TypeOK, Steps, Jobs

\* The locals of one actor replaced, or their record and continuation.
LEMMA JobType ==
    ASSUME TypeOK, NEW a \in Actors
    PROVE  /\ \A j \in Jobs : [job EXCEPT ![a] = j] \in [Actors -> Jobs]
           /\ \A c \in Record, step \in Steps :
                [job EXCEPT ![a] = [@ EXCEPT !.rec = c, !.then = step]] \in [Actors -> Jobs]
           /\ \A c \in Record : [job EXCEPT ![a].rec = c] \in [Actors -> Jobs]
  BY DEF TypeOK, Jobs, Steps

LEMMA AttendType ==
    ASSUME TypeOK, NEW a \in Actors, NEW step \in Steps, Attend(a, step)
    PROVE  TypeOK'
<1>. PICK w \in Alerts :
         \/ Goto(a, step) /\ UNCHANGED <<disk, lock, job, crashes>>
         \/ Submit(a, [event |-> "run.attention_required", why |-> w], step)
  BY DEF Attend
<1>1. CASE Goto(a, step) /\ UNCHANGED <<disk, lock, job, crashes>>
  BY <1>1 DEF Goto, TypeOK, Steps, disk
<1>2. CASE Submit(a, [event |-> "run.attention_required", why |-> w], step)
  <2>1. [event |-> "run.attention_required", why |-> w] \in Record
    BY RecordFacts DEF Events, StateEvents
  <2>. QED BY <1>2, <2>1, SubmitType
<1>. QED BY <1>1, <1>2

LEMMA AcquireType ==
    ASSUME TypeOK, NEW a \in Actors, NEW r \in Runs, NEW step \in Steps,
           Acquire(a, r, step), UNCHANGED <<disk, crashes>>
    PROVE  TypeOK'
<1>1. pc' \in [Actors -> Steps] /\ lock' \in Actors \cup {Nobody}
  BY DEF Acquire, Goto, TypeOK, Steps
<1>2. job' \in [Actors -> Jobs]
  BY DEF Acquire, TypeOK, Steps, Jobs
<1>. QED BY <1>1, <1>2 DEF TypeOK, Steps, Jobs, disk

LEMMA LaunchType ==
    ASSUME TypeOK, NEW c \in Commands, NEW done \in Record, NEW step \in Steps,
           LaunchUnit(c, done, step)
    PROVE  TypeOK'
<1>. PICK started \in BOOLEAN, reported \in BOOLEAN, alert \in Alerts :
        /\ job' = [job EXCEPT ![c] = [@ EXCEPT
                     !.rec = IF reported THEN done
                             ELSE [event |-> "run.attention_required", why |-> alert],
                     !.then = "release"]]
        /\ pc' = [pc EXCEPT ![job[c].run] = IF started THEN "launched" ELSE @,
                            ![c] = IF reported THEN step ELSE "append"]
        /\ UNCHANGED <<disk, lock, crashes>>
  BY DEF LaunchUnit
<1>1. [event |-> "run.attention_required", why |-> alert] \in Record
  BY RecordFacts DEF Events, StateEvents
<1>2. "append" \in Steps /\ "launched" \in Steps /\ "release" \in Steps
  BY DEF Steps, FreeSteps, HeldSteps
<1>3. pc' \in [Actors -> Steps]
  BY <1>2 DEF TypeOK, Steps, Actors
<1>4. job' \in [Actors -> Jobs]
  BY <1>1, <1>2 DEF TypeOK, Steps, Jobs, Actors
<1>. QED BY <1>3, <1>4 DEF TypeOK, Steps, Jobs, disk

\* One step per action of the specification.
LEMMA TypeNext ==
    ASSUME TypeOK, [Next]_vars
    PROVE  TypeOK'
<1>. USE DEF Steps, FreeSteps, HeldSteps
<1>e. /\ \A e \in Events : Rec(e) \in Record
      /\ Torn \in Record
      /\ {"run.created", "progress", "run.attention_required", "run.completed",
          "run.superseded", "bead.spec_recorded", "worker.launch_prepared",
          "worker.launch_retried", "worker.launch_reconciled", "worker.launched",
          "worker.terminal"} \subseteq Events
  BY RecordFacts DEF Events, StateEvents, FactEvents
<1>c. Commands \subseteq Actors /\ Runs \subseteq Actors
  BY DEF Actors
<1>1. ASSUME NEW c \in Commands, CommandStep(c) PROVE TypeOK'
  <2>1. CASE MakeDirectory(c) BY <2>1 DEF MakeDirectory, Goto, TypeOK, Layouts
  <2>2. CASE WriteIdentity(c) BY <2>2 DEF WriteIdentity, Goto, TypeOK, Layouts
  <2>3. CASE WriteLog(c)
    <3>1. layout' \in [Runs -> Layouts] /\ pc' \in [Actors -> Steps]
      BY <2>3 DEF WriteLog, Goto, TypeOK, Layouts
    <3>2. job' \in [Actors -> Jobs]
      <4>1. Rec("run.created") \in Record
        BY <1>e
      <4>. QED BY <2>3, <1>c, <4>1, JobType DEF WriteLog
    <3>. QED BY <2>3, <3>1, <3>2 DEF WriteLog, TypeOK, Jobs
  <2>4. CASE PointAtRun(c)
    <3>1. pc' \in [Actors -> Steps] /\ pointer' \in Runs \cup {NoRun}
      BY <2>4, <1>c DEF PointAtRun, Goto, TypeOK
    <3>. QED BY <2>4, <3>1 DEF PointAtRun, TypeOK
  <2>5. CASE RecordSpec(c)
    BY <2>5, <1>c, <1>e, SubmitType, AttendType DEF RecordSpec
  <2>6. CASE RecordLaunch(c) BY <2>6, <1>c, <1>e, SubmitType DEF RecordLaunch
  <2>7. CASE Launch(c) BY <2>7, <1>e, LaunchType DEF Launch
  <2>8. CASE Restore(c)
    <3>1. ASSUME NEW r \in Runs PROVE Len(log[r]) \in Nat
      BY DEF TypeOK
    <3>2. pc' \in [Actors -> Steps] /\ snapshot' \in [Runs -> Nat]
      BY <2>8, <3>1 DEF Restore, Goto, TypeOK
    <3>. QED BY <2>8, <3>2 DEF Restore, TypeOK
  <2>9. CASE Repoint(c)
    <3>1. pc' \in [Actors -> Steps] /\ pointer' \in Runs \cup {NoRun}
      BY <2>9, <1>c DEF Repoint, Goto, TypeOK
    <3>. QED BY <2>9, <3>1 DEF Repoint, TypeOK
  <2>10. CASE Advance(c)
    <3>1. CASE \E e \in Events, s \in Steps : Submit(c, Rec(e), s)
      BY <3>1, <1>c, <1>e, SubmitType
    <3>2. CASE Attend(c, "release") BY <3>2, <1>c, AttendType
    <3>3. CASE Goto(c, "release") /\ UNCHANGED <<disk, lock, job, crashes>>
      BY <3>3 DEF Goto, TypeOK, disk
    <3>. QED BY <2>10, <1>e, <3>1, <3>2, <3>3 DEF Advance
  <2>11. CASE PrepareLaunch(c) BY <2>11 DEF PrepareLaunch, Goto, TypeOK, Effect
  <2>12. CASE PreflightAlert(c) BY <2>12, <1>c, AttendType DEF PreflightAlert
  <2>13. CASE SeeToLaunch(c)
    <3>1. CASE Submit(c, Rec("worker.launch_prepared"), "query")
      BY <3>1, <1>c, <1>e, SubmitType
    <3>2. CASE Goto(c, "query") /\ UNCHANGED <<disk, lock, job, crashes>>
      BY <3>2 DEF Goto, TypeOK, disk
    <3>3. CASE /\ launch' = [launch EXCEPT ![job[c].run] = "prepared"]
               /\ UNCHANGED <<layout, log, snapshot, retro, final, pointer, lock, pc, job, crashes>>
      BY <3>3 DEF TypeOK, Effect
    <3>. QED BY <2>13, <3>1, <3>2, <3>3 DEF SeeToLaunch
  <2>14. CASE QueryUnit(c)
    <3>1. CASE Submit(c, Rec("worker.launched"), "release")
      BY <3>1, <1>c, <1>e, SubmitType
    <3>2. CASE LaunchUnit(c, Rec("worker.launch_retried"), "append")
      BY <3>2, <1>e, LaunchType
    <3>3. CASE Attend(c, "release") BY <3>3, <1>c, AttendType
    <3>4. CASE /\ launch' = [launch EXCEPT ![job[c].run] = "confirmed"]
               /\ Goto(c, "reconcile")
               /\ UNCHANGED <<layout, log, snapshot, retro, final, pointer, lock, job, crashes>>
      BY <3>4 DEF Goto, TypeOK, Effect
    <3>. QED BY <2>14, <3>1, <3>2, <3>3, <3>4 DEF QueryUnit
  <2>15. CASE Reconcile(c)
    <3>1. CASE Goto(c, "release") /\ UNCHANGED <<disk, lock, job, crashes>>
      BY <3>1 DEF Goto, TypeOK, disk
    <3>. QED BY <2>15, <3>1, <1>c, <1>e, SubmitType DEF Reconcile
  <2>16. CASE Analyse(c) BY <2>16 DEF Analyse, Goto, TypeOK
  <2>17. CASE Finalize(c) BY <2>17 DEF Finalize, Goto, TypeOK
  <2>. QED BY <1>1, <2>1, <2>2, <2>3, <2>4, <2>5, <2>6, <2>7, <2>8, <2>9, <2>10, <2>11,
              <2>12, <2>13, <2>14, <2>15, <2>16, <2>17 DEF CommandStep
<1>2. ASSUME NEW c \in Commands, NEW r \in Runs,
             \/ StartBegin(c, r) \/ ResumeBegin(c, r) \/ PreflightFails(c, r)
             \/ NamedResumeBegin(c, r)
             \/ \E reason \in Reasons : SupersedeRetry(c, r, reason)
      PROVE  TypeOK'
  <2>1. \E s \in Steps : Acquire(c, r, s) /\ UNCHANGED <<disk, crashes>>
    BY <1>2 DEF StartBegin, ResumeBegin, PreflightFails, NamedResumeBegin, SupersedeRetry
  <2>. QED BY <2>1, <1>c, AcquireType
<1>3. ASSUME NEW c \in Commands, NEW r \in Runs, NEW reason \in Reasons,
             SupersedeBegin(c, r, reason)
      PROVE  TypeOK'
  <2>1. [event |-> "run.superseded", why |-> reason] \in Record
    BY RecordFacts, <1>e
  <2>2. job' \in [Actors -> Jobs]
    BY <1>3, <2>1 DEF SupersedeBegin, TypeOK, Jobs
  <2>. QED BY <1>3, <1>c, <2>2 DEF SupersedeBegin, Goto, TypeOK, Jobs, disk
<1>4. ASSUME NEW w \in Runs,
             \/ WorkerBegin(w) \/ WorkerGiveUp(w) \/ WorkerWork(w)
             \/ WorkerFail(w) \/ WorkerAlert(w) \/ WorkerReport(w)
      PROVE  TypeOK'
  <2>0. NoJob \in Jobs
    BY <1>e DEF NoJob, Jobs
  <2>1. CASE WorkerBegin(w)
    <3>1. job' \in [Actors -> Jobs]
      BY <2>1, <1>e DEF WorkerBegin, TypeOK, Jobs
    <3>. QED BY <2>1, <1>c, <3>1 DEF WorkerBegin, Goto, TypeOK, Jobs, Effect
  <2>2. CASE WorkerGiveUp(w) BY <2>2 DEF WorkerGiveUp, Goto, TypeOK, disk
  <2>3. CASE WorkerWork(w)
    <3>1. CASE Submit(w, Rec("progress"), "work") BY <3>1, <1>c, <1>e, SubmitType
    <3>2. CASE Attend(w, "release") BY <3>2, <1>c, AttendType
    <3>3. CASE Goto(w, "release") /\ UNCHANGED <<disk, lock, job, crashes>>
      BY <3>3 DEF Goto, TypeOK, disk
    <3>. QED BY <2>3, <3>1, <3>2, <3>3 DEF WorkerWork
  <2>4. CASE WorkerFail(w) BY <2>4, <2>0 DEF WorkerFail, Goto, TypeOK, Jobs, disk
  <2>5. CASE WorkerAlert(w)
    <3>1. CASE Acquire(w, w, "alert") /\ UNCHANGED <<disk, crashes>>
      BY <3>1, <1>c, AcquireType
    <3>2. CASE Attend(w, "release") BY <3>2, <1>c, AttendType
    <3>4. CASE Goto(w, "report") /\ UNCHANGED <<disk, lock, job, crashes>>
      BY <3>4 DEF Goto, TypeOK, disk
    <3>5. CASE Goto(w, "release") /\ UNCHANGED <<disk, lock, job, crashes>>
      BY <3>5 DEF Goto, TypeOK, disk
    <3>. HIDE DEF Steps, FreeSteps, HeldSteps
    <3>6. CASE pc[w] = "failed"
      <4>1. /\ IF lock = Nobody THEN Acquire(w, w, "alert")
               ELSE Goto(w, "report") /\ UNCHANGED <<lock, job>>
            /\ UNCHANGED <<disk, crashes>>
        BY <2>5, <3>6 DEF WorkerAlert
      <4>2. CASE lock = Nobody BY <3>1, <4>1, <4>2
      <4>3. CASE lock # Nobody BY <3>4, <4>1, <4>3
      <4>. QED BY <4>2, <4>3
    <3>7. CASE pc[w] = "alert"
      BY <2>5, <3>2, <3>5, <3>7 DEF WorkerAlert
    <3>. QED BY <2>5, <3>6, <3>7 DEF WorkerAlert
  <2>6. CASE WorkerReport(w)
    <3>1. job' \in [Actors -> Jobs]
      BY <2>6, <1>e DEF WorkerReport, TypeOK, Jobs
    <3>. QED BY <2>6, <1>c, <3>1 DEF WorkerReport, Goto, TypeOK, Jobs, disk
  <2>. QED BY <1>4, <2>1, <2>2, <2>3, <2>4, <2>5, <2>6
<1>5. ASSUME NEW a \in Actors,
             \/ AppendRecord(a) \/ Project(a) \/ ClearPointer(a)
             \/ Release(a) \/ Crash(a)
      PROVE  TypeOK'
  <2>0. NoJob \in Jobs
    BY <1>e DEF NoJob, Jobs
  <2>l. ASSUME NEW r \in Runs PROVE Complete(log[r]) \in Seq(Record)
    BY CompletePrefix DEF TypeOK
  <2>1. CASE AppendRecord(a)
    <3>1. job' \in [Actors -> Jobs]
      BY <2>1, <1>e, JobType DEF AppendRecord
    <3>2. log' \in [Runs -> Seq(Record)]
      <4>1. job[a].rec \in Record
        BY DEF TypeOK
      <4>2. ASSUME NEW r \in Runs PROVE log'[r] \in Seq(Record)
        BY <2>1, <2>l, <4>1 DEF AppendRecord, TypeOK
      <4>. QED BY <2>1, <4>2 DEF AppendRecord, TypeOK
    <3>. QED BY <2>1, <3>1, <3>2 DEF AppendRecord, Goto, TypeOK, Jobs
  <2>2. CASE Project(a)
    <3>1. ASSUME NEW r \in Runs PROVE Len(Complete(log[r])) \in Nat
      BY <2>l
    <3>2. snapshot' \in [Runs -> Nat]
      BY <2>2, <3>1 DEF Project, TypeOK
    <3>3. pc' \in [Actors -> Steps]
      BY <2>2 DEF Project, Goto, TypeOK
    <3>. QED BY <2>2, <3>2, <3>3 DEF Project, TypeOK
  <2>3. CASE ClearPointer(a) BY <2>3 DEF ClearPointer, Goto, TypeOK
  <2>4. CASE Release(a)
    BY <2>4, <2>0 DEF Release, AfterRelease, Goto, TypeOK, Jobs, disk
  <2>5. CASE Crash(a)
    <3>1. log' \in [Runs -> Seq(Record)]
      <4>1. CASE UNCHANGED log BY <4>1 DEF TypeOK
      <4>2. ASSUME NEW rest \in {<<>>, <<Torn>>},
                   log' = [log EXCEPT ![job[a].run] = Complete(@) \o rest]
            PROVE  log' \in [Runs -> Seq(Record)]
        <5>1. ASSUME NEW r \in Runs PROVE Complete(log[r]) \o rest \in Seq(Record)
          BY CutOffType DEF TypeOK
        <5>2. ASSUME NEW r \in Runs PROVE log'[r] \in Seq(Record)
          BY <4>2, <5>1 DEF TypeOK
        <5>. QED BY <4>2, <5>2 DEF TypeOK
      <4>. QED BY <2>5, <4>1, <4>2 DEF Crash
    <3>2. pc' \in [Actors -> Steps] /\ job' \in [Actors -> Jobs]
      BY <2>5, <2>0 DEF Crash, Goto, TypeOK, Jobs
    <3>3. lock' \in Actors \cup {Nobody} /\ crashes' \in Nat
      BY <2>5 DEF Crash, TypeOK
    <3>. QED BY <2>5, <3>1, <3>2, <3>3 DEF Crash, TypeOK, Jobs
  <2>. QED BY <1>5, <2>1, <2>2, <2>3, <2>4, <2>5
<1>6. CASE UNCHANGED vars
  BY <1>6 DEF vars, TypeOK
<1>. QED BY <1>1, <1>2, <1>3, <1>4, <1>5, <1>6 DEF Next

\* Every variable keeps its type in every behaviour of the store (TypeOK).
THEOREM TypeCorrect == Spec => []TypeOK
<1>1. Init => TypeOK
  BY TypeInit
<1>2. TypeOK /\ [Next]_vars => TypeOK'
  BY TypeNext
<1>. QED BY <1>1, <1>2, PTL DEF Spec

-----------------------------------------------------------------------------
(* The inductive step *)

LEMMA InitIInv == Init => IInv
<1>1. Init => DiskOK
  <2>1. Complete(<<>>) = <<>>
    BY DEF Complete
  <2>. QED BY <2>1 DEF Init, DiskOK, Parses, Has, Created
<1>2. Init => HoldersOK /\ WorkersRecorded
  BY DEF Init, HoldersOK, WorkersRecorded, HeldSteps, Actors
<1>3. Init => OneActiveRun /\ PointerNamesOwner
  BY DEF Init, OneActiveRun, PointerNamesOwner, Owns, Created, Has
<1>. QED BY <1>1, <1>2, <1>3, TypeInit DEF IInv

\* While a has or takes the flock, nobody else is at a step that needs it.
LEMMA OthersFree ==
    ASSUME HoldersOK, NEW a \in Actors, lock \in {a, Nobody},
           NEW b \in Actors, b # a
    PROVE  pc[b] \notin HeldSteps
  BY ConstantsAssumption DEF HoldersOK, Holding, Actors

\* The files the invariant speaks of: all but the layout of a Run directory.
facts == <<log, snapshot, retro, final, pointer>>

\* What an actor relies on is about those, the flock and its own locals only.
LEMMA HoldingStable ==
    ASSUME NEW b \in Actors, Holding(b), UNCHANGED facts, lock' = lock,
           pc'[b] = pc[b], job'[b] = job[b]
    PROVE  Holding(b)'
  BY DEF Holding, facts, Opening, Nears, SoleOwner, Owns, Created, Retired

\* A step that writes none of them keeps every fact about the disk.
LEMMA DiskStable ==
    ASSUME IInv, UNCHANGED facts
    PROVE  /\ DiskOK' /\ OneActiveRun' /\ PointerNamesOwner'
           /\ \A r \in Runs : Created(r)' <=> Created(r)
  BY DEF IInv, DiskOK, OneActiveRun, PointerNamesOwner, Owns, Created, Retired, facts

\* A step of the holder a, or of an a that takes the free flock: it remains to show
\* what a itself relies on afterwards and what the disk looks like.
LEMMA HolderStep ==
    ASSUME IInv, TypeOK', DiskOK', OneActiveRun', PointerNamesOwner',
           \A r \in Runs : Created(r) => Created(r)',
           NEW a \in Actors, lock \in {a, Nobody},
           \A b \in Actors : b # a => pc'[b] = pc[b],
           pc'[a] \in HeldSteps => Holding(a)',
           a \in Runs /\ pc'[a] # "idle" => Created(a)'
    PROVE  IInv'
<1>1. HoldersOK'
  BY OthersFree DEF HoldersOK, IInv
<1>2. WorkersRecorded'
  BY DEF WorkersRecorded, IInv, Actors
<1>. QED BY <1>1, <1>2 DEF IInv

\* The same when the step writes none of those files.
LEMMA QuietStep ==
    ASSUME IInv, TypeOK', UNCHANGED facts,
           NEW a \in Actors, lock \in {a, Nobody},
           \A b \in Actors : b # a => pc'[b] = pc[b],
           pc'[a] \in HeldSteps => Holding(a)',
           a \in Runs /\ pc[a] = "idle" => pc'[a] = "idle"
    PROVE  IInv'
<1>1. a \in Runs /\ pc'[a] # "idle" => Created(a)'
  BY DiskStable DEF IInv, WorkersRecorded
<1>. QED BY <1>1, DiskStable, HolderStep

\* A step off the flock: a moves between free steps and the flock stays where it is.
LEMMA FreeStep ==
    ASSUME IInv, TypeOK', UNCHANGED facts,
           NEW a \in Actors, lock' = lock, lock # a \/ pc[a] \notin HeldSteps,
           \A b \in Actors : b # a => pc'[b] = pc[b] /\ job'[b] = job[b],
           pc'[a] \notin HeldSteps,
           a \in Runs /\ pc[a] = "idle" => pc'[a] = "idle"
    PROVE  IInv'
<1>1. HoldersOK'
  BY HoldingStable DEF HoldersOK, IInv
<1>2. WorkersRecorded'
  BY DiskStable DEF WorkersRecorded, IInv, Actors
<1>. QED BY <1>1, <1>2, DiskStable DEF IInv

\* Submitting a record that does not create the Run, from any step past creation.
LEMMA SubmitStep ==
    ASSUME IInv, TypeOK', NEW a \in Actors, lock = a, pc[a] \in HeldSteps, ~Opening(a),
           NEW c \in Record, c.event \in Events, c.event # "run.created",
           NEW step \in Thens, step # "point",
           step = "analyse" => c.event = "run.completed",
           Submit(a, c, step)
    PROVE  IInv'
<1>1. Holding(a) /\ UNCHANGED facts /\ lock' = a
  BY DEF IInv, HoldersOK, Submit, disk, facts
<1>2. /\ pc'[a] = "append" /\ job'[a].run = job[a].run
      /\ job'[a].rec = c /\ job'[a].then = step
      /\ \A b \in Actors : b # a => pc'[b] = pc[b]
  BY DEF Submit, Goto, IInv, TypeOK
<1>3. Created(job[a].run)' /\ job[a].run \in Runs
  <2>1. Created(job[a].run) /\ job[a].run \in Runs /\ job'[a].run = job[a].run
    BY <1>1, <1>2 DEF Holding
  <2>2. Created(job[a].run)' <=> Created(job[a].run)
    BY <1>1, <2>1 DEF Created, facts
  <2>. QED BY <2>1, <2>2
<1>4. Holding(a)'
  BY <1>1, <1>2, <1>3 DEF Holding, Opening, Nears
<1>5. a \in Runs => pc[a] # "idle"
  BY DEF HeldSteps
<1>. QED BY <1>1, <1>2, <1>4, <1>5, QuietStep

\* The holder goes on to its next step without touching its locals or the store.
LEMMA GotoStep ==
    ASSUME IInv, TypeOK', NEW a \in Actors, lock = a, pc[a] \in HeldSteps, ~Opening(a),
           pc' = [pc EXCEPT ![a] = "release"], UNCHANGED <<facts, lock, job>>
    PROVE  IInv'
<1>1. Holding(a)
  BY DEF IInv, HoldersOK
<1>2. pc'[a] = "release" /\ \A b \in Actors : b # a => pc'[b] = pc[b]
  BY DEF IInv, TypeOK
<1>3. Created(job[a].run)' /\ job[a].run \in Runs
  BY <1>1, DiskStable DEF Holding
<1>4. Holding(a)'
  BY <1>1, <1>2, <1>3 DEF Holding, Opening, Nears
<1>5. a \in Runs => pc[a] # "idle"
  BY DEF HeldSteps
<1>. QED BY <1>2, <1>4, <1>5, QuietStep

LEMMA AttendStep ==
    ASSUME IInv, TypeOK', NEW a \in Actors, lock = a, pc[a] \in HeldSteps, ~Opening(a),
           Attend(a, "release")
    PROVE  IInv'
<1>. PICK w \in Alerts :
         \/ Goto(a, "release") /\ UNCHANGED <<disk, lock, job, crashes>>
         \/ Submit(a, [event |-> "run.attention_required", why |-> w], "release")
  BY DEF Attend
<1>1. CASE Goto(a, "release") /\ UNCHANGED <<disk, lock, job, crashes>>
  BY <1>1, GotoStep DEF Goto, disk, facts
<1>2. CASE Submit(a, [event |-> "run.attention_required", why |-> w], "release")
  <2>1. /\ [event |-> "run.attention_required", why |-> w] \in Record
        /\ "run.attention_required" \in Events /\ "release" \in Thens
    BY RecordFacts DEF Events, StateEvents, Thens
  <2>. QED BY <1>2, <2>1, SubmitStep
<1>. QED BY <1>1, <1>2

\* A launch leaves the holder with a record to append or with the release, and may
\* bring the unit of its own, recorded Run to life.
LEMMA LaunchStep ==
    ASSUME IInv, TypeOK', NEW c \in Commands, lock = c, pc[c] \in HeldSteps, ~Opening(c),
           NEW done \in Record, NEW step \in {"append", "release"},
           step = "append" => done.event \in FactEvents,
           LaunchUnit(c, done, step)
    PROVE  IInv'
<1>. DEFINE w == job[c].run
<1>. PICK started \in BOOLEAN, reported \in BOOLEAN, alert \in Alerts :
        /\ started => pc[w] = "idle"
        /\ job' = [job EXCEPT ![c] = [@ EXCEPT
                     !.rec = IF reported THEN done
                             ELSE [event |-> "run.attention_required", why |-> alert],
                     !.then = "release"]]
        /\ pc' = [pc EXCEPT ![w] = IF started THEN "launched" ELSE @,
                            ![c] = IF reported THEN step ELSE "append"]
        /\ UNCHANGED <<disk, lock, crashes>>
  BY DEF LaunchUnit
<1>1. c \in Actors /\ Holding(c) /\ UNCHANGED facts /\ lock' = c
  BY DEF IInv, HoldersOK, disk, facts, Actors
<1>2. w \in Runs /\ w \in Actors /\ w # c /\ Created(w)'
  BY <1>1, DiskStable, ConstantsAssumption DEF Holding, Actors
<1>3. /\ pc'[c] = (IF reported THEN step ELSE "append")
      /\ pc'[w] = (IF started THEN "launched" ELSE pc[w])
      /\ \A b \in Actors : b # c /\ b # w => pc'[b] = pc[b]
  BY <1>1, <1>2 DEF IInv, TypeOK
<1>4. /\ job'[c].run = w /\ job'[c].then = "release"
      /\ pc'[c] = "append" => job'[c].rec.event \in Events \ {"run.created"}
  BY <1>1, <1>3 DEF IInv, TypeOK, Events, FactEvents, StateEvents
<1>5. Holding(c)'
  BY <1>1, <1>2, <1>3, <1>4 DEF Holding, Opening, Nears, Thens
<1>6. HoldersOK'
  <2>1. "launched" \notin HeldSteps
    BY DEF HeldSteps
  <2>2. ASSUME NEW b \in Actors, b # c PROVE pc'[b] \notin HeldSteps
    BY <1>1, <1>2, <1>3, <2>1, <2>2, OthersFree DEF IInv
  <2>. QED BY <1>5, <2>2 DEF HoldersOK
<1>7. WorkersRecorded'
  <2>1. ASSUME NEW b \in Runs, pc'[b] # "idle" PROVE Created(b)'
    <3>1. CASE b = w BY <1>2, <3>1
    <3>2. CASE b # w
      <4>1. b \in Actors /\ b # c
        BY ConstantsAssumption DEF Actors
      <4>. QED BY <1>1, <1>3, <2>1, <3>2, <4>1, DiskStable DEF IInv, WorkersRecorded
    <3>. QED BY <3>1, <3>2
  <2>. QED BY <2>1 DEF WorkersRecorded
<1>. QED BY <1>1, <1>6, <1>7, DiskStable DEF IInv

\* The Run a command selects exists by its first record, and only it may own work.
LEMMA SelectedFacts ==
    ASSUME IInv, NEW r \in Runs, Selected(r), StoreReadable
    PROVE  Created(r) /\ SoleOwner(r)
<1>1. CASE Active(r)
  <2>1. Created(r)
    BY <1>1, CompleteCreated DEF IInv, Active
  <2>2. SoleOwner(r)
    BY <1>1, OwnsActive DEF SoleOwner, StoreReadable, IInv, TypeOK
  <2>. QED BY <2>1, <2>2
<1>2. CASE NoneActive /\ pointer = r
  <2>1. Created(r)
    BY <1>2, ConstantsAssumption DEF IInv, DiskOK
  <2>2. SoleOwner(r)
    BY <1>2, OwnsActive DEF SoleOwner, NoneActive, IInv, TypeOK
  <2>. QED BY <2>1, <2>2
<1>. QED BY <1>1, <1>2 DEF Selected

\* A Run whose state is completed has the record of it.
LEMMA CompletedHas ==
    ASSUME IInv, NEW r \in Runs, Completed(r)
    PROVE  Has(log[r], "run.completed") /\ Created(r)
<1>1. Has(log[r], "run.completed")
  BY InStateHas DEF Completed, IInv, TypeOK
<1>. QED BY <1>1 DEF IInv, DiskOK, Events, StateEvents

\* The commands that open with a scan of the store.
LEMMA CommandBegins ==
    ASSUME IInv, TypeOK', NEW c \in Commands, NEW r \in Runs,
           \/ StartBegin(c, r) \/ ResumeBegin(c, r) \/ PreflightFails(c, r)
             \/ NamedResumeBegin(c, r)
           \/ \E reason \in Reasons : SupersedeBegin(c, r, reason) \/ SupersedeRetry(c, r, reason)
    PROVE  IInv'
<1>1. /\ c \in Actors /\ c \notin Runs /\ lock = Nobody /\ lock' = c
      /\ UNCHANGED facts /\ job'[c].run = r
      /\ \A b \in Actors : b # c => pc'[b] = pc[b]
  <2>1. c \in Actors /\ c \notin Runs
    BY ConstantsAssumption DEF Actors
  <2>2. CASE \E step \in HeldSteps : Acquire(c, r, step) /\ UNCHANGED <<disk, crashes>>
    BY <2>1, <2>2 DEF Acquire, Goto, disk, facts, IInv, TypeOK
  <2>3. CASE \E reason \in Reasons : SupersedeBegin(c, r, reason)
    BY <2>1, <2>3 DEF SupersedeBegin, Goto, disk, facts, IInv, TypeOK
  <2>4. {"make_directory", "analyse", "restore", "alert", "clear"} \subseteq HeldSteps
    BY DEF HeldSteps
  <2>. QED BY <2>2, <2>3, <2>4 DEF StartBegin, ResumeBegin, PreflightFails, NamedResumeBegin, SupersedeRetry
<1>s. (SoleOwner(r)' <=> SoleOwner(r)) /\ (Created(r)' <=> Created(r))
  BY <1>1 DEF facts, SoleOwner, Owns, Retired, Created
<1>2. Holding(c)'
  <2>1. CASE StartBegin(c, r)
    <3>1. \A q \in Runs : ~Owns(q)
      BY <2>1, OwnsActive DEF StartBegin, NoneActive, IInv, TypeOK
    <3>2. (\A q \in Runs : ~Owns(q))' /\ pointer' = NoRun
      BY <2>1, <1>1, <3>1 DEF StartBegin, facts, Owns, Retired, Created
    <3>3. pc'[c] = "make_directory"
      BY <2>1, <1>1 DEF StartBegin, Acquire, Goto, IInv, TypeOK
    <3>. QED BY <1>1, <3>2, <3>3 DEF Holding, Opening, Nears
  <2>2. CASE ResumeBegin(c, r)
    <3>1. Created(r)' /\ SoleOwner(r)'
      BY <2>2, <1>s, SelectedFacts DEF ResumeBegin, ResumeReadable
    <3>2. pc'[c] \in {"analyse", "restore"} /\ (pc'[c] = "analyse" => Completed(r))
      BY <2>2, <1>1 DEF ResumeBegin, Acquire, Goto, IInv, TypeOK
    <3>3. pc'[c] = "analyse" => Has(log'[r], "run.completed")
      BY <1>1, <3>2, CompletedHas DEF facts
    <3>4. Complete(log'[r]) = log'[r]
      BY <2>2, <1>1 DEF ResumeBegin, ResumeReadable, facts
    <3>. QED BY <1>1, <3>1, <3>2, <3>3, <3>4 DEF Holding, Opening, Nears
  <2>3. CASE NamedResumeBegin(c, r)
    <3>1. Created(r)' /\ Has(log'[r], "run.completed")
      BY <2>3, <1>1, <1>s, CompletedHas DEF NamedResumeBegin, facts
    <3>2. pc'[c] = "analyse"
      BY <2>3, <1>1 DEF NamedResumeBegin, Acquire, Goto, IInv, TypeOK
    <3>. QED BY <1>1, <3>1, <3>2 DEF Holding, Opening, Nears
  <2>4. ASSUME NEW reason \in Reasons, SupersedeBegin(c, r, reason) PROVE Holding(c)'
    <3>1. Created(r)'
      BY <2>4, <1>s, SelectedFacts DEF SupersedeBegin, ResumeReadable
    <3>2. /\ pc'[c] = "append" /\ job'[c].then = "clear"
          /\ job'[c].rec.event = "run.superseded"
      BY <2>4, <1>1 DEF SupersedeBegin, Goto, IInv, TypeOK
    <3>. QED BY <1>1, <3>1, <3>2 DEF Holding, Opening, Nears, Events, StateEvents, Thens
  <2>5. ASSUME NEW reason \in Reasons, SupersedeRetry(c, r, reason) PROVE Holding(c)'
    <3>1. Created(r)'
      BY <2>5, <1>s, SelectedFacts DEF SupersedeRetry, ResumeReadable
    <3>2. pc'[c] = "clear"
      BY <2>5, <1>1 DEF SupersedeRetry, Acquire, Goto, IInv, TypeOK
    <3>. QED BY <1>1, <3>1, <3>2 DEF Holding, Opening, Nears
  <2>6. CASE PreflightFails(c, r)
    <3>1. Created(r)'
      BY <2>6, <1>s, SelectedFacts DEF PreflightFails, ResumeReadable
    <3>2. pc'[c] = "alert"
      BY <2>6, <1>1 DEF PreflightFails, Acquire, Goto, IInv, TypeOK
    <3>. QED BY <1>1, <3>1, <3>2 DEF Holding, Opening, Nears
  <2>. QED BY <2>1, <2>2, <2>3, <2>4, <2>5, <2>6
<1>. QED BY <1>1, <1>2, QuietStep

\* The steps of a command under the flock.
LEMMA CommandSteps ==
    ASSUME IInv, TypeOK', NEW c \in Commands, CommandStep(c)
    PROVE  IInv'
<1>. DEFINE r == job[c].run
<1>1. c \in Actors /\ c \notin Runs
  BY ConstantsAssumption DEF Actors
<1>2. pc[c] \in HeldSteps /\ lock = c /\ Holding(c) /\ r \in Runs
  <2>1. pc[c] \in HeldSteps
    BY DEF CommandStep, MakeDirectory, WriteIdentity, WriteLog, PointAtRun, RecordSpec,
       PrepareLaunch, RecordLaunch, Launch, PreflightAlert, Restore, Repoint, Advance,
       SeeToLaunch, QueryUnit, Reconcile, Analyse, Finalize, HeldSteps
  <2>. QED BY <1>1, <2>1 DEF IInv, HoldersOK, Holding
<1>e. /\ \A e \in Events : Rec(e) \in Record /\ Rec(e).event = e
      /\ Torn \in Record
      /\ {"progress", "run.completed", "bead.spec_recorded", "worker.launch_prepared",
          "worker.launched", "worker.launch_reconciled"} \subseteq Events
      /\ "worker.launch_retried" \in FactEvents /\ "worker.launch_retried" \in Events
  BY RecordFacts DEF Events, StateEvents, FactEvents, Rec
<1>3. CASE MakeDirectory(c) \/ WriteIdentity(c)
  <2>1. UNCHANGED <<facts, job, lock>> /\ pc'[c] \in {"write_identity", "write_log"}
        /\ \A b \in Actors : b # c => pc'[b] = pc[b]
    BY <1>1, <1>3 DEF MakeDirectory, WriteIdentity, Goto, facts, IInv, TypeOK
  <2>2. Opening(c)
    BY <1>3 DEF MakeDirectory, WriteIdentity, Opening
  <2>3. Holding(c)'
    BY <1>2, <2>1, <2>2 DEF Holding, Opening, Nears, facts, Owns, Retired, Created
  <2>. QED BY <1>1, <1>2, <2>1, <2>3, QuietStep
<1>4. CASE WriteLog(c)
  <2>1. /\ UNCHANGED <<facts, lock>> /\ pc'[c] = "append" /\ job'[c].run = r
        /\ job'[c].rec.event = "run.created" /\ job'[c].then = "point"
        /\ \A b \in Actors : b # c => pc'[b] = pc[b]
    BY <1>1, <1>4 DEF WriteLog, Goto, Rec, facts, IInv, TypeOK
  <2>2. Opening(c)
    BY <1>4 DEF WriteLog, Opening
  <2>3. pointer' = NoRun /\ \A q \in Runs : ~Owns(q)'
    BY <1>2, <2>1, <2>2 DEF Holding, facts, Owns, Retired, Created
  <2>4. Holding(c)'
    BY <1>2, <2>1, <2>3 DEF Holding, Opening, Nears, SoleOwner, Thens, Events, StateEvents
  <2>. QED BY <1>1, <1>2, <2>1, <2>4, QuietStep
<1>5. CASE PointAtRun(c) \/ Repoint(c)
  <2>1. /\ UNCHANGED <<log, snapshot, retro, final, lock, job>> /\ pointer' = r
        /\ pc'[c] \in {"record_spec", "analyse", "advance"}
        /\ (pc'[c] = "analyse" => Completed(r))
        /\ \A b \in Actors : b # c => pc'[b] = pc[b]
    BY <1>1, <1>5 DEF PointAtRun, Repoint, Goto, IInv, TypeOK
  <2>2. SoleOwner(r) /\ Created(r)
    BY <1>2, <1>5 DEF PointAtRun, Repoint, Holding, Opening, Nears
  <2>3. DiskOK'
    BY <2>1, <2>2 DEF IInv, DiskOK, Created
  <2>4. OneActiveRun' /\ PointerNamesOwner'
    BY <2>1, <2>2 DEF IInv, OneActiveRun, PointerNamesOwner, SoleOwner, Owns, Retired, Created
  <2>5. Holding(c)'
    <3>1. pc'[c] = "analyse" => Has(log'[r], "run.completed")
      BY <1>2, <2>1, CompletedHas
    <3>. QED BY <1>2, <2>1, <2>2, <3>1 DEF Holding, Opening, Nears, Created
  <2>. QED BY <1>1, <1>2, <2>1, <2>3, <2>4, <2>5, HolderStep DEF Created
<1>6. CASE RecordSpec(c)
  <2>1. ~Opening(c)
    BY <1>6 DEF RecordSpec, Opening
  <2>2. CASE Submit(c, Rec("bead.spec_recorded"), "prepare_launch")
    BY <1>1, <1>2, <1>e, <2>1, <2>2, SubmitStep DEF Thens
  <2>3. CASE Attend(c, "release")
    BY <1>1, <1>2, <2>1, <2>3, AttendStep
  <2>. QED BY <1>6, <2>2, <2>3 DEF RecordSpec
<1>7. CASE RecordLaunch(c)
  <2>1. ~Opening(c) /\ Submit(c, Rec("worker.launch_prepared"), "launch")
    BY <1>7 DEF RecordLaunch, Opening
  <2>. QED BY <1>1, <1>2, <1>e, <2>1, SubmitStep DEF Thens
<1>8. CASE Launch(c)
  <2>1. ~Opening(c) /\ LaunchUnit(c, Torn, "release")
    BY <1>8 DEF Launch, Opening
  <2>. QED BY <1>2, <1>e, <2>1, LaunchStep
<1>9. CASE Restore(c)
  <2>1. /\ UNCHANGED <<log, retro, final, pointer, lock, job>>
        /\ pc'[c] \in {"repoint", "analyse", "advance"}
        /\ (pc'[c] = "analyse" => Completed(r))
        /\ \A b \in Actors : b # c => pc'[b] = pc[b]
        /\ snapshot' = [snapshot EXCEPT ![r] = Len(log[r])]
    BY <1>1, <1>9 DEF Restore, Goto, IInv, TypeOK
  <2>2. SoleOwner(r) /\ Created(r) /\ Complete(log[r]) = log[r]
    BY <1>2, <1>9 DEF Restore, Holding, Opening, Nears
  <2>3. DiskOK'
    <3>1. ASSUME NEW q \in Runs PROVE snapshot'[q] <= Len(Complete(log'[q]))
      <4>1. Len(log[r]) \in Nat /\ Len(log[r]) <= Len(Complete(log[r]))
        BY <1>2, <2>2 DEF IInv, TypeOK
      <4>. QED BY <1>2, <2>1, <4>1 DEF IInv, DiskOK, TypeOK
    <3>. QED BY <2>1, <3>1 DEF IInv, DiskOK, Created
  <2>4. OneActiveRun' /\ PointerNamesOwner'
    BY <2>1 DEF IInv, OneActiveRun, PointerNamesOwner, Owns, Retired, Created
  <2>5. Holding(c)'
    <3>1. pc'[c] = "analyse" => Has(log'[r], "run.completed")
      BY <1>2, <2>1, CompletedHas
    <3>. QED BY <1>2, <2>1, <2>2, <3>1
         DEF Holding, Opening, Nears, SoleOwner, Owns, Retired, Created
  <2>. QED BY <1>1, <1>2, <2>1, <2>3, <2>4, <2>5, HolderStep DEF Created
<1>10. CASE Advance(c)
  <2>1. ~Opening(c)
    BY <1>10 DEF Advance, Opening
  <2>2. CASE \/ Submit(c, Rec("bead.spec_recorded"), "release")
             \/ Submit(c, Rec("progress"), "advance")
             \/ Submit(c, Rec("run.completed"), "analyse")
    <3>1. {"release", "advance", "analyse"} \subseteq Thens
      BY DEF Thens
    <3>2. ASSUME NEW e \in Events, NEW step \in Thens, Submit(c, Rec(e), step),
                 e # "run.created", step # "point", step = "analyse" => e = "run.completed"
          PROVE  IInv'
      BY <1>1, <1>2, <1>e, <2>1, <3>2, SubmitStep
    <3>. QED BY <1>e, <2>2, <3>1, <3>2
  <2>3. CASE Attend(c, "release")
    BY <1>1, <1>2, <2>1, <2>3, AttendStep
  <2>4. CASE Goto(c, "release") /\ UNCHANGED <<disk, lock, job, crashes>>
    BY <1>1, <1>2, <2>1, <2>4, GotoStep DEF Goto, disk, facts
  <2>. QED BY <1>10, <2>2, <2>3, <2>4 DEF Advance
<1>11. CASE PreflightAlert(c)
  <2>1. ~Opening(c) /\ Attend(c, "release")
    BY <1>11 DEF PreflightAlert, Opening
  <2>. QED BY <1>1, <1>2, <2>1, AttendStep
<1>14. CASE PrepareLaunch(c)
  <2>1. /\ UNCHANGED <<facts, lock, job>> /\ pc'[c] = "record_launch" /\ ~Opening(c)
        /\ \A b \in Actors : b # c => pc'[b] = pc[b]
    BY <1>14 DEF PrepareLaunch, Opening, Goto, facts, IInv, TypeOK
  <2>2. Holding(c)'
    BY <1>2, <2>1 DEF Holding, Opening, Nears, facts, Created
  <2>. QED BY <1>1, <1>2, <2>1, <2>2, QuietStep
<1>15. CASE SeeToLaunch(c)
  <2>1. ~Opening(c) /\ pc[c] = "advance"
    BY <1>15 DEF SeeToLaunch, Opening
  <2>2. CASE Submit(c, Rec("worker.launch_prepared"), "query")
    BY <1>1, <1>2, <1>e, <2>1, <2>2, SubmitStep DEF Thens
  <2>3. CASE UNCHANGED <<facts, lock, job>> /\ pc' \in {pc, [pc EXCEPT ![c] = "query"]}
    <3>1. /\ pc'[c] \in {"advance", "query"}
          /\ \A b \in Actors : b # c => pc'[b] = pc[b]
      BY <2>1, <2>3 DEF IInv, TypeOK
    <3>2. Holding(c)'
      BY <1>2, <2>1, <2>3, <3>1 DEF Holding, Opening, Nears, facts, Created
    <3>. QED BY <1>1, <1>2, <2>3, <3>1, <3>2, QuietStep
  <2>. QED BY <1>15, <2>2, <2>3 DEF SeeToLaunch, Goto, disk, facts
<1>16. CASE QueryUnit(c)
  <2>1. ~Opening(c) /\ pc[c] = "query"
    BY <1>16 DEF QueryUnit, Opening
  <2>2. CASE Submit(c, Rec("worker.launched"), "release")
    BY <1>1, <1>2, <1>e, <2>1, <2>2, SubmitStep DEF Thens
  <2>3. CASE LaunchUnit(c, Rec("worker.launch_retried"), "append")
    BY <1>2, <1>e, <2>1, <2>3, LaunchStep
  <2>4. CASE Attend(c, "release")
    BY <1>1, <1>2, <2>1, <2>4, AttendStep
  <2>5. CASE UNCHANGED <<facts, lock, job>> /\ Goto(c, "reconcile")
    <3>1. /\ pc'[c] = "reconcile"
          /\ \A b \in Actors : b # c => pc'[b] = pc[b]
      BY <2>5 DEF Goto, IInv, TypeOK
    <3>2. Holding(c)'
      BY <1>2, <2>1, <2>5, <3>1 DEF Holding, Opening, Nears, facts, Created
    <3>. QED BY <1>1, <1>2, <2>5, <3>1, <3>2, QuietStep
  <2>. QED BY <1>16, <2>2, <2>3, <2>4, <2>5 DEF QueryUnit, facts
<1>17. CASE Reconcile(c)
  <2>1. ~Opening(c)
    BY <1>17 DEF Reconcile, Opening
  <2>2. CASE Submit(c, Rec("worker.launch_reconciled"), "release")
    BY <1>1, <1>2, <1>e, <2>1, <2>2, SubmitStep DEF Thens
  <2>3. CASE Goto(c, "release") /\ UNCHANGED <<disk, lock, job, crashes>>
    BY <1>1, <1>2, <2>1, <2>3, GotoStep DEF Goto, disk, facts
  <2>. QED BY <1>17, <2>2, <2>3 DEF Reconcile
<1>12. CASE Analyse(c)
  <2>1. /\ UNCHANGED <<log, snapshot, final, pointer, lock, job>>
        /\ retro' = [retro EXCEPT ![r] = TRUE] /\ pc'[c] = "finalize"
        /\ \A b \in Actors : b # c => pc'[b] = pc[b]
    BY <1>1, <1>12 DEF Analyse, Goto, IInv, TypeOK
  <2>2. DiskOK'
    BY <1>2, <2>1 DEF IInv, TypeOK, DiskOK, Created
  <2>3. OneActiveRun' /\ PointerNamesOwner'
    BY <2>1 DEF IInv, OneActiveRun, PointerNamesOwner, Owns, Retired, Created
  <2>4. Holding(c)'
    BY <1>2, <1>12, <2>1 DEF Analyse, Holding, Opening, Nears, Created
  <2>. QED BY <1>1, <1>2, <2>1, <2>2, <2>3, <2>4, HolderStep DEF Created
<1>13. CASE Finalize(c)
  <2>1. /\ UNCHANGED <<log, snapshot, retro, pointer, lock, job>> /\ retro[r]
        /\ final' = [final EXCEPT ![r] = TRUE] /\ pc'[c] = "clear"
        /\ \A b \in Actors : b # c => pc'[b] = pc[b]
    BY <1>1, <1>13 DEF Finalize, Goto, IInv, TypeOK
  <2>2. Has(log[r], "run.completed") /\ Created(r)
    BY <1>2, <1>13 DEF Finalize, Holding, Opening, Nears
  <2>3. DiskOK'
    BY <1>2, <2>1, <2>2 DEF IInv, TypeOK, DiskOK, Created
  <2>4. OneActiveRun' /\ PointerNamesOwner'
    <3>1. ASSUME NEW q \in Runs PROVE Owns(q)' => Owns(q)
      BY <2>1, <1>2 DEF Owns, Retired, Created, IInv, TypeOK
    <3>. QED BY <2>1, <3>1 DEF IInv, OneActiveRun, PointerNamesOwner
  <2>5. Holding(c)'
    BY <1>2, <2>1, <2>2 DEF Holding, Opening, Nears, Created
  <2>. QED BY <1>1, <1>2, <2>1, <2>3, <2>4, <2>5, HolderStep DEF Created
<1>. QED BY <1>3, <1>4, <1>5, <1>6, <1>7, <1>8, <1>9, <1>10, <1>11, <1>12, <1>13,
          <1>14, <1>15, <1>16, <1>17 DEF CommandStep

\* The steps of a worker unit.
LEMMA WorkerSteps ==
    ASSUME IInv, TypeOK', NEW w \in Runs,
           \/ WorkerBegin(w) \/ WorkerGiveUp(w) \/ WorkerWork(w)
           \/ WorkerFail(w) \/ WorkerAlert(w) \/ WorkerReport(w)
    PROVE  IInv'
<1>1. w \in Actors
  BY DEF Actors
<1>2. pc[w] # "idle" /\ Created(w)
  <2>1. pc[w] # "idle"
    BY DEF WorkerBegin, WorkerGiveUp, WorkerWork, WorkerFail, WorkerAlert, WorkerReport
  <2>. QED BY <2>1 DEF IInv, WorkersRecorded
<1>e. /\ Rec("progress") \in Record /\ Rec("progress").event = "progress"
      /\ {"progress", "worker.launched", "worker.terminal"} \subseteq Events
      /\ {"work", "release"} \subseteq Thens
  BY RecordFacts DEF Events, StateEvents, FactEvents, Rec, Thens
<1>3. CASE WorkerBegin(w) \/ WorkerReport(w)
  <2>1. /\ UNCHANGED facts /\ lock = Nobody /\ lock' = w
        /\ pc'[w] = "append" /\ job'[w].run = w
        /\ job'[w].rec.event \in {"worker.launched", "worker.terminal"}
        /\ job'[w].then \in {"work", "release"}
        /\ \A b \in Actors : b # w => pc'[b] = pc[b]
    BY <1>1, <1>3 DEF WorkerBegin, WorkerReport, Goto, Rec, disk, facts, IInv, TypeOK
  <2>2. Created(w)'
    BY <1>2, <2>1 DEF facts, Created
  <2>3. Holding(w)'
    BY <1>e, <2>1, <2>2 DEF Holding, Opening, Nears, Thens
  <2>. QED BY <1>1, <1>2, <2>1, <2>3, QuietStep
<1>4. CASE WorkerGiveUp(w)
  <2>1. /\ UNCHANGED <<facts, lock, job>> /\ pc[w] = "launched" /\ pc'[w] = "report"
        /\ \A b \in Actors : b # w => pc'[b] = pc[b]
    BY <1>1, <1>4 DEF WorkerGiveUp, Goto, disk, facts, IInv, TypeOK
  <2>2. pc[w] \notin HeldSteps /\ pc'[w] \notin HeldSteps
    BY <2>1 DEF HeldSteps
  <2>. QED BY <1>1, <1>2, <2>1, <2>2, FreeStep
<1>5. CASE WorkerWork(w)
  <2>1. pc[w] \in HeldSteps /\ lock = w /\ ~Opening(w)
    BY <1>1, <1>5 DEF WorkerWork, HeldSteps, IInv, HoldersOK, Holding, Opening
  <2>2. CASE Submit(w, Rec("progress"), "work")
    BY <1>1, <1>e, <2>1, <2>2, SubmitStep
  <2>3. CASE Attend(w, "release")
    BY <1>1, <2>1, <2>3, AttendStep
  <2>4. CASE Goto(w, "release") /\ UNCHANGED <<disk, lock, job, crashes>>
    BY <1>1, <2>1, <2>4, GotoStep DEF Goto, disk, facts
  <2>. QED BY <1>5, <2>2, <2>3, <2>4 DEF WorkerWork
<1>6. CASE WorkerFail(w)
  <2>1. pc[w] \in HeldSteps /\ lock = w
    BY <1>1, <1>6 DEF WorkerFail, HeldSteps, IInv, HoldersOK, Holding
  <2>2. /\ UNCHANGED facts /\ pc'[w] = "failed"
        /\ \A b \in Actors : b # w => pc'[b] = pc[b]
    BY <1>1, <1>6 DEF WorkerFail, Goto, disk, facts, IInv, TypeOK
  <2>3. pc'[w] \notin HeldSteps
    BY <2>2 DEF HeldSteps
  <2>. QED BY <1>1, <1>2, <2>1, <2>2, <2>3, QuietStep
<1>7. CASE WorkerAlert(w)
  <2>1. CASE pc[w] = "failed" /\ Acquire(w, w, "alert") /\ UNCHANGED <<disk, crashes>>
    <3>1. /\ UNCHANGED facts /\ lock = Nobody /\ lock' = w
          /\ pc'[w] = "alert" /\ job'[w].run = w
          /\ \A b \in Actors : b # w => pc'[b] = pc[b]
      BY <1>1, <2>1 DEF Acquire, Goto, disk, facts, IInv, TypeOK
    <3>2. Created(w)'
      BY <1>2, <3>1 DEF facts, Created
    <3>3. Holding(w)'
      BY <3>1, <3>2 DEF Holding, Opening, Nears
    <3>. QED BY <1>1, <1>2, <3>1, <3>3, QuietStep
  <2>2. CASE pc[w] = "failed" /\ Goto(w, "report") /\ UNCHANGED <<disk, lock, job, crashes>>
    <3>1. /\ UNCHANGED <<facts, lock, job>> /\ pc'[w] = "report"
          /\ \A b \in Actors : b # w => pc'[b] = pc[b]
      BY <1>1, <2>2 DEF Goto, disk, facts, IInv, TypeOK
    <3>2. pc[w] \notin HeldSteps /\ pc'[w] \notin HeldSteps
      BY <2>2, <3>1 DEF HeldSteps
    <3>. QED BY <1>1, <1>2, <3>1, <3>2, FreeStep
  <2>3. CASE pc[w] = "alert"
    <3>1. pc[w] \in HeldSteps /\ lock = w /\ ~Opening(w)
      BY <1>1, <2>3 DEF HeldSteps, IInv, HoldersOK, Holding, Opening
    <3>2. CASE Attend(w, "release")
      BY <1>1, <3>1, <3>2, AttendStep
    <3>3. CASE Goto(w, "release") /\ UNCHANGED <<disk, lock, job, crashes>>
      BY <1>1, <3>1, <3>3, GotoStep DEF Goto, disk, facts
    <3>. QED BY <1>7, <2>3, <3>2, <3>3 DEF WorkerAlert
  <2>. QED BY <1>7, <2>1, <2>2, <2>3 DEF WorkerAlert
<1>. QED BY <1>3, <1>4, <1>5, <1>6, <1>7

\* Appending a record: only run.created makes a Run an owner, and only when none is.
LEMMA AppendStep ==
    ASSUME IInv, TypeOK', NEW a \in Actors, AppendRecord(a)
    PROVE  IInv'
<1>. DEFINE r == job[a].run
            c == job[a].rec
<1>1. pc[a] \in HeldSteps /\ lock = a /\ Holding(a) /\ pc[a] = "append"
  BY DEF AppendRecord, HeldSteps, IInv, HoldersOK, Holding
<1>2. r \in Runs /\ c \in Record /\ c.event \in Events /\ c.event # "torn"
  BY <1>1 DEF Holding, IInv, TypeOK, Events, StateEvents, FactEvents
<1>3. /\ log' = [log EXCEPT ![r] = Append(Complete(log[r]), c)]
      /\ UNCHANGED <<snapshot, retro, final, pointer, lock>>
      /\ pc'[a] = "project" /\ job'[a].run = r /\ job'[a].then = job[a].then
      /\ \A b \in Actors : b # a => pc'[b] = pc[b]
  BY DEF AppendRecord, Goto, IInv, TypeOK
<1>4. \A q \in Runs : log[q] \in Seq(Record) /\ Parses(log[q])
  BY DEF IInv, TypeOK, DiskOK
<1>5. LET m == log'[r] IN
      /\ Parses(m) /\ Complete(m) = m /\ Len(m) = Len(Complete(log[r])) + 1
      /\ \A e : e # "torn" => (Has(m, e) <=> Has(log[r], e) \/ c.event = e)
  <2>1. log'[r] = Append(Complete(log[r]), c)
    BY <1>2, <1>3 DEF IInv, TypeOK
  <2>. QED BY <1>2, <1>4, <2>1, AppendBehind
<1>6. \A q \in Runs : q # r => log'[q] = log[q]
  BY <1>2, <1>3 DEF IInv, TypeOK
<1>7. \A q \in Runs : Created(q)' <=> Created(q) \/ (q = r /\ c.event = "run.created")
  BY <1>2, <1>5, <1>6 DEF Created
<1>8. Created(r)'
  <2>1. c.event # "run.created" => Created(r)
    BY <1>1 DEF Holding, Opening
  <2>2. Created(r)' <=> Created(r) \/ c.event = "run.created"
    BY <1>2, <1>3, <1>7
  <2>. QED BY <2>1, <2>2
<1>9. DiskOK'
  <2>1. \A q \in Runs : Parses(log'[q])
    BY <1>4, <1>5, <1>6
  <2>2. \A q \in Runs, e \in Events : Has(log'[q], e) => Created(q)'
    <3>1. ASSUME NEW q \in Runs, NEW e \in Events, Has(log'[q], e) PROVE Created(q)'
      <4>1. CASE q = r BY <1>3, <1>8, <4>1
      <4>2. CASE q # r
        <5>1. Has(log[q], e)
          BY <1>6, <3>1, <4>2
        <5>2. Created(q)
          BY <5>1 DEF IInv, DiskOK
        <5>. QED BY <1>6, <4>2, <5>2 DEF Created
      <4>. QED BY <4>1, <4>2
    <3>. QED BY <3>1
  <2>3. \A q \in Runs : final'[q] => retro'[q] /\ Has(log'[q], "run.completed")
    BY <1>3, <1>5, <1>6 DEF IInv, DiskOK
  <2>4. \A q \in Runs : snapshot'[q] <= Len(Complete(log'[q]))
    <3>1. ASSUME NEW q \in Runs PROVE snapshot'[q] <= Len(Complete(log'[q]))
      <4>1. CASE q # r
        <5>1. snapshot[q] <= Len(Complete(log[q]))
          BY DEF IInv, DiskOK
        <5>2. snapshot'[q] = snapshot[q] /\ log'[q] = log[q]
          BY <1>3, <1>6, <4>1
        <5>. QED BY <5>1, <5>2
      <4>2. CASE q = r
        <5>1. Len(Complete(log[r])) \in Nat /\ snapshot[r] \in Nat
          BY <1>2, <1>4, CompletePrefix DEF IInv, TypeOK
        <5>2. snapshot[r] <= Len(Complete(log[r]))
          BY <1>2 DEF IInv, DiskOK
        <5>3. Len(Complete(log'[q])) = Len(Complete(log[r])) + 1
          BY <1>5, <4>2
        <5>4. snapshot'[q] = snapshot[r]
          BY <1>3, <4>2
        <5>. QED BY <5>1, <5>2, <5>3, <5>4
      <4>. QED BY <4>1, <4>2
    <3>. QED BY <3>1
  <2>5. pointer' # NoRun => Created(pointer)'
    <3>1. pointer # NoRun => pointer \in Runs /\ Created(pointer)
      BY DEF IInv, DiskOK, TypeOK
    <3>. QED BY <1>3, <1>7, <3>1 DEF Created
  <2>. QED BY <2>1, <2>2, <2>3, <2>4, <2>5 DEF DiskOK
<1>10. \A q \in Runs : Owns(q)' => Owns(q) \/ (q = r /\ c.event = "run.created")
  BY <1>3, <1>5, <1>6, <1>7 DEF Owns, Retired
<1>11. c.event = "run.created" => pointer = NoRun /\ \A q \in Runs : ~Owns(q)
  BY <1>1 DEF Holding, Opening
<1>12. OneActiveRun' /\ PointerNamesOwner'
  BY <1>3, <1>10, <1>11 DEF IInv, OneActiveRun, PointerNamesOwner
<1>13. Holding(a)'
  <2>1. job[a].then = "point" => SoleOwner(r)'
    <3>1. job[a].then = "point" => c.event = "run.created"
      BY <1>1 DEF Holding
    <3>2. c.event = "run.created" => \A q \in Runs : Owns(q)' => q = r
      BY <1>10, <1>11
    <3>. QED BY <1>3, <3>1, <3>2 DEF SoleOwner
  <2>2. job[a].then = "analyse" => Has(log'[r], "run.completed")
    BY <1>1, <1>5 DEF Holding
  <2>3. job[a].then \in Thens
    BY <1>1 DEF Holding
  <2>. QED BY <1>1, <1>2, <1>3, <1>8, <2>1, <2>2, <2>3 DEF Holding, Opening, Nears
<1>. QED BY <1>1, <1>3, <1>7, <1>8, <1>9, <1>12, <1>13, <1>2, HolderStep
         DEF IInv, WorkersRecorded

\* Rewriting state.json, removing the pointer, releasing the flock.
LEMMA ClosingSteps ==
    ASSUME IInv, TypeOK', NEW a \in Actors, Project(a) \/ ClearPointer(a) \/ Release(a)
    PROVE  IInv'
<1>. DEFINE r == job[a].run
<1>1. pc[a] \in HeldSteps /\ lock = a /\ Holding(a) /\ ~Opening(a) /\ pc[a] # "idle"
  <2>1. pc[a] \in {"project", "clear", "release"}
    BY DEF Project, ClearPointer, Release
  <2>. QED BY <2>1 DEF HeldSteps, IInv, HoldersOK, Holding, Opening
<1>2. r \in Runs /\ Created(r)
  BY <1>1 DEF Holding
<1>3. CASE Project(a)
  <2>1. /\ UNCHANGED <<log, retro, final, pointer, lock, job>>
        /\ pc'[a] = "clear" \/ pc'[a] = job[a].then
        /\ \A b \in Actors : b # a => pc'[b] = pc[b]
        /\ snapshot' = [snapshot EXCEPT ![r] = Len(Complete(log[r]))]
    BY <1>3 DEF Project, Goto, IInv, TypeOK
  <2>2. DiskOK'
    <3>1. ASSUME NEW q \in Runs PROVE snapshot'[q] <= Len(Complete(log'[q]))
      <4>1. Len(Complete(log[q])) \in Nat
        BY CompletePrefix DEF IInv, TypeOK
      <4>2. snapshot[q] <= Len(Complete(log[q])) /\ log'[q] = log[q]
        BY <2>1 DEF IInv, DiskOK
      <4>3. snapshot'[q] = IF q = r THEN Len(Complete(log[q])) ELSE snapshot[q]
        BY <2>1 DEF IInv, TypeOK
      <4>. QED BY <4>1, <4>2, <4>3
    <3>. QED BY <2>1, <3>1 DEF IInv, DiskOK, Created
  <2>3. OneActiveRun' /\ PointerNamesOwner'
    BY <2>1 DEF IInv, OneActiveRun, PointerNamesOwner, Owns, Retired, Created
  <2>4. pc[a] = "project" /\ job[a].then \in Thens
    BY <1>1, <1>3 DEF Project, Holding
  <2>5. /\ job[a].then = "point" => SoleOwner(r)
        /\ job[a].then = "analyse" => Has(log[r], "run.completed")
    BY <1>1, <2>4 DEF Holding, Nears
  <2>6. SoleOwner(r)' <=> SoleOwner(r)
    BY <2>1 DEF SoleOwner, Owns, Retired, Created
  <2>7. Created(r)'
    BY <1>2, <2>1 DEF Created
  <2>8. Holding(a)'
    BY <1>1, <1>2, <2>1, <2>4, <2>5, <2>6, <2>7 DEF Holding, Opening, Nears, Thens
  <2>. QED BY <1>1, <1>2, <2>1, <2>2, <2>3, <2>8, HolderStep DEF Created, IInv, WorkersRecorded
<1>4. CASE ClearPointer(a)
  <2>1. /\ UNCHANGED <<log, snapshot, retro, final, lock, job>>
        /\ pointer' = NoRun \/ pointer' = pointer
        /\ pc'[a] = "release" /\ \A b \in Actors : b # a => pc'[b] = pc[b]
    BY <1>4 DEF ClearPointer, Goto, IInv, TypeOK
  <2>2. DiskOK'
    BY <2>1 DEF IInv, DiskOK, Created
  <2>3. OneActiveRun' /\ PointerNamesOwner'
    BY <2>1 DEF IInv, OneActiveRun, PointerNamesOwner, Owns, Retired, Created
  <2>4. Holding(a)'
    BY <1>1, <1>2, <2>1 DEF Holding, Opening, Nears, Created
  <2>. QED BY <1>1, <1>2, <2>1, <2>2, <2>3, <2>4, HolderStep DEF Created, IInv, WorkersRecorded
<1>5. CASE Release(a)
  <2>1. /\ UNCHANGED facts /\ pc'[a] \in {"report", "idle"}
        /\ \A b \in Actors : b # a => pc'[b] = pc[b]
    BY <1>5 DEF Release, AfterRelease, Goto, disk, facts, IInv, TypeOK
  <2>2. pc'[a] \notin HeldSteps
    BY <2>1 DEF HeldSteps
  <2>. QED BY <1>1, <2>1, <2>2, QuietStep
<1>. QED BY <1>3, <1>4, <1>5

\* A crash of a, holder or not, loses nothing but a record in the course of being written.
LEMMA CrashStep ==
    ASSUME IInv, TypeOK', NEW a \in Actors, Crash(a)
    PROVE  IInv'
<1>. DEFINE r == job[a].run
<1>1. /\ pc'[a] = "idle" /\ \A b \in Actors : b # a => pc'[b] = pc[b] /\ job'[b] = job[b]
      /\ UNCHANGED <<snapshot, retro, final, pointer>>
      /\ lock # a => lock' = lock
  BY DEF Crash, Goto, IInv, TypeOK
<1>2. pc'[a] \notin HeldSteps
  BY <1>1 DEF HeldSteps
<1>3. CASE UNCHANGED log /\ lock = a
  BY <1>1, <1>2, <1>3, QuietStep DEF facts
<1>4. CASE UNCHANGED log /\ lock # a
  BY <1>1, <1>2, <1>4, FreeStep DEF facts
<1>5. ASSUME pc[a] = "append", NEW rest \in {<<>>, <<Torn>>},
             log' = [log EXCEPT ![r] = Complete(log[r]) \o rest]
      PROVE  IInv'
  <2>1. pc[a] \in HeldSteps /\ lock = a /\ r \in Runs
    BY <1>5 DEF HeldSteps, IInv, HoldersOK, Holding
  <2>2. \A q \in Runs : log[q] \in Seq(Record) /\ Parses(log[q])
    BY DEF IInv, TypeOK, DiskOK
  <2>3. \A q \in Runs : /\ Parses(log'[q]) /\ Complete(log'[q]) = Complete(log[q])
                         /\ \A e : e # "torn" => (Has(log'[q], e) <=> Has(log[q], e))
    <3>1. ASSUME NEW q \in Runs
          PROVE  /\ Parses(log'[q]) /\ Complete(log'[q]) = Complete(log[q])
                 /\ \A e : e # "torn" => (Has(log'[q], e) <=> Has(log[q], e))
      <4>1. CASE q = r
        <5>1. log'[q] = Complete(log[q]) \o rest
          BY <1>5, <2>1, <4>1 DEF IInv, TypeOK
        <5>2. LET m == Complete(log[q]) \o rest IN
              /\ Parses(m) /\ Complete(m) = Complete(log[q])
              /\ \A e : e # "torn" => (Has(m, e) <=> Has(log[q], e))
          BY <2>2, CutOff
        <5>. QED BY <5>1, <5>2
      <4>2. CASE q # r
        <5>1. log'[q] = log[q]
          BY <1>5, <4>2 DEF IInv, TypeOK
        <5>. QED BY <2>2, <5>1
      <4>. QED BY <4>1, <4>2
    <3>. QED BY <3>1
  <2>4. \A q \in Runs : (Created(q)' <=> Created(q)) /\ (Owns(q)' <=> Owns(q))
    BY <1>1, <2>3 DEF Created, Owns, Retired
  <2>5. DiskOK'
    <3>1. \A q \in Runs, e \in Events : Has(log'[q], e) => Created(q)'
      BY <2>3, <2>4 DEF IInv, DiskOK, Events, StateEvents, FactEvents
    <3>2. \A q \in Runs : final'[q] => retro'[q] /\ Has(log'[q], "run.completed")
      BY <1>1, <2>3 DEF IInv, DiskOK
    <3>3. \A q \in Runs : snapshot'[q] <= Len(Complete(log'[q]))
      BY <1>1, <2>3 DEF IInv, DiskOK
    <3>4. pointer' # NoRun => Created(pointer)'
      <4>1. pointer # NoRun => pointer \in Runs /\ Created(pointer)
        BY DEF IInv, DiskOK, TypeOK
      <4>. QED BY <1>1, <2>4, <4>1 DEF Created
    <3>. QED BY <2>3, <3>1, <3>2, <3>3, <3>4 DEF DiskOK
  <2>6. OneActiveRun' /\ PointerNamesOwner'
    BY <1>1, <2>4 DEF IInv, OneActiveRun, PointerNamesOwner
  <2>. QED BY <1>1, <1>2, <2>1, <2>4, <2>5, <2>6, HolderStep
<1>. QED BY <1>3, <1>4, <1>5 DEF Crash

\* Every step of the store keeps the inductive invariant.
LEMMA InductiveStep ==
    ASSUME IInv, [Next]_vars
    PROVE  IInv'
<1>1. TypeOK'
  BY TypeNext DEF IInv
<1>2. CASE UNCHANGED vars
  <2>1. UNCHANGED <<facts, lock, pc, job>>
    BY <1>2 DEF vars, facts
  <2>2. HoldersOK' /\ WorkersRecorded'
    BY <2>1, HoldingStable, DiskStable DEF HoldersOK, WorkersRecorded, IInv
  <2>. QED BY <1>1, <2>1, <2>2, DiskStable DEF IInv
<1>3. ASSUME NEW c \in Commands, CommandStep(c) PROVE IInv'
  BY <1>1, <1>3, CommandSteps
<1>4. ASSUME NEW c \in Commands, NEW r \in Runs,
             \/ StartBegin(c, r) \/ ResumeBegin(c, r) \/ PreflightFails(c, r)
             \/ NamedResumeBegin(c, r)
             \/ \E reason \in Reasons : SupersedeBegin(c, r, reason) \/ SupersedeRetry(c, r, reason)
      PROVE  IInv'
  BY <1>1, <1>4, CommandBegins
<1>5. ASSUME NEW w \in Runs,
             \/ WorkerBegin(w) \/ WorkerGiveUp(w) \/ WorkerWork(w)
             \/ WorkerFail(w) \/ WorkerAlert(w) \/ WorkerReport(w)
      PROVE  IInv'
  BY <1>1, <1>5, WorkerSteps
<1>6. ASSUME NEW a \in Actors,
             \/ AppendRecord(a) \/ Project(a) \/ ClearPointer(a)
             \/ Release(a) \/ Crash(a)
      PROVE  IInv'
  BY <1>1, <1>6, AppendStep, ClosingSteps, CrashStep
<1>. QED BY <1>2, <1>3, <1>4, <1>5, <1>6 DEF Next

LEMMA Inductive == Spec => []IInv
  BY InitIInv, InductiveStep, PTL DEF Spec

-----------------------------------------------------------------------------
(* Safety *)

\* Whatever interleaves or crashes, no two Runs own work (OneActiveRun).
THEOREM AtMostOneActiveRun == Spec => []OneActiveRun
<1>1. IInv => OneActiveRun
  BY DEF IInv
<1>. QED BY <1>1, Inductive, PTL

\* active.json never names another Run than the owner (PointerNamesOwner).
THEOREM PointerIsOwners == Spec => []PointerNamesOwner
<1>1. IInv => PointerNamesOwner
  BY DEF IInv
<1>. QED BY <1>1, Inductive, PTL

\* Every Event History parses, whatever was cut off while it was written (HistoryParses).
THEOREM HistoriesParse == Spec => []HistoryParses
<1>1. IInv => HistoryParses
  BY DEF IInv, DiskOK, Parses, HistoryParses
<1>. QED BY <1>1, Inductive, PTL

\* state.json never tells of a record the history lacks (SnapshotNotAhead).
THEOREM SnapshotsNotAhead == Spec => []SnapshotNotAhead
<1>1. IInv => SnapshotNotAhead
  BY DEF IInv, DiskOK, SnapshotNotAhead
<1>. QED BY <1>1, Inductive, PTL

\* Completion gives ownership up only behind a sealed retrospective
\* (ReleasedAfterRetrospective).
THEOREM FinalAfterRetrospective == Spec => []ReleasedAfterRetrospective
<1>1. IInv => ReleasedAfterRetrospective
  BY DEF IInv, DiskOK, ReleasedAfterRetrospective
<1>. QED BY <1>1, Inductive, PTL

\* Pointer, Event History, cached state and finalization agree (DurableFilesAgree).
THEOREM DurableFilesAlwaysAgree == Spec => []DurableFilesAgree
BY PointerIsOwners, HistoriesParse, SnapshotsNotAhead, FinalAfterRetrospective, PTL
   DEF DurableFilesAgree

\* Only the holder of the flock is at a step that writes (LockProtectsWrites).
THEOREM WritersHoldLock == Spec => []LockProtectsWrites
<1>1. IInv => LockProtectsWrites
  BY DEF IInv, HoldersOK, Holding, LockProtectsWrites
<1>. QED BY <1>1, Inductive, PTL

-----------------------------------------------------------------------------
(* What a step does to histories and finalization files *)

\* Only appending, finalizing and crashing touch what ownership is made of.
LEMMA Writers ==
    ASSUME [Next]_vars
    PROVE  \/ UNCHANGED <<log, final>>
           \/ \E a \in Actors : AppendRecord(a) \/ Crash(a)
           \/ \E c \in Commands : Finalize(c)
<1>1. ASSUME NEW c \in Commands, CommandStep(c) PROVE UNCHANGED <<log, final>> \/ Finalize(c)
  BY <1>1 DEF CommandStep, MakeDirectory, WriteIdentity, WriteLog, PointAtRun, RecordSpec,
     PrepareLaunch, RecordLaunch, Launch, PreflightAlert, Restore, Repoint, Advance,
     SeeToLaunch, QueryUnit, Reconcile, Analyse, Submit, Attend, LaunchUnit, disk
<1>2. ASSUME NEW c \in Commands, NEW r \in Runs,
             \/ StartBegin(c, r) \/ ResumeBegin(c, r) \/ PreflightFails(c, r)
             \/ NamedResumeBegin(c, r)
             \/ \E reason \in Reasons : SupersedeBegin(c, r, reason) \/ SupersedeRetry(c, r, reason)
      PROVE  UNCHANGED <<log, final>>
  BY <1>2 DEF StartBegin, ResumeBegin, PreflightFails, NamedResumeBegin, SupersedeBegin, SupersedeRetry, disk
<1>3. ASSUME NEW w \in Runs,
             \/ WorkerBegin(w) \/ WorkerGiveUp(w) \/ WorkerWork(w)
             \/ WorkerFail(w) \/ WorkerAlert(w) \/ WorkerReport(w)
      PROVE  UNCHANGED <<log, final>>
  BY <1>3 DEF WorkerBegin, WorkerGiveUp, WorkerWork, WorkerFail, WorkerAlert, WorkerReport,
     Submit, Attend, disk
<1>4. ASSUME NEW a \in Actors, Project(a) \/ ClearPointer(a) \/ Release(a)
      PROVE  UNCHANGED <<log, final>>
  BY <1>4 DEF Project, ClearPointer, Release, disk
<1>. QED BY <1>1, <1>2, <1>3, <1>4 DEF Next, vars

\* An append keeps every other history and puts one record behind the valid bytes of
\* its own.
LEMMA AppendEffect ==
    ASSUME IInv, NEW a \in Actors, AppendRecord(a)
    PROVE  LET r == job[a].run
               c == job[a].rec IN
           /\ Holding(a) /\ pc[a] = "append" /\ r \in Runs /\ c.event \in Events
           /\ UNCHANGED final
           /\ \A q \in Runs : q # r => log'[q] = log[q]
           /\ Extends(Complete(log[r]), Complete(log'[r]))
           /\ \A e \in Events : Has(log'[r], e) <=> Has(log[r], e) \/ c.event = e
<1>. DEFINE r == job[a].run
            c == job[a].rec
<1>1. Holding(a) /\ pc[a] = "append"
  BY DEF AppendRecord, HeldSteps, IInv, HoldersOK, Holding
<1>2. r \in Runs /\ c \in Record /\ c.event \in Events /\ c.event # "torn"
  BY <1>1 DEF Holding, IInv, TypeOK, Events, StateEvents, FactEvents
<1>3. log[r] \in Seq(Record) /\ Parses(log[r])
  BY <1>2 DEF IInv, TypeOK, DiskOK
<1>4. log'[r] = Append(Complete(log[r]), c) /\ \A q \in Runs : q # r => log'[q] = log[q]
  BY <1>2 DEF AppendRecord, IInv, TypeOK
<1>5. LET m == Append(Complete(log[r]), c) IN
      /\ Extends(Complete(log[r]), Complete(m))
      /\ \A e : e # "torn" => (Has(m, e) <=> Has(log[r], e) \/ c.event = e)
  BY <1>2, <1>3, AppendBehind
<1>6. "torn" \notin Events
  BY DEF Events, StateEvents, FactEvents
<1>7. UNCHANGED final
  BY DEF AppendRecord
<1>. QED BY <1>1, <1>2, <1>4, <1>5, <1>6, <1>7

\* A crash loses no complete record and adds none.
LEMMA CrashEffect ==
    ASSUME IInv, NEW a \in Actors, Crash(a), NEW q \in Runs
    PROVE  /\ UNCHANGED final
           /\ Complete(log'[q]) = Complete(log[q])
           /\ \A e \in Events : Has(log'[q], e) <=> Has(log[q], e)
<1>1. log[q] \in Seq(Record) /\ Parses(log[q])
  BY DEF IInv, TypeOK, DiskOK
<1>2. "torn" \notin Events
  BY DEF Events, StateEvents, FactEvents
<1>3. UNCHANGED final
  BY DEF Crash
<1>4. log'[q] = log[q] \/ \E rest \in {<<>>, <<Torn>>} : log'[q] = Complete(log[q]) \o rest
  BY DEF Crash, IInv, TypeOK
<1>5. ASSUME NEW rest \in {<<>>, <<Torn>>}, log'[q] = Complete(log[q]) \o rest
      PROVE  /\ Complete(log'[q]) = Complete(log[q])
             /\ \A e \in Events : Has(log'[q], e) <=> Has(log[q], e)
  <2>1. LET m == Complete(log[q]) \o rest IN
        /\ Complete(m) = Complete(log[q])
        /\ \A e : e # "torn" => (Has(m, e) <=> Has(log[q], e))
    BY <1>1, CutOff
  <2>. QED BY <1>2, <1>5, <2>1
<1>. QED BY <1>3, <1>4, <1>5

LEMMA ExtendsItself ==
    ASSUME NEW l \in Seq(Record)
    PROVE  Extends(Complete(l), Complete(l))
  BY CompletePrefix DEF Extends

\* No step, crash or recovery takes back a durable record (HistoryAppendOnly).
THEOREM HistoryGrows == Spec => HistoryAppendOnly
<1>1. ASSUME IInv, [Next]_vars, NEW r \in Runs
      PROVE  Extends(Complete(log[r]), Complete(log'[r]))
  <2>1. log[r] \in Seq(Record)
    BY <1>1 DEF IInv, TypeOK
  <2>2. CASE UNCHANGED <<log, final>>
    BY <2>1, <2>2, ExtendsItself
  <2>3. ASSUME NEW a \in Actors, AppendRecord(a)
        PROVE  Extends(Complete(log[r]), Complete(log'[r]))
    <3>1. CASE r = job[a].run BY <1>1, <2>3, <3>1, AppendEffect
    <3>2. CASE r # job[a].run
      <4>1. log'[r] = log[r] BY <1>1, <2>3, <3>2, AppendEffect
      <4>. QED BY <2>1, <4>1, ExtendsItself
    <3>. QED BY <3>1, <3>2
  <2>4. ASSUME NEW a \in Actors, Crash(a)
        PROVE  Extends(Complete(log[r]), Complete(log'[r]))
    <3>1. Complete(log'[r]) = Complete(log[r])
      BY <1>1, <2>4, CrashEffect
    <3>. QED BY <2>1, <3>1, ExtendsItself
  <2>5. ASSUME NEW c \in Commands, Finalize(c) PROVE UNCHANGED log
    BY <2>5 DEF Finalize
  <2>. QED BY <1>1, <2>1, <2>2, <2>3, <2>4, <2>5, Writers, ExtendsItself
<1>2. IInv /\ [Next]_vars => [\A r \in Runs : Extends(Complete(log[r]), Complete(log'[r]))]_vars
  BY <1>1
<1>. QED BY <1>2, Inductive, PTL DEF Spec, HistoryAppendOnly

-----------------------------------------------------------------------------
(* A confirmed launch is not repeated *)

\* Between preparing the Effect and launching the unit of a start.
AtLaunch(a) ==
    \/ pc[a] \in {"record_launch", "launch"}
    \/ pc[a] \in {"append", "project"} /\ job[a].then = "launch"

\* The start holds the flock all that time, so nobody can have confirmed the Effect.
LaunchOK == \A a \in Actors : AtLaunch(a) => launch[job[a].run] = "prepared"

\* An actor that is between those steps before and after a step keeps what it relies on
\* when the step changes neither its Run nor the Effect.
LEMMA LaunchKept ==
    ASSUME LaunchOK, NEW b \in Actors, AtLaunch(b), launch' = launch,
           job'[b].run = job[b].run
    PROVE  launch'[job'[b].run] = "prepared"
  BY DEF LaunchOK

LEMMA LaunchInductive ==
    ASSUME IInv, LaunchOK, [Next]_vars
    PROVE  LaunchOK'
<1>h. ASSUME NEW b \in Actors, AtLaunch(b) PROVE lock = b /\ job[b].run \in Runs
  BY <1>h DEF AtLaunch, HeldSteps, IInv, HoldersOK, Holding
<1>1. CASE UNCHANGED vars
  BY <1>1 DEF vars, LaunchOK, AtLaunch
<1>2. ASSUME NEW c \in Commands, CommandStep(c) PROVE LaunchOK'
  <2>1. c \in Actors /\ pc[c] \in HeldSteps /\ lock = c /\ job[c].run \in Runs
    <3>1. c \in Actors /\ pc[c] \in HeldSteps
      BY <1>2 DEF CommandStep, MakeDirectory, WriteIdentity, WriteLog, PointAtRun,
         RecordSpec, PrepareLaunch, RecordLaunch, Launch, PreflightAlert, Restore, Repoint,
         Advance, SeeToLaunch, QueryUnit, Reconcile, Analyse, Finalize, HeldSteps, Actors
    <3>. QED BY <3>1 DEF IInv, HoldersOK, Holding
  <2>2. ASSUME NEW b \in Actors, AtLaunch(b)' PROVE b = c
    <3>1. IInv'
      BY InductiveStep
    <3>2. lock' = b
      BY <2>2, <3>1 DEF AtLaunch, HeldSteps, IInv, HoldersOK, Holding
    <3>3. lock' = lock
      BY <1>2 DEF CommandStep, MakeDirectory, WriteIdentity, WriteLog, PointAtRun,
         RecordSpec, PrepareLaunch, RecordLaunch, Launch, PreflightAlert, Restore, Repoint,
         Advance, SeeToLaunch, QueryUnit, Reconcile, Analyse, Finalize, Submit, Attend,
         LaunchUnit
    <3>. QED BY <2>1, <3>2, <3>3
  <2>3. CASE PrepareLaunch(c)
    BY <2>1, <2>2, <2>3 DEF PrepareLaunch, LaunchOK, IInv, TypeOK
  <2>4. CASE RecordLaunch(c)
    <3>1. AtLaunch(c) /\ launch' = launch /\ job'[c].run = job[c].run
      BY <2>1, <2>4 DEF RecordLaunch, AtLaunch, Submit, disk, IInv, TypeOK
    <3>. QED BY <2>1, <2>2, <3>1, LaunchKept DEF LaunchOK
  <2>5. CASE ~PrepareLaunch(c) /\ ~RecordLaunch(c)
    <3>1. ASSUME NEW r, NEW s \in {"prepare_launch", "release", "query", "advance", "analyse"},
                 Submit(c, r, s)
          PROVE  ~AtLaunch(c)'
      BY <2>1, <3>1 DEF Submit, Goto, AtLaunch, IInv, TypeOK
    <3>2. ASSUME NEW r, NEW s \in {"append", "release"}, LaunchUnit(c, r, s)
          PROVE  ~AtLaunch(c)'
      BY <2>1, <3>2 DEF LaunchUnit, AtLaunch, IInv, TypeOK
    <3>3. ASSUME NEW s \in {"write_identity", "write_log", "record_spec", "release", "repoint",
                            "analyse", "advance", "query", "reconcile", "finalize", "clear"},
                 Goto(c, s)
          PROVE  ~AtLaunch(c)'
      BY <2>1, <3>3 DEF Goto, AtLaunch, IInv, TypeOK
    <3>4. ASSUME Attend(c, "release") PROVE ~AtLaunch(c)'
      BY <3>1, <3>3, <3>4 DEF Attend
    <3>. SUFFICES ~AtLaunch(c)'
      BY <2>2 DEF LaunchOK
    <3>5. CASE WriteLog(c)
      BY <2>1, <3>5 DEF WriteLog, Goto, AtLaunch, IInv, TypeOK
    <3>6. CASE \/ MakeDirectory(c) \/ WriteIdentity(c) \/ PointAtRun(c) \/ Restore(c)
               \/ Repoint(c) \/ Analyse(c) \/ Finalize(c)
      BY <3>3, <3>6 DEF MakeDirectory, WriteIdentity, PointAtRun, Restore, Repoint, Analyse,
         Finalize
    <3>7. CASE RecordSpec(c) \/ Launch(c) \/ PreflightAlert(c) \/ Advance(c) \/ Reconcile(c)
      BY <3>1, <3>2, <3>3, <3>4, <3>7 DEF RecordSpec, Launch, PreflightAlert, Advance,
         Reconcile
    <3>8. CASE SeeToLaunch(c)
      <4>1. CASE UNCHANGED pc /\ pc[c] = "advance" BY <4>1 DEF AtLaunch
      <4>. QED BY <3>1, <3>3, <3>8, <4>1 DEF SeeToLaunch
    <3>9. CASE QueryUnit(c)
      BY <3>1, <3>2, <3>3, <3>4, <3>9 DEF QueryUnit
    <3>. QED BY <1>2, <2>5, <3>5, <3>6, <3>7, <3>8, <3>9 DEF CommandStep
  <2>. QED BY <2>3, <2>4, <2>5
\* The other steps neither lead an actor to these steps nor, while one is there, touch
\* the Effect.
<1>3. ASSUME NEW a \in Actors,
             \A b \in Actors : b # a => pc'[b] = pc[b] /\ job'[b] = job[b],
             AtLaunch(a)' => AtLaunch(a) /\ job'[a].run = job[a].run,
             launch' = launch \/ lock = Nobody
      PROVE  LaunchOK'
  <2>1. ASSUME NEW b \in Actors, AtLaunch(b)' PROVE launch'[job'[b].run] = "prepared"
    <3>1. AtLaunch(b) /\ job'[b].run = job[b].run
      BY <1>3, <2>1 DEF AtLaunch
    <3>2. lock = b /\ b # Nobody
      BY <1>h, <3>1, ConstantsAssumption DEF Actors
    <3>. QED BY <1>3, <3>1, <3>2, LaunchKept
  <2>. QED BY <2>1 DEF LaunchOK
<1>4. ASSUME NEW c \in Commands, NEW r \in Runs,
             \/ StartBegin(c, r) \/ ResumeBegin(c, r) \/ PreflightFails(c, r)
             \/ NamedResumeBegin(c, r)
             \/ \E reason \in Reasons : SupersedeBegin(c, r, reason) \/ SupersedeRetry(c, r, reason)
      PROVE  LaunchOK'
  <2>0. c \in Actors
    BY DEF Actors
  <2>1. ASSUME NEW s \in {"make_directory", "analyse", "restore", "alert", "clear"},
               Acquire(c, r, s), UNCHANGED <<disk, crashes>>
        PROVE  LaunchOK'
    <3>1. ~AtLaunch(c)'
      BY <2>0, <2>1 DEF Acquire, Goto, AtLaunch, IInv, TypeOK
    <3>2. \A b \in Actors : b # c => pc'[b] = pc[b] /\ job'[b] = job[b]
      BY <2>0, <2>1 DEF Acquire, Goto, IInv, TypeOK
    <3>. QED BY <1>3, <2>0, <2>1, <3>1, <3>2 DEF disk
  <2>2. ASSUME NEW reason \in Reasons, SupersedeBegin(c, r, reason) PROVE LaunchOK'
    <3>1. ~AtLaunch(c)'
      BY <2>0, <2>2 DEF SupersedeBegin, Goto, AtLaunch, IInv, TypeOK
    <3>2. \A b \in Actors : b # c => pc'[b] = pc[b] /\ job'[b] = job[b]
      BY <2>0, <2>2 DEF SupersedeBegin, Goto, IInv, TypeOK
    <3>. QED BY <1>3, <2>0, <2>2, <3>1, <3>2 DEF SupersedeBegin, disk
  <2>. QED BY <1>4, <2>1, <2>2 DEF StartBegin, ResumeBegin, PreflightFails, NamedResumeBegin,
              SupersedeRetry
<1>5. ASSUME NEW w \in Runs,
             \/ WorkerBegin(w) \/ WorkerGiveUp(w) \/ WorkerWork(w)
             \/ WorkerFail(w) \/ WorkerAlert(w) \/ WorkerReport(w)
      PROVE  LaunchOK'
  <2>0. w \in Actors
    BY DEF Actors
  <2>1. ASSUME NEW r, NEW s \in {"work", "release"}, Submit(w, r, s) PROVE LaunchOK'
    <3>1. ~AtLaunch(w)' /\ launch' = launch
      BY <2>0, <2>1 DEF Submit, Goto, AtLaunch, disk, IInv, TypeOK
    <3>2. \A b \in Actors : b # w => pc'[b] = pc[b] /\ job'[b] = job[b]
      BY <2>0, <2>1 DEF Submit, Goto, IInv, TypeOK
    <3>. QED BY <1>3, <2>0, <3>1, <3>2
  <2>2. ASSUME NEW s \in {"report", "release"}, Goto(w, s), UNCHANGED <<disk, job>>
        PROVE  LaunchOK'
    <3>1. ~AtLaunch(w)' /\ launch' = launch
      BY <2>0, <2>2 DEF Goto, AtLaunch, disk, IInv, TypeOK
    <3>2. \A b \in Actors : b # w => pc'[b] = pc[b] /\ job'[b] = job[b]
      BY <2>0, <2>2 DEF Goto, IInv, TypeOK
    <3>. QED BY <1>3, <2>0, <3>1, <3>2
  <2>3. ASSUME Attend(w, "release") PROVE LaunchOK'
    BY <2>1, <2>2, <2>3 DEF Attend
  <2>4. CASE WorkerBegin(w) \/ WorkerFail(w) \/ WorkerReport(w)
    <3>1. ~AtLaunch(w)' /\ (launch' = launch \/ lock = Nobody)
      BY <2>0, <2>4 DEF WorkerBegin, WorkerFail, WorkerReport, Goto, AtLaunch, disk, IInv, TypeOK
    <3>2. \A b \in Actors : b # w => pc'[b] = pc[b] /\ job'[b] = job[b]
      BY <2>0, <2>4 DEF WorkerBegin, WorkerFail, WorkerReport, Goto, IInv, TypeOK
    <3>. QED BY <1>3, <2>0, <3>1, <3>2
  <2>5. CASE WorkerGiveUp(w) \/ WorkerWork(w)
    BY <2>1, <2>2, <2>3, <2>5 DEF WorkerGiveUp, WorkerWork
  <2>6. CASE WorkerAlert(w)
    <3>1. CASE Acquire(w, w, "alert") /\ UNCHANGED <<disk, crashes>>
      <4>1. ~AtLaunch(w)' /\ launch' = launch
        BY <2>0, <3>1 DEF Acquire, Goto, AtLaunch, disk, IInv, TypeOK
      <4>2. \A b \in Actors : b # w => pc'[b] = pc[b] /\ job'[b] = job[b]
        BY <2>0, <3>1 DEF Acquire, Goto, IInv, TypeOK
      <4>. QED BY <1>3, <2>0, <4>1, <4>2
    <3>. QED BY <2>2, <2>3, <2>6, <3>1 DEF WorkerAlert
  <2>. QED BY <1>5, <2>4, <2>5, <2>6
<1>6. ASSUME NEW a \in Actors,
             \/ AppendRecord(a) \/ Project(a) \/ ClearPointer(a)
             \/ Release(a) \/ Crash(a)
      PROVE  LaunchOK'
  <2>1. launch' = launch
    BY <1>6 DEF AppendRecord, Project, ClearPointer, Release, Crash, disk
  <2>2. \A b \in Actors : b # a => pc'[b] = pc[b] /\ job'[b] = job[b]
    BY <1>6 DEF AppendRecord, Project, ClearPointer, Release, Crash, Goto, IInv, TypeOK
  <2>3. CASE AppendRecord(a)
    <3>1. AtLaunch(a)' => AtLaunch(a) /\ job'[a].run = job[a].run
      BY <2>3 DEF AppendRecord, Goto, AtLaunch, IInv, TypeOK
    <3>. QED BY <1>3, <2>1, <2>2, <3>1
  <2>4. CASE Project(a)
    <3>1. job[a].then \in Thens /\ job' = job /\ pc[a] = "project"
      BY <2>4 DEF Project, HeldSteps, IInv, HoldersOK, Holding
    <3>2. pc'[a] = "clear" \/ pc'[a] = job[a].then
      BY <2>4 DEF Project, Goto, IInv, TypeOK
    <3>3. AtLaunch(a)' => AtLaunch(a)
      BY <3>1, <3>2 DEF AtLaunch, Thens
    <3>. QED BY <1>3, <2>1, <2>2, <3>1, <3>3
  <2>5. CASE ClearPointer(a) \/ Release(a) \/ Crash(a)
    <3>1. ~AtLaunch(a)'
      BY <2>5 DEF ClearPointer, Release, AfterRelease, Crash, Goto, AtLaunch, IInv, TypeOK
    <3>. QED BY <1>3, <2>1, <2>2, <3>1
  <2>. QED BY <1>6, <2>3, <2>4, <2>5
<1>. QED BY <1>1, <1>2, <1>4, <1>5, <1>6 DEF Next

\* No step brings the unit of a Run to life whose launch is confirmed
\* (ConfirmedLaunchNotRepeated).
THEOREM LaunchedOnce == Spec => ConfirmedLaunchNotRepeated
<1>1. Init => LaunchOK
  BY DEF Init, LaunchOK, AtLaunch
<1>2. ASSUME IInv, LaunchOK, [Next]_vars, NEW r \in Runs, launch[r] = "confirmed", pc[r] = "idle"
      PROVE  pc'[r] = "idle"
  <2>0. r \in Actors /\ r \notin Commands
    BY ConstantsAssumption DEF Actors
  <2>1. ASSUME NEW c \in Commands, CommandStep(c) PROVE pc'[r] = "idle"
    <3>0. c \in Actors /\ c # r
      BY <2>0 DEF Actors
    <3>1. ASSUME NEW x, NEW s, LaunchUnit(c, x, s), job[c].run # r PROVE pc'[r] = "idle"
      BY <1>2, <2>0, <3>0, <3>1 DEF LaunchUnit, IInv, TypeOK
    <3>2. CASE Launch(c)
      <4>1. launch[job[c].run] = "prepared"
        BY <1>2, <3>0, <3>2 DEF Launch, LaunchOK, AtLaunch
      <4>. QED BY <1>2, <3>1, <3>2, <4>1 DEF Launch
    <3>3. CASE QueryUnit(c)
      <4>1. CASE LaunchUnit(c, Rec("worker.launch_retried"), "append") /\ launch[job[c].run] # "confirmed"
        BY <1>2, <3>1, <4>1
      <4>2. CASE \E s \in Steps : pc' = [pc EXCEPT ![c] = s]
        BY <1>2, <2>0, <3>0, <4>2 DEF IInv, TypeOK
      <4>3. {"reconcile", "append", "release"} \subseteq Steps
        BY DEF Steps, HeldSteps
      <4>. QED BY <3>3, <4>1, <4>2, <4>3 DEF QueryUnit, Submit, Attend, Goto
    <3>4. CASE ~Launch(c) /\ ~QueryUnit(c)
      <4>1. pc' = pc \/ \E s : pc' = [pc EXCEPT ![c] = s]
        BY <2>1, <3>4 DEF CommandStep, MakeDirectory, WriteIdentity, WriteLog, PointAtRun,
           RecordSpec, PrepareLaunch, RecordLaunch, PreflightAlert, Restore, Repoint,
           Advance, SeeToLaunch, Reconcile, Analyse, Finalize, Submit, Attend, Goto
      <4>. QED BY <1>2, <2>0, <3>0, <4>1 DEF IInv, TypeOK
    <3>. QED BY <3>2, <3>3, <3>4
  <2>2. ASSUME NEW c \in Commands, NEW q \in Runs,
               \/ StartBegin(c, q) \/ ResumeBegin(c, q) \/ PreflightFails(c, q)
               \/ NamedResumeBegin(c, q)
               \/ \E reason \in Reasons : SupersedeBegin(c, q, reason) \/ SupersedeRetry(c, q, reason)
        PROVE  pc'[r] = "idle"
    <3>1. \E s : pc' = [pc EXCEPT ![c] = s]
      BY <2>2 DEF StartBegin, ResumeBegin, PreflightFails, NamedResumeBegin, SupersedeBegin,
         SupersedeRetry, Acquire, Goto
    <3>. QED BY <1>2, <2>0, <3>1 DEF IInv, TypeOK
  <2>3. ASSUME NEW w \in Runs,
               \/ WorkerBegin(w) \/ WorkerGiveUp(w) \/ WorkerWork(w)
               \/ WorkerFail(w) \/ WorkerAlert(w) \/ WorkerReport(w)
        PROVE  pc'[r] = "idle"
    <3>1. pc[w] # "idle" /\ \E s : pc' = [pc EXCEPT ![w] = s]
      BY <2>3 DEF WorkerBegin, WorkerGiveUp, WorkerWork, WorkerFail, WorkerAlert,
         WorkerReport, Submit, Attend, Acquire, Goto
    <3>. QED BY <1>2, <2>0, <3>1 DEF IInv, TypeOK
  <2>4. ASSUME NEW a \in Actors,
               \/ AppendRecord(a) \/ Project(a) \/ ClearPointer(a)
               \/ Release(a) \/ Crash(a)
        PROVE  pc'[r] = "idle"
    <3>1. pc[a] # "idle" /\ \E s : pc' = [pc EXCEPT ![a] = s]
      BY <2>4 DEF AppendRecord, Project, ClearPointer, Release, Crash, Goto
    <3>. QED BY <1>2, <2>0, <3>1 DEF IInv, TypeOK
  <2>5. CASE UNCHANGED vars
    BY <1>2, <2>5 DEF vars
  <2>. QED BY <1>2, <2>1, <2>2, <2>3, <2>4, <2>5 DEF Next
<1>3. IInv /\ LaunchOK /\ [Next]_vars
        => [\A r \in Runs : launch[r] = "confirmed" /\ pc[r] = "idle" => pc'[r] = "idle"]_vars
  BY <1>2
<1>4. IInv /\ LaunchOK /\ [Next]_vars => LaunchOK'
  BY LaunchInductive
<1>. QED BY <1>1, <1>3, <1>4, Inductive, PTL DEF Spec, ConfirmedLaunchNotRepeated

-----------------------------------------------------------------------------
(* The store implements the ownership protocol *)

\* What the refinement mapping shows of a state.
OwnerValue ==
    /\ \A r \in Runs : Owns(r) => CurrentOwner = r
    /\ (\A r \in Runs : ~Owns(r)) => CurrentOwner = NoRun

LEMMA OwnerValueHolds ==
    /\ OneActiveRun => OwnerValue
    /\ OneActiveRun' => OwnerValue'
<1>1. OneActiveRun => OwnerValue
  BY DEF OneActiveRun, OwnerValue, CurrentOwner
<1>2. OneActiveRun' => OwnerValue'
  BY DEF OneActiveRun, OwnerValue, CurrentOwner
<1>. QED BY <1>1, <1>2

\* Same facts about every Run: the step stutters in the protocol.
LEMMA SameOwnership ==
    ASSUME OwnerValue, OwnerValue',
           \A q \in Runs : (Created(q)' <=> Created(q)) /\ (Retired(q)' <=> Retired(q))
    PROVE  UNCHANGED <<CurrentOwner, RetiredRuns>>
<1>1. RetiredRuns' = RetiredRuns
  BY DEF RetiredRuns
<1>2. \A q \in Runs : Owns(q)' <=> Owns(q)
  BY DEF Owns
<1>3. CurrentOwner' = CurrentOwner
  BY <1>2 DEF OwnerValue
<1>. QED BY <1>1, <1>3

\* A recorded Run r may have been retired by the step.
LEMMA RetireOrStutter ==
    ASSUME OwnerValue, OwnerValue', OneActiveRun, NEW r \in Runs, Created(r),
           \A q \in Runs : Created(q)' <=> Created(q),
           \A q \in Runs : q # r => (Retired(q)' <=> Retired(q)),
           \A q \in Runs : Retired(q) => Retired(q)'
    PROVE  Ownership!Next \/ UNCHANGED <<CurrentOwner, RetiredRuns>>
<1>1. CASE \A q \in Runs : Retired(q)' <=> Retired(q)
  BY <1>1, SameOwnership
<1>2. CASE \E q \in Runs : ~(Retired(q)' <=> Retired(q))
  <2>1. PICK q \in Runs : ~(Retired(q)' <=> Retired(q))
    BY <1>2
  <2>2. q = r /\ ~Retired(q) /\ Retired(q)'
    BY <2>1
  <2>3. Owns(q) /\ CurrentOwner = q /\ q # NoRun
    BY <2>2, ConstantsAssumption DEF Owns, OwnerValue
  <2>4. \A p \in Runs : ~Owns(p)'
    <3>1. ASSUME NEW p \in Runs, Owns(p)' PROVE FALSE
      <4>1. p # q BY <2>2, <3>1 DEF Owns
      <4>2. Owns(p) BY <2>2, <3>1, <4>1 DEF Owns
      <4>. QED BY <2>3, <4>1, <4>2 DEF OneActiveRun
    <3>. QED BY <3>1
  <2>5. CurrentOwner' = NoRun
    BY <2>4 DEF OwnerValue
  <2>6. RetiredRuns' = RetiredRuns \cup {q}
    BY <2>2 DEF RetiredRuns
  <2>. QED BY <2>3, <2>5, <2>6 DEF Ownership!Next, Ownership!Retire
<1>. QED BY <1>1, <1>2

LEMMA RefinementStep ==
    ASSUME IInv, IInv', [Next]_vars
    PROVE  Ownership!Next \/ UNCHANGED <<CurrentOwner, RetiredRuns>>
<1>1. OwnerValue /\ OwnerValue' /\ OneActiveRun
  BY OwnerValueHolds DEF IInv
<1>e. {"run.created", "run.superseded", "run.completed"} \subseteq Events
  BY DEF Events, StateEvents
<1>2. CASE UNCHANGED <<log, final>>
  <2>1. \A q \in Runs : (Created(q)' <=> Created(q)) /\ (Retired(q)' <=> Retired(q))
    BY <1>2 DEF Created, Retired
  <2>. QED BY <1>1, <2>1, SameOwnership
<1>3. ASSUME NEW a \in Actors, Crash(a) PROVE UNCHANGED <<CurrentOwner, RetiredRuns>>
  <2>1. \A q \in Runs : (Created(q)' <=> Created(q)) /\ (Retired(q)' <=> Retired(q))
    <3>1. ASSUME NEW q \in Runs
          PROVE  (Created(q)' <=> Created(q)) /\ (Retired(q)' <=> Retired(q))
      <4>1. UNCHANGED final /\ \A e \in Events : Has(log'[q], e) <=> Has(log[q], e)
        BY <1>3, CrashEffect
      <4>. QED BY <1>e, <4>1 DEF Created, Retired
    <3>. QED BY <3>1
  <2>. QED BY <1>1, <2>1, SameOwnership
<1>4. ASSUME NEW c \in Commands, Finalize(c)
      PROVE  Ownership!Next \/ UNCHANGED <<CurrentOwner, RetiredRuns>>
  <2>1. job[c].run \in Runs /\ Created(job[c].run)
    BY <1>4 DEF Finalize, HeldSteps, Actors, IInv, HoldersOK, Holding, Opening
  <2>. PICK r \in Runs : r = job[c].run
    BY <2>1
  <2>2. UNCHANGED log /\ final' = [final EXCEPT ![r] = TRUE]
    BY <1>4 DEF Finalize
  <2>3. \A q \in Runs : Created(q)' <=> Created(q)
    BY <2>2 DEF Created
  <2>4. \A q \in Runs : q # r => (Retired(q)' <=> Retired(q))
    BY <2>2 DEF Created, Retired, IInv, TypeOK
  <2>5. \A q \in Runs : Retired(q) => Retired(q)'
    BY <2>2 DEF Created, Retired, IInv, TypeOK
  <2>. QED BY <1>1, <2>1, <2>3, <2>4, <2>5, RetireOrStutter
<1>5. ASSUME NEW a \in Actors, AppendRecord(a)
      PROVE  Ownership!Next \/ UNCHANGED <<CurrentOwner, RetiredRuns>>
  <2>. PICK r \in Runs, c \in Record : r = job[a].run /\ c = job[a].rec
    BY <1>5, AppendEffect DEF IInv, TypeOK
  <2>1. /\ Holding(a) /\ pc[a] = "append" /\ c.event \in Events
        /\ UNCHANGED final
        /\ \A q \in Runs : q # r => log'[q] = log[q]
        /\ \A e \in Events : Has(log'[r], e) <=> Has(log[r], e) \/ c.event = e
    BY <1>5, AppendEffect
  <2>2. CASE c.event # "run.created"
    <3>1. Created(r)
      BY <2>1, <2>2 DEF Holding, Opening
    <3>2. \A q \in Runs : Created(q)' <=> Created(q)
      BY <1>e, <2>1, <2>2 DEF Created
    <3>3. \A q \in Runs : q # r => (Retired(q)' <=> Retired(q))
      BY <2>1 DEF Created, Retired
    <3>4. \A q \in Runs : Retired(q) => Retired(q)'
      BY <1>e, <2>1 DEF Created, Retired
    <3>. QED BY <1>1, <3>1, <3>2, <3>3, <3>4, RetireOrStutter
  <2>3. CASE c.event = "run.created"
    <3>1. \A q \in Runs : ~Owns(q)
      BY <2>1, <2>3 DEF Holding, Opening
    <3>2. \A q \in Runs : q # r => (Created(q)' <=> Created(q)) /\ (Retired(q)' <=> Retired(q))
      BY <2>1 DEF Created, Retired
    <3>3. Created(r)'
      BY <1>e, <2>1, <2>3 DEF Created
    <3>4. CASE Created(r)
      <4>1. Retired(r)' <=> Retired(r)
        BY <1>e, <2>1, <2>3, <3>3, <3>4 DEF Retired
      <4>. QED BY <1>1, <3>2, <3>3, <3>4, <4>1, SameOwnership
    <3>5. CASE ~Created(r)
      <4>1. ~Has(log[r], "run.superseded") /\ ~final[r]
        BY <1>e, <3>5 DEF IInv, DiskOK
      <4>2. ~Retired(r) /\ ~Retired(r)' /\ Owns(r)'
        BY <1>e, <2>1, <2>3, <3>3, <3>5, <4>1 DEF Retired, Owns
      <4>3. RetiredRuns' = RetiredRuns /\ r \notin RetiredRuns
        BY <3>2, <4>2 DEF RetiredRuns
      <4>4. CurrentOwner = NoRun /\ CurrentOwner' = r
        BY <1>1, <3>1, <4>2 DEF OwnerValue
      <4>. QED BY <4>3, <4>4 DEF Ownership!Next, Ownership!Open
    <3>. QED BY <3>4, <3>5
  <2>. QED BY <2>2, <2>3
<1>. QED BY <1>2, <1>3, <1>4, <1>5, Writers

\* The store with its files, locks and crashes implements the ownership protocol of
\* ActiveRun (ImplementsActiveRun).
THEOREM Refinement == Spec => ImplementsActiveRun
<1>1. Init => Ownership!Init
  <2>1. ASSUME Init PROVE \A r \in Runs : ~Created(r)
    <3>1. ~Has(<<>>, "run.created")
      BY DEF Has
    <3>. QED BY <2>1, <3>1 DEF Init, Created
  <2>2. ASSUME Init PROVE CurrentOwner = NoRun /\ RetiredRuns = {}
    BY <2>1, <2>2 DEF CurrentOwner, RetiredRuns, Owns, Retired
  <2>. QED BY <2>2 DEF Ownership!Init
<1>2. IInv /\ IInv' /\ [Next]_vars => [Ownership!Next]_Ownership!vars
  BY RefinementStep DEF Ownership!vars
<1>. QED BY <1>1, <1>2, Inductive, PTL DEF Spec, ImplementsActiveRun, Ownership!Spec

=============================================================================
