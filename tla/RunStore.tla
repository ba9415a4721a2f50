------------------------------ MODULE RunStore ------------------------------
(***************************************************************************)
(* The durable Run Store (src/src/afk/run_store.py) under the commands     *)
(* that change it: afk start, resume, supersede and the worker unit.       *)
(*                                                                         *)
(* Every mutation runs under one non-blocking flock; a command that finds  *)
(* it taken fails with RunStoreBusy and changes nothing, so a Begin action *)
(* waits for lock = Nobody.  Between two file writes the holder may crash: *)
(* each write is therefore a step of its own, and the kernel drops the     *)
(* flock of a dead process.                                                *)
(*                                                                         *)
(* Per Run the disk holds run.json, events.jsonl, state.json and           *)
(* completion-finalization.json; the store holds active.json.  The event   *)
(* log is the authority and everything else is rebuilt from it.            *)
(***************************************************************************)
EXTENDS Integers, Sequences

CONSTANTS
    Runs,        \* Run identifiers a start may draw
    Commands,    \* operator command lines (afk start | resume | supersede)
    Alerts,      \* distinct Attention Required payloads
    Reasons,     \* supersession reasons
    NoRun,       \* content of active.json when the file is absent
    Nobody,      \* holder of a free lock
    Blank,       \* the "why" of a record that carries neither alert nor reason
    MaxRecords,  \* bound: records per Event History
    MaxCrashes   \* bound: crashes and failed writes per behaviour

ASSUME ConstantsAssumption ==
    /\ Runs \cap Commands = {}
    /\ NoRun \notin Runs
    /\ Nobody \notin Runs \cup Commands
    /\ MaxRecords \in Nat /\ MaxCrashes \in Nat

\* The worker unit of Run r is the actor r: systemd admits one unit per Run name.
Actors == Commands \cup Runs

\* Events that carry a Run State ("progress" stands for claimed .. bead_closed);
\* the others only add facts.  "torn" is an incomplete trailing record.
StateEvents == {"run.created", "progress", "run.attention_required",
                "run.completed", "run.superseded"}
FactEvents  == {"bead.spec_recorded", "worker.launch_prepared", "worker.launch_retried",
                "worker.launch_reconciled", "worker.launched", "worker.terminal"}
Record == [event : StateEvents \cup FactEvents \cup {"torn"},
           why : Alerts \cup Reasons \cup {Blank}]
Rec(e) == [event |-> e, why |-> Blank]
Torn   == Rec("torn")

Layouts == {"absent", "directory", "identity", "log"}
Effect  == {"absent", "prepared", "confirmed"}

\* Steps at which an actor does not hold the flock, and those at which it does.
FreeSteps == {"idle", "launched", "failed", "report"}
HeldSteps == {"make_directory", "write_identity", "write_log", "append", "project",
              "point", "record_spec", "prepare_launch", "record_launch", "launch",
              "work", "alert", "restore", "repoint", "advance", "query", "reconcile",
              "analyse", "finalize", "clear", "release"}

VARIABLES
    layout,    \* layout[r]: what of the Run directory exists on disk
    log,       \* log[r]: events.jsonl, a torn record only ever at its end
    snapshot,  \* snapshot[r]: last_sequence in state.json, 0 when absent
    launch,    \* launch[r]: the Effect worker-launch-1
    retro,     \* retro[r]: completion retrospective sealed and its Effect confirmed
    final,     \* final[r]: completion-finalization.json exists
    pointer,   \* active.json
    lock,      \* holder of afk.lock
    pc, job,   \* per actor: the next step, and the Run and record it works on
    crashes    \* crashes so far

disk == <<layout, log, snapshot, launch, retro, final, pointer>>
vars == <<layout, log, snapshot, launch, retro, final, pointer, lock, pc, job, crashes>>

-----------------------------------------------------------------------------
(* Reading the store *)

\* The bytes _parse_event_history accepts: all but an incomplete last record.
Complete(l) == IF l # <<>> /\ l[Len(l)].event = "torn"
               THEN SubSeq(l, 1, Len(l) - 1) ELSE l

LastIs(l, e) == l # <<>> /\ l[Len(l)].event = e

Has(l, e) == \E i \in DOMAIN l : l[i].event = e

\* The projected Run State is that of the last record that carries one.
InState(l, e) ==
    \E i \in DOMAIN l : /\ l[i].event = e
                        /\ \A j \in i + 1 .. Len(l) : l[j].event \notin StateEvents

\* status() accepts a supersession only as the very last record of the history.
SupersessionValid(l) ==
    \A i \in DOMAIN l : l[i].event = "run.superseded" => i = Len(l)

\* What the scan of runs/ needs from each directory it meets.
Readable(r) ==
    /\ layout[r] = "log"
    /\ Complete(log[r]) # <<>>
    /\ SupersessionValid(Complete(log[r]))

\* _active_run_id counts a Run as active unless its Run State is superseded, or
\* completed with a finalization file; it raises on an unreadable directory and on
\* two active Runs.
Active(r) ==
    /\ Complete(log[r]) # <<>>
    /\ ~InState(Complete(log[r]), "run.superseded")
    /\ ~(final[r] /\ InState(Complete(log[r]), "run.completed"))

StoreReadable ==
    /\ \A r \in Runs : layout[r] # "absent" => Readable(r)
    /\ \A r, q \in Runs : Active(r) /\ Active(q) => r = q

NoneActive == \A r \in Runs : ~Active(r)

Completed(r) == InState(Complete(log[r]), "run.completed")

\* The Run a command selects without naming one: the scan, else the pointer.
Selected(r) == Active(r) \/ (NoneActive /\ pointer = r)

\* resume and supersede also refuse an incomplete trailing record.
ResumeReadable(r) == StoreReadable /\ Complete(log[r]) = log[r]

\* record_attention_episode finds the same alert already current.
AlreadyAttending(l, w) ==
    \E i \in DOMAIN l : /\ l[i].event = "run.attention_required"
                        /\ l[i].why = w
                        /\ \A j \in i + 1 .. Len(l) : l[j].event \notin StateEvents

\* Locals of an actor with nothing in hand.
NoJob == [run |-> NoRun, rec |-> Torn, then |-> "release"]

-----------------------------------------------------------------------------
Init ==
    /\ layout = [r \in Runs |-> "absent"]
    /\ log = [r \in Runs |-> <<>>]
    /\ snapshot = [r \in Runs |-> 0]
    /\ launch = [r \in Runs |-> "absent"]
    /\ retro = [r \in Runs |-> FALSE]
    /\ final = [r \in Runs |-> FALSE]
    /\ pointer = NoRun
    /\ lock = Nobody
    /\ pc = [a \in Actors |-> "idle"]
    /\ job = [a \in Actors |-> NoJob]
    /\ crashes = 0

Goto(a, step) == pc' = [pc EXCEPT ![a] = step]

\* Take the free flock for Run r and continue at a step.
Acquire(a, r, step) ==
    /\ lock = Nobody
    /\ lock' = a
    /\ job' = [job EXCEPT ![a].run = r]
    /\ Goto(a, step)

\* Have the holder append record c next and continue at a step.
Submit(a, c, step) ==
    /\ job' = [job EXCEPT ![a] = [@ EXCEPT !.rec = c, !.then = step]]
    /\ Goto(a, "append")
    /\ UNCHANGED <<disk, lock, crashes>>

\* Bound: histories stop growing at MaxRecords.
Room(r) == Len(Complete(log[r])) < MaxRecords

\* _attention: status() must accept the Run; a repeated alert adds no record.
Attend(a, step) ==
    LET r == job[a].run IN
    /\ SupersessionValid(Complete(log[r]))
    /\ \E w \in Alerts :
         IF AlreadyAttending(Complete(log[r]), w)
         THEN Goto(a, step) /\ UNCHANGED <<disk, lock, job, crashes>>
         ELSE Room(r) /\ Submit(a, [event |-> "run.attention_required", why |-> w], step)

-----------------------------------------------------------------------------
(* _append_event_unlocked: truncate to the valid bytes, write, then state.json *)

\* Wrong: opened for appending, behind whatever a crash left.
AppendRecordBlind(a) ==
    /\ pc[a] = "append"
    /\ log' = [log EXCEPT ![job[a].run] = Append(@, job[a].rec)]
    /\ Goto(a, "project")
    /\ job' = [job EXCEPT ![a].rec = Torn]
    /\ UNCHANGED <<layout, snapshot, launch, retro, final, pointer, lock, crashes>>

\* Wrong: truncated to what state.json says is durable.
AppendRecordAtSnapshot(a) ==
    LET r == job[a].run IN
    /\ pc[a] = "append"
    /\ log' = [log EXCEPT ![r] = Append(SubSeq(@, 1, snapshot[r]), job[a].rec)]
    /\ Goto(a, "project")
    /\ job' = [job EXCEPT ![a].rec = Torn]
    /\ UNCHANGED <<layout, snapshot, launch, retro, final, pointer, lock, crashes>>

AppendRecord(a) ==
    /\ pc[a] = "append"
    /\ log' = [log EXCEPT ![job[a].run] = Append(Complete(@), job[a].rec)]
    /\ Goto(a, "project")
    /\ job' = [job EXCEPT ![a].rec = Torn]
    /\ UNCHANGED <<layout, snapshot, launch, retro, final, pointer, lock, crashes>>

\* append_event clears the pointer of a completed, finalized Run once nobody owns.
Project(a) ==
    LET r == job[a].run IN
    /\ pc[a] = "project"
    /\ snapshot' = [snapshot EXCEPT ![r] = Len(Complete(log[r]))]
    /\ Goto(a, IF /\ Completed(r) /\ final[r] /\ StoreReadable
                  /\ NoneActive
               THEN "clear" ELSE job[a].then)
    /\ UNCHANGED <<layout, log, launch, retro, final, pointer, lock, job, crashes>>

\* Wrong: the pointer file is emptied, not removed.
ClearPointerEmpty(a) ==
    /\ pc[a] = "clear"
    /\ pointer' = IF pointer = job[a].run THEN Blank ELSE pointer
    /\ Goto(a, "release")
    /\ UNCHANGED <<layout, log, snapshot, launch, retro, final, lock, job, crashes>>

\* _clear_active_pointer: only a pointer that names this Run is removed.
ClearPointer(a) ==
    /\ pc[a] = "clear"
    /\ pointer' = IF pointer = job[a].run THEN NoRun ELSE pointer
    /\ Goto(a, "release")
    /\ UNCHANGED <<layout, log, snapshot, launch, retro, final, lock, job, crashes>>

\* The worker goes on to write its terminal observation; a command just ends.
AfterRelease(a) ==
    IF a \in Runs /\ ~Has(log[a], "worker.terminal") THEN "report" ELSE "idle"

Release(a) ==
    /\ pc[a] = "release"
    /\ lock' = Nobody
    /\ Goto(a, AfterRelease(a))
    /\ job' = [job EXCEPT ![a] = NoJob]
    /\ UNCHANGED <<disk, crashes>>

-----------------------------------------------------------------------------
(* afk start: start_run and create_run *)

\* Wrong: the pointer alone tells whether a Run is active.
StartBeginByPointer(c, r) ==
    /\ pc[c] = "idle"
    /\ pointer = NoRun
    /\ layout[r] = "absent"
    /\ Acquire(c, r, "make_directory")
    /\ UNCHANGED <<disk, crashes>>

StartBegin(c, r) ==
    /\ pc[c] = "idle"
    /\ StoreReadable
    /\ NoneActive
    /\ pointer = NoRun
    /\ layout[r] = "absent"
    /\ Acquire(c, r, "make_directory")
    /\ UNCHANGED <<disk, crashes>>

MakeDirectory(c) ==
    /\ pc[c] = "make_directory"
    /\ layout' = [layout EXCEPT ![job[c].run] = "directory"]
    /\ Goto(c, "write_identity")
    /\ UNCHANGED <<log, snapshot, launch, retro, final, pointer, lock, job, crashes>>

WriteIdentity(c) ==
    /\ pc[c] = "write_identity"
    /\ layout' = [layout EXCEPT ![job[c].run] = "identity"]
    /\ Goto(c, "write_log")
    /\ UNCHANGED <<log, snapshot, launch, retro, final, pointer, lock, job, crashes>>

\* An empty events.jsonl, then the append of run.created.
WriteLog(c) ==
    /\ pc[c] = "write_log"
    /\ layout' = [layout EXCEPT ![job[c].run] = "log"]
    /\ job' = [job EXCEPT ![c] = [@ EXCEPT !.rec = Rec("run.created"), !.then = "point"]]
    /\ Goto(c, "append")
    /\ UNCHANGED <<log, snapshot, launch, retro, final, pointer, lock, crashes>>

PointAtRun(c) ==
    /\ pc[c] = "point"
    /\ pointer' = job[c].run
    /\ Goto(c, "record_spec")
    /\ UNCHANGED <<layout, log, snapshot, launch, retro, final, lock, job, crashes>>

\* _advance_start_bead_spec: the Bead snapshot is recorded, or the Run needs attention.
RecordSpec(c) ==
    /\ pc[c] = "record_spec"
    /\ \/ Submit(c, Rec("bead.spec_recorded"), "prepare_launch")
       \/ Attend(c, "release")

\* The Effect is prepared, then its record appended, then the unit launched.
PrepareLaunch(c) ==
    /\ pc[c] = "prepare_launch"
    /\ launch' = [launch EXCEPT ![job[c].run] = "prepared"]
    /\ Goto(c, "record_launch")
    /\ UNCHANGED <<layout, log, snapshot, retro, final, pointer, lock, job, crashes>>

RecordLaunch(c) ==
    /\ pc[c] = "record_launch"
    /\ Submit(c, Rec("worker.launch_prepared"), "launch")

\* _launch_worker for the Run of c, whose next record is done on success and an alert
\* on failure.  systemd-run may start the unit and still report failure (a timeout);
\* it cannot start a unit whose name is loaded.
LaunchUnit(c, done, next) ==
    LET w == job[c].run IN
    \E started, reported \in BOOLEAN, alert \in Alerts :
        /\ started => pc[w] = "idle"
        /\ reported => started
        /\ job' = [job EXCEPT ![c] = [@ EXCEPT
                     !.rec = IF reported THEN done
                             ELSE [event |-> "run.attention_required", why |-> alert],
                     !.then = "release"]]
        /\ pc' = [pc EXCEPT ![w] = IF started THEN "launched" ELSE @,
                            ![c] = IF reported THEN next ELSE "append"]
        /\ UNCHANGED <<disk, lock, crashes>>

\* A start that launched its worker has nothing left to record.
Launch(c) ==
    /\ pc[c] = "launch"
    /\ LaunchUnit(c, Torn, "release")

-----------------------------------------------------------------------------
(* The worker unit: run_worker_unit *)

\* _run_worker_with_lock confirms the launch Effect and appends worker.launched; no
\* status check comes before that record.
WorkerBegin(w) ==
    /\ pc[w] = "launched"
    /\ lock = Nobody
    /\ Room(w)
    /\ lock' = w
    /\ launch' = [launch EXCEPT ![w] = "confirmed"]
    /\ job' = [job EXCEPT ![w] = [run |-> w, rec |-> Rec("worker.launched"), then |-> "work"]]
    /\ Goto(w, "append")
    /\ UNCHANGED <<layout, log, snapshot, retro, final, pointer, crashes>>

\* WORKER_LOCK_ATTEMPTS tries found the lock busy.
WorkerGiveUp(w) ==
    /\ pc[w] = "launched"
    /\ lock # Nobody
    /\ Goto(w, "report")
    /\ UNCHANGED <<disk, lock, job, crashes>>

\* Claim, worktree, Candidate and gate work: records with a state, attention, or the
\* end of what one worker does.  A Run whose status() fails ends the worker.
WorkerWork(w) ==
    /\ pc[w] = "work"
    /\ \/ /\ SupersessionValid(Complete(log[w])) /\ Room(w)
          /\ Submit(w, Rec("progress"), "work")
       \/ Attend(w, "release")
       \/ Goto(w, "release") /\ UNCHANGED <<disk, lock, job, crashes>>

\* An exception leaves the locked block; the alert is recorded under a new acquisition
\* of the flock, or not at all when that finds it busy.
WorkerFail(w) ==
    /\ pc[w] = "work"
    /\ lock' = Nobody
    /\ job' = [job EXCEPT ![w] = NoJob]
    /\ Goto(w, "failed")
    /\ UNCHANGED <<disk, crashes>>

WorkerAlert(w) ==
    \/ /\ pc[w] = "failed"
       /\ IF lock = Nobody
          THEN Acquire(w, w, "alert")
          ELSE Goto(w, "report") /\ UNCHANGED <<lock, job>>
       /\ UNCHANGED <<disk, crashes>>
    \/ pc[w] = "alert" /\ Attend(w, "release")
    \/ /\ pc[w] = "alert"
       /\ ~SupersessionValid(Complete(log[w])) \/ ~Room(w)
       /\ Goto(w, "release")
       /\ UNCHANGED <<disk, lock, job, crashes>>

\* The terminal observation is written under a fresh acquisition of the lock.
\* status() must accept the Run; until it does the loop retries for ever.
WorkerReport(w) ==
    /\ pc[w] = "report"
    /\ lock = Nobody
    /\ SupersessionValid(Complete(log[w]))
    /\ Room(w)
    /\ lock' = w
    /\ job' = [job EXCEPT ![w] = [run |-> w, rec |-> Rec("worker.terminal"), then |-> "release"]]
    /\ Goto(w, "append")
    /\ UNCHANGED <<disk, crashes>>

-----------------------------------------------------------------------------
(* afk resume, with and without a Run name *)

ResumeBegin(c, r) ==
    /\ pc[c] = "idle"
    /\ Selected(r)
    /\ ResumeReadable(r)
    /\ pointer \in {NoRun, r}
    /\ Acquire(c, r, IF Completed(r) /\ pointer = r THEN "analyse" ELSE "restore")
    /\ UNCHANGED <<disk, crashes>>

\* Tampered evidence or an open attempt that contradicts the history: resume_run records
\* attention on the Run the scan selects, before any look at the pointer.
PreflightFails(c, r) ==
    /\ pc[c] = "idle"
    /\ Selected(r)
    /\ ResumeReadable(r)
    /\ Acquire(c, r, "alert")
    /\ UNCHANGED <<disk, crashes>>

PreflightAlert(c) == pc[c] = "alert" /\ Attend(c, "release")

\* resume_status rewrites state.json and restores a missing pointer.
Restore(c) ==
    LET r == job[c].run IN
    /\ pc[c] = "restore"
    /\ snapshot' = [snapshot EXCEPT ![r] = Len(log[r])]
    /\ Goto(c, IF pointer = NoRun THEN "repoint"
               ELSE IF Completed(r) THEN "analyse" ELSE "advance")
    /\ UNCHANGED <<layout, log, launch, retro, final, pointer, lock, job, crashes>>

Repoint(c) ==
    LET r == job[c].run IN
    /\ pc[c] = "repoint"
    /\ pointer' = r
    /\ Goto(c, IF Completed(r) THEN "analyse" ELSE "advance")
    /\ UNCHANGED <<layout, log, snapshot, launch, retro, final, lock, job, crashes>>

\* The dispatch of resume_run: it looks at the attention scope and the checkpoint and
\* never at the superseded state.  Nothing but the Bead snapshot is tried before it is
\* recorded; Run States past created need a worker that was launched; completion needs
\* checkpoint bead_closed, which a superseded Run no longer has.
Advance(c) ==
    LET r == job[c].run
        ready(e) == /\ pc[c] = "advance" /\ Room(r)
                    /\ SupersessionValid(Complete(log[r]))
                    /\ Has(log[r], e) IN
    \/ /\ ready("run.created") /\ ~Has(log[r], "bead.spec_recorded")
       /\ Submit(c, Rec("bead.spec_recorded"), "release")
    \/ /\ ready("worker.launched")
       /\ Submit(c, Rec("progress"), "advance")
    \/ /\ ready("progress") /\ ~Has(log[r], "run.superseded")
       /\ Submit(c, Rec("run.completed"), "analyse")
    \/ pc[c] = "advance" /\ Attend(c, "release")
    \/ /\ pc[c] = "advance" /\ Goto(c, "release")
       /\ UNCHANGED <<disk, lock, job, crashes>>

\* No branch before it applies: a Run whose worker left no terminal observation is
\* resumed by its launch Effect and its unit, which gets its Effect and record first.
SeeToLaunch(c) ==
    LET r == job[c].run IN
    /\ pc[c] = "advance"
    /\ Has(log[r], "bead.spec_recorded") /\ ~Has(log[r], "worker.terminal")
    /\ SupersessionValid(log[r])
    /\ \/ /\ launch[r] = "absent" /\ LastIs(log[r], "bead.spec_recorded")
          /\ launch' = [launch EXCEPT ![r] = "prepared"]
          /\ UNCHANGED <<layout, log, snapshot, retro, final, pointer, lock, pc, job, crashes>>
       \/ /\ launch[r] # "absent" /\ LastIs(log[r], "bead.spec_recorded") /\ Room(r)
          /\ Submit(c, Rec("worker.launch_prepared"), "query")
       \/ /\ launch[r] # "absent" /\ ~LastIs(log[r], "bead.spec_recorded")
          /\ Goto(c, "query")
          /\ UNCHANGED <<disk, lock, job, crashes>>

\* Wrong: a unit that is gone is launched again whatever its Effect says.
QueryUnitAgain(c) ==
    /\ pc[c] = "query"
    /\ Room(job[c].run)
    /\ pc[job[c].run] = "idle"
    /\ LaunchUnit(c, Rec("worker.launch_retried"), "append")

\* A unit that runs confirms its launch; one that is gone is launched again only while
\* its Effect is unconfirmed; anything else is for the operator.
QueryUnit(c) ==
    LET r == job[c].run IN
    /\ pc[c] = "query"
    /\ Room(r)
    /\ \/ /\ pc[r] # "idle"
          /\ launch' = [launch EXCEPT ![r] = "confirmed"]
          /\ Goto(c, "reconcile")
          /\ UNCHANGED <<layout, log, snapshot, retro, final, pointer, lock, job, crashes>>
       \/ /\ pc[r] = "idle" /\ launch[r] = "confirmed"
          /\ LastIs(log[r], "worker.launch_prepared")
          /\ Submit(c, Rec("worker.launched"), "release")
       \/ /\ pc[r] = "idle" /\ launch[r] # "confirmed"
          /\ LaunchUnit(c, Rec("worker.launch_retried"), "append")
       \/ Attend(c, "release")

\* The running unit is put on record unless its launch is the last thing recorded.
Reconcile(c) ==
    LET r == job[c].run IN
    /\ pc[c] = "reconcile"
    /\ IF LastIs(log[r], "worker.launched") \/ LastIs(log[r], "worker.launch_reconciled")
       THEN Goto(c, "release") /\ UNCHANGED <<disk, lock, job, crashes>>
       ELSE Submit(c, Rec("worker.launch_reconciled"), "release")

\* afk resume <run-id>: resume_completed_status validates only the named Run.
NamedResumeBegin(c, r) ==
    /\ pc[c] = "idle"
    /\ Readable(r)
    /\ Complete(log[r]) = log[r]
    /\ Completed(r)
    /\ final[r] \/ pointer \in {NoRun, r}
    /\ Acquire(c, r, "analyse")
    /\ UNCHANGED <<disk, crashes>>

\* _reconcile_completed_run: retrospective, finalization file, pointer.
Analyse(c) ==
    /\ pc[c] = "analyse"
    /\ retro' = [retro EXCEPT ![job[c].run] = TRUE]
    /\ Goto(c, "finalize")
    /\ UNCHANGED <<layout, log, snapshot, launch, final, pointer, lock, job, crashes>>

Finalize(c) ==
    /\ pc[c] = "finalize"
    /\ retro[job[c].run]
    /\ final' = [final EXCEPT ![job[c].run] = TRUE]
    /\ Goto(c, "clear")
    /\ UNCHANGED <<layout, log, snapshot, launch, retro, pointer, lock, job, crashes>>

-----------------------------------------------------------------------------
(* afk supersede: supersede_active_run *)

SupersedeBegin(c, r, reason) ==
    /\ pc[c] = "idle"
    /\ Selected(r)
    /\ ResumeReadable(r)
    /\ pointer = r
    /\ InState(log[r], "run.attention_required")
    /\ Room(r)
    /\ lock = Nobody
    /\ lock' = c
    /\ job' = [job EXCEPT ![c] = [run |-> r, then |-> "clear",
                                  rec |-> [event |-> "run.superseded", why |-> reason]]]
    /\ Goto(c, "append")
    /\ UNCHANGED <<disk, crashes>>

\* A supersession cut off before the pointer was removed is finished by the same
\* reason only.
SupersedeRetry(c, r, reason) ==
    /\ pc[c] = "idle"
    /\ Selected(r)
    /\ ResumeReadable(r)
    /\ pointer = r
    /\ \E i \in DOMAIN log[r] : log[r][i] = [event |-> "run.superseded", why |-> reason]
    /\ Acquire(c, r, "clear")
    /\ UNCHANGED <<disk, crashes>>

-----------------------------------------------------------------------------
(* The environment *)

\* The process of actor a dies, or a write fails and it gives up.  A record being
\* appended may be missing, truncated away or torn.
Crash(a) ==
    /\ pc[a] # "idle"
    /\ crashes < MaxCrashes
    /\ crashes' = crashes + 1
    /\ lock' = IF lock = a THEN Nobody ELSE lock
    /\ Goto(a, "idle")
    /\ job' = [job EXCEPT ![a] = NoJob]
    /\ UNCHANGED <<layout, snapshot, launch, retro, final, pointer>>
    /\ \/ UNCHANGED log
       \/ /\ pc[a] = "append"
          /\ \E rest \in {<<>>, <<Torn>>} :
               log' = [log EXCEPT ![job[a].run] = Complete(@) \o rest]

CommandStep(c) ==
    \/ MakeDirectory(c) \/ WriteIdentity(c) \/ WriteLog(c) \/ PointAtRun(c)
    \/ RecordSpec(c) \/ PrepareLaunch(c) \/ RecordLaunch(c) \/ Launch(c)
    \/ PreflightAlert(c) \/ Restore(c) \/ Repoint(c) \/ Advance(c)
    \/ SeeToLaunch(c) \/ QueryUnit(c) \/ Reconcile(c)
    \/ Analyse(c) \/ Finalize(c)

Next ==
    \/ \E c \in Commands : CommandStep(c)
    \/ \E c \in Commands, r \in Runs :
         \/ StartBegin(c, r) \/ ResumeBegin(c, r) \/ PreflightFails(c, r) \/ NamedResumeBegin(c, r)
         \/ \E reason \in Reasons : SupersedeBegin(c, r, reason) \/ SupersedeRetry(c, r, reason)
    \/ \E w \in Runs : WorkerBegin(w) \/ WorkerGiveUp(w) \/ WorkerWork(w)
                         \/ WorkerFail(w) \/ WorkerAlert(w) \/ WorkerReport(w)
    \/ \E a \in Actors : AppendRecord(a) \/ Project(a) \/ ClearPointer(a)
                         \/ Release(a) \/ Crash(a)

Spec == Init /\ [][Next]_vars
-----------------------------------------------------------------------------
(* Properties *)

\* A Run owns work from its first record until the record or the file that retires it.
Created(r) == Has(log[r], "run.created")
Retired(r) == Created(r) /\ (Has(log[r], "run.superseded") \/ final[r])
Owns(r)    == Created(r) /\ ~Retired(r)

TypeOK ==
    /\ layout \in [Runs -> Layouts]
    /\ log \in [Runs -> Seq(Record)]
    /\ snapshot \in [Runs -> Nat]
    /\ launch \in [Runs -> Effect]
    /\ retro \in [Runs -> BOOLEAN]
    /\ final \in [Runs -> BOOLEAN]
    /\ pointer \in Runs \cup {NoRun}
    /\ lock \in Actors \cup {Nobody}
    /\ pc \in [Actors -> FreeSteps \cup HeldSteps]
    /\ job \in [Actors -> [run : Runs \cup {NoRun}, rec : Record,
                           then : FreeSteps \cup HeldSteps]]
    /\ crashes \in Nat

\* README "Only one Active Run may own local or external state": whatever crashes
\* between the scan, the first record and the pointer, no two Runs own work.
OneActiveRun == \A r, q \in Runs : Owns(r) /\ Owns(q) => r = q

\* active.json may be missing or stale, but while some Run owns work it never names
\* another one: resume and supersede act on the pointer's Run.
PointerNamesOwner == \A r \in Runs : Owns(r) /\ pointer # NoRun => pointer = r

\* A torn record never ends up between two complete ones, so that every history
\* still parses after any crash (_append_event_unlocked truncates before it writes).
HistoryParses ==
    \A r \in Runs : \A i \in DOMAIN log[r] : log[r][i].event = "torn" => i = Len(log[r])

\* state.json is a cache: it never tells of a record the history does not hold.
SnapshotNotAhead == \A r \in Runs : snapshot[r] <= Len(Complete(log[r]))

\* CONTEXT.md "Completed ... and a retrospective attempt was recorded": the Run gives
\* up ownership by completion only after its completion retrospective is sealed.
ReleasedAfterRetrospective ==
    \A r \in Runs : final[r] => retro[r] /\ Has(log[r], "run.completed")

\* The files of a Run agree with each other after every crash: pointer, Event History,
\* cached state and finalization are written one after the other and never together.
DurableFilesAgree ==
    PointerNamesOwner /\ HistoryParses /\ SnapshotNotAhead /\ ReleasedAfterRetrospective

\* "append-only Event History": no step of any command, crash or recovery drops or
\* changes a durable record.
Extends(l, m) == Len(l) <= Len(m) /\ \A i \in DOMAIN l : m[i] = l[i]
HistoryAppendOnly ==
    [][\A r \in Runs : Extends(Complete(log[r]), Complete(log'[r]))]_vars

\* Effect of worker-launch-1: a Run whose launch is confirmed never gets a second unit,
\* whatever resume finds after a crash of the worker, of the start or of a resume.
ConfirmedLaunchNotRepeated ==
    [][\A r \in Runs : launch[r] = "confirmed" /\ pc[r] = "idle" => pc'[r] = "idle"]_vars

\* The flock is what keeps two commands apart: only its holder is at a step that
\* writes, in particular after a crash has handed the lock on.
LockProtectsWrites == \A a \in Actors : pc[a] \in HeldSteps => lock = a

\* The store implements the ownership protocol of ActiveRun.
CurrentOwner == IF \E r \in Runs : Owns(r) THEN CHOOSE r \in Runs : Owns(r) ELSE NoRun
RetiredRuns  == {r \in Runs : Retired(r)}
Ownership    == INSTANCE ActiveRun WITH owner <- CurrentOwner, retired <- RetiredRuns
ImplementsActiveRun == Ownership!Spec

(* A statement of the README that the code does not meet *)

\* README: supersession "appends an audit event" that retires the Run; the tests expect
\* a fresh start to work afterwards.  A record behind run.superseded makes every
\* scan of the store fail.
SupersessionIsLastRecord == \A r \in Runs : SupersessionValid(Complete(log[r]))

=============================================================================
