---------------------------- MODULE Supervision ----------------------------
(***************************************************************************)
(* How a command is run so that nothing of it survives                     *)
(* (process_supervision.py, process_supervision_helper.py,                 *)
(* process_supervision_guardian.py, process_io.py).                        *)
(*                                                                         *)
(* The caller starts a process of its own and talks to it over a socket.   *)
(* For a trusted host command that is the guardian, which starts the       *)
(* helper, which starts the command; both are subreapers that track the    *)
(* processes below them through /proc and pidfds and kill them all in the  *)
(* end.  Otherwise it is bwrap, and the helper lives in a pid namespace    *)
(* that the kernel empties when bwrap or the helper ends.                  *)
(*                                                                         *)
(* The command and its descendants fork and exit whenever they like, also  *)
(* between two looks of the supervisor that is scanning them.  An exited   *)
(* process is simply not alive: that it stays a zombie until someone waits *)
(* for it matters only for the status of the command itself.               *)
(***************************************************************************)
EXTENDS Naturals, FiniteSets

CONSTANTS
    Bound,        \* bound: processes the command ever has, plus killed processes and stalled calls
    Rounds        \* bound: rounds of signals before a cleanup deadline

ASSUME SupervisionConstants ==
    /\ Bound \in Nat \ {0} /\ Rounds \in Nat \ {0}

Tasks       == 1 .. Bound            \* numbered in the order of their birth
Command     == 1
Helper      == Bound + 1
Outer       == Bound + 2              \* the guardian, or bwrap
Reaping     == 0                  \* init, the parent of whatever nobody supervises
Supervisors == {Helper, Outer}
Answers     == {"completed", "timeout", "overflow", "abnormal", "invalid_utf8",
                "launch_error", "failure"}

VARIABLES
    contained,  \* whether the command runs in a pid namespace
    (* the processes of the command *)
    alive,      \* those that run
    born,       \* how many there were
    parent,     \* the parent of each one that runs
    exit,       \* how the command itself ended: "none", "exited", "crashed", "terminated"
    uncollected,\* its status waits for a waitpid
    (* the supervisors *)
    sup,        \* of each: pc, tracked pidfds, scan, phase and round of terminate
    message,    \* the response each has sent
    known,      \* the helper's Popen.returncode: an exit, "none", or "assumed" to be 0
    trouble,    \* "none", "overflow", "reader": what became of the output
    late,       \* the command's deadline has passed
    (* the caller *)
    caller,     \* "waiting", "stopping", "answered", "dead"
    answer,
    faults,
    (* history *)
    slipped,    \* the supervisors that had a process handed on in both of their last scans
    gaveUp,     \* the supervisors whose cleanup deadline passed
    loose       \* the command was left untracked, or a cleanup was broken off

tree    == <<alive, born, parent, exit, uncollected>>
look    == <<known, trouble, late>>
history == <<slipped, gaveUp, loose>>
vars    == <<contained, tree, sup, message, look, caller, answer, faults, history>>

Idle(pc, fds) == [pc |-> pc, fds |-> fds, use |-> "none", pending |-> {}, seen |-> {},
                  hits |-> {}, phase |-> "TERM", round |-> 0, leaving |-> FALSE,
                  result |-> "failure"]

\* __exit__: what is still tracked is terminated before the response is sent.
Leaving(fds, result) ==
    [Idle(IF fds = {} THEN "respond" ELSE "stop", fds) EXCEPT !.leaving = TRUE, !.result = result]

\* The guardian has started the helper, is its subreaper and has passed the request on.
Init ==
    /\ contained \in BOOLEAN
    /\ alive = {} /\ born = 0 /\ parent = [t \in Tasks |-> Reaping]
    /\ exit = "none" /\ uncollected = FALSE
    /\ sup = [s \in Supervisors |-> IF s = Helper THEN Idle("launch", {})
                                    ELSE Idle("relay", {Helper})]
    /\ message = [s \in Supervisors |-> "none"]
    /\ known = "none" /\ trouble = "none" /\ late = FALSE
    /\ caller = "waiting" /\ answer = "none" /\ faults = 0
    /\ slipped = {} /\ gaveUp = {} /\ loose = FALSE

-----------------------------------------------------------------------------
(* Processes *)

Gone(s)     == sup[s].pc \in {"exited", "killed"}
Runs(p)     == IF p \in Supervisors THEN ~Gone(p) ELSE p \in alive
Children(p) == {t \in alive : parent[t] = p}
               \cup (IF p = Outer /\ ~Gone(Helper) THEN {Helper} ELSE {})

\* The nearest subreaper, once those in dead are gone.  __exit__ ends what __enter__ began.
Reaps(s)     == ~Gone(s) /\ sup[s].pc # "respond"
Reaper(dead) ==
    IF Reaps(Helper) /\ Helper \notin dead THEN Helper
    ELSE IF Reaps(Outer) /\ Outer \notin dead THEN Outer ELSE Reaping

\* Some processes end and their children are handed on.  The end of bwrap or of the
\* helper empties the namespace.
Dying(dead)  == IF contained /\ dead \cap Supervisors # {} THEN alive ELSE dead \cap alive
Orphans(dead) == {t \in alive \ Dying(dead) : parent[t] \in dead}

End(dead, how) ==
    /\ alive' = alive \ Dying(dead)
    /\ parent' = [t \in Tasks |-> IF t \in Orphans(dead) THEN Reaper(dead)
                                  ELSE IF t \in Dying(dead) THEN Reaping ELSE parent[t]]
    /\ exit' = IF Command \in Dying(dead) THEN how ELSE exit
    /\ uncollected' = (uncollected \/ Command \in Dying(dead))
    /\ UNCHANGED born

\* A process that is handed on to a supervisor during its scan may be missed by it.
Hit(s, dead) == IF Orphans(dead) # {} /\ Reaper(dead) = s /\ sup[s].pc = "scan"
                THEN [sup[s] EXCEPT !.hits = @ \cup {sup[s].use}] ELSE sup[s]

Fork(p) ==
    /\ p \in alive /\ born + faults < Bound
    /\ born' = born + 1 /\ alive' = alive \cup {born + 1}
    /\ parent' = [parent EXCEPT ![born + 1] = p]
    /\ UNCHANGED <<contained, exit, uncollected, sup, message, look, caller, answer, faults, history>>

Quit(p) ==
    /\ p \in alive
    /\ \E how \in (IF p = Command THEN {"exited", "crashed"} ELSE {"exited"}) : End({p}, how)
    /\ sup' = [s \in Supervisors |-> Hit(s, {p})]
    /\ UNCHANGED <<contained, message, look, caller, answer, faults, history>>

-----------------------------------------------------------------------------
(* _LinuxDescendantSupervisor *)

Put(s, new) == sup' = [sup EXCEPT ![s] = new]

\* Wrong: the handler leaves without terminating what is tracked.
InterruptedBare(s) == IF sup[s].pc \in {"exited", "killed"} THEN sup[s] ELSE Idle("respond", {})

\* The handler of SIGTERM raises.  The body is left through __exit__, which terminates
\* what is tracked; from __exit__ itself or before track() nothing is terminated any more.
Interrupted(s) ==
    LET me == sup[s]
    IN  IF me.pc \in {"exited", "killed"} THEN me
        ELSE IF me.pc = "respond" THEN Idle("killed", {})
        ELSE Leaving(IF me.leaving THEN {} ELSE me.fds, "failure")

BreaksOff(s) == ~Gone(s) /\ (sup[s].leaving \/ (sup[s].fds = {} /\ sup[s].pc # "launch"))

\* discover: the root and, of the supervisor's children, those it has not had before.
Scan(s, use) ==
    [sup[s] EXCEPT !.pc = "scan", !.use = use, !.seen = {},
                   !.pending = {IF s = Helper THEN Command ELSE Helper} \cup Children(s)]

\* One process is tracked and its children are read.  (If it exits between the two, it is
\* found exited and its children have been handed on: as if it had exited just before.)
Visit(s, p) ==
    /\ sup[s].pc = "scan" /\ p \in sup[s].pending
    /\ LET seen == sup[s].seen \cup {p}
       IN  Put(s, [sup[s] EXCEPT
                      !.pending = (@ \cup Children(p)) \ seen, !.seen = seen,
                      !.fds = IF Runs(p) \/ (p = Command /\ uncollected) THEN @ \cup {p} ELSE @])
    /\ UNCHANGED <<contained, tree, message, look, caller, answer, faults, history>>

Scanned(s) == sup[s].pc = "scan" /\ sup[s].pending = {}

\* Wrong: the cleanup deadline is never looked at.
RoundForever(s) ==
    /\ sup[s].pc = "stop"
    /\ Put(s, [Scan(s, "first") EXCEPT !.hits = {}])
    /\ UNCHANGED <<contained, tree, message, look, caller, answer, faults, history>>

\* terminate: another round of _wait_for_exit, or its deadline has passed.
Round(s) ==
    /\ sup[s].pc = "stop" /\ sup[s].round < Rounds
    /\ Put(s, [Scan(s, "first") EXCEPT !.hits = {}])
    /\ UNCHANGED <<contained, tree, message, look, caller, answer, faults, history>>

Expire(s) ==
    /\ sup[s].pc = "stop" /\ sup[s].round > 0
    /\ IF sup[s].phase = "TERM"
       THEN Put(s, [sup[s] EXCEPT !.phase = "KILL", !.round = 0]) /\ UNCHANGED gaveUp
       ELSE /\ gaveUp' = gaveUp \cup {s}
            /\ Put(s, Leaving(IF sup[s].leaving THEN {} ELSE sup[s].fds, "failure"))
    /\ UNCHANGED <<contained, tree, message, look, caller, answer, faults, slipped, loose>>

\* After a discover() of terminate, exited processes are waited for and dropped.
Remaining(s) == {p \in sup[s].fds : Runs(p)}
Collected(s) == uncollected /\ ~(s = Helper /\ Command \in sup[s].fds)

\* Wrong: one scan that finds nothing is enough.
LookAgainNever(s) ==
    /\ Scanned(s) /\ sup[s].use = "first" /\ Remaining(s) = {}
    /\ Put(s, [Idle(IF sup[s].leaving THEN "respond" ELSE "conclude", {})
                  EXCEPT !.result = sup[s].result])
    /\ uncollected' = Collected(s)
    /\ UNCHANGED <<contained, alive, born, parent, exit, message, look, caller, answer, faults, history>>

\* If none is left there is a second look ...
LookAgain(s) ==
    /\ Scanned(s) /\ sup[s].use = "first" /\ Remaining(s) = {}
    /\ Put(s, [Scan(s, "second") EXCEPT !.fds = {}])
    /\ uncollected' = Collected(s)
    /\ UNCHANGED <<contained, alive, born, parent, exit, message, look, caller, answer, faults, history>>

\* ... and only if that finds none either is the tree gone.
Finish(s) ==
    /\ Scanned(s) /\ sup[s].use = "second" /\ Remaining(s) = {}
    /\ Put(s, [Idle(IF sup[s].leaving THEN "respond" ELSE "conclude", {})
                  EXCEPT !.result = sup[s].result])
    /\ uncollected' = Collected(s)
    /\ slipped' = IF sup[s].hits = {"first", "second"} THEN slipped \cup {s} ELSE slipped \ {s}
    /\ UNCHANGED <<contained, alive, born, parent, exit, message, look, caller, answer, faults,
                   gaveUp, loose>>

\* Otherwise every tracked process is signalled.  SIGTERM may be ignored, SIGKILL may not.
Signal(s) ==
    /\ Scanned(s) /\ sup[s].use # "watch" /\ Remaining(s) # {}
    /\ LET me     == [Idle("stop", Remaining(s)) EXCEPT !.phase = sup[s].phase, !.leaving = sup[s].leaving,
                         !.round = sup[s].round + 1, !.result = sup[s].result]
           target == Remaining(s) \cap {Helper}
           dying  == {q \in target : sup[q].pc = "respond"}
           Below(new) == [q \in Supervisors |-> IF q = s THEN me ELSE IF q \in target THEN new
                                                ELSE sup[q]]
       IN  IF sup[s].phase = "TERM"
           THEN /\ \E S \in SUBSET (Remaining(s) \cap Tasks) : End(S \cup dying, "terminated")
                /\ sup' = Below(Interrupted(Helper))
                /\ loose' = (loose \/ (target # dying /\ BreaksOff(Helper)))
           ELSE /\ End(Remaining(s), "terminated")
                /\ sup' = Below(Idle("killed", {})) /\ UNCHANGED loose
    /\ UNCHANGED <<contained, message, look, caller, answer, faults, slipped, gaveUp>>

\* A supervisor ends.  bwrap and the helper end together; a helper whose guardian ends is
\* sent SIGTERM, and if it has left its cleanup it just dies of that.
Taken(s) ==
    {s} \cup (IF contained THEN {q \in Supervisors : ~Gone(q)}
              ELSE IF s = Outer /\ sup[Helper].pc = "respond" THEN {Helper} ELSE {})

Leave(s, pc) ==
    /\ End(Taken(s), "terminated")
    /\ sup' = [q \in Supervisors |->
                  IF q = s THEN Idle(pc, {})
                  ELSE IF q \in Taken(s) THEN Idle("killed", {})
                  ELSE IF q = Helper THEN Interrupted(Helper) ELSE Hit(q, Taken(s))]
    /\ loose' = (loose \/ (s = Outer /\ Helper \notin Taken(s) /\ BreaksOff(Helper)))

\* The response is sent, and the supervisor exits.
Respond(s) ==
    /\ sup[s].pc = "respond" /\ Leave(s, "exited")
    /\ message' = [message EXCEPT ![s] = sup[s].result]
    /\ UNCHANGED <<contained, look, caller, answer, faults, slipped, gaveUp>>

-----------------------------------------------------------------------------
(* _run_supervised_command_local, in the helper *)

Launch ==
    /\ sup[Helper].pc = "launch"
    /\ \/ /\ faults < Bound
          /\ born' = 1 /\ alive' = {Command} /\ parent' = [parent EXCEPT ![Command] = Helper]
          /\ Put(Helper, Idle("track", {})) /\ UNCHANGED <<exit, uncollected>>
       \/ /\ Put(Helper, Leaving({}, "launch_error"))
          /\ UNCHANGED tree
    /\ UNCHANGED <<contained, message, look, caller, answer, faults, history>>

\* track may find that pidfds cannot be had.
Track ==
    /\ sup[Helper].pc = "track"
    /\ \/ Put(Helper, Idle("poll", {Command}))
       \/ Put(Helper, Idle("untracked", {}))
    /\ UNCHANGED <<contained, tree, message, look, caller, answer, faults, history>>

\* terminate_untracked: children of the helper are killed until there are none.
KillUntracked ==
    /\ sup[Helper].pc = "untracked"
    /\ \/ /\ Children(Helper) # {} /\ End(Children(Helper), "terminated")
          /\ UNCHANGED sup
       \/ Children(Helper) = {} /\ Put(Helper, Leaving({}, "failure")) /\ UNCHANGED tree
    /\ UNCHANGED <<contained, message, look, caller, answer, faults, history>>

\* Popen.poll: a status that someone else has collected counts as 0.
Polled ==
    IF known # "none" \/ Command \in alive THEN known
    ELSE IF uncollected THEN exit ELSE "assumed"

Poll ==
    /\ sup[Helper].pc = "poll"
    /\ known' = Polled /\ uncollected' = (uncollected /\ Command \in alive)
    /\ Put(Helper, IF Command \in alive THEN Scan(Helper, "watch")
                   ELSE [sup[Helper] EXCEPT !.pc = "stop"])
    /\ UNCHANGED <<contained, alive, born, parent, exit, message, trouble, late,
                   caller, answer, faults, history>>

\* BoundedProcessIO.observe: nothing yet, or there is trouble with the output ...
Observe ==
    /\ Scanned(Helper) /\ sup[Helper].use = "watch"
    /\ \/ Put(Helper, Idle("poll", sup[Helper].fds)) /\ UNCHANGED trouble
       \/ trouble' \in {"overflow", "reader"} /\ Put(Helper, Idle("stop", sup[Helper].fds))
    /\ UNCHANGED <<contained, tree, message, known, late, caller, answer, faults, history>>

\* ... or the command's time is over.
Deadline ==
    /\ Scanned(Helper) /\ sup[Helper].use = "watch"
    /\ late' = TRUE /\ Put(Helper, Idle("stop", sup[Helper].fds))
    /\ UNCHANGED <<contained, tree, message, known, trouble, caller, answer, faults, history>>

\* Wrong: the status is believed before the output is known to be complete.
VerdictHasty(drained) ==
    IF ~drained \/ trouble' = "reader" THEN "failure"
    ELSE IF late THEN "timeout"
    ELSE IF known' \in {"crashed", "terminated"} THEN "abnormal"
    ELSE "completed"

\* How the call is classified when the tree is gone.
Verdict(drained) ==
    IF ~drained \/ trouble' = "reader" THEN "failure"
    ELSE IF late THEN "timeout"
    ELSE IF trouble' = "overflow" THEN "overflow"
    ELSE IF known' \in {"crashed", "terminated"} THEN "abnormal"
    ELSE "completed"

\* The output is drained, unless a survivor holds it open; all of it may be too much.
Conclude ==
    /\ sup[Helper].pc = "conclude"
    /\ known' = Polled /\ UNCHANGED uncollected
    /\ trouble' \in (IF trouble = "none" THEN {"none", "overflow", "reader"} ELSE {trouble})
    /\ \E drained \in (IF alive = {} THEN {TRUE} ELSE BOOLEAN) :
          LET verdict == Verdict(drained)
          IN  \E result \in {verdict} \cup (IF verdict = "completed" THEN {"invalid_utf8"} ELSE {}) :
                 Put(Helper, Leaving({}, result))
    /\ UNCHANGED <<contained, alive, born, parent, exit, message, late,
                   caller, answer, faults, history>>

-----------------------------------------------------------------------------
(* The guardian and the caller *)

\* The response that s gets from below: nothing counts if the sender did not end well.
Received(s) == IF sup[s].pc = "exited" /\ message[s] # "none" THEN message[s] ELSE "failure"

\* _proxy_request: the helper has answered and exited, or is gone.
Relay ==
    /\ ~contained /\ sup[Outer].pc = "relay" /\ Gone(Helper)
    /\ Put(Outer, Leaving({Helper}, Received(Helper)))
    /\ UNCHANGED <<contained, tree, message, look, caller, answer, faults, history>>

\* run_supervised_command: the response and the exit of the process it started.
Receive ==
    /\ caller \in {"waiting", "stopping"} /\ Gone(Outer)
    /\ caller' = "answered"
    /\ answer' = IF caller = "stopping" THEN "failure"
                 ELSE Received(IF contained THEN Helper ELSE Outer)
    /\ UNCHANGED <<contained, tree, sup, message, look, faults, history>>

\* SIGTERM to the process the caller started: by _terminate_helper, or as its parent's
\* death signal.  bwrap just dies, and so does a guardian that has left its cleanup.
Terminate ==
    IF ~Gone(Outer) /\ (contained \/ sup[Outer].pc = "respond")
    THEN Leave(Outer, "killed")
    ELSE /\ Put(Outer, Interrupted(Outer)) /\ loose' = (loose \/ BreaksOff(Outer))
         /\ UNCHANGED tree

\* SIGKILL to a supervisor.
Kill(s) == ~Gone(s) /\ Leave(s, "killed")

Fault == born + faults < Bound /\ faults' = faults + 1

\* The time for the whole call is over, and later that for the process to end.
Stall ==
    /\ Fault
    /\ \/ caller = "waiting" /\ caller' = "stopping" /\ Terminate
       \/ caller = "stopping" /\ UNCHANGED caller /\ Kill(Outer)
    /\ UNCHANGED <<contained, message, look, answer, slipped, gaveUp>>

CallerDies ==
    /\ Fault /\ caller \in {"waiting", "stopping"} /\ caller' = "dead" /\ Terminate
    /\ UNCHANGED <<contained, message, look, answer, slipped, gaveUp>>

SupervisorKilled(s) ==
    /\ Fault /\ Kill(s)
    /\ UNCHANGED <<contained, message, look, caller, answer, slipped, gaveUp>>

-----------------------------------------------------------------------------
Supervise(s) ==
    \/ \E p \in Tasks \cup Supervisors : Visit(s, p)
    \/ Round(s) \/ Expire(s) \/ LookAgain(s) \/ Finish(s) \/ Signal(s) \/ Respond(s)

Help == Launch \/ Track \/ KillUntracked \/ Poll \/ Observe \/ Deadline \/ Conclude

Next ==
    \/ \E p \in Tasks : Fork(p) \/ Quit(p)
    \/ \E s \in Supervisors : Supervise(s) \/ SupervisorKilled(s)
    \/ Help \/ Relay \/ Receive
    \/ Stall \/ CallerDies

\* The supervisors and the caller run, and time passes; what the command does is its own
\* affair.
Spec ==
    /\ Init /\ [][Next]_vars
    /\ WF_vars(Supervise(Helper) \/ Help) /\ WF_vars(Supervise(Outer) \/ Relay)
    /\ SF_vars(Deadline) /\ WF_vars(Receive)

-----------------------------------------------------------------------------
(* Properties *)

\* Every variable has its type.
TypeOK ==
    /\ contained \in BOOLEAN /\ alive \subseteq Tasks /\ born \in 0 .. Bound
    /\ parent \in [Tasks -> Tasks \cup Supervisors \cup {Reaping}]
    /\ exit \in {"none", "exited", "crashed", "terminated"} /\ uncollected \in BOOLEAN
    /\ \A s \in Supervisors :
          /\ sup[s].fds \subseteq Tasks \cup {Helper}
          /\ sup[s].round \in 0 .. Rounds /\ sup[s].phase \in {"TERM", "KILL"}
          /\ sup[s].result \in Answers /\ message[s] \in Answers \cup {"none"}
          /\ sup[s].use \in {"none", "watch", "first", "second"}
    /\ known \in {"none", "exited", "crashed", "terminated", "assumed"}
    /\ trouble \in {"none", "overflow", "reader"} /\ late \in BOOLEAN
    /\ caller \in {"waiting", "stopping", "answered", "dead"}
    /\ answer \in Answers \cup {"none"} /\ faults \in 0 .. Bound

\* When a call returns anything but a failure of supervision, nothing of the command is
\* left, unless a process slipped through four scans in a row (tests/test_supervised_command.py:
\* test_trusted_host_timeout_kills_detached_descendant_before_mutation).
NothingOutlives ==
    caller = "answered" /\ answer # "failure" /\ alive # {} => slipped = Supervisors

\* "completed" and "abnormal_exit" are reported only for a command that ended by itself,
\* and in that way: neither a signal of the supervisor nor a status lost to waitpid is
\* taken for the command's own exit.
ReportedExitIsReal ==
    /\ answer \in {"completed", "invalid_utf8"} => exit = "exited"
    /\ answer = "abnormal" => exit = "crashed"

\* The caller is always answered, whatever the command or a killed supervisor does.
CallReturns == caller # "dead" ~> caller \in {"answered", "dead"}

\* Once the caller has gone or been answered, what is left of the command dies, even if a
\* supervisor was killed (test_trusted_helper_sigkill_cannot_orphan_detached_descendants,
\* test_helper_cleans_detached_descendants_after_parent_death), unless a cleanup deadline
\* passed, a cleanup was broken off, or a process slipped through.
TreeDies ==
    caller \in {"answered", "dead"} ~>
        \/ alive = {} \/ gaveUp # {} \/ loose
        \/ \A s \in Supervisors : s \in slipped \/ sup[s].pc = "killed"

\* Every call comes to an end, and so does what it ran.
CallEnds == CallReturns /\ TreeDies
=============================================================================
