------------------------------- MODULE Broker -------------------------------
(***************************************************************************)
(* One Candidate command in a container (candidate_broker.py,              *)
(* candidate_capability.py, container_cleanup_watchdog.py).                *)
(*                                                                         *)
(* The broker looks for a runtime and the image, starts a watchdog, and    *)
(* only when that is armed runs the client of the container runtime under  *)
(* supervision (see Supervision, whose outcomes Returned has).  However    *)
(* that ends, the broker removes the container and disarms the watchdog;   *)
(* if either fails, or if the broker dies, the watchdog removes it.        *)
(*                                                                         *)
(* The runtime is a daemon: what a client asked for may still be done, or  *)
(* may be lost, when the client has been killed.  Without a container the  *)
(* Candidate runs in bwrap, and Supervision is all there is.               *)
(***************************************************************************)
EXTENDS Naturals

CONSTANTS
    MaxTries,     \* bound: attempts of the watchdog before its deadline
    MaxFaults     \* bound: signals and killed processes

ASSUME BrokerConstants == MaxTries \in Nat \ {0} /\ MaxFaults \in Nat

Ends == {"answered", "failed", "stopped", "dead"}

VARIABLES
    pc,         \* the broker's next step, or how it ended
    outcome,    \* the result or the exception it is about to end with
    client,     \* docker run: "none", "alive", "ended" by itself, "killed"
    request,    \* what the runtime was asked and has not done: "none", "create", "start"
    box,        \* the container: "absent", "created", "running", "exited"
    cidfile,
    watchdog,   \* "none", "starting", "armed", "disarmed", "cleaning", "done", "gave_up", "killed"
    line,       \* the channel to it: "none", "open", "disarm" (is on its way), "closed"
    tries,
    faults,
    looked      \* history: the container was once removed or found absent

runtime == <<request, box, cidfile>>
guard   == <<watchdog, line, tries>>
vars    == <<pc, outcome, client, runtime, guard, faults, looked>>

Init ==
    /\ pc = "prepare" /\ outcome = "none"
    /\ client = "none" /\ request = "none" /\ box = "absent" /\ cidfile = FALSE
    /\ watchdog = "none" /\ line = "none" /\ tries = 0
    /\ faults = 0 /\ looked = FALSE

-----------------------------------------------------------------------------
(* The container runtime and its client *)

\* The runtime does what it was asked.  A living client goes on to its next request.
Create ==
    /\ request = "create" /\ box' = "created"
    /\ cidfile' = (client = "alive")
    /\ request' = IF client = "alive" THEN "start" ELSE "none"
    /\ UNCHANGED <<pc, outcome, client, guard, faults, looked>>

Start ==
    /\ request = "start" /\ request' = "none"
    /\ box' = IF box = "created" THEN "running" ELSE box
    /\ UNCHANGED <<pc, outcome, client, cidfile, guard, faults, looked>>

\* It refuses, or forgets, what it was asked, or the container is gone before it starts.
Refuse ==
    /\ request # "none" /\ request' = "none"
    /\ client' = IF client = "alive" THEN "ended" ELSE client
    /\ UNCHANGED <<pc, outcome, box, cidfile, guard, faults, looked>>

\* The Candidate command ends, and so does the client that waits for it.
Exit ==
    /\ box = "running" /\ box' = "exited"
    /\ client' = IF client = "alive" THEN "ended" ELSE client
    /\ UNCHANGED <<pc, outcome, request, cidfile, guard, faults, looked>>

\* Nobody supervises a client whose broker is gone; its helper kills it.
ClientDies ==
    /\ client = "alive" /\ (pc \in Ends \/ outcome = "unsupervised")
    /\ client' = "killed"
    /\ UNCHANGED <<pc, outcome, runtime, guard, faults, looked>>

\* rm --force --volumes: the container is removed, is not there (of which the runtimes
\* make a success or a failure), or could not be removed.
Removed == box' = "absent" /\ looked' = TRUE
Kept    == UNCHANGED <<box, looked>>

-----------------------------------------------------------------------------
(* run_candidate *)

\* Exact commit, runtime, image and snapshot: each may be refused.
Prepare ==
    /\ pc = "prepare"
    /\ \/ pc' = "arm" /\ UNCHANGED outcome
       \/ pc' = "answered" /\ outcome' = "failed"
       \/ pc' = "failed" /\ outcome' = "error"
    /\ UNCHANGED <<client, runtime, guard, faults, looked>>

\* _start_container_cleanup_watchdog
Arm ==
    /\ pc = "arm"
    /\ \/ watchdog' = "starting" /\ line' = "open" /\ pc' = "arming" /\ UNCHANGED outcome
       \/ pc' = "failed" /\ outcome' = "error" /\ UNCHANGED <<watchdog, line>>
    /\ UNCHANGED <<client, runtime, tries, faults, looked>>

Armed ==
    /\ pc = "arming"
    /\ \/ watchdog = "armed" /\ pc' = "run" /\ UNCHANGED <<outcome, guard>>
       \/ /\ pc' = "failed" /\ outcome' = "error"
          /\ watchdog' = "killed" /\ line' = "closed" /\ UNCHANGED tries
    /\ UNCHANGED <<client, runtime, faults, looked>>

\* The client runs under supervision, or could not be launched: then nothing is removed.
Run ==
    /\ pc = "run"
    /\ \/ client' = "alive" /\ request' = "create" /\ pc' = "running" /\ UNCHANGED outcome
       \/ pc' = "disarm" /\ outcome' = "failed" /\ UNCHANGED <<client, request>>
    /\ UNCHANGED <<box, cidfile, guard, faults, looked>>

\* The supervised call returns: the client ended, or it was killed (timeout, overflow, abnormal
\* exit), or the supervision failed and the client may be there still.
Returned ==
    /\ pc = "running" /\ pc' = "remove"
    /\ \/ client = "ended" /\ outcome' = (IF cidfile THEN "completed" ELSE "failed") /\ UNCHANGED client
       \/ client = "alive" /\ client' = "killed" /\ outcome' = "failed"
       \/ outcome' = "unsupervised" /\ UNCHANGED client
    /\ UNCHANGED <<runtime, guard, faults, looked>>

\* Wrong: that rm was run is enough.
RemoveHopeful ==
    /\ pc = "remove" /\ pc' = "disarm" /\ (Removed \/ Kept)
    /\ UNCHANGED <<outcome, client, request, cidfile, guard, faults>>

\* _remove_container: if rm fails, only the confirmed absence of the name is as good.
Remove ==
    /\ pc = "remove"
    /\ \/ Removed /\ pc' = "disarm" /\ UNCHANGED outcome
       \/ box = "absent" /\ pc' \in {"disarm", "absent"} /\ Removed /\ UNCHANGED outcome
       \/ Kept /\ pc' = "absent" /\ UNCHANGED outcome
    /\ UNCHANGED <<client, request, cidfile, guard, faults>>

ConfirmAbsent ==
    /\ pc = "absent"
    /\ \/ box = "absent" /\ Removed /\ pc' = "disarm" /\ UNCHANGED <<outcome, line>>
       \/ Kept /\ pc' = "trigger" /\ outcome' = "error" /\ line' = "closed"
    /\ UNCHANGED <<client, request, cidfile, watchdog, tries, faults>>

Disarm ==
    /\ pc = "disarm" /\ pc' = "disarming" /\ line' = "disarm"
    /\ UNCHANGED <<outcome, client, runtime, watchdog, tries, faults, looked>>

\* How the broker ends, when the watchdog is no more.
Ended == IF outcome \in {"completed", "failed"} THEN "answered"
         ELSE IF outcome = "stopped" THEN "stopped" ELSE "failed"

Disarmed ==
    /\ pc = "disarming"
    /\ \/ watchdog = "disarmed" /\ pc' = Ended /\ UNCHANGED outcome
       \/ watchdog = "killed" /\ pc' = "trigger" /\ outcome' = "error"
    /\ line' = "closed"
    /\ UNCHANGED <<client, runtime, watchdog, tries, faults, looked>>

\* _trigger_container_cleanup_watchdog: its end is waited for, or it is killed.
Triggered ==
    /\ pc = "trigger" /\ pc' = Ended
    /\ \/ watchdog \in {"disarmed", "done", "gave_up", "killed"} /\ UNCHANGED watchdog
       \/ watchdog = "cleaning" /\ tries = MaxTries /\ watchdog' = "killed"
    /\ UNCHANGED <<outcome, client, runtime, line, tries, faults, looked>>

-----------------------------------------------------------------------------
(* The watchdog *)

Watch ==
    /\ watchdog = "starting"
    /\ watchdog' = IF pc = "arming" THEN "armed" ELSE "done"
    /\ UNCHANGED <<pc, outcome, client, runtime, line, tries, faults, looked>>

\* Told to stop, it says so; if nobody hears that, it cleans up nevertheless.
HearDisarm ==
    /\ watchdog = "armed" /\ line = "disarm"
    /\ watchdog' = IF pc = "disarming" THEN "disarmed" ELSE "cleaning"
    /\ UNCHANGED <<pc, outcome, client, runtime, line, tries, faults, looked>>

\* Wrong: the end of the channel is as good as a disarm.
OrphanedQuietly ==
    /\ watchdog = "armed" /\ line = "closed" /\ watchdog' = "disarmed"
    /\ UNCHANGED <<pc, outcome, client, runtime, line, tries, faults, looked>>

\* The channel ends: the broker closed it, or has died.
Orphaned ==
    /\ watchdog = "armed" /\ line = "closed" /\ watchdog' = "cleaning"
    /\ UNCHANGED <<pc, outcome, client, runtime, line, tries, faults, looked>>

\* Wrong: the deadline is never looked at.
CleanForever ==
    /\ watchdog = "cleaning" /\ tries' = tries + 1
    /\ \/ Removed /\ watchdog' = "done"
       \/ Kept /\ UNCHANGED watchdog
    /\ UNCHANGED <<pc, outcome, client, request, cidfile, line, faults>>

\* _cleanup: rm again and again until it succeeds or the time is over.
Clean ==
    /\ watchdog = "cleaning" /\ tries < MaxTries /\ tries' = tries + 1
    /\ \/ Removed /\ watchdog' = "done"
       \/ box = "absent" /\ Removed /\ UNCHANGED watchdog
       \/ Kept /\ UNCHANGED watchdog
    /\ UNCHANGED <<pc, outcome, client, request, cidfile, line, faults>>

GiveUp ==
    /\ watchdog = "cleaning" /\ tries = MaxTries /\ watchdog' = "gave_up"
    /\ UNCHANGED <<pc, outcome, client, runtime, line, tries, faults, looked>>

-----------------------------------------------------------------------------
(* Signals and deaths *)

Fault == faults < MaxFaults /\ faults' = faults + 1

\* SIGTERM raises in the broker wherever it is.  While the watchdog is armed or disarmed the
\* exception is turned into a CandidateBrokerError, and so is answered like any other.
Interrupt ==
    /\ Fault
    /\ \/ /\ pc \in {"prepare", "arm", "run", "trigger"}
          /\ pc' = "stopped" /\ outcome' = "stopped" /\ line' = "closed"
          /\ UNCHANGED <<client, watchdog>>
       \/ /\ pc = "arming"
          /\ pc' = "failed" /\ outcome' = "error" /\ line' = "closed" /\ watchdog' = "killed"
          /\ UNCHANGED client
       \/ /\ pc = "running"
          /\ pc' = "remove" /\ outcome' = "stopped"
          /\ client' = IF client = "alive" THEN "killed" ELSE client
          /\ UNCHANGED <<line, watchdog>>
       \/ /\ pc \in {"remove", "absent"}
          /\ pc' = "trigger" /\ outcome' = "stopped" /\ line' = "closed"
          /\ UNCHANGED <<client, watchdog>>
       \/ /\ pc \in {"disarm", "disarming"}
          /\ pc' = "trigger" /\ outcome' = "error"
          /\ line' = IF pc = "disarming" THEN line ELSE "closed"
          /\ UNCHANGED <<client, watchdog>>
    /\ UNCHANGED <<runtime, tries, looked>>

BrokerKilled ==
    /\ Fault /\ pc \notin Ends /\ pc' = "dead"
    /\ line' = IF line = "open" THEN "closed" ELSE line
    /\ UNCHANGED <<outcome, client, runtime, watchdog, tries, looked>>

WatchdogKilled ==
    /\ Fault /\ watchdog \in {"starting", "armed", "cleaning"} /\ watchdog' = "killed"
    /\ UNCHANGED <<pc, outcome, client, runtime, line, tries, looked>>

-----------------------------------------------------------------------------
Runtime == Create \/ Start \/ Refuse \/ Exit

Broke == \/ Prepare \/ Arm \/ Armed \/ Run \/ Returned
         \/ Remove \/ ConfirmAbsent \/ Disarm \/ Disarmed \/ Triggered

Guard == Watch \/ HearDisarm \/ Orphaned \/ Clean \/ GiveUp

Next ==
    \/ Runtime \/ ClientDies \/ Broke \/ Guard
    \/ Interrupt \/ BrokerKilled \/ WatchdogKilled

\* The broker and the watchdog run; the runtime may take any time, also for rm to succeed.
Spec ==
    /\ Init /\ [][Next]_vars
    /\ WF_vars(Broke) /\ WF_vars(Guard)

-----------------------------------------------------------------------------
(* Properties *)

\* Every variable has its type.
TypeOK ==
    /\ pc \in Ends \cup {"prepare", "arm", "arming", "run", "running", "remove", "absent",
                         "disarm", "disarming", "trigger"}
    /\ outcome \in {"none", "completed", "failed", "unsupervised", "error", "stopped"}
    /\ client \in {"none", "alive", "ended", "killed"}
    /\ request \in {"none", "create", "start"}
    /\ box \in {"absent", "created", "running", "exited"} /\ cidfile \in BOOLEAN
    /\ watchdog \in {"none", "starting", "armed", "disarmed", "cleaning", "done", "gave_up", "killed"}
    /\ line \in {"none", "open", "disarm", "closed"}
    /\ tries \in 0 .. MaxTries /\ faults \in 0 .. MaxFaults /\ looked \in BOOLEAN

\* A result is given only without a container: the cleanup fails closed
\* (tests/test_candidate_broker_cli.py: test_container_timeout_fails_closed_when_forced_cleanup_fails).
\* The one container a result may leave is one the runtime made, for a client that was killed,
\* after rm had found none.  An error leaves one only if the watchdog could not remove it either.
FailsClosed ==
    box # "absent" =>
        /\ pc = "answered" => looked /\ outcome = "failed" /\ client = "killed"
        /\ pc = "failed" => looked \/ watchdog \in {"gave_up", "killed"}

\* A container whose broker is gone is removed
\* (test_container_watchdog_removes_real_docker_container_after_broker_sigkill), unless rm failed
\* until the deadline, the watchdog was killed too, or the container was made after rm found none.
OrphanRemoved ==
    box # "absent" /\ pc \in Ends ~> box = "absent" \/ looked \/ watchdog \in {"gave_up", "killed"}
=============================================================================
