---------------------------- MODULE BrokerProofs ----------------------------
(***************************************************************************)
(* Proofs about Broker: it is well typed and its cleanup fails closed, for *)
(* any number of attempts of the watchdog and any number of signals and    *)
(* killed processes.                                                       *)
(***************************************************************************)
EXTENDS Broker, TLAPS

\* Until the client runs there is nothing to remove, and a client that ended by itself, or
\* a container that runs, leaves nothing that the runtime has still to do.
RuntimeOK ==
    /\ pc \in {"prepare", "arm", "arming", "run"} => client = "none" /\ outcome = "none"
    /\ client = "none" => request = "none" /\ box = "absent"
    /\ client = "ended" \/ box = "running" => request = "none"

\* While the broker has not told it otherwise, the watchdog is armed or was killed; it has
\* no other reason to be through than that there was nothing to remove, or that the
\* container was looked for.
WatchdogOK ==
    /\ pc \in {"prepare", "arm"} => watchdog = "none"
    /\ pc = "arming" => watchdog \in {"starting", "armed", "killed"} /\ line = "open"
    /\ pc \in {"run", "running", "remove", "absent", "disarm"} =>
          watchdog \in {"armed", "killed"} /\ line = "open"
    /\ watchdog = "starting" => pc \in {"arming", "dead"}
    /\ pc # "dead" /\ watchdog \in {"done", "disarmed"} => client = "none" \/ looked

\* What the broker may rely on for the outcome it is about to end with.
OutcomeOK ==
    /\ outcome = "completed" => client = "ended"
    /\ outcome = "failed" => client # "alive"
    /\ pc = "trigger" => outcome \in {"error", "stopped"}
    /\ pc \in {"disarm", "disarming", "answered"} => client = "none" \/ looked
    /\ pc \in {"disarm", "disarming", "answered"} /\ outcome \in {"completed", "failed"}
          /\ client = "ended" => box = "absent"
    /\ pc = "answered" => outcome \in {"completed", "failed"}
    /\ pc = "failed" => client = "none" \/ looked \/ watchdog \in {"gave_up", "killed"}

IInv == TypeOK /\ RuntimeOK /\ WatchdogOK /\ OutcomeOK
-----------------------------------------------------------------------------

LEMMA Initially == Init => IInv
<1> SUFFICES ASSUME Init PROVE IInv
  OBVIOUS
<1>1. TypeOK
  <2>1. cidfile \in BOOLEAN /\ looked \in BOOLEAN
    BY DEF Init
  <2>2. tries \in 0 .. MaxTries /\ faults \in 0 .. MaxFaults
    BY BrokerConstants DEF Init
  <2>. QED BY <2>1, <2>2 DEF Init, TypeOK, Ends
<1>2. RuntimeOK
  BY DEF Init, RuntimeOK
<1>3. WatchdogOK
  BY DEF Init, WatchdogOK
<1>4. OutcomeOK
  BY DEF Init, OutcomeOK
<1>. QED BY <1>1, <1>2, <1>3, <1>4 DEF IInv

\* One step per action; the four parts need each other, so each is shown from all of them.
LEMMA Preserved == IInv /\ [Next]_vars => IInv'
<1> SUFFICES ASSUME IInv, [Next]_vars PROVE IInv'
  OBVIOUS
<1> USE BrokerConstants
  DEF IInv, TypeOK, RuntimeOK, WatchdogOK, OutcomeOK, Ends, runtime, guard
<1>1. CASE Create
  BY <1>1 DEF Create
<1>2. CASE Start
  BY <1>2 DEF Start
<1>3. CASE Refuse
  BY <1>3 DEF Refuse
<1>4. CASE Exit
  BY <1>4 DEF Exit
<1>5. CASE ClientDies
  BY <1>5 DEF ClientDies
<1>6. CASE Prepare
  BY <1>6 DEF Prepare
<1>7. CASE Arm
  BY <1>7 DEF Arm
<1>8. CASE Armed
  BY <1>8 DEF Armed
<1>9. CASE Run
  BY <1>9 DEF Run
<1>10. CASE Returned
  BY <1>10 DEF Returned
<1>11. CASE Remove
  <2>1. TypeOK'
    <3>1. looked' \in BOOLEAN
      BY <1>11 DEF Remove, Removed, Kept
    <3>. QED BY <1>11, <3>1 DEF Remove, Removed, Kept
  <2>2. RuntimeOK'
    BY <1>11 DEF Remove, Removed, Kept
  <2>3. WatchdogOK'
    BY <1>11 DEF Remove, Removed, Kept
  <2>4. OutcomeOK'
    BY <1>11 DEF Remove, Removed, Kept
  <2>. QED BY <2>1, <2>2, <2>3, <2>4
<1>12. CASE ConfirmAbsent
  <2>1. TypeOK'
    BY <1>12 DEF ConfirmAbsent, Removed, Kept
  <2>2. RuntimeOK'
    BY <1>12 DEF ConfirmAbsent, Removed, Kept
  <2>3. WatchdogOK'
    BY <1>12 DEF ConfirmAbsent, Removed, Kept
  <2>4. OutcomeOK'
    BY <1>12 DEF ConfirmAbsent, Removed, Kept
  <2>. QED BY <2>1, <2>2, <2>3, <2>4
<1>13. CASE Disarm
  BY <1>13 DEF Disarm
<1>14. CASE Disarmed
  BY <1>14 DEF Disarmed, Ended
<1>15. CASE Triggered
  BY <1>15 DEF Triggered, Ended
<1>16. CASE Watch
  BY <1>16 DEF Watch
<1>17. CASE HearDisarm
  BY <1>17 DEF HearDisarm
<1>18. CASE Orphaned
  BY <1>18 DEF Orphaned
<1>19. CASE Clean
  <2>1. TypeOK'
    <3>1. looked' \in BOOLEAN
      BY <1>19 DEF Clean, Removed, Kept
    <3>. QED BY <1>19, <3>1 DEF Clean, Removed, Kept
  <2>2. RuntimeOK'
    BY <1>19 DEF Clean, Removed, Kept
  <2>3. WatchdogOK'
    BY <1>19 DEF Clean, Removed, Kept
  <2>4. OutcomeOK'
    BY <1>19 DEF Clean, Removed, Kept
  <2>. QED BY <2>1, <2>2, <2>3, <2>4
<1>20. CASE GiveUp
  BY <1>20 DEF GiveUp
<1>21. CASE Interrupt
  BY <1>21 DEF Interrupt, Fault
<1>22. CASE BrokerKilled
  BY <1>22 DEF BrokerKilled, Fault
<1>23. CASE WatchdogKilled
  BY <1>23 DEF WatchdogKilled, Fault
<1>24. CASE UNCHANGED vars
  BY <1>24 DEF vars
<1>. QED
  BY <1>1, <1>2, <1>3, <1>4, <1>5, <1>6, <1>7, <1>8, <1>9, <1>10, <1>11, <1>12, <1>13, <1>14, <1>15, <1>16, <1>17, <1>18, <1>19, <1>20, <1>21, <1>22, <1>23, <1>24 DEF Next, Runtime, Broke, Guard

LEMMA Inductive == Spec => []IInv
BY Initially, Preserved, PTL DEF Spec

\* Every reachable state of the broker is well typed (TypeOK).
THEOREM TypeCorrect == Spec => []TypeOK
<1>1. IInv => TypeOK
  BY DEF IInv
<1>. QED BY <1>1, Inductive, PTL

\* However often the watchdog tries and whatever is signalled or killed: a result is given
\* only without a container, unless the runtime made it after rm had found none, and an error
\* leaves one only if the watchdog could not remove it either (FailsClosed).
THEOREM CleanupFailsClosed == Spec => []FailsClosed
<1>1. IInv => FailsClosed
  BY DEF IInv, TypeOK, RuntimeOK, OutcomeOK, FailsClosed
<1>. QED BY <1>1, Inductive, PTL
=============================================================================
