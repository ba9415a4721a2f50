-------------------------- MODULE SupervisionProofs --------------------------
(***************************************************************************)
(* Proofs about Supervision, for any number of processes and of rounds: it *)
(* is well typed, a call that returns a result has left nothing of the     *)
(* command behind, but for a process that slipped through four scans, and  *)
(* the exit it reports is the one the command had.                         *)
(***************************************************************************)
EXTENDS Supervision, TLAPS, WellFoundedInduction

\* The steps of the helper, of the guardian, and those of a scan that terminates.
HelperSteps == {"launch", "track", "untracked", "poll", "scan", "stop", "conclude", "respond",
                "exited", "killed"}
OuterSteps  == {"relay", "scan", "stop", "respond", "exited", "killed"}
Uses        == {"watch", "first", "second"}
Ends(s)     == sup[s].pc = "scan" /\ sup[s].use \in {"first", "second"}

Sups == [pc : HelperSteps \cup OuterSteps, fds : SUBSET (Tasks \cup {Helper}),
         use : Uses \cup {"none"}, pending : SUBSET (Tasks \cup {Helper}),
         seen : SUBSET (Tasks \cup {Helper}), hits : SUBSET Uses, phase : {"TERM", "KILL"},
         round : 0 .. Rounds, leaving : BOOLEAN, result : Answers]

\* What a supervisor knows of the processes it may have below it.
SupsTyped ==
    /\ sup \in [Supervisors -> Sups]
    /\ sup[Helper].pc \in HelperSteps
    /\ sup[Helper].fds \subseteq Tasks /\ sup[Helper].pending \subseteq Tasks
    /\ sup[Outer].pc \in OuterSteps /\ sup[Outer].use # "watch"

Exits == {"none", "exited", "crashed", "terminated"}

TreeTyped ==
    /\ alive \subseteq Tasks /\ born \in 0 .. Bound
    /\ parent \in [Tasks -> Tasks \cup Supervisors \cup {Reaping}]
    /\ exit \in Exits /\ uncollected \in BOOLEAN

StateTyped ==
    /\ contained \in BOOLEAN
    /\ message \in [Supervisors -> Answers \cup {"none"}]
    /\ known \in Exits \cup {"assumed"}
    /\ trouble \in {"none", "overflow", "reader"} /\ late \in BOOLEAN
    /\ caller \in {"waiting", "stopping", "answered", "dead"}
    /\ answer \in Answers \cup {"none"} /\ faults \in 0 .. Bound
    /\ slipped \subseteq Supervisors

\* Whoever is alive has a parent that is, born before it, or one that may have reaped it.
TreeOK ==
    /\ \A t \in alive :
          /\ t <= born
          /\ parent[t] \in Tasks => parent[t] \in alive /\ parent[t] < t
          /\ parent[t] = Helper => ~Gone(Helper)
          /\ parent[t] = Outer => ~Gone(Outer) /\ ~Reaps(Helper)
          /\ parent[t] = Reaping => ~Reaps(Outer) /\ ~Reaps(Helper)
    /\ contained /\ (Gone(Helper) \/ Gone(Outer)) =>
          alive = {} /\ Gone(Helper) /\ Gone(Outer)
    /\ sup[Helper].pc = "launch" => alive = {} /\ exit = "none"

\* A scan has what it looks for before it or tracked, unless that was handed on meanwhile.
\* What the first scan of two has not seen it has not missed.
ScanOK(s) ==
    /\ sup[s].pc = "scan" =>
          /\ sup[s].use # "none" /\ sup[s].pending \cap sup[s].seen = {}
          /\ s = Outer /\ Runs(Helper) => Helper \in sup[s].pending \cup sup[s].fds
          /\ sup[s].use \notin sup[s].hits =>
                \A t \in alive : parent[t] = s => t \in sup[s].pending \cup sup[s].fds
    /\ Ends(s) => sup[s].round < Rounds /\ sup[s].hits \subseteq {"first", "second"}
    /\ Ends(s) /\ sup[s].use = "second" =>
          /\ s = Outer => Gone(Helper)
          /\ "first" \notin sup[s].hits => alive = {}

\* A supervisor is through with the tree only behind two scans that found nothing.
Cleared(s) == alive = {} \/ s \in slipped
Good(a)    == a \notin {"none", "failure"}

HelperOK ==
    /\ sup[Helper].pc = "conclude" => Cleared(Helper) /\ ~sup[Helper].leaving
    /\ Good(sup[Helper].result) => Cleared(Helper) /\ sup[Helper].pc = "respond"
    /\ message[Helper] # "none" => Gone(Helper)
    /\ Good(message[Helper]) => Cleared(Helper)

OuterOK ==
    /\ sup[Outer].pc \in {"scan", "stop"} => sup[Outer].leaving
    /\ sup[Outer].pc \in {"scan", "stop", "respond"} => ~contained
    /\ Good(sup[Outer].result) => Gone(Helper) /\ sup[Outer].result = message[Helper]
    /\ sup[Outer].pc = "respond" /\ Good(sup[Outer].result) => Cleared(Outer)
    /\ message[Outer] # "none" => Gone(Outer)
    /\ Good(message[Outer]) => Cleared(Outer) /\ message[Outer] = message[Helper]

AnswerOK ==
    /\ Good(answer) =>
          /\ Gone(Outer) /\ answer = message[Helper]
          /\ ~contained => answer = message[Outer]
    /\ caller \in {"waiting", "stopping"} => answer = "none"
    /\ caller = "answered" => answer # "none"

\* The helper polls, or it terminates for a reason, and the status it has is the command's.
Watching == sup[Helper].pc \in {"launch", "track", "poll"}
            \/ (sup[Helper].pc = "scan" /\ sup[Helper].use = "watch")
Ending   == sup[Helper].pc \in {"stop", "conclude"} \/ Ends(Helper)

Honest(a) == /\ a \in {"completed", "invalid_utf8"} => exit = "exited"
             /\ a = "abnormal" => exit = "crashed"

StatusOK ==
    /\ Command \in alive => exit = "none"
    /\ Watching =>
          /\ known = "none" /\ ~late /\ trouble = "none" /\ ~sup[Helper].leaving
          /\ Command \notin alive /\ sup[Helper].pc # "launch" =>
                uncollected /\ exit \in {"exited", "crashed"}
    /\ Ending /\ ~sup[Helper].leaving =>
          late \/ trouble # "none" \/ (known \in {"exited", "crashed"} /\ known = exit)

\* Nobody reports another end of the command than the one it had.
HonestOK == Honest(sup[Helper].result) /\ Honest(message[Helper])

IInv == /\ SupsTyped /\ TreeTyped /\ StateTyped /\ TreeOK /\ ScanOK(Helper) /\ ScanOK(Outer)
        /\ HelperOK /\ OuterOK /\ AnswerOK /\ StatusOK /\ HonestOK

-----------------------------------------------------------------------------
(* Names *)

LEMMA Names ==
    /\ Bound \in Nat /\ Bound > 0 /\ Rounds \in Nat /\ Rounds > 0
    /\ Tasks \subseteq Nat /\ Tasks = 1 .. Bound
    /\ Command = 1 /\ Command \in Tasks
    /\ Helper \notin Tasks /\ Outer \notin Tasks /\ Helper # Outer
    /\ Reaping \notin Tasks /\ Reaping # Helper /\ Reaping # Outer
    /\ Helper \in Supervisors /\ Outer \in Supervisors /\ Supervisors = {Helper, Outer}
BY SupervisionConstants DEF Tasks, Command, Helper, Outer, Reaping, Supervisors

\* Every set of numbers has a least one.
LEMMA Least ==
  ASSUME NEW T, T \subseteq Nat, T # {}
  PROVE  \E x \in T : \A y \in T : x <= y
<1>1. PICK x \in T : \A y \in T : ~ (<<y, x>> \in OpToRel(<, Nat))
  BY NatLessThanWellFounded, WFMin
<1>2. \A y \in T : ~(y < x)
  BY <1>1 DEF OpToRel
<1>. QED BY <1>2

\* A scan that has found nothing, and from which nothing was handed on, is right: the oldest
\* process left would have to be a child of the supervisor.
LEMMA EmptyTree ==
  ASSUME NEW s \in Supervisors, SupsTyped, TreeTyped, TreeOK, ScanOK(s), Scanned(s),
         sup[s].use \notin sup[s].hits, Remaining(s) = {}
  PROVE  alive = {}
<1> SUFFICES ASSUME alive # {} PROVE FALSE
  OBVIOUS
<1>1. PICK t \in alive : \A u \in alive : t <= u
  BY Least, Names DEF TreeTyped
<1>2. /\ t \in Tasks /\ t \in Nat /\ parent[t] \in Tasks \cup {Helper, Outer, Reaping}
      /\ Runs(t)
  BY Names DEF TreeTyped, Runs
<1>3. parent[t] \notin Tasks
  <2> SUFFICES ASSUME parent[t] \in Tasks PROVE FALSE
    OBVIOUS
  <2>1. parent[t] \in alive /\ parent[t] < t /\ parent[t] \in Nat
    BY Names DEF TreeOK
  <2>. QED BY <1>1, <1>2, <2>1
<1>4. parent[t] # s
  BY <1>2 DEF ScanOK, Scanned, Remaining
<1>5. Reaps(s)
  BY DEF Reaps, Gone, Scanned
<1>6. parent[t] # Reaping
  BY <1>5, Names DEF TreeOK
<1>7. CASE s = Helper
  <2>1. parent[t] # Outer
    BY <1>5, <1>7 DEF TreeOK
  <2>. QED BY <1>2, <1>3, <1>4, <1>6, <1>7, <2>1
<1>8. CASE s = Outer
  <2>1. parent[t] = Helper
    BY <1>2, <1>3, <1>4, <1>6, <1>8
  <2>2. Runs(Helper)
    BY <2>1, Names DEF TreeOK, Runs
  <2>3. Helper \in sup[Outer].fds
    BY <2>2, <1>8 DEF ScanOK, Scanned
  <2>. QED BY <2>2, <2>3, <1>8 DEF Remaining
<1>. QED BY <1>7, <1>8, Names

-----------------------------------------------------------------------------
(* Processes that end *)

\* What a step may do to the supervisors, if those in dead end in it.
Fates(dead) ==
    \A q \in Supervisors :
       /\ q \in dead => Gone(q)'
       /\ q \notin dead => (Gone(q)' <=> Gone(q))
       /\ Reaps(q)' => Reaps(q)
       /\ sup'[q].pc = "launch" => sup[q].pc = "launch"

LEMMA Ended ==
  ASSUME TreeTyped, NEW dead, NEW how \in {"exited", "crashed", "terminated"}, End(dead, how),
         Command \in alive => exit = "none"
  PROVE  /\ TreeTyped' /\ alive' = alive \ Dying(dead)
         /\ \A t \in alive' : /\ t \in alive /\ t \notin Dying(dead)
                              /\ parent'[t] = IF parent[t] \in dead THEN Reaper(dead) ELSE parent[t]
         /\ exit # "none" => exit' = exit
         /\ Command \in alive' => exit' = exit
         /\ Command \in alive /\ Command \notin alive' => exit' = how /\ uncollected'
         /\ Command \notin alive => exit' = exit
         /\ uncollected => uncollected'
<1>1. Dying(dead) \subseteq alive
  BY DEF Dying
<1>2. Reaper(dead) \in Supervisors \cup {Reaping}
  BY Names DEF Reaper
<1>3. /\ alive' = alive \ Dying(dead) /\ born' = born
      /\ parent' = [t \in Tasks |-> IF t \in Orphans(dead) THEN Reaper(dead)
                                    ELSE IF t \in Dying(dead) THEN Reaping ELSE parent[t]]
      /\ exit' = IF Command \in Dying(dead) THEN how ELSE exit
      /\ uncollected' = (uncollected \/ Command \in Dying(dead))
  BY DEF End
<1>4. \A t \in Tasks : parent[t] \in Tasks \cup Supervisors \cup {Reaping}
  BY DEF TreeTyped
<1>5. TreeTyped'
  <2>1. parent' \in [Tasks -> Tasks \cup Supervisors \cup {Reaping}]
    BY <1>2, <1>3, <1>4
  <2>2. exit' \in Exits /\ uncollected' \in BOOLEAN
    BY <1>3 DEF TreeTyped, Exits
  <2>. QED BY <1>1, <1>3, <2>1, <2>2 DEF TreeTyped
<1>6. ASSUME NEW t \in alive'
      PROVE  /\ t \in alive /\ t \notin Dying(dead)
             /\ parent'[t] = IF parent[t] \in dead THEN Reaper(dead) ELSE parent[t]
  BY <1>3, <1>6 DEF Orphans, TreeTyped
<1>7. exit # "none" => exit' = exit
  BY <1>1, <1>3
<1>. QED BY <1>1, <1>3, <1>5, <1>6, <1>7

\* Nobody but a task in dead, or one of the namespace that is emptied, dies.
LEMMA EndedTree ==
  ASSUME TreeTyped, TreeOK, NEW dead, NEW how \in {"exited", "crashed", "terminated"},
         End(dead, how), Command \in alive => exit = "none", Fates(dead), contained' = contained,
         contained /\ (Helper \in dead \/ Outer \in dead) => Gone(Helper)' /\ Gone(Outer)'
  PROVE  TreeOK'
<1>1. /\ alive' = alive \ Dying(dead) /\ born' = born
      /\ \A t \in alive' : /\ t \in alive /\ t \notin Dying(dead)
                           /\ parent'[t] = IF parent[t] \in dead THEN Reaper(dead) ELSE parent[t]
      /\ Command \notin alive => exit' = exit
  BY Ended DEF End
<1>2. /\ Helper \in dead => Gone(Helper)'
      /\ Helper \notin dead => (Gone(Helper)' <=> Gone(Helper))
      /\ Reaps(Helper)' => Reaps(Helper)
      /\ Outer \in dead => Gone(Outer)'
      /\ Outer \notin dead => (Gone(Outer)' <=> Gone(Outer))
      /\ Reaps(Outer)' => Reaps(Outer)
      /\ sup'[Helper].pc = "launch" => sup[Helper].pc = "launch"
  BY Names DEF Fates
<1>3. \A q : Gone(q)' => ~Reaps(q)'
  BY DEF Gone, Reaps
<1>4. Reaper(dead) = Helper => Reaps(Helper) /\ Helper \notin dead
  BY Names DEF Reaper
<1>5. Reaper(dead) = Outer =>
         Reaps(Outer) /\ Outer \notin dead /\ (~Reaps(Helper) \/ Helper \in dead)
  BY Names DEF Reaper
<1>6. Reaper(dead) = Reaping =>
         (~Reaps(Outer) \/ Outer \in dead) /\ (~Reaps(Helper) \/ Helper \in dead)
  BY Names DEF Reaper
<1>7. \A q \in Supervisors : Reaps(q) => ~Gone(q)
  BY DEF Reaps
<1>8. ASSUME NEW t \in alive'
      PROVE  /\ t <= born'
             /\ parent'[t] \in Tasks => parent'[t] \in alive' /\ parent'[t] < t
             /\ parent'[t] = Helper => ~Gone(Helper)'
             /\ parent'[t] = Outer => ~Gone(Outer)' /\ ~Reaps(Helper)'
             /\ parent'[t] = Reaping => ~Reaps(Outer)' /\ ~Reaps(Helper)'
  <2>1. t \in alive /\ t \notin Dying(dead)
    BY <1>1, <1>8
  <2>2. /\ t <= born
        /\ parent[t] \in Tasks => parent[t] \in alive /\ parent[t] < t
        /\ parent[t] = Helper => ~Gone(Helper)
        /\ parent[t] = Outer => ~Gone(Outer) /\ ~Reaps(Helper)
        /\ parent[t] = Reaping => ~Reaps(Outer) /\ ~Reaps(Helper)
    BY <2>1 DEF TreeOK
  <2>3. CASE parent[t] \in dead
    <3>1. parent'[t] = Reaper(dead)
      BY <1>1, <1>8, <2>3
    <3>2. Reaper(dead) \in {Helper, Outer, Reaping} /\ Reaper(dead) \notin Tasks
      BY Names DEF Reaper
    <3>. QED BY <1>1, <1>2, <1>3, <1>4, <1>5, <1>6, <1>7, <2>2, <3>1, <3>2, Names
  <2>4. CASE parent[t] \notin dead
    <3>1. parent'[t] = parent[t]
      BY <1>1, <1>8, <2>4
    <3>2. parent[t] \in Tasks => parent[t] \notin Dying(dead)
      BY <2>1, <2>4 DEF Dying
    <3>. QED BY <1>1, <1>2, <2>2, <2>4, <3>1, <3>2
  <2>. QED BY <2>3, <2>4
<1>9. contained' /\ (Gone(Helper)' \/ Gone(Outer)') =>
         alive' = {} /\ Gone(Helper)' /\ Gone(Outer)'
  <2> SUFFICES ASSUME contained, Gone(Helper)' \/ Gone(Outer)'
               PROVE  alive' = {} /\ Gone(Helper)' /\ Gone(Outer)'
    OBVIOUS
  <2>1. CASE Helper \in dead \/ Outer \in dead
    BY <1>1, <2>1, Names DEF Dying
  <2>2. CASE Helper \notin dead /\ Outer \notin dead
    BY <1>1, <1>2, <2>2 DEF TreeOK
  <2>. QED BY <2>1, <2>2
<1>10. sup'[Helper].pc = "launch" => alive' = {} /\ exit' = "none"
  BY <1>1, <1>2 DEF TreeOK
<1>. QED BY <1>8, <1>9, <1>10 DEF TreeOK

\* A supervisor that does nothing itself goes on with its scan.
LEMMA ScanKept ==
  ASSUME NEW s \in Supervisors, ScanOK(s), sup'[s] = sup[s],
         \A t \in alive' : parent'[t] = s => t \in alive /\ parent[t] = s,
         Gone(Helper) => Gone(Helper)',
         alive = {} => alive' = {} \/ (s = Outer /\ ~Gone(Helper))
  PROVE  ScanOK(s)'
<1>1. s = Outer /\ Runs(Helper)' => Runs(Helper)
  BY Names DEF Runs
<1>. QED BY <1>1 DEF ScanOK, Ends

\* So it does if a process is handed on to it, which counts.
LEMMA ScanHit ==
  ASSUME NEW s \in Supervisors, ScanOK(s), TreeTyped, NEW dead,
         NEW how \in {"exited", "crashed", "terminated"}, End(dead, how),
         Command \in alive => exit = "none", sup[s] \in Sups, sup'[s] = Hit(s, dead),
         Gone(Helper) => Gone(Helper)', Reaper(dead) = s => s \notin dead
  PROVE  /\ ScanOK(s)' /\ sup'[s] \in Sups
         /\ \A f \in {"pc", "fds", "use", "pending", "seen", "phase", "round", "leaving",
                      "result"} : sup'[s][f] = sup[s][f]
<1>1. /\ alive' = alive \ Dying(dead)
      /\ \A t \in alive' : /\ t \in alive /\ t \notin Dying(dead)
                           /\ parent'[t] = IF parent[t] \in dead THEN Reaper(dead) ELSE parent[t]
  BY Ended
<1>2. CASE Orphans(dead) # {} /\ Reaper(dead) = s /\ sup[s].pc = "scan"
  <2>1. sup'[s] = [sup[s] EXCEPT !.hits = @ \cup {sup[s].use}]
    BY <1>2 DEF Hit
  <2>2. sup[s].use \in Uses
    BY <1>2 DEF ScanOK, Sups
  <2>3. sup'[s] \in Sups
    BY <2>1, <2>2 DEF Sups
  <2>4. sup'[s].use \in sup'[s].hits
    BY <2>1 DEF Sups
  <2>5. \A f \in {"pc", "fds", "use", "pending", "seen", "phase", "round", "leaving",
                  "result"} : sup'[s][f] = sup[s][f]
    BY <2>1 DEF Sups
  <2>6. /\ sup'[s].pc = sup[s].pc /\ sup'[s].fds = sup[s].fds /\ sup'[s].use = sup[s].use
        /\ sup'[s].pending = sup[s].pending /\ sup'[s].seen = sup[s].seen
        /\ sup'[s].round = sup[s].round /\ sup'[s].hits = sup[s].hits \cup {sup[s].use}
    BY <2>1 DEF Sups
  <2>7. s = Outer /\ Runs(Helper)' => Runs(Helper)
    BY Names DEF Runs
  <2>8. alive = {} => alive' = {}
    BY <1>1
  <2>. QED BY <2>3, <2>4, <2>5, <2>6, <2>7, <2>8 DEF ScanOK, Ends
<1>3. CASE ~(Orphans(dead) # {} /\ Reaper(dead) = s /\ sup[s].pc = "scan")
  <2>1. sup'[s] = sup[s]
    BY <1>3 DEF Hit
  <2>2. sup[s].pc # "scan" => ScanOK(s)'
    BY <2>1 DEF ScanOK, Ends
  <2>3. ASSUME sup[s].pc = "scan", NEW t \in alive', parent'[t] = s
        PROVE  t \in alive /\ parent[t] = s
    <3>1. t \in Orphans(dead) <=> parent[t] \in dead
      BY <1>1, <2>3 DEF Orphans
    <3>. QED BY <1>1, <1>3, <2>3, <3>1
  <2>4. alive = {} => alive' = {}
    BY <1>1
  <2>5. sup[s].pc = "scan" => ScanOK(s)'
    BY <2>1, <2>3, <2>4, ScanKept
  <2>. QED BY <2>1, <2>2, <2>5
<1>. QED BY <1>2, <1>3

-----------------------------------------------------------------------------
(* Supervisors that do something *)

LEMMA IdleIs ==
  ASSUME NEW pc, NEW fds
  PROVE  /\ Idle(pc, fds).pc = pc /\ Idle(pc, fds).fds = fds /\ Idle(pc, fds).use = "none"
         /\ Idle(pc, fds).pending = {} /\ Idle(pc, fds).hits = {}
         /\ Idle(pc, fds).round = 0 /\ ~Idle(pc, fds).leaving
         /\ Idle(pc, fds).result = "failure"
         /\ pc \in HelperSteps \cup OuterSteps /\ fds \subseteq Tasks \cup {Helper} =>
               Idle(pc, fds) \in Sups
BY Names DEF Idle, Sups, Answers

LEMMA LeavingIs ==
  ASSUME NEW fds, NEW result \in Answers, fds \subseteq Tasks \cup {Helper}
  PROVE  /\ Leaving(fds, result) \in Sups
         /\ Leaving(fds, result).pc = IF fds = {} THEN "respond" ELSE "stop"
         /\ Leaving(fds, result).fds = fds /\ Leaving(fds, result).use = "none"
         /\ Leaving(fds, result).pending = {} /\ Leaving(fds, result).leaving
         /\ Leaving(fds, result).result = result
<1>1. Leaving(fds, result) =
         [pc |-> IF fds = {} THEN "respond" ELSE "stop", fds |-> fds, use |-> "none",
          pending |-> {}, seen |-> {}, hits |-> {}, phase |-> "TERM", round |-> 0,
          leaving |-> TRUE, result |-> result]
  <2> DEFINE idle == Idle(IF fds = {} THEN "respond" ELSE "stop", fds)
  <2>1. idle = [pc |-> IF fds = {} THEN "respond" ELSE "stop", fds |-> fds, use |-> "none",
                pending |-> {}, seen |-> {}, hits |-> {}, phase |-> "TERM", round |-> 0,
                leaving |-> FALSE, result |-> "failure"]
    BY DEF Idle
  <2>2. Leaving(fds, result) = [idle EXCEPT !.leaving = TRUE, !.result = result]
    BY DEF Leaving
  <2> HIDE DEF idle
  <2>. QED BY <2>1, <2>2
<1>2. (IF fds = {} THEN "respond" ELSE "stop") \in HelperSteps
  BY DEF HelperSteps
<1>. QED BY <1>1, <1>2, Names DEF Sups

\* A signal ends a supervisor that is through, and sends any other on its way out.
LEMMA InterruptedIs ==
  ASSUME NEW s \in Supervisors, sup[s] \in Sups
  PROVE  /\ Interrupted(s) \in Sups
         /\ Gone(s) => Interrupted(s) = sup[s]
         /\ sup[s].pc = "respond" =>
               /\ Interrupted(s).pc = "killed" /\ Interrupted(s).fds = {}
               /\ Interrupted(s).pending = {} /\ Interrupted(s).use = "none"
               /\ Interrupted(s).result = "failure"
         /\ ~Gone(s) /\ sup[s].pc # "respond" =>
               /\ Interrupted(s).pc \in {"respond", "stop"} /\ Interrupted(s).leaving
               /\ Interrupted(s).fds \subseteq sup[s].fds /\ Interrupted(s).pending = {}
               /\ Interrupted(s).use = "none" /\ Interrupted(s).result = "failure"
<1> DEFINE fds == IF sup[s].leaving THEN {} ELSE sup[s].fds
<1>1. fds \subseteq sup[s].fds /\ sup[s].fds \subseteq Tasks \cup {Helper}
  BY DEF Sups
<1>2. "failure" \in Answers
  BY DEF Answers
<1>3. CASE Gone(s)
  BY <1>3 DEF Interrupted, Gone
<1>4. CASE sup[s].pc = "respond"
  <2>1. Interrupted(s) = Idle("killed", {})
    BY <1>4 DEF Interrupted
  <2>2. "killed" \in HelperSteps \cup OuterSteps /\ {} \subseteq Tasks \cup {Helper}
    BY DEF HelperSteps
  <2>3. /\ Interrupted(s) \in Sups /\ Interrupted(s).pc = "killed"
        /\ Interrupted(s).fds = {} /\ Interrupted(s).pending = {}
        /\ Interrupted(s).use = "none" /\ Interrupted(s).result = "failure"
    BY <2>1, <2>2, IdleIs
  <2>4. ~Gone(s)
    BY <1>4 DEF Gone
  <2>. QED BY <1>4, <2>3, <2>4
<1>5. CASE ~Gone(s) /\ sup[s].pc # "respond"
  <2>1. Interrupted(s) = Leaving(fds, "failure")
    BY <1>5 DEF Interrupted, Gone
  <2>2. fds \subseteq Tasks \cup {Helper}
    BY <1>1
  <2> HIDE DEF fds
  <2>3. /\ Interrupted(s) \in Sups
        /\ Interrupted(s).pc = IF fds = {} THEN "respond" ELSE "stop"
        /\ Interrupted(s).fds = fds /\ Interrupted(s).use = "none"
        /\ Interrupted(s).pending = {} /\ Interrupted(s).leaving
        /\ Interrupted(s).result = "failure"
    BY <1>2, <2>1, <2>2, LeavingIs
  <2>. QED BY <1>1, <1>5, <2>3
<1>. QED BY <1>3, <1>4, <1>5

\* Whatever the helper does by itself, short of ending, the guardian and the caller stand
\* where they did.
LEMMA HelperMoves ==
  ASSUME IInv, NEW new \in Sups, sup' = [sup EXCEPT ![Helper] = new],
         new.fds \subseteq Tasks, new.pending \subseteq Tasks,
         new.pc \in HelperSteps \ {"launch", "exited", "killed"},
         ~Gone(Helper), sup[Helper].pc = "respond" => new.pc = "respond",
         UNCHANGED <<contained, alive, born, parent, exit, message, caller, answer>>,
         Outer \in slipped => Outer \in slipped'
  PROVE  /\ SupsTyped' /\ TreeOK' /\ ScanOK(Outer)' /\ OuterOK' /\ AnswerOK'
         /\ sup'[Helper] = new
<1> USE Names
<1>1. sup'[Helper] = new /\ sup'[Outer] = sup[Outer]
  BY DEF IInv, SupsTyped
<1>2. SupsTyped'
  BY <1>1 DEF IInv, SupsTyped
<1>3. ~Gone(Helper)' /\ (Gone(Outer)' <=> Gone(Outer))
  BY <1>1 DEF Gone
<1>4. (Reaps(Helper)' => Reaps(Helper)) /\ (Reaps(Outer)' <=> Reaps(Outer))
  BY <1>1, <1>3 DEF Reaps
<1>5. TreeOK'
  BY <1>1, <1>3, <1>4 DEF IInv, TreeOK
<1>6. ScanOK(Outer)'
  BY <1>1, <1>3, ScanKept DEF IInv
<1>7. OuterOK'
  BY <1>1, <1>3 DEF IInv, OuterOK, Cleared
<1>8. AnswerOK'
  BY <1>3 DEF IInv, AnswerOK
<1>. QED BY <1>1, <1>2, <1>5, <1>6, <1>7, <1>8

\* The caller waits on, loses its patience or dies.
CallerGoesOn ==
    \/ caller' = caller
    \/ caller = "waiting" /\ caller' \in {"stopping", "dead"}
    \/ caller = "stopping" /\ caller' = "dead"

\* And whatever the guardian does, so does the helper.
LEMMA OuterMoves ==
  ASSUME IInv, NEW new \in Sups, sup' = [sup EXCEPT ![Outer] = new],
         new.pc \in OuterSteps \ {"exited", "killed"}, new.use # "watch",
         ~Gone(Outer), sup[Outer].pc = "respond" => new.pc = "respond",
         UNCHANGED <<contained, alive, born, parent, exit, uncollected, message, look, answer>>,
         CallerGoesOn,
         Helper \in slipped => Helper \in slipped'
  PROVE  /\ SupsTyped' /\ TreeOK' /\ ScanOK(Helper)' /\ HelperOK' /\ AnswerOK'
         /\ StatusOK' /\ HonestOK' /\ sup'[Outer] = new
         /\ Gone(Helper)' <=> Gone(Helper)
<1> USE Names
<1>1. sup'[Outer] = new /\ sup'[Helper] = sup[Helper]
  BY DEF IInv, SupsTyped
<1>2. SupsTyped'
  BY <1>1 DEF IInv, SupsTyped
<1>3. ~Gone(Outer)' /\ (Gone(Helper)' <=> Gone(Helper))
  BY <1>1 DEF Gone
<1>4. (Reaps(Outer)' => Reaps(Outer)) /\ (Reaps(Helper)' <=> Reaps(Helper))
  BY <1>1, <1>3 DEF Reaps
<1>5. TreeOK'
  BY <1>1, <1>3, <1>4 DEF IInv, TreeOK
<1>6. ScanOK(Helper)'
  BY <1>1, <1>3, ScanKept DEF IInv
<1>7. HelperOK'
  BY <1>1, <1>3 DEF IInv, HelperOK, Cleared
<1>8. AnswerOK'
  BY <1>3 DEF IInv, AnswerOK, CallerGoesOn
<1>9. StatusOK'
  BY <1>1 DEF IInv, StatusOK, Watching, Ending, Ends, look
<1>10. HonestOK'
  BY <1>1 DEF IInv, HonestOK, Honest
<1>. QED BY <1>1, <1>2, <1>3, <1>5, <1>6, <1>7, <1>8, <1>9, <1>10

-----------------------------------------------------------------------------
(* Scans *)

\* A scan that begins has every child of the supervisor before it.
LEMMA ScanBegun ==
  ASSUME NEW s \in Supervisors, TreeTyped, sup'[s].pc = "scan", sup'[s].use \in Uses,
         sup'[s].pending = {IF s = Helper THEN Command ELSE Helper} \cup Children(s),
         sup'[s].seen = {}, alive' = alive, parent' = parent,
         sup'[s].use \in {"first", "second"} =>
            sup'[s].round < Rounds /\ sup'[s].hits \subseteq {"first", "second"},
         sup'[s].use = "second" => /\ s = Outer => Gone(Helper)'
                                   /\ "first" \notin sup'[s].hits => alive = {}
  PROVE  ScanOK(s)'
<1>1. \A t \in alive' : parent'[t] = s => t \in sup'[s].pending
  BY DEF Children
<1>2. s = Outer => Helper \in sup'[s].pending
  BY Names
<1>. QED BY <1>1, <1>2 DEF ScanOK, Ends, Uses

\* The record of a supervisor that begins a scan.
LEMMA ScanIs ==
  ASSUME IInv, NEW s \in Supervisors, NEW use \in Uses
  PROVE  /\ Scan(s, use) \in Sups
         /\ Scan(s, use).pc = "scan" /\ Scan(s, use).use = use /\ Scan(s, use).seen = {}
         /\ Scan(s, use).pending = {IF s = Helper THEN Command ELSE Helper} \cup Children(s)
         /\ Scan(s, use).fds = sup[s].fds /\ Scan(s, use).hits = sup[s].hits
         /\ Scan(s, use).round = sup[s].round
         /\ Scan(s, use).leaving = sup[s].leaving /\ Scan(s, use).result = sup[s].result
         /\ s = Helper => Scan(s, use).pending \subseteq Tasks
<1> USE Names
<1>1. sup[s] \in Sups
  BY DEF IInv, SupsTyped
<1>2. Children(s) \subseteq Tasks \cup {Helper} /\ (s = Helper => Children(s) \subseteq Tasks)
  BY DEF IInv, TreeTyped, Children
<1>3. (IF s = Helper THEN Command ELSE Helper) \in Tasks \cup {Helper}
  OBVIOUS
<1>4. "scan" \in HelperSteps
  BY DEF HelperSteps
<1>5. Scan(s, use) =
         [sup[s] EXCEPT !.pc = "scan", !.use = use, !.seen = {},
                        !.pending = {IF s = Helper THEN Command ELSE Helper} \cup Children(s)]
  BY DEF Scan
<1> DEFINE pending == {IF s = Helper THEN Command ELSE Helper} \cup Children(s)
<1>6. pending \subseteq Tasks \cup {Helper} /\ (s = Helper => pending \subseteq Tasks)
  BY <1>2, <1>3
<1>7. use \in Uses \cup {"none"} /\ {} \subseteq Tasks \cup {Helper}
  OBVIOUS
<1> HIDE DEF pending
<1>8. Scan(s, use) = [sup[s] EXCEPT !.pc = "scan", !.use = use, !.seen = {}, !.pending = pending]
  BY <1>5 DEF pending
<1>9. Scan(s, use) \in Sups
  <2>1. [sup[s] EXCEPT !.pc = "scan", !.use = use] \in Sups
    BY <1>1, <1>4, <1>7 DEF Sups
  <2>2. Scan(s, use) = [[sup[s] EXCEPT !.pc = "scan", !.use = use]
                           EXCEPT !.seen = {}, !.pending = pending]
    BY <1>1, <1>8 DEF Sups
  <2> DEFINE half == [sup[s] EXCEPT !.pc = "scan", !.use = use]
  <2> HIDE DEF half
  <2>3. half \in Sups /\ Scan(s, use) = [half EXCEPT !.seen = {}, !.pending = pending]
    BY <2>1, <2>2 DEF half
  <2>. QED BY <1>6, <1>7, <2>3 DEF Sups
<1>10. /\ Scan(s, use).pc = "scan" /\ Scan(s, use).use = use /\ Scan(s, use).seen = {}
       /\ Scan(s, use).pending = pending
       /\ Scan(s, use).fds = sup[s].fds /\ Scan(s, use).hits = sup[s].hits
       /\ Scan(s, use).round = sup[s].round
       /\ Scan(s, use).leaving = sup[s].leaving /\ Scan(s, use).result = sup[s].result
  BY <1>1, <1>8 DEF Sups
<1>. QED BY <1>6, <1>9, <1>10 DEF pending

\* A scan does not lose what it looks for: a process that exits while it is visited is dead
\* by then, and one that runs is tracked.
LEMMA Visited ==
  ASSUME IInv, NEW s \in Supervisors, NEW p \in Tasks \cup Supervisors, Visit(s, p)
  PROVE  /\ sup' = [sup EXCEPT ![s] = sup'[s]] /\ sup'[s] \in Sups /\ ScanOK(s)'
         /\ \A f \in {"pc", "use", "hits", "phase", "round", "leaving", "result"} :
               sup'[s][f] = sup[s][f]
         /\ s = Helper => sup'[s].fds \subseteq Tasks /\ sup'[s].pending \subseteq Tasks
<1> USE Names
<1> DEFINE seen == sup[s].seen \cup {p}
           more == IF Runs(p) \/ (p = Command /\ uncollected) THEN {p} ELSE {}
           new  == [sup[s] EXCEPT !.pending = (@ \cup Children(p)) \ seen, !.seen = seen,
                                  !.fds = IF Runs(p) \/ (p = Command /\ uncollected)
                                          THEN @ \cup {p} ELSE @]
<1>1. sup[s] \in Sups /\ sup[s].pc = "scan" /\ p \in sup[s].pending
  BY DEF IInv, SupsTyped, Visit
<1>2. sup' = [sup EXCEPT ![s] = new]
  BY DEF Visit, Put
<1>3. sup'[s] = new
  BY <1>2 DEF IInv, SupsTyped
<1>4. /\ new.pending = (sup[s].pending \cup Children(p)) \ seen /\ new.seen = seen
      /\ new.fds = sup[s].fds \cup more
      /\ \A f \in {"pc", "use", "hits", "phase", "round", "leaving", "result"} :
            new[f] = sup[s][f]
  BY <1>1 DEF Sups
<1>5. p \in Tasks \cup {Helper} /\ (s = Helper => p \in Tasks)
  BY <1>1 DEF Sups, IInv, SupsTyped
<1>6. Children(p) \subseteq Tasks \cup {Helper} /\ (s = Helper => Children(p) \subseteq Tasks)
  BY <1>5 DEF Children, IInv, TreeTyped
<1>7. new \in Sups
  <2>1. /\ new.pending \subseteq Tasks \cup {Helper} /\ new.seen \subseteq Tasks \cup {Helper}
        /\ new.fds \subseteq Tasks \cup {Helper}
    BY <1>1, <1>4, <1>5, <1>6 DEF Sups
  <2>2. new = [sup[s] EXCEPT !.pending = new.pending, !.seen = new.seen, !.fds = new.fds]
    BY <1>1, <1>4 DEF Sups
  <2> HIDE DEF new
  <2>. QED BY <1>1, <2>1, <2>2 DEF Sups
<1>8. s = Helper => new.fds \subseteq Tasks /\ new.pending \subseteq Tasks
  BY <1>4, <1>5, <1>6 DEF IInv, SupsTyped
<1>9. Gone(Helper)' <=> Gone(Helper)
  <2>1. sup'[Helper].pc = sup[Helper].pc
    BY <1>2, <1>4 DEF IInv, SupsTyped
  <2>. QED BY <2>1 DEF Gone
<1>10. alive' = alive /\ parent' = parent
  BY DEF Visit, tree
<1>11. ScanOK(s)
  BY DEF IInv
<1>12. ScanOK(s)'
  <2> HIDE DEF new
  <2>1. /\ new.use # "none" /\ new.pending \cap new.seen = {}
        /\ sup[s].pending \cap sup[s].seen = {}
    BY <1>1, <1>4, <1>11 DEF ScanOK
  <2>2. ASSUME NEW q, q \in sup[s].pending \cup sup[s].fds, q = p => Runs(p)
        PROVE  q \in new.pending \cup new.fds
    BY <1>4, <2>1, <2>2
  <2>3. s = Outer /\ Runs(Helper)' => Helper \in new.pending \cup new.fds
    <3> SUFFICES ASSUME s = Outer, Runs(Helper)' PROVE Helper \in new.pending \cup new.fds
      OBVIOUS
    <3>1. Runs(Helper)
      BY <1>9 DEF Runs
    <3>. QED BY <1>1, <1>11, <2>2, <3>1 DEF ScanOK
  <2>4. ASSUME new.use \notin new.hits, NEW t \in alive, parent[t] = s
        PROVE  t \in new.pending \cup new.fds
    <3>1. Runs(t)
      BY <2>4 DEF Runs, IInv, TreeTyped
    <3>. QED BY <1>1, <1>4, <1>11, <2>2, <2>4, <3>1 DEF ScanOK
  <2>5. /\ sup'[s].pc = sup[s].pc /\ sup'[s].use = sup[s].use /\ sup'[s].hits = sup[s].hits
        /\ sup'[s].round = sup[s].round
    BY <1>3, <1>4
  <2>. QED BY <1>1, <1>3, <1>9, <1>10, <1>11, <2>1, <2>3, <2>4, <2>5 DEF ScanOK, Ends
<1> HIDE DEF new
<1>. QED BY <1>2, <1>3, <1>4, <1>7, <1>8, <1>12

\* What the helper knows of the command holds on while it works ...
LEMMA HelperGoesOn ==
  ASSUME IInv, ~Gone(Helper), sup[Helper].pc \notin {"launch", "respond"},
         sup'[Helper].pc \notin {"launch", "conclude"},
         sup'[Helper].result \in {sup[Helper].result, "failure"},
         sup'[Helper].leaving = sup[Helper].leaving,
         Watching' => Watching /\ uncollected' = uncollected,
         Ending' /\ ~sup[Helper].leaving => Ending,
         UNCHANGED <<alive, exit, message, look>>
  PROVE  HelperOK' /\ StatusOK' /\ HonestOK'
<1>1. ~Good(sup[Helper].result) /\ ~Good(sup'[Helper].result) /\ message[Helper] = "none"
  BY DEF IInv, HelperOK, Good
<1>2. HelperOK'
  BY <1>1 DEF IInv, HelperOK, Good
<1>3. HonestOK'
  BY <1>1 DEF HonestOK, Honest, Good
<1>4. known' = known /\ trouble' = trouble /\ late' = late
  BY DEF look
<1>5. StatusOK'
  BY <1>4 DEF IInv, StatusOK
<1>. QED BY <1>2, <1>3, <1>5

\* ... and matters no more once it is on its way out.
LEMMA HelperLeaves ==
  ASSUME IInv, ~Gone(Helper), sup'[Helper].pc \in {"respond", "stop"}, sup'[Helper].leaving,
         sup'[Helper].use = "none",
         Good(sup'[Helper].result) => Cleared(Helper)' /\ sup'[Helper].pc = "respond",
         Honest(sup'[Helper].result), UNCHANGED <<alive, exit, message>>
  PROVE  HelperOK' /\ StatusOK' /\ HonestOK'
<1>1. message[Helper] = "none"
  BY DEF IInv, HelperOK
<1>2. HelperOK'
  BY <1>1 DEF HelperOK, Good
<1>3. HonestOK'
  BY <1>1 DEF HonestOK, Honest
<1>4. ~Watching' /\ (Ending' => sup'[Helper].leaving)
  BY DEF Watching, Ending, Ends
<1>5. StatusOK'
  BY <1>4 DEF IInv, StatusOK
<1>. QED BY <1>2, <1>3, <1>5

-----------------------------------------------------------------------------
(* _LinuxDescendantSupervisor *)

LEMMA VisitPreserves ==
  ASSUME IInv, NEW s \in Supervisors, NEW p \in Tasks \cup Supervisors, Visit(s, p)
  PROVE  IInv'
<1> USE Names
<1>1. /\ sup' = [sup EXCEPT ![s] = sup'[s]] /\ sup'[s] \in Sups /\ ScanOK(s)'
      /\ \A f \in {"pc", "use", "hits", "phase", "round", "leaving", "result"} :
            sup'[s][f] = sup[s][f]
      /\ s = Helper => sup'[s].fds \subseteq Tasks /\ sup'[s].pending \subseteq Tasks
  BY Visited
<1>2. /\ sup'[s].pc = "scan" /\ sup[s].pc = "scan" /\ sup'[s].use = sup[s].use
      /\ sup'[s].leaving = sup[s].leaving /\ sup'[s].result = sup[s].result
  BY <1>1 DEF Visit
<1>3. /\ UNCHANGED <<contained, alive, born, parent, exit, uncollected, message, look, caller,
                     answer, faults, slipped>>
      /\ ~Gone(s)
  BY <1>2 DEF Visit, tree, history, Gone
<1>4. TreeTyped' /\ StateTyped'
  BY <1>3 DEF IInv, TreeTyped, StateTyped, look
<1>5. CASE s = Helper
  <2>1. SupsTyped' /\ TreeOK' /\ ScanOK(Outer)' /\ OuterOK' /\ AnswerOK'
    <3>1. sup'[Helper].pc \in HelperSteps \ {"launch", "exited", "killed"}
      BY <1>2, <1>5 DEF HelperSteps
    <3>. QED BY <1>1, <1>2, <1>3, <1>5, <3>1, HelperMoves
  <2>2. (Watching' => Watching) /\ (Ending' => Ending)
    BY <1>2, <1>5 DEF Watching, Ending, Ends
  <2>3. HelperOK' /\ StatusOK' /\ HonestOK'
    BY <1>2, <1>3, <1>5, <2>2, HelperGoesOn
  <2>. QED BY <1>1, <1>4, <1>5, <2>1, <2>3 DEF IInv
<1>6. CASE s = Outer
  <2>1. sup'[Outer].pc \in OuterSteps \ {"exited", "killed"} /\ sup'[Outer].use # "watch"
    BY <1>2, <1>6 DEF OuterSteps, IInv, SupsTyped
  <2>2. /\ SupsTyped' /\ TreeOK' /\ ScanOK(Helper)' /\ HelperOK' /\ AnswerOK' /\ StatusOK'
        /\ HonestOK' /\ (Gone(Helper)' <=> Gone(Helper))
    BY <1>1, <1>2, <1>3, <1>6, <2>1, OuterMoves DEF CallerGoesOn
  <2>3. OuterOK'
    BY <1>2, <1>3, <1>6, <2>2 DEF IInv, OuterOK, Gone, Cleared
  <2>. QED BY <1>1, <1>4, <1>6, <2>2, <2>3 DEF IInv
<1>. QED BY <1>5, <1>6

\* A guardian that has not ended and is not through goes on as it was.
LEMMA OuterGoesOn ==
  ASSUME IInv, ~Gone(Outer), sup[Outer].pc \in {"scan", "stop"},
         sup'[Outer].pc \in {"scan", "stop"}, ~Gone(Outer)', sup'[Outer].leaving,
         sup'[Outer].result = sup[Outer].result, Gone(Helper) => Gone(Helper)',
         UNCHANGED <<contained, message>>
  PROVE  OuterOK'
BY DEF IInv, OuterOK, Good

LEMMA RoundPreserves ==
  ASSUME IInv, NEW s \in Supervisors, Round(s)
  PROVE  IInv'
<1> USE Names
<1> DEFINE new == [Scan(s, "first") EXCEPT !.hits = {}]
<1>1. "first" \in Uses
  BY DEF Uses
<1>2. sup[s].pc = "stop" /\ sup[s].round < Rounds /\ sup' = [sup EXCEPT ![s] = new]
  BY DEF Round, Put
<1>3. /\ new \in Sups /\ new.pc = "scan" /\ new.use = "first" /\ new.seen = {} /\ new.hits = {}
      /\ new.pending = {IF s = Helper THEN Command ELSE Helper} \cup Children(s)
      /\ new.fds = sup[s].fds /\ new.round = sup[s].round
      /\ new.leaving = sup[s].leaving /\ new.result = sup[s].result
      /\ s = Helper => new.pending \subseteq Tasks
  BY <1>1, ScanIs DEF Sups
<1> HIDE DEF new
<1>4. sup'[s] = new
  BY <1>2 DEF IInv, SupsTyped
<1>5. /\ UNCHANGED <<contained, alive, born, parent, exit, uncollected, message, look, caller,
                     answer, faults, slipped>>
      /\ ~Gone(s) /\ ~Gone(s)'
  BY <1>2, <1>3, <1>4 DEF Round, tree, history, Gone
<1>6. TreeTyped' /\ StateTyped'
  BY <1>5 DEF IInv, TreeTyped, StateTyped, look
<1>7. ScanOK(s)'
  BY <1>1, <1>2, <1>3, <1>4, <1>5, ScanBegun DEF IInv
<1>8. CASE s = Helper
  <2>1. SupsTyped' /\ TreeOK' /\ ScanOK(Outer)' /\ OuterOK' /\ AnswerOK'
    <3>1. new.pc \in HelperSteps \ {"launch", "exited", "killed"} /\ new.fds \subseteq Tasks
      BY <1>3, <1>8 DEF HelperSteps, IInv, SupsTyped
    <3>. QED BY <1>2, <1>3, <1>5, <1>8, <3>1, HelperMoves
  <2>2. ~Watching' /\ Ending
    BY <1>2, <1>3, <1>4, <1>8 DEF Watching, Ending
  <2>3. HelperOK' /\ StatusOK' /\ HonestOK'
    BY <1>2, <1>3, <1>4, <1>5, <1>8, <2>2, HelperGoesOn
  <2>. QED BY <1>6, <1>7, <1>8, <2>1, <2>3 DEF IInv
<1>9. CASE s = Outer
  <2>1. new.pc \in OuterSteps \ {"exited", "killed"} /\ new.use # "watch"
    BY <1>3 DEF OuterSteps
  <2>2. /\ SupsTyped' /\ TreeOK' /\ ScanOK(Helper)' /\ HelperOK' /\ AnswerOK' /\ StatusOK'
        /\ HonestOK' /\ (Gone(Helper)' <=> Gone(Helper))
    BY <1>2, <1>3, <1>5, <1>9, <2>1, OuterMoves DEF CallerGoesOn
  <2>3. sup[Outer].leaving
    BY <1>2, <1>9 DEF IInv, OuterOK
  <2>4. OuterOK'
    BY <1>2, <1>3, <1>4, <1>5, <1>9, <2>2, <2>3, OuterGoesOn
  <2>. QED BY <1>6, <1>7, <1>9, <2>2, <2>4 DEF IInv
<1>. QED BY <1>8, <1>9

\* A guardian on its way out owes no result, or the one of a helper that is gone.
LEMMA OuterLeaves ==
  ASSUME IInv, ~Gone(Outer), ~contained, ~Gone(Outer)',
         sup'[Outer].pc \in {"respond", "stop"}, sup'[Outer].leaving,
         sup'[Outer].result = "failure"
         \/ (sup'[Outer].pc = "stop" /\ sup'[Outer].result = message[Helper] /\ Gone(Helper)'),
         UNCHANGED <<contained, message>>
  PROVE  OuterOK'
BY DEF IInv, OuterOK, Good

\* A supervisor that is sent on its way out, the helper or the guardian.
LEMMA LeavingPreserves ==
  ASSUME IInv, NEW s \in Supervisors, NEW fds, fds \subseteq sup[s].fds,
         sup' = [sup EXCEPT ![s] = Leaving(fds, "failure")],
         ~Gone(s), sup[s].pc # "respond", s = Outer => ~contained,
         UNCHANGED <<contained, alive, born, parent, exit, uncollected, message, look, answer,
                     slipped>>,
         StateTyped', CallerGoesOn, s = Helper => caller' = caller
  PROVE  IInv'
<1> USE Names
<1> DEFINE new == Leaving(fds, "failure")
<1>1. sup[s].fds \subseteq Tasks \cup {Helper} /\ (s = Helper => sup[s].fds \subseteq Tasks)
  BY DEF IInv, SupsTyped, Sups
<1>2. fds \subseteq Tasks \cup {Helper} /\ "failure" \in Answers
  BY <1>1 DEF Answers
<1>3. /\ new \in Sups /\ new.pc \in {"respond", "stop"} /\ new.leaving /\ new.fds = fds
      /\ new.use = "none" /\ new.pending = {} /\ new.result = "failure"
  <2>1. /\ new \in Sups /\ new.pc = (IF fds = {} THEN "respond" ELSE "stop") /\ new.fds = fds
        /\ new.use = "none" /\ new.pending = {} /\ new.leaving /\ new.result = "failure"
    BY ONLY <1>2, LeavingIs
  <2>. QED BY <2>1
<1> HIDE DEF new
<1>4. sup' = [sup EXCEPT ![s] = new] /\ sup'[s] = new
  BY DEF IInv, SupsTyped, new
<1>5. TreeTyped'
  BY DEF IInv, TreeTyped
<1>6. ScanOK(s)' /\ ~Gone(s)'
  BY <1>3, <1>4 DEF ScanOK, Ends, Gone
<1>7. CASE s = Helper
  <2>1. SupsTyped' /\ TreeOK' /\ ScanOK(Outer)' /\ OuterOK' /\ AnswerOK'
    <3>1. /\ new.pc \in HelperSteps \ {"launch", "exited", "killed"}
          /\ new.fds \subseteq Tasks /\ new.pending \subseteq Tasks
      BY <1>1, <1>3, <1>7 DEF HelperSteps
    <3>. QED BY <1>3, <1>4, <1>7, <3>1, HelperMoves
  <2>2. HelperOK' /\ StatusOK' /\ HonestOK'
    <3>1. ~Good(sup'[Helper].result) /\ Honest(sup'[Helper].result)
      BY <1>3, <1>4, <1>7 DEF Good, Honest
    <3>. QED BY <1>3, <1>4, <1>7, <3>1, HelperLeaves
  <2>. QED BY <1>5, <1>6, <1>7, <2>1, <2>2 DEF IInv
<1>8. CASE s = Outer
  <2>1. new.pc \in OuterSteps \ {"exited", "killed"} /\ new.use # "watch"
    BY <1>3 DEF OuterSteps
  <2>2. /\ SupsTyped' /\ TreeOK' /\ ScanOK(Helper)' /\ HelperOK' /\ AnswerOK' /\ StatusOK'
        /\ HonestOK' /\ (Gone(Helper)' <=> Gone(Helper))
    BY <1>3, <1>4, <1>8, <2>1, OuterMoves
  <2>3. OuterOK'
    BY <1>3, <1>4, <1>6, <1>8, OuterLeaves
  <2>. QED BY <1>5, <1>6, <1>8, <2>2, <2>3 DEF IInv
<1>. QED BY <1>7, <1>8

LEMMA ExpirePreserves ==
  ASSUME IInv, NEW s \in Supervisors, Expire(s)
  PROVE  IInv'
<1> USE Names
<1>1. sup[s].pc = "stop" /\ sup[s] \in Sups /\ ~Gone(s)
  BY DEF Expire, IInv, SupsTyped, Gone
<1>2. UNCHANGED <<contained, alive, born, parent, exit, uncollected, message, look, caller,
                  answer, faults, slipped>>
  BY DEF Expire, tree
<1>3. s = Outer => sup[Outer].leaving /\ ~contained
  BY <1>1 DEF IInv, OuterOK
<1>4. CASE sup[s].phase # "TERM"
  <2> DEFINE fds == IF sup[s].leaving THEN {} ELSE sup[s].fds
  <2>1. sup' = [sup EXCEPT ![s] = Leaving(fds, "failure")]
    BY <1>4 DEF Expire, Put
  <2>2. fds \subseteq sup[s].fds
    OBVIOUS
  <2>3. StateTyped' /\ CallerGoesOn
    BY <1>2 DEF IInv, StateTyped, look, CallerGoesOn
  <2> HIDE DEF fds
  <2>. QED BY <1>1, <1>2, <1>3, <2>1, <2>2, <2>3, LeavingPreserves
<1>5. CASE sup[s].phase = "TERM"
  <2> DEFINE new == [sup[s] EXCEPT !.phase = "KILL", !.round = 0]
  <2>1. sup' = [sup EXCEPT ![s] = new]
    BY <1>5 DEF Expire, Put
  <2>2. /\ new \in Sups /\ new.pc = "stop" /\ new.use = sup[s].use /\ new.fds = sup[s].fds
        /\ new.pending = sup[s].pending /\ new.leaving = sup[s].leaving
        /\ new.result = sup[s].result
    <3>1. 0 \in 0 .. Rounds /\ "KILL" \in {"TERM", "KILL"}
      OBVIOUS
    <3>. QED BY <1>1, <3>1 DEF Sups
  <2> HIDE DEF new
  <2>3. sup'[s] = new
    BY <2>1 DEF IInv, SupsTyped
  <2>4. TreeTyped' /\ StateTyped'
    BY <1>2 DEF IInv, TreeTyped, StateTyped, look
  <2>5. ScanOK(s)' /\ ~Gone(s)'
    BY <2>2, <2>3 DEF ScanOK, Ends, Gone
  <2>6. CASE s = Helper
    <3>1. SupsTyped' /\ TreeOK' /\ ScanOK(Outer)' /\ OuterOK' /\ AnswerOK'
      <4>1. /\ new.pc \in HelperSteps \ {"launch", "exited", "killed"}
            /\ new.fds \subseteq Tasks /\ new.pending \subseteq Tasks
        BY <2>2, <2>6 DEF HelperSteps, IInv, SupsTyped
      <4>. QED BY <1>1, <1>2, <2>1, <2>2, <2>6, <4>1, HelperMoves
    <3>2. ~Watching' /\ Ending
      BY <1>1, <2>2, <2>3, <2>6 DEF Watching, Ending
    <3>3. HelperOK' /\ StatusOK' /\ HonestOK'
      BY <1>1, <1>2, <2>2, <2>3, <2>6, <3>2, HelperGoesOn
    <3>. QED BY <2>4, <2>5, <2>6, <3>1, <3>3 DEF IInv
  <2>7. CASE s = Outer
    <3>1. new.pc \in OuterSteps \ {"exited", "killed"} /\ new.use # "watch"
      BY <2>2, <2>7 DEF OuterSteps, IInv, SupsTyped
    <3>2. /\ SupsTyped' /\ TreeOK' /\ ScanOK(Helper)' /\ HelperOK' /\ AnswerOK' /\ StatusOK'
          /\ HonestOK' /\ (Gone(Helper)' <=> Gone(Helper))
      BY <1>1, <1>2, <2>1, <2>2, <2>7, <3>1, OuterMoves DEF CallerGoesOn
    <3>3. OuterOK'
      BY <1>1, <1>2, <1>3, <2>2, <2>3, <2>5, <2>7, <3>2, OuterGoesOn
    <3>. QED BY <2>4, <2>5, <2>7, <3>2, <3>3 DEF IInv
  <2>. QED BY <2>6, <2>7
<1>. QED BY <1>4, <1>5

\* The second scan begins with what the first may have missed, and with nothing else.
LEMMA LookAgainPreserves ==
  ASSUME IInv, NEW s \in Supervisors, LookAgain(s)
  PROVE  IInv'
<1> USE Names
<1> DEFINE new == [Scan(s, "second") EXCEPT !.fds = {}]
<1>1. "second" \in Uses /\ {} \subseteq Tasks \cup {Helper}
  BY DEF Uses
<1>2. /\ Scanned(s) /\ sup[s].use = "first" /\ Remaining(s) = {} /\ sup[s].pc = "scan"
      /\ sup' = [sup EXCEPT ![s] = new]
  BY DEF LookAgain, Put, Scanned
<1>3. /\ new \in Sups /\ new.pc = "scan" /\ new.use = "second" /\ new.seen = {}
      /\ new.hits = sup[s].hits
      /\ new.pending = {IF s = Helper THEN Command ELSE Helper} \cup Children(s)
      /\ new.fds = {} /\ new.round = sup[s].round
      /\ new.leaving = sup[s].leaving /\ new.result = sup[s].result
      /\ s = Helper => new.pending \subseteq Tasks
  BY <1>1, ScanIs DEF Sups
<1> HIDE DEF new
<1>4. sup'[s] = new
  BY <1>2 DEF IInv, SupsTyped
<1>5. /\ UNCHANGED <<contained, alive, born, parent, exit, message, look, caller, answer, faults,
                     slipped>>
      /\ ~Gone(s) /\ ~Gone(s)'
  BY <1>2, <1>3, <1>4 DEF LookAgain, history, Gone
<1>6. uncollected' \in BOOLEAN /\ (s = Outer => uncollected' = uncollected)
  BY DEF LookAgain, Collected, IInv, TreeTyped
<1>7. TreeTyped' /\ StateTyped'
  BY <1>5, <1>6 DEF IInv, TreeTyped, StateTyped, look
<1>8. ScanOK(s) /\ Ends(s)
  BY <1>2 DEF IInv, Ends
<1>9. s = Outer => Gone(Helper) /\ Gone(Helper)'
  <2> SUFFICES ASSUME s = Outer PROVE Gone(Helper) /\ Gone(Helper)'
    OBVIOUS
  <2>1. ~Runs(Helper)
    BY <1>2, <1>8 DEF ScanOK, Scanned, Remaining
  <2>2. Gone(Helper)
    BY <2>1 DEF Runs
  <2>3. sup'[Helper] = sup[Helper]
    BY <1>2 DEF IInv, SupsTyped
  <2>. QED BY <2>2, <2>3 DEF Gone
<1>10. "first" \notin sup[s].hits => alive = {}
  BY <1>2, <1>8, EmptyTree DEF IInv
<1>11. ScanOK(s)'
  <2>1. sup[s].round < Rounds /\ sup[s].hits \subseteq {"first", "second"}
    BY <1>8 DEF ScanOK
  <2>. QED BY <1>1, <1>3, <1>4, <1>5, <1>9, <1>10, <2>1, ScanBegun DEF IInv
<1>12. CASE s = Helper
  <2>1. SupsTyped' /\ TreeOK' /\ ScanOK(Outer)' /\ OuterOK' /\ AnswerOK'
    <3>1. new.pc \in HelperSteps \ {"launch", "exited", "killed"} /\ new.fds \subseteq Tasks
      BY <1>3, <1>12 DEF HelperSteps
    <3>. QED BY <1>2, <1>3, <1>5, <1>12, <3>1, HelperMoves
  <2>2. ~Watching' /\ Ending
    BY <1>3, <1>4, <1>8, <1>12 DEF Watching, Ending
  <2>3. HelperOK' /\ StatusOK' /\ HonestOK'
    BY <1>2, <1>3, <1>4, <1>5, <1>12, <2>2, HelperGoesOn
  <2>. QED BY <1>7, <1>11, <1>12, <2>1, <2>3 DEF IInv
<1>13. CASE s = Outer
  <2>1. new.pc \in OuterSteps \ {"exited", "killed"} /\ new.use # "watch"
    BY <1>3 DEF OuterSteps
  <2>2. /\ SupsTyped' /\ TreeOK' /\ ScanOK(Helper)' /\ HelperOK' /\ AnswerOK' /\ StatusOK'
        /\ HonestOK' /\ (Gone(Helper)' <=> Gone(Helper))
    BY <1>2, <1>3, <1>5, <1>6, <1>13, <2>1, OuterMoves DEF CallerGoesOn
  <2>3. sup[Outer].leaving
    BY <1>2, <1>13 DEF IInv, OuterOK
  <2>4. OuterOK'
    BY <1>2, <1>3, <1>4, <1>5, <1>13, <2>2, <2>3, OuterGoesOn
  <2>. QED BY <1>7, <1>11, <1>13, <2>2, <2>4 DEF IInv
<1>. QED BY <1>12, <1>13

\* A supervisor is through behind two scans: either one of them was right, or something was
\* handed on in both.
LEMMA FinishPreserves ==
  ASSUME IInv, NEW s \in Supervisors, Finish(s)
  PROVE  IInv'
<1> USE Names
<1> DEFINE pc  == IF sup[s].leaving THEN "respond" ELSE "conclude"
           new == [Idle(pc, {}) EXCEPT !.result = sup[s].result]
<1>1. /\ Scanned(s) /\ sup[s].use = "second" /\ Remaining(s) = {} /\ sup[s].pc = "scan"
      /\ sup' = [sup EXCEPT ![s] = new] /\ sup[s] \in Sups
  BY DEF Finish, Put, Scanned, IInv, SupsTyped
<1>2. /\ new \in Sups /\ new.pc = pc /\ new.fds = {} /\ new.use = "none" /\ new.pending = {}
      /\ ~new.leaving /\ new.result = sup[s].result
  <2>1. pc \in HelperSteps \cup OuterSteps /\ {} \subseteq Tasks \cup {Helper}
    BY DEF HelperSteps
  <2> HIDE DEF pc
  <2>2. /\ Idle(pc, {}) \in Sups /\ Idle(pc, {}).pc = pc /\ Idle(pc, {}).fds = {}
        /\ Idle(pc, {}).use = "none" /\ Idle(pc, {}).pending = {} /\ ~Idle(pc, {}).leaving
    BY ONLY <2>1, IdleIs
  <2>. QED BY <1>1, <2>2 DEF Sups
<1> HIDE DEF new
<1>3. sup'[s] = new
  BY <1>1 DEF IInv, SupsTyped
<1>4. /\ UNCHANGED <<contained, alive, born, parent, exit, message, look, caller, answer, faults>>
      /\ ~Gone(s) /\ ~Gone(s)'
  BY <1>1, <1>2, <1>3 DEF Finish, Gone
<1>5. /\ slipped' = IF sup[s].hits = {"first", "second"} THEN slipped \cup {s} ELSE slipped \ {s}
      /\ uncollected' \in BOOLEAN /\ (s = Outer => uncollected' = uncollected)
  BY DEF Finish, Collected, IInv, TreeTyped
<1>6. TreeTyped' /\ StateTyped'
  BY <1>4, <1>5 DEF IInv, TreeTyped, StateTyped, look
<1>7. ScanOK(s) /\ Ends(s)
  BY <1>1 DEF IInv, Ends
<1>8. alive = {} \/ s \in slipped'
  <2>1. "first" \notin sup[s].hits => alive = {}
    BY <1>1, <1>7 DEF ScanOK
  <2>2. "second" \notin sup[s].hits => alive = {}
    BY <1>1, <1>7, EmptyTree DEF IInv
  <2>3. sup[s].hits \subseteq {"first", "second"}
    BY <1>7 DEF ScanOK
  <2>. QED BY <1>5, <2>1, <2>2, <2>3
<1>9. Cleared(s)'
  BY <1>4, <1>8 DEF Cleared
<1>10. ScanOK(s)'
  BY <1>2, <1>3 DEF ScanOK, Ends
<1>11. CASE s = Helper
  <2>1. SupsTyped' /\ TreeOK' /\ ScanOK(Outer)' /\ OuterOK' /\ AnswerOK'
    <3>1. /\ new.pc \in HelperSteps \ {"launch", "exited", "killed"}
          /\ new.fds \subseteq Tasks /\ new.pending \subseteq Tasks
      BY <1>2 DEF HelperSteps
    <3>2. Outer \in slipped => Outer \in slipped'
      BY <1>5, <1>11
    <3>. QED BY <1>1, <1>2, <1>4, <1>11, <3>1, <3>2, HelperMoves
  <2>2. ~Good(sup[Helper].result) /\ message[Helper] = "none"
    BY <1>1, <1>4, <1>11 DEF IInv, HelperOK
  <2>3. HelperOK'
    BY <1>2, <1>3, <1>4, <1>9, <1>11, <2>2 DEF HelperOK, Good
  <2>4. HonestOK'
    BY <1>2, <1>3, <1>4, <1>11, <2>2 DEF HonestOK, Honest, Good
  <2>5. ~Watching'
    BY <1>2, <1>3, <1>11 DEF Watching
  <2>6. Ending' => Ending /\ ~sup[Helper].leaving
    BY <1>2, <1>3, <1>7, <1>11 DEF Ending, Ends
  <2>7. StatusOK'
    BY <1>4, <2>5, <2>6 DEF IInv, StatusOK, look
  <2>. QED BY <1>6, <1>10, <1>11, <2>1, <2>3, <2>4, <2>7 DEF IInv
<1>12. CASE s = Outer
  <2>1. sup[Outer].leaving /\ ~contained
    BY <1>1, <1>12 DEF IInv, OuterOK
  <2>2. new.pc = "respond" /\ new.pc \in OuterSteps \ {"exited", "killed"} /\ new.use # "watch"
    BY <1>2, <1>12, <2>1 DEF OuterSteps
  <2>3. Helper \in slipped => Helper \in slipped'
    BY <1>5, <1>12
  <2>4. /\ SupsTyped' /\ TreeOK' /\ ScanOK(Helper)' /\ HelperOK' /\ AnswerOK' /\ StatusOK'
        /\ HonestOK' /\ (Gone(Helper)' <=> Gone(Helper))
    BY <1>1, <1>2, <1>4, <1>5, <1>12, <2>2, <2>3, OuterMoves DEF CallerGoesOn
  <2>5. OuterOK'
    BY <1>2, <1>3, <1>4, <1>9, <1>12, <2>1, <2>2, <2>4 DEF IInv, OuterOK, Good
  <2>. QED BY <1>6, <1>10, <1>12, <2>4, <2>5 DEF IInv
<1>. QED BY <1>11, <1>12

-----------------------------------------------------------------------------
(* The command and the caller *)

LEMMA ForkPreserves ==
  ASSUME IInv, NEW p \in Tasks, Fork(p)
  PROVE  IInv'
<1> USE Names
<1>1. /\ p \in alive /\ born + faults < Bound /\ born' = born + 1 /\ alive' = alive \cup {born + 1}
      /\ parent' = [parent EXCEPT ![born + 1] = p]
      /\ UNCHANGED <<contained, exit, uncollected, sup, message, look, caller, answer, faults,
                     slipped>>
  BY DEF Fork, history
<1>2. born \in Nat /\ faults \in Nat /\ born + 1 \in Tasks /\ p \in Nat /\ p <= born /\ p < born + 1
  BY <1>1 DEF IInv, TreeTyped, StateTyped, TreeOK
<1>3. \A t \in alive : t # born + 1 /\ parent'[t] = parent[t]
  BY <1>1, <1>2 DEF IInv, TreeTyped, TreeOK
<1>4. parent'[born + 1] = p
  BY <1>1, <1>2 DEF IInv, TreeTyped
<1>5. TreeTyped' /\ StateTyped' /\ SupsTyped'
  BY <1>1, <1>2 DEF IInv, TreeTyped, StateTyped, SupsTyped, look
<1>6. /\ (Gone(Helper)' <=> Gone(Helper)) /\ (Gone(Outer)' <=> Gone(Outer))
      /\ (Reaps(Helper)' <=> Reaps(Helper)) /\ (Reaps(Outer)' <=> Reaps(Outer))
  BY <1>1 DEF Gone, Reaps
<1>7. TreeOK'
  <2>1. \A t \in alive : /\ t <= born' /\ t \in Nat
                         /\ parent[t] \in Tasks => parent[t] \in alive'
    BY <1>1, <1>2 DEF IInv, TreeOK, TreeTyped
  <2>2. alive # {}
    BY <1>1
  <2>. QED BY <1>1, <1>2, <1>3, <1>4, <1>6, <2>1, <2>2 DEF IInv, TreeOK
<1>8. ASSUME NEW s \in Supervisors, ScanOK(s)
      PROVE  ScanOK(s)'
  <2>1. \A t \in alive' : parent'[t] = s => t \in alive /\ parent[t] = s
    BY <1>1, <1>3, <1>4
  <2>2. alive # {} /\ sup'[s] = sup[s]
    BY <1>1
  <2>. QED BY <1>6, <1>8, <2>1, <2>2, ScanKept
<1>9. ScanOK(Helper)' /\ ScanOK(Outer)'
  BY <1>8 DEF IInv
<1>10. HelperOK' /\ OuterOK' /\ AnswerOK' /\ HonestOK'
  BY <1>1, <1>6 DEF IInv, HelperOK, OuterOK, AnswerOK, HonestOK, Cleared, Honest
<1>11. Command \in alive' <=> Command \in alive
  BY <1>1, <1>2
<1>12. StatusOK'
  BY <1>1, <1>11 DEF IInv, StatusOK, Watching, Ending, Ends, look
<1>. QED BY <1>5, <1>7, <1>9, <1>10, <1>12 DEF IInv

\* The caller believes the guardian, or the helper behind bwrap, if it has exited.
LEMMA ReceivePreserves ==
  ASSUME IInv, Receive
  PROVE  IInv'
<1> USE Names
<1>1. /\ caller \in {"waiting", "stopping"} /\ Gone(Outer) /\ caller' = "answered"
      /\ answer' = IF caller = "stopping" THEN "failure"
                   ELSE Received(IF contained THEN Helper ELSE Outer)
      /\ UNCHANGED <<contained, alive, born, parent, exit, uncollected, sup, message, look,
                     faults, slipped>>
  BY DEF Receive, tree, history
<1>2. /\ answer' \in Answers
      /\ Good(answer') => answer' = message[IF contained THEN Helper ELSE Outer]
  BY <1>1 DEF Received, Good, IInv, StateTyped, Answers
<1>3. SupsTyped' /\ TreeTyped' /\ StateTyped'
  BY <1>1, <1>2 DEF IInv, SupsTyped, TreeTyped, StateTyped, look
<1>4. TreeOK' /\ ScanOK(Helper)' /\ ScanOK(Outer)'
  BY <1>1 DEF IInv, TreeOK, ScanOK, Gone, Reaps, Ends, Runs
<1>5. HelperOK' /\ OuterOK' /\ HonestOK'
  BY <1>1 DEF IInv, HelperOK, OuterOK, HonestOK, Cleared, Honest, Gone
<1>6. StatusOK'
  BY <1>1 DEF IInv, StatusOK, Watching, Ending, Ends, look
<1>7. AnswerOK'
  BY <1>1, <1>2 DEF IInv, AnswerOK, OuterOK, Gone, Good, Answers
<1>. QED BY <1>3, <1>4, <1>5, <1>6, <1>7 DEF IInv

\* The guardian has the response of a helper that is gone.
LEMMA RelayPreserves ==
  ASSUME IInv, Relay
  PROVE  IInv'
<1> USE Names
<1> DEFINE new == Leaving({Helper}, Received(Helper))
<1>1. /\ ~contained /\ sup[Outer].pc = "relay" /\ Gone(Helper) /\ sup' = [sup EXCEPT ![Outer] = new]
      /\ UNCHANGED <<contained, alive, born, parent, exit, uncollected, message, look, caller,
                     answer, faults, slipped>>
  BY DEF Relay, Put, tree, history
<1>2. /\ Received(Helper) \in Answers
      /\ Received(Helper) = "failure" \/ Received(Helper) = message[Helper]
  BY DEF Received, IInv, StateTyped, Answers
<1>3. /\ new \in Sups /\ new.pc = "stop" /\ new.use = "none" /\ new.leaving
      /\ new.result = Received(Helper)
  <2>1. {Helper} \subseteq Tasks \cup {Helper} /\ {Helper} # {}
    OBVIOUS
  <2>. QED BY ONLY <1>2, <2>1, LeavingIs
<1> HIDE DEF new
<1>4. sup'[Outer] = new /\ ~Gone(Outer)
  BY <1>1 DEF IInv, SupsTyped, Gone
<1>5. ScanOK(Outer)' /\ ~Gone(Outer)'
  BY <1>3, <1>4 DEF ScanOK, Ends, Gone
<1>6. TreeTyped' /\ StateTyped'
  BY <1>1 DEF IInv, TreeTyped, StateTyped, look
<1>7. /\ SupsTyped' /\ TreeOK' /\ ScanOK(Helper)' /\ HelperOK' /\ AnswerOK' /\ StatusOK'
      /\ HonestOK' /\ (Gone(Helper)' <=> Gone(Helper))
  <2>1. new.pc \in OuterSteps \ {"exited", "killed"} /\ new.use # "watch"
    BY <1>3 DEF OuterSteps
  <2>. QED BY <1>1, <1>3, <1>4, <2>1, OuterMoves DEF CallerGoesOn
<1>8. OuterOK'
  BY <1>1, <1>2, <1>3, <1>4, <1>5, <1>7, OuterLeaves
<1>. QED BY <1>5, <1>6, <1>7, <1>8 DEF IInv

-----------------------------------------------------------------------------
(* _run_supervised_command_local *)

LEMMA LaunchPreserves ==
  ASSUME IInv, Launch
  PROVE  IInv'
<1> USE Names
<1>1. /\ sup[Helper].pc = "launch" /\ ~Gone(Helper) /\ alive = {} /\ exit = "none"
      /\ UNCHANGED <<contained, message, look, caller, answer, faults, slipped>>
  BY DEF Launch, history, Gone, IInv, TreeOK
<1>2. StateTyped'
  BY <1>1 DEF IInv, StateTyped, look
<1>3. CASE alive' = {Command}
  <2> DEFINE new == Idle("track", {})
  <2>1. /\ born' = 1 /\ parent' = [parent EXCEPT ![Command] = Helper]
        /\ sup' = [sup EXCEPT ![Helper] = new] /\ exit' = exit /\ uncollected' = uncollected
    BY <1>1, <1>3 DEF Launch, Put, tree
  <2>2. /\ new \in Sups /\ new.pc = "track" /\ new.fds = {} /\ new.pending = {}
        /\ new.result = "failure" /\ ~new.leaving
    <3>1. "track" \in HelperSteps \cup OuterSteps /\ {} \subseteq Tasks \cup {Helper}
      BY DEF HelperSteps
    <3>. QED BY ONLY <3>1, IdleIs
  <2> HIDE DEF new
  <2>3. sup'[Helper] = new /\ sup'[Outer] = sup[Outer]
    BY <2>1 DEF IInv, SupsTyped
  <2>4. SupsTyped'
    <3>1. "track" \in HelperSteps
      BY DEF HelperSteps
    <3>. QED BY <2>1, <2>2, <2>3, <3>1 DEF IInv, SupsTyped
  <2>5. TreeTyped'
    BY <1>3, <2>1 DEF IInv, TreeTyped
  <2>6. ~Gone(Helper)' /\ (Gone(Outer)' <=> Gone(Outer)) /\ parent'[Command] = Helper
    BY <2>1, <2>2, <2>3 DEF Gone, IInv, TreeTyped
  <2>7. TreeOK'
    BY <1>1, <1>3, <2>1, <2>2, <2>3, <2>6 DEF IInv, TreeOK
  <2>8. ScanOK(Helper)'
    BY <2>2, <2>3 DEF ScanOK, Ends
  <2>9. ScanOK(Outer)'
    BY <1>1, <1>3, <2>3, <2>6, ScanKept DEF IInv
  <2>10. HelperOK' /\ OuterOK' /\ AnswerOK'
    BY <1>1, <2>2, <2>3, <2>6 DEF IInv, HelperOK, OuterOK, AnswerOK, Good
  <2>11. HonestOK'
    BY <1>1, <2>2, <2>3 DEF IInv, HonestOK, HelperOK, Honest
  <2>12. Watching /\ Watching' /\ ~Ending'
    BY <1>1, <2>2, <2>3 DEF Watching, Ending, Ends
  <2>13. StatusOK'
    BY <1>1, <1>3, <2>1, <2>2, <2>3, <2>12 DEF IInv, StatusOK, look
  <2>. QED BY <1>2, <2>4, <2>5, <2>7, <2>8, <2>9, <2>10, <2>11, <2>13 DEF IInv
<1>4. CASE alive' # {Command}
  <2> DEFINE new == Leaving({}, "launch_error")
  <2>1. sup' = [sup EXCEPT ![Helper] = new] /\ UNCHANGED <<alive, born, parent, exit, uncollected>>
    BY <1>4 DEF Launch, Put, tree
  <2>2. /\ new \in Sups /\ new.pc = "respond" /\ new.fds = {} /\ new.pending = {}
        /\ new.use = "none" /\ new.leaving /\ new.result = "launch_error"
    <3>1. "launch_error" \in Answers /\ {} \subseteq Tasks \cup {Helper}
      BY DEF Answers
    <3>. QED BY ONLY <3>1, LeavingIs
  <2> HIDE DEF new
  <2>3. SupsTyped' /\ TreeOK' /\ ScanOK(Outer)' /\ OuterOK' /\ AnswerOK' /\ sup'[Helper] = new
    <3>1. /\ new.pc \in HelperSteps \ {"launch", "exited", "killed"}
          /\ new.fds \subseteq Tasks /\ new.pending \subseteq Tasks
      BY <2>2 DEF HelperSteps
    <3>. QED BY <1>1, <2>1, <2>2, <3>1, HelperMoves
  <2>4. TreeTyped' /\ ScanOK(Helper)'
    BY <2>1, <2>2, <2>3 DEF IInv, TreeTyped, ScanOK, Ends
  <2>5. Cleared(Helper)' /\ Honest(sup'[Helper].result)
    BY <1>1, <2>1, <2>2, <2>3 DEF Cleared, Honest
  <2>6. HelperOK' /\ StatusOK' /\ HonestOK'
    BY <1>1, <2>1, <2>2, <2>3, <2>5, HelperLeaves
  <2>. QED BY <1>2, <2>3, <2>4, <2>6 DEF IInv
<1>. QED BY <1>3, <1>4

\* The helper goes back to a step without a scan: what it knows it still knows.
LEMMA IdlePreserves ==
  ASSUME IInv, NEW pc \in {"untracked", "poll", "stop"}, NEW fds, fds \subseteq Tasks,
         sup' = [sup EXCEPT ![Helper] = Idle(pc, fds)], StateTyped', StatusOK',
         sup[Helper].pc \in {"track", "scan"}, ~sup[Helper].leaving,
         UNCHANGED <<contained, alive, born, parent, exit, uncollected, message, caller,
                     answer, slipped>>
  PROVE  IInv'
<1> USE Names
<1> DEFINE new == Idle(pc, fds)
<1>1. pc \in HelperSteps /\ fds \subseteq Tasks \cup {Helper}
  BY DEF HelperSteps
<1>2. /\ new \in Sups /\ new.pc = pc /\ new.fds = fds /\ new.pending = {}
      /\ new.use = "none" /\ ~new.leaving /\ new.result = "failure"
  <2>1. pc \in HelperSteps \cup OuterSteps
    BY <1>1
  <2>. QED BY ONLY <1>1, <2>1, IdleIs
<1> HIDE DEF new
<1>3. sup' = [sup EXCEPT ![Helper] = new] /\ ~Gone(Helper)
  BY DEF new, Gone
<1>4. SupsTyped' /\ TreeOK' /\ ScanOK(Outer)' /\ OuterOK' /\ AnswerOK' /\ sup'[Helper] = new
  <2>1. new.pc \in HelperSteps \ {"launch", "exited", "killed"}
    BY <1>1, <1>2
  <2>. QED BY <1>2, <1>3, <2>1, HelperMoves
<1>5. TreeTyped' /\ ScanOK(Helper)'
  BY <1>2, <1>4 DEF IInv, TreeTyped, ScanOK, Ends
<1>6. message[Helper] = "none"
  BY <1>3 DEF IInv, HelperOK
<1>7. HelperOK' /\ HonestOK'
  BY <1>2, <1>4, <1>6 DEF HelperOK, HonestOK, Honest, Good
<1>. QED BY <1>4, <1>5, <1>7 DEF IInv

LEMMA TrackPreserves ==
  ASSUME IInv, Track
  PROVE  IInv'
<1> USE Names
<1>1. /\ sup[Helper].pc = "track"
      /\ UNCHANGED <<contained, alive, born, parent, exit, uncollected, message, look, caller,
                     answer, faults, slipped>>
  BY DEF Track, tree, history
<1>2. Watching /\ ~sup[Helper].leaving
  BY <1>1 DEF Watching, IInv, StatusOK
<1>3. StateTyped'
  BY <1>1 DEF IInv, StateTyped, look
<1>4. ASSUME NEW pc \in {"poll", "untracked"}, NEW fds, fds \subseteq Tasks,
             sup' = [sup EXCEPT ![Helper] = Idle(pc, fds)]
      PROVE  IInv'
  <2>1. sup'[Helper] = Idle(pc, fds)
    BY <1>4 DEF IInv, SupsTyped
  <2>2. sup'[Helper].pc = pc /\ sup'[Helper].use = "none" /\ ~sup'[Helper].leaving
    BY ONLY <2>1, IdleIs
  <2>3. ~Ending'
    BY <2>2 DEF Ending, Ends
  <2>4. StatusOK'
    BY <1>1, <1>2, <2>2, <2>3 DEF IInv, StatusOK, look
  <2>. QED BY <1>1, <1>2, <1>3, <1>4, <2>4, IdlePreserves
<1>5. {Command} \subseteq Tasks /\ {} \subseteq Tasks
  OBVIOUS
<1>. QED BY <1>4, <1>5 DEF Track, Put

\* Children of the helper are killed where they stand; their children are handed on to it.
LEMMA KillUntrackedPreserves ==
  ASSUME IInv, KillUntracked
  PROVE  IInv'
<1> USE Names
<1>1. /\ sup[Helper].pc = "untracked" /\ ~Gone(Helper) /\ Reaps(Helper)
      /\ UNCHANGED <<contained, message, look, caller, answer, faults, slipped>>
  BY DEF KillUntracked, history, Gone, Reaps
<1>2. StateTyped'
  BY <1>1 DEF IInv, StateTyped, look
<1>3. CASE Children(Helper) = {}
  <2> DEFINE fds == {}
  <2>1. /\ sup' = [sup EXCEPT ![Helper] = Leaving(fds, "failure")]
        /\ UNCHANGED <<alive, born, parent, exit, uncollected>>
    BY <1>3 DEF KillUntracked, Put, tree
  <2>2. /\ UNCHANGED <<contained, alive, born, parent, exit, uncollected, message, look, caller,
                       answer, slipped>>
        /\ CallerGoesOn
    BY <1>1, <2>1 DEF CallerGoesOn
  <2>3. /\ sup[Helper].pc # "respond" /\ (Helper = Outer => ~contained)
        /\ fds \subseteq sup[Helper].fds
    BY <1>1
  <2> HIDE DEF fds
  <2>. QED BY <1>1, <1>2, <2>1, <2>2, <2>3, LeavingPreserves
<1>4. CASE Children(Helper) # {}
  <2> DEFINE dead == Children(Helper)
  <2>1. End(dead, "terminated") /\ sup' = sup
    BY <1>4 DEF KillUntracked
  <2>2. dead \subseteq alive /\ dead \cap Supervisors = {}
    BY DEF Children, IInv, TreeTyped
  <2> HIDE DEF dead
  <2>3. Command \in alive => exit = "none"
    BY DEF IInv, StatusOK
  <2>4. /\ TreeTyped' /\ alive' = alive \ Dying(dead)
        /\ \A t \in alive' : /\ t \in alive /\ t \notin Dying(dead)
                             /\ parent'[t] = IF parent[t] \in dead THEN Reaper(dead) ELSE parent[t]
        /\ exit # "none" => exit' = exit
        /\ Command \in alive' => exit' = exit
    BY <2>1, <2>3, Ended DEF IInv
  <2>5. Fates(dead) /\ SupsTyped'
    BY <2>1, <2>2 DEF Fates, Gone, Reaps, IInv, SupsTyped
  <2>6. TreeOK'
    <3>1. Helper \notin dead /\ Outer \notin dead
      BY <2>2
    <3>. QED BY <1>1, <2>1, <2>3, <2>5, <3>1, EndedTree DEF IInv
  <2>7. Reaper(dead) = Helper
    BY <1>1, <2>2 DEF Reaper
  <2>8. Gone(Helper)' <=> Gone(Helper)
    BY <2>1 DEF Gone
  <2>9. ScanOK(Helper)'
    BY <1>1, <2>1 DEF ScanOK, Ends
  <2>10. ScanOK(Outer)'
    <3>1. \A t \in alive' : parent'[t] = Outer => t \in alive /\ parent[t] = Outer
      BY <2>4, <2>7
    <3>2. alive = {} => alive' = {}
      BY <2>4
    <3>. QED BY <2>1, <2>8, <3>1, <3>2, ScanKept DEF IInv
  <2>11. HelperOK' /\ OuterOK' /\ AnswerOK'
    BY <1>1, <2>1, <2>4 DEF IInv, HelperOK, OuterOK, AnswerOK, Cleared, Gone
  <2>12. HonestOK'
    BY <1>1, <2>1, <2>4 DEF IInv, HonestOK, Honest
  <2>13. ~Watching' /\ ~Ending'
    BY <1>1, <2>1 DEF Watching, Ending, Ends
  <2>14. StatusOK'
    BY <2>3, <2>4, <2>13 DEF StatusOK
  <2>. QED BY <1>2, <2>4, <2>5, <2>6, <2>9, <2>10, <2>11, <2>12, <2>14 DEF IInv
<1>. QED BY <1>3, <1>4

\* Only the helper waits for the command while it watches it, and so finds its status.
LEMMA PollPreserves ==
  ASSUME IInv, Poll
  PROVE  IInv'
<1> USE Names
<1>1. /\ sup[Helper].pc = "poll" /\ ~Gone(Helper) /\ sup[Helper] \in Sups
      /\ known' = Polled /\ uncollected' = (uncollected /\ Command \in alive)
      /\ UNCHANGED <<contained, alive, born, parent, exit, message, trouble, late, caller,
                     answer, faults, slipped>>
  BY DEF Poll, history, Gone, IInv, SupsTyped
<1>2. /\ Watching /\ known = "none" /\ ~late /\ trouble = "none" /\ ~sup[Helper].leaving
      /\ Command \notin alive => uncollected /\ exit \in {"exited", "crashed"}
  BY <1>1 DEF Watching, IInv, StatusOK
<1>3. /\ Command \in alive => known' = "none"
      /\ Command \notin alive => known' = exit /\ exit \in {"exited", "crashed"}
  BY <1>1, <1>2 DEF Polled
<1>4. StateTyped' /\ TreeTyped'
  BY <1>1, <1>3 DEF IInv, StateTyped, TreeTyped, Exits
<1>5. ~Good(sup[Helper].result) /\ message[Helper] = "none"
  BY <1>1 DEF IInv, HelperOK
<1>6. CASE Command \in alive
  <2> DEFINE new == Scan(Helper, "watch")
  <2>1. sup' = [sup EXCEPT ![Helper] = new]
    BY <1>6 DEF Poll, Put
  <2>2. "watch" \in Uses
    BY DEF Uses
  <2>3. /\ new \in Sups /\ new.pc = "scan" /\ new.use = "watch" /\ new.seen = {}
        /\ new.pending = {IF Helper = Helper THEN Command ELSE Helper} \cup Children(Helper)
        /\ new.fds = sup[Helper].fds /\ new.leaving = sup[Helper].leaving
        /\ new.result = sup[Helper].result /\ new.pending \subseteq Tasks
    BY <2>2, ScanIs
  <2> HIDE DEF new
  <2>4. SupsTyped' /\ TreeOK' /\ ScanOK(Outer)' /\ OuterOK' /\ AnswerOK' /\ sup'[Helper] = new
    <3>1. new.pc \in HelperSteps \ {"launch", "exited", "killed"} /\ new.fds \subseteq Tasks
      BY <2>3 DEF HelperSteps, IInv, SupsTyped
    <3>. QED BY <1>1, <2>1, <2>3, <3>1, HelperMoves
  <2>5. ScanOK(Helper)'
    BY <1>1, <2>2, <2>3, <2>4, ScanBegun DEF IInv
  <2>6. HelperOK' /\ HonestOK'
    BY <1>5, <2>3, <2>4, <1>1 DEF HelperOK, HonestOK, Honest, Good
  <2>7. ~Ending'
    BY <2>3, <2>4 DEF Ending, Ends
  <2>8. StatusOK'
    BY <1>1, <1>2, <1>3, <1>6, <2>3, <2>4, <2>7 DEF IInv, StatusOK
  <2>. QED BY <1>4, <2>4, <2>5, <2>6, <2>8 DEF IInv
<1>7. CASE Command \notin alive
  <2> DEFINE new == [sup[Helper] EXCEPT !.pc = "stop"]
  <2>1. sup' = [sup EXCEPT ![Helper] = new]
    BY <1>7 DEF Poll, Put
  <2>2. /\ new \in Sups /\ new.pc = "stop" /\ new.fds = sup[Helper].fds
        /\ new.pending = sup[Helper].pending
        /\ new.leaving = sup[Helper].leaving /\ new.result = sup[Helper].result
    BY <1>1 DEF Sups, HelperSteps
  <2> HIDE DEF new
  <2>3. SupsTyped' /\ TreeOK' /\ ScanOK(Outer)' /\ OuterOK' /\ AnswerOK' /\ sup'[Helper] = new
    <3>1. /\ new.pc \in HelperSteps \ {"launch", "exited", "killed"}
          /\ new.fds \subseteq Tasks /\ new.pending \subseteq Tasks
      BY <2>2 DEF HelperSteps, IInv, SupsTyped
    <3>. QED BY <1>1, <2>1, <2>2, <3>1, HelperMoves
  <2>4. ScanOK(Helper)'
    BY <2>2, <2>3 DEF ScanOK, Ends
  <2>5. HelperOK' /\ HonestOK'
    BY <1>5, <2>2, <2>3, <1>1 DEF HelperOK, HonestOK, Honest, Good
  <2>6. ~Watching'
    BY <2>2, <2>3 DEF Watching
  <2>7. StatusOK'
    BY <1>1, <1>3, <1>7, <2>6 DEF StatusOK
  <2>. QED BY <1>4, <2>3, <2>4, <2>5, <2>7 DEF IInv
<1>. QED BY <1>6, <1>7

\* What a watching helper knows, and that it goes on watching or ends for a reason.
LEMMA WatchPreserves ==
  ASSUME IInv, Scanned(Helper), sup[Helper].use = "watch",
         NEW pc \in {"poll", "stop"}, sup' = [sup EXCEPT ![Helper] = Idle(pc, sup[Helper].fds)],
         UNCHANGED <<contained, alive, born, parent, exit, uncollected, message, known, caller,
                     answer, faults, slipped>>,
         late' \in BOOLEAN, trouble' \in {"none", "overflow", "reader"},
         pc = "poll" => late' = late /\ trouble' = trouble,
         pc = "stop" => late' \/ trouble' # "none"
  PROVE  IInv'
<1> USE Names
<1>1. Watching /\ sup[Helper].pc = "scan" /\ ~Gone(Helper)
  BY DEF Watching, Scanned, Gone
<1>2. /\ known = "none" /\ ~late /\ trouble = "none" /\ ~sup[Helper].leaving
      /\ Command \notin alive => uncollected /\ exit \in {"exited", "crashed"}
  BY <1>1 DEF IInv, StatusOK
<1>3. StateTyped'
  BY DEF IInv, StateTyped
<1> DEFINE fds == sup[Helper].fds
<1>4. fds \subseteq Tasks /\ sup'[Helper] = Idle(pc, fds)
  BY DEF IInv, SupsTyped
<1> HIDE DEF fds
<1>5. sup'[Helper].pc = pc /\ sup'[Helper].use = "none" /\ ~sup'[Helper].leaving
  BY ONLY <1>4, IdleIs
<1>6. CASE pc = "poll"
  <2>1. ~Ending'
    BY <1>5, <1>6 DEF Ending, Ends
  <2>2. StatusOK'
    BY <1>2, <1>5, <1>6, <2>1 DEF IInv, StatusOK
  <2>. QED BY <1>1, <1>2, <1>3, <1>4, <2>2, IdlePreserves DEF fds
<1>7. CASE pc = "stop"
  <2>1. ~Watching'
    BY <1>5, <1>7 DEF Watching
  <2>2. StatusOK'
    BY <1>7, <2>1 DEF IInv, StatusOK
  <2>. QED BY <1>1, <1>2, <1>3, <1>4, <2>2, IdlePreserves DEF fds
<1>. QED BY <1>6, <1>7

LEMMA ObservePreserves ==
  ASSUME IInv, Observe
  PROVE  IInv'
<1>1. /\ Scanned(Helper) /\ sup[Helper].use = "watch"
      /\ UNCHANGED <<contained, alive, born, parent, exit, uncollected, message, known, caller,
                     answer, faults, slipped>>
      /\ late' = late
  BY DEF Observe, tree, history
<1>2. late' \in BOOLEAN /\ trouble \in {"none", "overflow", "reader"}
  BY <1>1 DEF IInv, StateTyped
<1>3. CASE /\ trouble' = trouble
           /\ sup' = [sup EXCEPT ![Helper] = Idle("poll", sup[Helper].fds)]
  BY <1>1, <1>2, <1>3, WatchPreserves
<1>4. CASE /\ trouble' \in {"overflow", "reader"}
           /\ sup' = [sup EXCEPT ![Helper] = Idle("stop", sup[Helper].fds)]
  BY <1>1, <1>2, <1>4, WatchPreserves
<1>. QED BY <1>3, <1>4 DEF Observe, Put

LEMMA DeadlinePreserves ==
  ASSUME IInv, Deadline
  PROVE  IInv'
<1>1. /\ Scanned(Helper) /\ sup[Helper].use = "watch"
      /\ UNCHANGED <<contained, alive, born, parent, exit, uncollected, message, known, caller,
                     answer, faults, slipped>>
      /\ late' = TRUE /\ trouble' = trouble
      /\ sup' = [sup EXCEPT ![Helper] = Idle("stop", sup[Helper].fds)]
  BY DEF Deadline, Put, tree, history
<1>2. trouble \in {"none", "overflow", "reader"}
  BY DEF IInv, StateTyped
<1>. QED BY <1>1, <1>2, WatchPreserves

\* "completed" and "abnormal" need the status of a command that ended in time, and with its
\* output in order: that is what the helper stopped for.
LEMMA ConcludePreserves ==
  ASSUME IInv, Conclude
  PROVE  IInv'
<1> USE Names
<1>1. /\ sup[Helper].pc = "conclude" /\ ~Gone(Helper)
      /\ known' = Polled
      /\ trouble' \in (IF trouble = "none" THEN {"none", "overflow", "reader"} ELSE {trouble})
      /\ UNCHANGED <<contained, alive, born, parent, exit, uncollected, message, late, caller,
                     answer, faults, slipped>>
  BY DEF Conclude, history, Gone
<1>2. Ending /\ ~sup[Helper].leaving /\ Cleared(Helper)
  BY <1>1 DEF Ending, IInv, HelperOK
<1>3. late \/ trouble # "none" \/ (known \in {"exited", "crashed"} /\ known = exit)
  BY <1>2 DEF IInv, StatusOK
<1>4. PICK drained \in BOOLEAN :
         \E result \in {Verdict(drained)} \cup (IF Verdict(drained) = "completed"
                                                THEN {"invalid_utf8"} ELSE {}) :
            sup' = [sup EXCEPT ![Helper] = Leaving({}, result)]
  BY DEF Conclude, Put
<1>5. PICK result \in {Verdict(drained)} \cup (IF Verdict(drained) = "completed"
                                               THEN {"invalid_utf8"} ELSE {}) :
         sup' = [sup EXCEPT ![Helper] = Leaving({}, result)]
  BY <1>4
<1>6. known # "none" => known' = known
  BY <1>1 DEF Polled
<1>7. /\ Verdict(drained) = "completed" => exit = "exited"
      /\ Verdict(drained) = "abnormal" => exit = "crashed"
      /\ Verdict(drained) \in {"failure", "timeout", "overflow", "abnormal", "completed"}
  <2>1. Verdict(drained) \in {"completed", "abnormal"} =>
           /\ drained /\ ~late /\ trouble' = "none"
           /\ Verdict(drained) = "abnormal" <=> known' \in {"crashed", "terminated"}
    <3>1. trouble' \in {"none", "overflow", "reader"}
      BY <1>1 DEF IInv, StateTyped
    <3>. QED BY <3>1 DEF Verdict
  <2>2. Verdict(drained) \in {"completed", "abnormal"} =>
           known' = exit /\ exit \in {"exited", "crashed"}
    BY <1>1, <1>3, <1>6, <2>1
  <2>3. Verdict(drained) \in {"failure", "timeout", "overflow", "abnormal", "completed"}
    BY DEF Verdict
  <2>. QED BY <2>1, <2>2, <2>3
<1>8. result \in Answers /\ Honest(result)
  BY <1>5, <1>7 DEF Answers, Honest
<1> DEFINE new == Leaving({}, result)
<1>9. /\ new \in Sups /\ new.pc = "respond" /\ new.fds = {} /\ new.pending = {}
      /\ new.use = "none" /\ new.leaving /\ new.result = result
  <2>1. {} \subseteq Tasks \cup {Helper}
    OBVIOUS
  <2>. QED BY ONLY <1>8, <2>1, LeavingIs
<1>10. sup' = [sup EXCEPT ![Helper] = new]
  BY <1>5
<1> HIDE DEF new
<1>11. SupsTyped' /\ TreeOK' /\ ScanOK(Outer)' /\ OuterOK' /\ AnswerOK' /\ sup'[Helper] = new
  <2>1. /\ new.pc \in HelperSteps \ {"launch", "exited", "killed"}
        /\ new.fds \subseteq Tasks /\ new.pending \subseteq Tasks
    BY <1>9 DEF HelperSteps
  <2>. QED BY <1>1, <1>9, <1>10, <2>1, HelperMoves
<1>12. TreeTyped' /\ ScanOK(Helper)'
  BY <1>1, <1>9, <1>11 DEF IInv, TreeTyped, ScanOK, Ends
<1>13. StateTyped'
  <2>1. known' \in Exits \cup {"assumed"}
    BY <1>1 DEF Polled, IInv, StateTyped, TreeTyped
  <2>2. trouble' \in {"none", "overflow", "reader"}
    BY <1>1 DEF IInv, StateTyped
  <2>. QED BY <1>1, <2>1, <2>2 DEF IInv, StateTyped
<1>14. Cleared(Helper)' /\ Honest(sup'[Helper].result)
  BY <1>1, <1>2, <1>8, <1>9, <1>11 DEF Cleared
<1>15. HelperOK' /\ StatusOK' /\ HonestOK'
  BY <1>1, <1>9, <1>11, <1>14, HelperLeaves
<1>. QED BY <1>11, <1>12, <1>13, <1>15 DEF IInv

-----------------------------------------------------------------------------
(* Signals and ends *)

\* A process of the command ends by itself.
LEMMA QuitPreserves ==
  ASSUME IInv, NEW p \in Tasks, Quit(p)
  PROVE  IInv'
<1> USE Names
<1> DEFINE dead == {p}
<1>1. PICK how \in {"exited", "crashed"} : End(dead, how)
  BY DEF Quit
<1>2. /\ sup' = [s \in Supervisors |-> Hit(s, dead)]
      /\ UNCHANGED <<contained, message, look, caller, answer, faults, slipped>>
  BY DEF Quit, history
<1>3. dead \cap Supervisors = {}
  OBVIOUS
<1> HIDE DEF dead
<1>4. /\ how \in {"exited", "crashed", "terminated"}
      /\ Command \in alive => exit = "none"
  BY DEF IInv, StatusOK
<1>5. /\ TreeTyped' /\ alive' = alive \ Dying(dead)
      /\ exit # "none" => exit' = exit
      /\ Command \in alive' => exit' = exit
      /\ Command \in alive /\ Command \notin alive' => exit' = how /\ uncollected'
      /\ Command \notin alive => exit' = exit
      /\ uncollected => uncollected'
  BY <1>1, <1>4, Ended DEF IInv
<1>6. StateTyped'
  BY <1>2 DEF IInv, StateTyped, look
<1>7. \A s \in Supervisors : sup'[s] = Hit(s, dead) /\ sup'[s].pc = sup[s].pc /\ s \notin dead
  BY <1>2, <1>3 DEF Hit, IInv, SupsTyped, Sups
<1>8. \A s \in Supervisors : (Gone(s)' <=> Gone(s)) /\ (Reaps(s)' <=> Reaps(s))
  BY <1>7 DEF Gone, Reaps
<1>9. ASSUME NEW s \in Supervisors
      PROVE  /\ ScanOK(s)' /\ sup'[s] \in Sups
             /\ sup'[s].fds = sup[s].fds /\ sup'[s].use = sup[s].use
             /\ sup'[s].pending = sup[s].pending /\ sup'[s].leaving = sup[s].leaving
             /\ sup'[s].result = sup[s].result
  <2>1. sup[s] \in Sups /\ TreeTyped /\ ScanOK(s)
    BY DEF IInv, SupsTyped
  <2>2. /\ ScanOK(s)' /\ sup'[s] \in Sups
        /\ \A f \in {"pc", "fds", "use", "pending", "seen", "phase", "round", "leaving",
                     "result"} : sup'[s][f] = sup[s][f]
    BY <1>1, <1>4, <1>7, <1>8, <2>1, ScanHit
  <2>. QED BY <2>2
<1>10. SupsTyped'
  BY <1>2, <1>7, <1>9 DEF IInv, SupsTyped
<1>11. TreeOK'
  <2>1. Fates(dead)
    BY <1>7, <1>8 DEF Fates
  <2>. QED BY <1>1, <1>2, <1>4, <1>7, <2>1, EndedTree DEF IInv
<1>12. alive = {} => alive' = {}
  BY <1>5
<1>13. HelperOK' /\ OuterOK' /\ AnswerOK'
  BY <1>2, <1>7, <1>8, <1>9, <1>12 DEF IInv, HelperOK, OuterOK, AnswerOK, Cleared
<1>14. HonestOK'
  BY <1>2, <1>5, <1>9 DEF IInv, HonestOK, Honest
<1>15. StatusOK'
  <2>1. (Watching' <=> Watching) /\ (Ending' <=> Ending)
    BY <1>7, <1>9 DEF Watching, Ending, Ends
  <2>2. known' = known /\ trouble' = trouble /\ late' = late
    BY <1>2 DEF look
  <2>3. sup'[Helper].leaving = sup[Helper].leaving /\ sup'[Helper].pc = sup[Helper].pc
    BY <1>7, <1>9
  <2>. QED BY <1>4, <1>5, <2>1, <2>2, <2>3 DEF IInv, StatusOK
<1>. QED BY <1>5, <1>6, <1>9, <1>10, <1>11, <1>13, <1>14, <1>15 DEF IInv

\* A helper that is signalled while it watches has no result any more.
LEMMA HelperHit ==
  ASSUME IInv, ~Gone(Helper), sup'[Helper].pc \in {"exited", "killed", "respond", "stop"},
         sup'[Helper].result = "failure",
         sup'[Helper].pc = "stop" => sup'[Helper].leaving,
         message'[Helper] = message[Helper], Command \in alive' => exit' = "none"
  PROVE  HelperOK' /\ StatusOK' /\ HonestOK' /\ ScanOK(Helper)'
<1>1. message[Helper] = "none"
  BY DEF IInv, HelperOK
<1>2. ~Watching' /\ (Ending' => sup'[Helper].leaving)
  BY DEF Watching, Ending, Ends
<1>. QED BY <1>1, <1>2 DEF HelperOK, StatusOK, HonestOK, Honest, Good, ScanOK, Ends

\* What a supervisor is behind a round of signals.
LEMMA SignalledIs ==
  ASSUME IInv, NEW s \in Supervisors, Scanned(s), sup[s].use # "watch", NEW me,
         me = [Idle("stop", Remaining(s)) EXCEPT !.phase = sup[s].phase,
                  !.leaving = sup[s].leaving, !.round = sup[s].round + 1, !.result = sup[s].result]
  PROVE  /\ me \in Sups /\ me.pc = "stop" /\ me.fds = Remaining(s) /\ me.use = "none"
         /\ me.pending = {} /\ me.leaving = sup[s].leaving /\ me.result = sup[s].result
         /\ Ends(s) /\ Remaining(s) \subseteq sup[s].fds
<1> USE Names
<1>1. sup[s] \in Sups /\ ScanOK(s) /\ sup[s].pc = "scan"
  BY DEF IInv, SupsTyped, Scanned
<1>2. Ends(s)
  BY <1>1 DEF ScanOK, Ends, Sups, Uses
<1>3. sup[s].round + 1 \in 0 .. Rounds
  BY <1>1, <1>2 DEF ScanOK, Sups
<1>4. Remaining(s) \subseteq sup[s].fds /\ Remaining(s) \subseteq Tasks \cup {Helper}
  BY <1>1 DEF Remaining, Sups
<1> DEFINE idle == Idle("stop", Remaining(s))
<1>5. /\ idle \in Sups /\ idle.pc = "stop" /\ idle.fds = Remaining(s) /\ idle.use = "none"
      /\ idle.pending = {}
  <2>1. "stop" \in HelperSteps \cup OuterSteps
    BY DEF HelperSteps
  <2>. QED BY ONLY <1>4, <2>1, IdleIs
<1>6. me = [idle EXCEPT !.phase = sup[s].phase, !.leaving = sup[s].leaving,
                        !.round = sup[s].round + 1, !.result = sup[s].result]
  OBVIOUS
<1> HIDE DEF idle
<1>. QED BY <1>1, <1>2, <1>3, <1>4, <1>5, <1>6 DEF Sups

\* The helper signals what is left of the command.
LEMMA HelperSignals ==
  ASSUME IInv, Signal(Helper)
  PROVE  IInv'
<1> USE Names
<1> DEFINE me == [Idle("stop", Remaining(Helper)) EXCEPT !.phase = sup[Helper].phase,
                     !.leaving = sup[Helper].leaving, !.round = sup[Helper].round + 1,
                     !.result = sup[Helper].result]
<1>1. /\ Scanned(Helper) /\ sup[Helper].use # "watch" /\ sup[Helper].pc = "scan"
      /\ ~Gone(Helper) /\ Reaps(Helper)
      /\ UNCHANGED <<contained, message, look, caller, answer, faults, slipped>>
  BY DEF Signal, Scanned, Gone, Reaps
<1>2. /\ me \in Sups /\ me.pc = "stop" /\ me.fds = Remaining(Helper) /\ me.use = "none"
      /\ me.pending = {} /\ me.leaving = sup[Helper].leaving /\ me.result = sup[Helper].result
      /\ Ends(Helper) /\ Remaining(Helper) \subseteq sup[Helper].fds
  BY <1>1, SignalledIs
<1>3. Remaining(Helper) \subseteq Tasks /\ Remaining(Helper) \cap {Helper} = {}
  BY <1>2 DEF IInv, SupsTyped
<1>4. PICK dead \in SUBSET Tasks : End(dead, "terminated")
  <2>1. CASE sup[Helper].phase = "TERM"
    <3>1. PICK S \in SUBSET (Remaining(Helper) \cap Tasks) : End(S \cup {}, "terminated")
      <4>1. {q \in Remaining(Helper) \cap {Helper} : sup[q].pc = "respond"} = {}
        BY <1>3
      <4>. QED BY <2>1, <4>1 DEF Signal
    <3>2. S \cup {} \in SUBSET Tasks
      OBVIOUS
    <3>. QED BY <3>1, <3>2
  <2>2. CASE sup[Helper].phase # "TERM"
    BY <1>3, <2>2 DEF Signal
  <2>. QED BY <2>1, <2>2
<1>5. sup' = [q \in Supervisors |-> IF q = Helper THEN me ELSE sup[q]]
  <2>1. \A new : [q \in Supervisors |-> IF q = Helper THEN me
                     ELSE IF q \in Remaining(Helper) \cap {Helper} THEN new ELSE sup[q]]
                 = [q \in Supervisors |-> IF q = Helper THEN me ELSE sup[q]]
    BY <1>3
  <2>. QED BY <2>1 DEF Signal
<1> HIDE DEF me
<1>6. sup'[Helper] = me /\ sup'[Outer] = sup[Outer]
  BY <1>5
<1>7. SupsTyped'
  <2>1. "stop" \in HelperSteps
    BY DEF HelperSteps
  <2>. QED BY <1>2, <1>3, <1>5, <1>6, <2>1 DEF IInv, SupsTyped
<1>8. Command \in alive => exit = "none"
  BY DEF IInv, StatusOK
<1>9. /\ TreeTyped' /\ alive' = alive \ Dying(dead)
      /\ \A t \in alive' : /\ t \in alive /\ t \notin Dying(dead)
                           /\ parent'[t] = IF parent[t] \in dead THEN Reaper(dead) ELSE parent[t]
      /\ exit # "none" => exit' = exit
      /\ Command \in alive' => exit' = exit
  BY <1>4, <1>8, Ended DEF IInv
<1>10. StateTyped'
  BY <1>1 DEF IInv, StateTyped, look
<1>11. /\ ~Gone(Helper)' /\ (Gone(Outer)' <=> Gone(Outer)) /\ (Reaps(Outer)' <=> Reaps(Outer))
       /\ Helper \notin dead /\ Outer \notin dead
  BY <1>2, <1>6 DEF Gone, Reaps
<1>12. TreeOK'
  <2>1. Fates(dead)
    BY <1>1, <1>2, <1>6, <1>11 DEF Fates
  <2>. QED BY <1>1, <1>4, <1>8, <1>11, <2>1, EndedTree DEF IInv
<1>13. ScanOK(Helper)'
  BY <1>2, <1>6 DEF ScanOK, Ends
<1>14. ScanOK(Outer)'
  <2>1. Reaper(dead) = Helper
    BY <1>1, <1>11 DEF Reaper
  <2>2. \A t \in alive' : parent'[t] = Outer => t \in alive /\ parent[t] = Outer
    BY <1>9, <2>1
  <2>3. alive = {} => alive' = {}
    BY <1>9
  <2>. QED BY <1>1, <1>6, <2>2, <2>3, ScanKept DEF IInv
<1>15. ~Good(sup[Helper].result) /\ message[Helper] = "none"
  BY <1>1 DEF IInv, HelperOK
<1>16. HelperOK' /\ HonestOK'
  BY <1>1, <1>2, <1>6, <1>15 DEF HelperOK, HonestOK, Honest, Good
<1>17. OuterOK' /\ AnswerOK'
  <2>1. alive = {} => alive' = {}
    BY <1>9
  <2>. QED BY <1>1, <1>6, <1>11, <2>1 DEF IInv, OuterOK, AnswerOK, Cleared
<1>18. StatusOK'
  <2>1. ~Watching' /\ Ending /\ sup'[Helper].leaving = sup[Helper].leaving
    BY <1>2, <1>6 DEF Watching, Ending
  <2>2. known' = known /\ trouble' = trouble /\ late' = late
    BY <1>1 DEF look
  <2>. QED BY <1>8, <1>9, <2>1, <2>2 DEF IInv, StatusOK
<1>. QED BY <1>7, <1>9, <1>10, <1>12, <1>13, <1>14, <1>16, <1>17, <1>18 DEF IInv

\* The guardian signals what is left, and with it the helper, if that still runs.
LEMMA OuterSignals ==
  ASSUME IInv, Signal(Outer)
  PROVE  IInv'
<1> USE Names
<1> DEFINE me == [Idle("stop", Remaining(Outer)) EXCEPT !.phase = sup[Outer].phase,
                     !.leaving = sup[Outer].leaving, !.round = sup[Outer].round + 1,
                     !.result = sup[Outer].result]
           target == Remaining(Outer) \cap {Helper}
           dying  == {q \in target : sup[q].pc = "respond"}
           new    == IF sup[Outer].phase = "TERM" THEN Interrupted(Helper) ELSE Idle("killed", {})
<1>1. /\ Scanned(Outer) /\ sup[Outer].use # "watch" /\ sup[Outer].pc = "scan"
      /\ ~Gone(Outer) /\ Reaps(Outer) /\ sup[Outer].leaving /\ ~contained
      /\ UNCHANGED <<contained, message, look, caller, answer, faults, slipped>>
  BY DEF Signal, Scanned, Gone, Reaps, IInv, OuterOK
<1>2. /\ me \in Sups /\ me.pc = "stop" /\ me.fds = Remaining(Outer) /\ me.use = "none"
      /\ me.pending = {} /\ me.leaving = sup[Outer].leaving /\ me.result = sup[Outer].result
      /\ Ends(Outer) /\ Remaining(Outer) \subseteq sup[Outer].fds
  BY <1>1, SignalledIs
<1>3. Remaining(Outer) \subseteq Tasks \cup {Helper} /\ (Helper \in target <=> ~Gone(Helper))
  <2>1. Runs(Helper) <=> ~Gone(Helper)
    BY DEF Runs
  <2>2. Runs(Helper) => Helper \in sup[Outer].fds
    BY <1>1 DEF IInv, ScanOK, Scanned
  <2>3. sup[Outer].fds \subseteq Tasks \cup {Helper}
    BY DEF IInv, SupsTyped, Sups
  <2>. QED BY <2>1, <2>2, <2>3 DEF Remaining
<1>4. sup' = [q \in Supervisors |-> IF q = Outer THEN me ELSE IF q \in target THEN new ELSE sup[q]]
  <2>1. CASE sup[Outer].phase = "TERM"
    BY <2>1 DEF Signal
  <2>2. CASE sup[Outer].phase # "TERM"
    BY <2>2 DEF Signal
  <2>. QED BY <2>1, <2>2
<1>5. PICK dead \in SUBSET (Tasks \cup {Helper}) :
         /\ End(dead, "terminated")
         /\ Helper \in dead <=> Helper \in target /\ (sup[Outer].phase # "TERM"
                                                      \/ sup[Helper].pc = "respond")
  <2>1. CASE sup[Outer].phase = "TERM"
    <3>1. PICK S \in SUBSET (Remaining(Outer) \cap Tasks) : End(S \cup dying, "terminated")
      BY <2>1 DEF Signal
    <3>2. /\ S \cup dying \in SUBSET (Tasks \cup {Helper})
          /\ Helper \in S \cup dying <=> Helper \in target /\ sup[Helper].pc = "respond"
      OBVIOUS
    <3>. QED BY <2>1, <3>1, <3>2
  <2>2. CASE sup[Outer].phase # "TERM"
    BY <1>3, <2>2 DEF Signal
  <2>. QED BY <2>1, <2>2
<1>6. sup[Helper] \in Sups /\ sup[Helper].fds \subseteq Tasks
  BY DEF IInv, SupsTyped
<1>7. ~Gone(Helper) =>
         /\ new \in Sups /\ new.fds \subseteq Tasks /\ new.pending \subseteq Tasks
         /\ new.result = "failure" /\ new.pc \in {"killed", "respond", "stop"}
         /\ new.pc \in {"respond", "stop"} => new.leaving
         /\ new.pc = "killed" <=> sup[Outer].phase # "TERM" \/ sup[Helper].pc = "respond"
  <2>1. CASE sup[Outer].phase = "TERM"
    <3>1. new = Interrupted(Helper)
      BY <2>1
    <3> HIDE DEF new
    <3>2. Helper \in Supervisors
      OBVIOUS
    <3>3. CASE sup[Helper].pc = "respond"
      <4>1. /\ new \in Sups /\ new.pc = "killed" /\ new.fds = {} /\ new.pending = {}
            /\ new.result = "failure"
        BY <1>6, <3>1, <3>2, <3>3, InterruptedIs
      <4>. QED BY <3>3, <4>1
    <3>4. CASE sup[Helper].pc # "respond" /\ ~Gone(Helper)
      <4>1. /\ new \in Sups /\ new.pc \in {"respond", "stop"} /\ new.leaving
            /\ new.fds \subseteq sup[Helper].fds /\ new.pending = {} /\ new.result = "failure"
        BY <1>6, <3>1, <3>2, <3>4, InterruptedIs
      <4>. QED BY <1>6, <2>1, <3>4, <4>1
    <3>. QED BY <3>3, <3>4
  <2>2. CASE sup[Outer].phase # "TERM"
    <3>1. new = Idle("killed", {})
      BY <2>2
    <3> HIDE DEF new
    <3>2. /\ "killed" \in HelperSteps \cup OuterSteps /\ {} \subseteq Tasks \cup {Helper}
      BY DEF HelperSteps
    <3>3. /\ new \in Sups /\ new.pc = "killed" /\ new.fds = {} /\ new.pending = {}
          /\ new.result = "failure"
      BY ONLY <3>1, <3>2, IdleIs
    <3>. QED BY <2>2, <3>3
  <2>. QED BY <2>1, <2>2
<1>8. /\ sup'[Outer] = me
      /\ sup'[Helper] = IF Gone(Helper) THEN sup[Helper] ELSE new
  BY <1>3, <1>4
<1>9. Helper \in dead <=> ~Gone(Helper) /\ (sup[Outer].phase # "TERM" \/ sup[Helper].pc = "respond")
  BY <1>3, <1>5
<1> HIDE DEF me, new, target, dying
<1>10. SupsTyped'
  <2>1. "stop" \in OuterSteps /\ {"killed", "respond", "stop"} \subseteq HelperSteps
    BY DEF HelperSteps, OuterSteps
  <2>2. sup'[Helper] \in Sups /\ sup'[Outer] \in Sups
    BY <1>2, <1>6, <1>7, <1>8
  <2>3. sup' = [q \in Supervisors |-> sup'[q]]
    BY <1>4
  <2>4. sup' \in [Supervisors -> Sups]
    BY <2>2, <2>3
  <2>. QED BY <1>2, <1>7, <1>8, <2>1, <2>4 DEF IInv, SupsTyped
<1>11. Command \in alive => exit = "none"
  BY DEF IInv, StatusOK
<1>12. /\ TreeTyped' /\ alive' = alive \ Dying(dead)
       /\ exit # "none" => exit' = exit
       /\ Command \in alive' => exit' = exit
       /\ Command \notin alive => exit' = exit
  BY <1>5, <1>11, Ended DEF IInv
<1>13. StateTyped'
  BY <1>1 DEF IInv, StateTyped, look
<1>14. /\ ~Gone(Outer)' /\ Outer \notin dead
       /\ Gone(Helper)' <=> Gone(Helper) \/ Helper \in dead
       /\ Reaps(Helper)' => Reaps(Helper)
  <2>1. Gone(Helper)' <=> Gone(Helper) \/ Helper \in dead
    BY <1>7, <1>8, <1>9 DEF Gone
  <2>2. sup[Helper].pc = "respond" /\ ~Gone(Helper) => Helper \in dead
    BY <1>9
  <2>. QED BY <1>2, <1>8, <2>1, <2>2 DEF Gone, Reaps
<1>15. TreeOK'
  <2>1. sup'[Helper].pc = "launch" => sup[Helper].pc = "launch"
    BY <1>7, <1>8
  <2>2. Fates(dead)
    BY <1>1, <1>2, <1>8, <1>14, <2>1 DEF Fates, Reaps
  <2>. QED BY <1>1, <1>5, <1>11, <1>14, <2>2, EndedTree DEF IInv
<1>16. ScanOK(Outer)'
  BY <1>2, <1>8 DEF ScanOK, Ends
<1>17. alive = {} => alive' = {}
  BY <1>12
<1>18. OuterOK' /\ AnswerOK'
  BY <1>1, <1>2, <1>8, <1>14, <1>17 DEF IInv, OuterOK, AnswerOK, Good
<1>19. HelperOK' /\ StatusOK' /\ HonestOK' /\ ScanOK(Helper)'
  <2>1. CASE ~Gone(Helper)
    BY <1>1, <1>7, <1>8, <1>11, <1>12, <2>1, HelperHit
  <2>2. CASE Gone(Helper)
    <3>1. sup'[Helper] = sup[Helper] /\ Gone(Helper)'
      BY <1>8, <1>14, <2>2
    <3>2. ~Watching' /\ ~Ending' /\ ScanOK(Helper)'
      BY <2>2, <3>1 DEF Watching, Ending, Ends, ScanOK, Gone
    <3>3. HelperOK' /\ HonestOK'
      BY <1>1, <1>12, <1>17, <3>1 DEF IInv, HelperOK, HonestOK, Honest, Cleared
    <3>4. StatusOK'
      BY <1>11, <1>12, <3>2 DEF StatusOK
    <3>. QED BY <3>2, <3>3, <3>4
  <2>. QED BY <2>1, <2>2
<1>. QED BY <1>10, <1>12, <1>13, <1>15, <1>16, <1>18, <1>19 DEF IInv

-----------------------------------------------------------------------------

\* The helper ends: within the namespace everybody does, and otherwise what it had is handed
\* on to the guardian.
LEMMA HelperEnds ==
  ASSUME IInv, NEW pc \in {"exited", "killed"}, ~Gone(Helper), Leave(Helper, pc), StateTyped',
         UNCHANGED <<contained, look, answer, slipped>>,
         CallerGoesOn,
         message' = message
         \/ (sup[Helper].pc = "respond"
             /\ message' = [message EXCEPT ![Helper] = sup[Helper].result])
  PROVE  IInv'
<1> USE Names
<1> DEFINE dead == Taken(Helper)
<1>1. /\ End(dead, "terminated")
      /\ sup' = [q \in Supervisors |->
                    IF q = Helper THEN Idle(pc, {})
                    ELSE IF q \in dead THEN Idle("killed", {})
                    ELSE IF q = Helper THEN Interrupted(Helper) ELSE Hit(q, dead)]
  BY DEF Leave
<1>2. /\ contained => dead = {Helper, Outer} /\ ~Gone(Outer)
      /\ ~contained => dead = {Helper}
  BY DEF Taken, IInv, TreeOK
<1> HIDE DEF dead
<1>3. Command \in alive => exit = "none"
  BY DEF IInv, StatusOK
<1>4. /\ TreeTyped' /\ alive' = alive \ Dying(dead)
      /\ exit # "none" => exit' = exit
      /\ Command \in alive' => exit' = exit
  BY <1>1, <1>3, Ended DEF IInv
<1> DEFINE none == {}
<1>5. pc \in HelperSteps \cup OuterSteps /\ "killed" \in HelperSteps \cup OuterSteps
      /\ none \subseteq Tasks \cup {Helper}
  BY DEF HelperSteps
<1>6. /\ sup'[Helper] = Idle(pc, none)
      /\ sup'[Outer] = IF Outer \in dead THEN Idle("killed", none) ELSE Hit(Outer, dead)
  BY <1>1
<1> HIDE DEF none
<1>7. /\ sup'[Helper] \in Sups /\ sup'[Helper].pc = pc /\ sup'[Helper].result = "failure"
      /\ sup'[Helper].fds = none /\ sup'[Helper].pending = {}
  BY ONLY <1>5, <1>6, IdleIs
<1>8. Gone(Helper)'
  BY <1>7 DEF Gone
<1>9. Outer \in dead =>
         /\ sup'[Outer] \in Sups /\ sup'[Outer].pc = "killed" /\ sup'[Outer].use = "none"
         /\ sup'[Outer].result = "failure" /\ ScanOK(Outer)'
  <2> SUFFICES ASSUME Outer \in dead
               PROVE  /\ sup'[Outer] \in Sups /\ sup'[Outer].pc = "killed"
                      /\ sup'[Outer].use = "none"
                      /\ sup'[Outer].result = "failure" /\ ScanOK(Outer)'
    OBVIOUS
  <2>1. sup'[Outer] = Idle("killed", none)
    BY <1>6
  <2>2. /\ sup'[Outer] \in Sups /\ sup'[Outer].pc = "killed" /\ sup'[Outer].use = "none"
        /\ sup'[Outer].result = "failure"
    BY ONLY <1>5, <2>1, IdleIs
  <2>. QED BY <2>2 DEF ScanOK, Ends
<1>10. Outer \notin dead =>
          /\ sup'[Outer] \in Sups /\ ScanOK(Outer)' /\ sup'[Outer].pc = sup[Outer].pc
          /\ sup'[Outer].use = sup[Outer].use /\ sup'[Outer].leaving = sup[Outer].leaving
          /\ sup'[Outer].result = sup[Outer].result
  <2> SUFFICES ASSUME Outer \notin dead
               PROVE  /\ sup'[Outer] \in Sups /\ ScanOK(Outer)' /\ sup'[Outer].pc = sup[Outer].pc
                      /\ sup'[Outer].use = sup[Outer].use
                      /\ sup'[Outer].leaving = sup[Outer].leaving
                      /\ sup'[Outer].result = sup[Outer].result
    OBVIOUS
  <2>1. sup'[Outer] = Hit(Outer, dead)
    BY <1>6
  <2>2. sup[Outer] \in Sups /\ ScanOK(Outer) /\ TreeTyped
    BY DEF IInv, SupsTyped
  <2>3. /\ ScanOK(Outer)' /\ sup'[Outer] \in Sups
        /\ \A f \in {"pc", "fds", "use", "pending", "seen", "phase", "round", "leaving",
                     "result"} : sup'[Outer][f] = sup[Outer][f]
    BY <1>1, <1>3, <1>8, <2>1, <2>2, ScanHit
  <2>. QED BY <2>3
<1>11. SupsTyped' /\ ScanOK(Outer)'
  <2>1. sup' = [q \in Supervisors |-> sup'[q]] /\ "killed" \in OuterSteps /\ pc \in HelperSteps
    BY <1>1 DEF OuterSteps, HelperSteps
  <2>2. sup' \in [Supervisors -> Sups]
    BY <1>7, <1>9, <1>10, <2>1
  <2>3. sup'[Helper].fds \subseteq Tasks /\ sup'[Helper].pending \subseteq Tasks
    BY <1>7 DEF none
  <2>. QED BY <1>7, <1>9, <1>10, <2>1, <2>2, <2>3 DEF IInv, SupsTyped
<1>12. /\ Outer \in dead => Gone(Outer)'
       /\ Outer \notin dead => (Gone(Outer)' <=> Gone(Outer)) /\ (Reaps(Outer)' <=> Reaps(Outer))
  BY <1>9, <1>10 DEF Gone, Reaps
<1>13. TreeOK'
  <2>1. Gone(Outer)' => ~Reaps(Outer)'
    BY DEF Reaps
  <2>2. sup'[Outer].pc = "launch" => sup[Outer].pc = "launch"
    BY <1>9, <1>10
  <2>3. Helper \in dead /\ ~Reaps(Helper)'
    BY <1>2, <1>8 DEF Reaps
  <2>4. Fates(dead)
    BY <1>7, <1>8, <1>12, <2>1, <2>2, <2>3 DEF Fates
  <2>5. contained => Gone(Helper)' /\ Gone(Outer)'
    BY <1>2, <1>8, <1>12
  <2>. QED BY <1>1, <1>3, <2>4, <2>5, EndedTree DEF IInv
<1>14. ScanOK(Helper)' /\ ~Watching' /\ ~Ending'
  BY <1>7 DEF ScanOK, Watching, Ending, Ends
<1>15. alive = {} => alive' = {}
  BY <1>4
<1>16. /\ message[Helper] = "none" /\ message'[Outer] = message[Outer]
       /\ message'[Helper] = "none"
          \/ (message'[Helper] = sup[Helper].result /\ sup[Helper].pc = "respond")
  BY DEF IInv, HelperOK, StateTyped
<1>17. HelperOK' /\ HonestOK' /\ StatusOK'
  BY <1>3, <1>4, <1>7, <1>8, <1>14, <1>15, <1>16
     DEF IInv, HelperOK, HonestOK, StatusOK, Honest, Cleared, Good
<1>18. ~Good(message[Outer]) /\ ~Good(sup[Outer].result) /\ ~Good(answer)
  BY <1>16 DEF IInv, OuterOK, AnswerOK, Good
<1>19. OuterOK' /\ AnswerOK'
  <2>1. ~Good(message'[Outer]) /\ ~Good(sup'[Outer].result) /\ ~Good(answer')
    BY <1>9, <1>10, <1>16, <1>18 DEF Good
  <2>2. message'[Outer] # "none" => Gone(Outer)'
    BY <1>12, <1>16 DEF IInv, OuterOK
  <2>3. sup'[Outer].pc \in {"scan", "stop", "respond"} => Outer \notin dead
    BY <1>9
  <2>4. OuterOK'
    BY <1>10, <2>1, <2>2, <2>3 DEF IInv, OuterOK
  <2>5. AnswerOK'
    BY <2>1 DEF IInv, AnswerOK, CallerGoesOn
  <2>. QED BY <2>4, <2>5
<1>. QED BY <1>4, <1>11, <1>13, <1>14, <1>17, <1>19 DEF IInv

\* The guardian ends: the helper is signalled, or dies with it.
LEMMA OuterEnds ==
  ASSUME IInv, NEW pc \in {"exited", "killed"}, ~Gone(Outer), Leave(Outer, pc), StateTyped',
         UNCHANGED <<contained, look, answer, slipped>>, CallerGoesOn,
         message' = message
         \/ (sup[Outer].pc = "respond"
             /\ message' = [message EXCEPT ![Outer] = sup[Outer].result])
  PROVE  IInv'
<1> USE Names
<1> DEFINE dead == Taken(Outer)
           none == {}
<1>1. /\ End(dead, "terminated")
      /\ sup' = [q \in Supervisors |->
                    IF q = Outer THEN Idle(pc, none)
                    ELSE IF q \in dead THEN Idle("killed", none)
                    ELSE IF q = Helper THEN Interrupted(Helper) ELSE Hit(q, dead)]
  BY DEF Leave
<1>2. /\ dead \subseteq {Helper, Outer} /\ Outer \in dead
      /\ Helper \in dead <=> contained \/ sup[Helper].pc = "respond"
      /\ contained => ~Gone(Helper)
  BY DEF Taken, IInv, TreeOK
<1> HIDE DEF dead
<1>3. Command \in alive => exit = "none"
  BY DEF IInv, StatusOK
<1>4. /\ TreeTyped' /\ alive' = alive \ Dying(dead)
      /\ exit # "none" => exit' = exit
      /\ Command \in alive' => exit' = exit
      /\ Command \notin alive => exit' = exit
  BY <1>1, <1>3, Ended DEF IInv
<1>5. /\ pc \in HelperSteps \cup OuterSteps /\ "killed" \in HelperSteps \cup OuterSteps
      /\ none \subseteq Tasks \cup {Helper} /\ none \subseteq Tasks
  BY DEF HelperSteps
<1>6. /\ sup'[Outer] = Idle(pc, none)
      /\ sup'[Helper] = IF Helper \in dead THEN Idle("killed", none) ELSE Interrupted(Helper)
  BY <1>1
<1>7. sup' = [q \in Supervisors |-> sup'[q]]
  BY <1>1
<1> HIDE DEF none
<1>8. /\ sup'[Outer] \in Sups /\ sup'[Outer].pc = pc /\ sup'[Outer].result = "failure"
      /\ sup'[Outer].use = "none"
  BY ONLY <1>5, <1>6, IdleIs
<1>9. Gone(Outer)' /\ ScanOK(Outer)'
  BY <1>8 DEF Gone, ScanOK, Ends
<1>10. sup[Helper] \in Sups /\ sup[Helper].fds \subseteq Tasks
  BY DEF IInv, SupsTyped
<1>11. ~Gone(Helper) =>
          /\ sup'[Helper] \in Sups /\ sup'[Helper].fds \subseteq Tasks
          /\ sup'[Helper].pending \subseteq Tasks
          /\ sup'[Helper].result = "failure" /\ sup'[Helper].pc \in {"killed", "respond", "stop"}
          /\ sup'[Helper].pc \in {"respond", "stop"} => sup'[Helper].leaving
          /\ sup'[Helper].pc = "killed" <=> Helper \in dead
  <2>1. CASE Helper \in dead
    <3>1. sup'[Helper] = Idle("killed", none)
      BY <1>6, <2>1
    <3>2. /\ sup'[Helper] \in Sups /\ sup'[Helper].fds = none /\ sup'[Helper].pending = {}
          /\ sup'[Helper].result = "failure" /\ sup'[Helper].pc = "killed"
      BY ONLY <1>5, <3>1, IdleIs
    <3>. QED BY <1>5, <2>1, <3>2
  <2>2. CASE Helper \notin dead /\ ~Gone(Helper)
    <3>1. sup'[Helper] = Interrupted(Helper) /\ sup[Helper].pc # "respond"
      BY <1>2, <1>6, <2>2
    <3>2. Helper \in Supervisors
      OBVIOUS
    <3>3. /\ sup'[Helper] \in Sups /\ sup'[Helper].pc \in {"respond", "stop"}
          /\ sup'[Helper].leaving /\ sup'[Helper].fds \subseteq sup[Helper].fds
          /\ sup'[Helper].pending = {} /\ sup'[Helper].result = "failure"
      BY <1>10, <2>2, <3>1, <3>2, InterruptedIs
    <3>. QED BY <1>10, <2>2, <3>3
  <2>. QED BY <2>1, <2>2
<1>12. Gone(Helper) => sup'[Helper] = sup[Helper] /\ Helper \notin dead
  <2> SUFFICES ASSUME Gone(Helper) PROVE sup'[Helper] = sup[Helper] /\ Helper \notin dead
    OBVIOUS
  <2>1. Helper \notin dead
    BY <1>2 DEF Gone
  <2>. QED BY <1>6, <1>10, <2>1, InterruptedIs
<1>13. SupsTyped'
  <2>1. pc \in OuterSteps /\ {"killed", "respond", "stop"} \subseteq HelperSteps
    BY DEF HelperSteps, OuterSteps
  <2>2. sup' \in [Supervisors -> Sups]
    BY <1>7, <1>8, <1>10, <1>11, <1>12
  <2>3. /\ sup'[Helper].fds \subseteq Tasks /\ sup'[Helper].pending \subseteq Tasks
        /\ sup'[Helper].pc \in HelperSteps
    BY <1>11, <1>12, <2>1 DEF IInv, SupsTyped
  <2>. QED BY <1>8, <2>1, <2>2, <2>3 DEF SupsTyped
<1>14. /\ Gone(Helper)' <=> Gone(Helper) \/ Helper \in dead
       /\ Reaps(Helper)' => Reaps(Helper)
  <2>1. Gone(Helper)' <=> Gone(Helper) \/ Helper \in dead
    BY <1>11, <1>12 DEF Gone
  <2>2. sup[Helper].pc = "respond" => Helper \in dead
    BY <1>2
  <2>. QED BY <2>1, <2>2 DEF Reaps
<1>15. TreeOK'
  <2>1. sup'[Helper].pc = "launch" => sup[Helper].pc = "launch"
    BY <1>11, <1>12
  <2>2. sup'[Outer].pc # "launch" /\ ~Reaps(Outer)'
    BY <1>8, <1>9 DEF Reaps
  <2>3. Fates(dead)
    BY <1>2, <1>9, <1>14, <2>1, <2>2 DEF Fates
  <2>4. contained => Gone(Helper)' /\ Gone(Outer)'
    BY <1>2, <1>9, <1>14
  <2>. QED BY <1>1, <1>3, <2>3, <2>4, EndedTree DEF IInv
<1>16. alive = {} => alive' = {}
  BY <1>4
<1>17. /\ message'[Helper] = message[Helper] /\ message[Outer] = "none"
       /\ message'[Outer] = "none"
          \/ (message'[Outer] = sup[Outer].result /\ sup[Outer].pc = "respond")
  BY DEF IInv, OuterOK, StateTyped
<1>18. HelperOK' /\ StatusOK' /\ HonestOK' /\ ScanOK(Helper)'
  <2>1. CASE ~Gone(Helper)
    BY <1>3, <1>4, <1>11, <1>17, <2>1, HelperHit
  <2>2. CASE Gone(Helper)
    <3>1. sup'[Helper] = sup[Helper] /\ Gone(Helper)'
      BY <1>12, <1>14, <2>2
    <3>2. ~Watching' /\ ~Ending' /\ ScanOK(Helper)'
      BY <2>2, <3>1 DEF Watching, Ending, Ends, ScanOK, Gone
    <3>3. HelperOK' /\ HonestOK'
      BY <1>4, <1>16, <1>17, <3>1 DEF IInv, HelperOK, HonestOK, Honest, Cleared
    <3>4. StatusOK'
      BY <1>3, <1>4, <3>2 DEF StatusOK
    <3>. QED BY <3>2, <3>3, <3>4
  <2>. QED BY <2>1, <2>2
<1>19. OuterOK'
  <2>1. Good(message'[Outer]) => /\ sup[Outer].pc = "respond" /\ Good(sup[Outer].result)
                                 /\ message'[Outer] = sup[Outer].result
    BY <1>17 DEF Good
  <2>2. Good(message'[Outer]) => Cleared(Outer)' /\ message'[Outer] = message'[Helper]
    BY <1>16, <1>17, <2>1 DEF IInv, OuterOK, Cleared
  <2>. QED BY <1>8, <1>9, <2>2 DEF OuterOK, Good
<1>20. AnswerOK'
  BY DEF IInv, AnswerOK, CallerGoesOn
<1>. QED BY <1>4, <1>9, <1>13, <1>15, <1>18, <1>19, <1>20 DEF IInv

LEMMA EndPreserves ==
  ASSUME IInv, NEW s \in Supervisors, NEW pc \in {"exited", "killed"}, ~Gone(s), Leave(s, pc),
         StateTyped', UNCHANGED <<contained, look, answer, slipped>>, CallerGoesOn,
         message' = message
         \/ (sup[s].pc = "respond" /\ message' = [message EXCEPT ![s] = sup[s].result])
  PROVE  IInv'
BY HelperEnds, OuterEnds, Names

LEMMA RespondPreserves ==
  ASSUME IInv, NEW s \in Supervisors, Respond(s)
  PROVE  IInv'
<1>1. /\ sup[s].pc = "respond" /\ Leave(s, "exited") /\ ~Gone(s)
      /\ message' = [message EXCEPT ![s] = sup[s].result]
      /\ UNCHANGED <<contained, look, caller, answer, faults, slipped>>
  BY DEF Respond, Gone
<1>2. sup[s].result \in Answers
  BY DEF IInv, SupsTyped, Sups
<1>3. StateTyped'
  BY <1>1, <1>2 DEF IInv, StateTyped, look
<1>4. CallerGoesOn
  BY <1>1 DEF CallerGoesOn
<1>. QED BY <1>1, <1>3, <1>4, EndPreserves

LEMMA KillPreserves ==
  ASSUME IInv, NEW s \in Supervisors, Kill(s), StateTyped', CallerGoesOn,
         UNCHANGED <<contained, message, look, answer, slipped>>
  PROVE  IInv'
BY EndPreserves DEF Kill

LEMMA TerminatePreserves ==
  ASSUME IInv, Terminate, StateTyped', CallerGoesOn,
         UNCHANGED <<contained, message, look, answer, slipped>>
  PROVE  IInv'
<1> USE Names
<1>1. CASE ~Gone(Outer) /\ (contained \/ sup[Outer].pc = "respond")
  <2>1. Leave(Outer, "killed")
    BY <1>1 DEF Terminate
  <2>. QED BY <1>1, <2>1, EndPreserves
<1>2. CASE ~Gone(Outer) /\ ~contained /\ sup[Outer].pc # "respond"
  <2> DEFINE fds == IF sup[Outer].leaving THEN {} ELSE sup[Outer].fds
  <2>1. Interrupted(Outer) = Leaving(fds, "failure")
    BY <1>2 DEF Interrupted, Gone
  <2>2. fds \subseteq sup[Outer].fds
    OBVIOUS
  <2> HIDE DEF fds
  <2>3. /\ sup' = [sup EXCEPT ![Outer] = Leaving(fds, "failure")]
        /\ UNCHANGED <<alive, born, parent, exit, uncollected>>
    BY <1>2, <2>1 DEF Terminate, Put, tree
  <2>4. UNCHANGED <<contained, alive, born, parent, exit, uncollected, message, look, answer,
                    slipped>>
    BY <2>3
  <2>. QED BY <1>2, <2>2, <2>3, <2>4, LeavingPreserves
<1>3. CASE Gone(Outer)
  <2>1. Interrupted(Outer) = sup[Outer]
    BY <1>3 DEF Interrupted, Gone
  <2>2. /\ sup' = [sup EXCEPT ![Outer] = sup[Outer]]
        /\ UNCHANGED <<alive, born, parent, exit, uncollected>>
    BY <1>3, <2>1 DEF Terminate, Put, tree
  <2>3. sup' = sup
    BY <2>2 DEF IInv, SupsTyped
  <2>4. SupsTyped' /\ TreeTyped' /\ TreeOK' /\ ScanOK(Helper)' /\ ScanOK(Outer)'
    BY <2>2, <2>3
       DEF IInv, SupsTyped, TreeTyped, TreeOK, ScanOK, Ends, Runs, Gone, Reaps
  <2>5. HelperOK' /\ OuterOK' /\ AnswerOK'
    BY <2>2, <2>3 DEF IInv, HelperOK, OuterOK, AnswerOK, Cleared, Gone, CallerGoesOn
  <2>6. StatusOK' /\ HonestOK'
    BY <2>2, <2>3 DEF IInv, StatusOK, HonestOK, Honest, Watching, Ending, Ends, look
  <2>. QED BY <2>4, <2>5, <2>6 DEF IInv
<1>. QED BY <1>1, <1>2, <1>3

\* Killed processes and a caller that stalls or dies.
LEMMA FaultPreserves ==
  ASSUME IInv, Stall \/ CallerDies \/ \E s \in Supervisors : SupervisorKilled(s)
  PROVE  IInv'
<1> USE Names
<1>1. /\ Fault /\ UNCHANGED <<contained, message, look, answer, slipped>>
      /\ CallerGoesOn /\ caller' \in {"waiting", "stopping", "answered", "dead"}
  BY DEF Stall, CallerDies, SupervisorKilled, CallerGoesOn, IInv, StateTyped
<1>2. StateTyped'
  <2>1. faults' \in 0 .. Bound
    BY <1>1 DEF Fault, IInv, StateTyped, TreeTyped
  <2>. QED BY <1>1, <2>1 DEF IInv, StateTyped, look
<1>3. Terminate \/ \E s \in Supervisors : Kill(s)
  BY DEF Stall, CallerDies, SupervisorKilled
<1>. QED BY <1>1, <1>2, <1>3, TerminatePreserves, KillPreserves

-----------------------------------------------------------------------------
(* The invariant, and what follows from it *)

\* At the start the guardian waits for a helper that has not launched the command.
LEMMA Starts == Init => IInv
<1> SUFFICES ASSUME Init PROVE IInv
  OBVIOUS
<1> USE Names
<1> DEFINE none == {}
           own  == {Helper}
<1>1. /\ "launch" \in HelperSteps \cup OuterSteps /\ "relay" \in HelperSteps \cup OuterSteps
      /\ none \subseteq Tasks \cup {Helper} /\ own \subseteq Tasks \cup {Helper}
  BY DEF HelperSteps, OuterSteps
<1>2. /\ sup[Helper] = Idle("launch", none) /\ sup[Outer] = Idle("relay", own)
      /\ sup = [s \in Supervisors |-> sup[s]]
  BY DEF Init
<1> HIDE DEF none, own
<1>3. /\ sup[Helper] \in Sups /\ sup[Helper].pc = "launch" /\ sup[Helper].fds = none
      /\ sup[Helper].pending = {} /\ sup[Helper].result = "failure" /\ ~sup[Helper].leaving
  BY ONLY <1>1, <1>2, IdleIs
<1>4. /\ sup[Outer] \in Sups /\ sup[Outer].pc = "relay" /\ sup[Outer].use = "none"
      /\ sup[Outer].result = "failure"
  BY ONLY <1>1, <1>2, IdleIs
<1>5. SupsTyped
  <2>1. sup \in [Supervisors -> Sups]
    BY <1>2, <1>3, <1>4
  <2>2. "launch" \in HelperSteps /\ "relay" \in OuterSteps /\ none \subseteq Tasks
    BY DEF HelperSteps, OuterSteps, none
  <2>. QED BY <1>3, <1>4, <2>1, <2>2 DEF SupsTyped
<1>6. TreeTyped
  <2>1. parent \in [Tasks -> Tasks \cup Supervisors \cup {Reaping}]
    BY DEF Init
  <2>2. alive \subseteq Tasks /\ born \in 0 .. Bound /\ exit \in Exits
    BY DEF Init, Exits
  <2>3. uncollected \in BOOLEAN
    BY DEF Init
  <2>. QED BY <2>1, <2>2, <2>3 DEF TreeTyped
<1>7. StateTyped
  <2>1. message \in [Supervisors -> Answers \cup {"none"}]
    BY DEF Init
  <2>2. contained \in BOOLEAN /\ late \in BOOLEAN
    BY DEF Init
  <2>3. /\ known \in Exits \cup {"assumed"} /\ trouble \in {"none", "overflow", "reader"}
        /\ caller \in {"waiting", "stopping", "answered", "dead"}
        /\ answer \in Answers \cup {"none"} /\ faults \in 0 .. Bound
        /\ slipped \subseteq Supervisors
    BY DEF Init, Exits
  <2>. QED BY <2>1, <2>2, <2>3 DEF StateTyped
<1>8. TreeOK
  BY <1>3, <1>4 DEF Init, TreeOK, Gone
<1>9. ScanOK(Helper) /\ ScanOK(Outer)
  BY <1>3, <1>4 DEF ScanOK, Ends
<1>10. message[Helper] = "none" /\ message[Outer] = "none"
  BY DEF Init
<1>11. HelperOK /\ OuterOK /\ AnswerOK
  BY <1>3, <1>4, <1>10 DEF Init, HelperOK, OuterOK, AnswerOK, Good
<1>12. StatusOK /\ HonestOK
  BY <1>3, <1>10 DEF Init, StatusOK, HonestOK, Honest, Watching, Ending, Ends
<1>. QED BY <1>5, <1>6, <1>7, <1>8, <1>9, <1>11, <1>12 DEF IInv

LEMMA StutterPreserves ==
  ASSUME IInv, UNCHANGED vars
  PROVE  IInv'
<1>1. UNCHANGED <<contained, alive, born, parent, exit, uncollected, sup, message, known, trouble,
                  late, caller, answer, faults, slipped>>
  BY DEF vars, tree, look, history
<1>2. SupsTyped' /\ TreeTyped' /\ StateTyped' /\ TreeOK' /\ ScanOK(Helper)' /\ ScanOK(Outer)'
  BY <1>1 DEF IInv, SupsTyped, TreeTyped, StateTyped, TreeOK, ScanOK, Ends, Runs, Gone, Reaps
<1>3. HelperOK' /\ OuterOK' /\ AnswerOK' /\ StatusOK' /\ HonestOK'
  BY <1>1 DEF IInv, HelperOK, OuterOK, AnswerOK, StatusOK, HonestOK, Honest, Cleared, Gone,
              Watching, Ending, Ends
<1>. QED BY <1>2, <1>3 DEF IInv

\* No step of the command, of a supervisor or of the caller breaks the invariant.
THEOREM Inductive == Spec => []IInv
<1>1. ASSUME IInv, [Next]_vars PROVE IInv'
  <2>1. CASE \E p \in Tasks : Fork(p) \/ Quit(p)
    BY <1>1, <2>1, ForkPreserves, QuitPreserves
  <2>2. ASSUME NEW s \in Supervisors, Supervise(s) PROVE IInv'
    <3>1. CASE Signal(s)
      BY <1>1, <3>1, HelperSignals, OuterSignals, Names
    <3>2. CASE \E p \in Tasks \cup Supervisors : Visit(s, p)
      BY <1>1, <3>2, VisitPreserves
    <3>3. CASE Round(s) \/ Expire(s) \/ LookAgain(s) \/ Finish(s) \/ Respond(s)
      BY <1>1, <3>3, RoundPreserves, ExpirePreserves, LookAgainPreserves, FinishPreserves,
         RespondPreserves
    <3>. QED BY <2>2, <3>1, <3>2, <3>3 DEF Supervise
  <2>3. CASE Help
    BY <1>1, <2>3, LaunchPreserves, TrackPreserves, KillUntrackedPreserves, PollPreserves,
       ObservePreserves, DeadlinePreserves, ConcludePreserves DEF Help
  <2>4. CASE Relay \/ Receive
    BY <1>1, <2>4, RelayPreserves, ReceivePreserves
  <2>5. CASE Stall \/ CallerDies \/ \E s \in Supervisors : SupervisorKilled(s)
    BY <1>1, <2>5, FaultPreserves
  <2>6. CASE UNCHANGED vars
    BY <1>1, <2>6, StutterPreserves
  <2>. QED BY <1>1, <2>1, <2>2, <2>3, <2>4, <2>5, <2>6 DEF Next
<1>. QED BY <1>1, Starts, PTL DEF Spec

\* Every variable has its type, whatever the command, the supervisors and the caller do.
THEOREM TypeCorrect == Spec => []TypeOK
<1>1. IInv => TypeOK
  <2> SUFFICES ASSUME IInv PROVE TypeOK
    OBVIOUS
  <2>1. ASSUME NEW s \in Supervisors
        PROVE  /\ sup[s].fds \subseteq Tasks \cup {Helper}
               /\ sup[s].round \in 0 .. Rounds /\ sup[s].phase \in {"TERM", "KILL"}
               /\ sup[s].result \in Answers /\ message[s] \in Answers \cup {"none"}
               /\ sup[s].use \in {"none", "watch", "first", "second"}
    BY DEF IInv, SupsTyped, StateTyped, Sups, Uses
  <2>. QED BY <2>1 DEF TypeOK, IInv, TreeTyped, StateTyped, Exits
<1>. QED BY <1>1, Inductive, PTL

\* A result other than "failure" means that both supervisors have looked twice and found
\* nothing, or that the namespace is empty: a process of the command can only be left if it
\* was handed on to each of them in both of its last scans.
THEOREM NothingLeft == Spec => []NothingOutlives
<1>1. IInv => NothingOutlives
  <2> SUFFICES ASSUME IInv, caller = "answered", answer # "failure", alive # {}
               PROVE  slipped = Supervisors
    BY DEF NothingOutlives
  <2>1. Good(answer)
    BY DEF IInv, AnswerOK, Good
  <2>2. Gone(Outer) /\ Good(message[Helper]) /\ (~contained => Good(message[Outer]))
    BY <2>1 DEF IInv, AnswerOK
  <2>3. ~contained
    BY <2>2 DEF IInv, TreeOK
  <2>4. Helper \in slipped /\ Outer \in slipped
    BY <2>2, <2>3 DEF IInv, HelperOK, OuterOK, Cleared
  <2>. QED BY <2>4, Names DEF IInv, StateTyped
<1>. QED BY <1>1, Inductive, PTL

\* The exit that is reported is the one the command had: no signal of a supervisor, and no
\* status that somebody else has collected, is taken for it.
THEOREM ExitReal == Spec => []ReportedExitIsReal
<1>1. IInv => ReportedExitIsReal
  <2> SUFFICES ASSUME IInv PROVE ReportedExitIsReal
    OBVIOUS
  <2>1. Good(answer) => Honest(answer)
    BY DEF IInv, AnswerOK, HonestOK
  <2>. QED BY <2>1 DEF Honest, ReportedExitIsReal, Good
<1>. QED BY <1>1, Inductive, PTL
=============================================================================
