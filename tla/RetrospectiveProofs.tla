------------------------ MODULE RetrospectiveProofs ------------------------
(***************************************************************************)
(* Proofs about Retrospective, for any number of episodes, units, failures *)
(* and crashes: it is well typed, leaves no seal that cannot be finished,  *)
(* changes nothing that was sealed, cites only what stays as it was cited, *)
(* starts one analysis for an episode and confirms the verdict that is     *)
(* sealed for it; it implements SoleAnalysis.                              *)
(***************************************************************************)
EXTENDS Retrospective, TLAPS, SequenceTheorems

SealSteps   == {"write", "lock", "list", "shut", "receipt"}
AttendSteps == {"inspect", "summarize", "claim", "launch", "analyzing", "recover", "confirm",
                "replace"}

\* Every sequence is one of its own elements.
IsSequence(s) == s \in Seq({s[i] : i \in DOMAIN s})

\* The command works on the attempt of an episode.
Sealing(next) == pc \in SealSteps /\ job.sealed = next
Attending ==
    pc \in AttendSteps \/ Sealing("summarize") \/ Sealing("claim") \/ Sealing("confirm")

\* What the files of a unit may be.
FilesTyped(u) ==
    LET files == unit[u].files
    IN /\ u[1] = "attempt" => DOMAIN files \subseteq FileNames
       /\ u[1] # "attempt" => DOMAIN files \subseteq {"result"}
       /\ "result" \in DOMAIN files =>
             /\ u[1] = "work" => files["result"] = "facts"
             /\ u[1] = "summary" =>
                   u[2] \in DOMAIN episodes /\ files["result"] = episodes[u[2]].inventory
             /\ u[1] = "attempt" => files["result"] \in Statuses

UnitsTyped ==
    /\ DOMAIN unit = Units
    /\ \A u \in Units :
          /\ DOMAIN unit[u] = {"files", "locked", "manifest", "shut", "receipt"}
          /\ unit[u].locked \in BOOLEAN /\ unit[u].shut \in BOOLEAN
          /\ FilesTyped(u)

EpisodesTyped ==
    /\ IsSequence(episodes) /\ Len(episodes) <= MaxEpisodes
    /\ \A e \in DOMAIN episodes : episodes[e].state \in {"attention", "completed"}

StateTyped ==
    /\ run \in [state : {"working", "attention", "completed"}, final : BOOLEAN]
    /\ claim \in [Episodes -> {"absent", "prepared"} \cup Statuses] /\ stray \in BOOLEAN
    /\ answer \in [Episodes -> {"none"} \cup Statuses] /\ launches \in [Episodes -> Nat]

CommandTyped ==
    /\ pc \in Steps
    /\ job \in [episode : 0 .. MaxEpisodes, unit : Units \cup {NoJob.unit},
                outcome : {"none"} \cup Statuses, sealed : Steps, then : Steps]
    /\ faults \in 0 .. MaxFaults /\ crashes \in 0 .. MaxCrashes

\* Whatever is listed has a result, and what a crash left of its seal can be finished.
UnitsOK ==
    /\ SealsCanBeFinished
    /\ \A u \in Units : Listed(u) => "result" \in DOMAIN unit[u].files

\* An inventory that is known cites units, and verifies; that of a completion is known.
InventoriesOK ==
    /\ \A e \in DOMAIN episodes :
          episodes[e].inventory.known =>
             \A cited \in episodes[e].inventory.cites :
                /\ cited[1] \in Units /\ Verified(cited[1])
                /\ unit[cited[1]].manifest = cited[2]
    /\ CompletionsAreCitable
    /\ run.state # "working" => Len(episodes) > 0

\* No analysis, no answer and no evidence of it without its claim, and no verdict but the
\* answer, or that it may have been lost.
ClaimsOK ==
    /\ OneVerdict
    /\ \A e \in Episodes :
          LET files == unit[Attempt(e)].files
          IN /\ launches[e] > 0 => claim[e] # "absent"
             /\ launches[e] = 0 => answer[e] = "none"
             /\ claim[e] = "absent" => DOMAIN files = {}
             /\ "result" \in DOMAIN files => files["result"] \in {answer[e], "interrupted"}
             /\ "analysis" \in DOMAIN files => answer[e] = "passed"

\* Where the command is with a seal, and what it seals.
SealOK ==
    /\ pc \in SealSteps =>
          /\ job.unit \in Units
          /\ job.sealed \in {"preflight", "progress", "summarize", "claim", "confirm"}
    /\ Sealing("preflight") \/ Sealing("summarize") => pc \in {"shut", "receipt"}
    /\ Sealing("progress") => job.unit \in WorkUnits
    /\ Sealing("claim") => job.unit = Summary(job.episode)
    /\ Sealing("summarize") \/ Sealing("confirm") => job.unit = Attempt(job.episode)
    /\ pc \in {"write", "lock", "list"} => ~Listed(job.unit)
    /\ pc \in {"lock", "list"} => "result" \in DOMAIN unit[job.unit].files
    /\ pc = "list" => unit[job.unit].locked
    /\ pc \in {"shut", "receipt"} =>
          /\ Listed(job.unit) /\ unit[job.unit].files = unit[job.unit].manifest
          /\ unit[job.unit].locked /\ unit[job.unit].receipt = Nothing
    /\ pc = "receipt" => unit[job.unit].shut

\* How far the attempt of the episode is.
AttemptOK ==
    /\ Attending =>
          /\ job.episode \in DOMAIN episodes
          /\ job.then \in {"idle", "stage", "record", "finalize"}
    /\ (Attending /\ job.then = "finalize") \/ pc = "finalize" => run.state = "completed"
    /\ pc \in {"summarize", "claim"} \/ Sealing("claim") =>
          (Listed(Attempt(job.episode)) => Sealed(Attempt(job.episode)))
    /\ pc \in {"launch", "analyzing", "recover"} => ~Listed(Attempt(job.episode))
    /\ pc \in {"launch", "analyzing", "recover", "confirm", "replace"} \/ Sealing("confirm") =>
          claim[job.episode] = "prepared"
    /\ pc = "launch" => launches[job.episode] = 0
    /\ pc = "analyzing" => launches[job.episode] > 0 /\ answer[job.episode] = "none"
    /\ Sealing("confirm") =>
          job.outcome \in Statuses /\ job.outcome \in {answer[job.episode], "interrupted"}
    /\ pc \in {"confirm", "replace"} => Sealed(Attempt(job.episode))
    /\ run.final => pc = "idle"

\* A stage only goes on when nothing is left half sealed: a stage that fails, which can leave
\* that, never comes back to this path before a preflight.
OrderlyOK ==
    \/ pc \in {"stage", "progress", "complete"}
    \/ Sealing("progress") \/ (Attending /\ job.then = "stage")
    => \A u \in Units :
          Listed(u) => Sealed(u) \/ (pc \in {"shut", "receipt"} /\ job.unit = u)

IInv == /\ UnitsTyped /\ EpisodesTyped /\ StateTyped /\ CommandTyped
        /\ UnitsOK /\ InventoriesOK /\ ClaimsOK /\ SealOK /\ AttemptOK /\ OrderlyOK
-----------------------------------------------------------------------------
(* Units and their files *)

\* A unit is one of a stage, a summary or an attempt, and the last two tell of which episode.
LEMMA UnitsAre ==
    /\ \A u \in Units :
          \/ u \in WorkUnits /\ u[1] = "work"
          \/ u[1] = "summary" /\ u[2] \in Episodes /\ u = Summary(u[2])
          \/ u[1] = "attempt" /\ u[2] \in Episodes /\ u = Attempt(u[2])
    /\ WorkUnits \subseteq Units /\ \A u \in WorkUnits : u[1] = "work"
    /\ \A e \in Episodes : Summary(e) \in Units /\ Attempt(e) \in Units
    /\ \A e : /\ Summary(e)[1] = "summary" /\ Summary(e)[2] = e
             /\ Attempt(e)[1] = "attempt" /\ Attempt(e)[2] = e
    /\ \A d, e : Attempt(d) = Attempt(e) => d = e
BY DEF Units, WorkUnits, Summary, Attempt

\* What is planned for a unit: its result, and nothing that could not be its file.
LEMMA WorkContents == \A u : u[1] = "work" => Contents(u) = <<<<"result", "facts">>>>
BY Zenon DEF Contents

LEMMA SummaryContents ==
    \A u : u[1] = "summary" => Contents(u) = <<<<"result", episodes[u[2]].inventory>>>>
BY Zenon DEF Contents

LEMMA AttemptContents ==
    \A u : u[1] = "attempt" =>
       Contents(u) = <<<<"input", "text">>, <<"logs", "text">>>>
            \o (IF job.outcome = "passed" THEN <<<<"analysis", "text">>>> ELSE <<>>)
            \o <<<<"result", job.outcome>>, <<"outcome", job.outcome>>>>
BY Zenon DEF Contents

\* The files of an attempt.
LEMMA AttemptPlan ==
    ASSUME NEW u, u[1] = "attempt"
    PROVE  LET plan == Contents(u)
           IN /\ DOMAIN plan \subseteq 1 .. 5
              /\ \A i \in DOMAIN plan :
                    \/ plan[i] \in {<<"input", "text">>, <<"logs", "text">>,
                                   <<"result", job.outcome>>, <<"outcome", job.outcome>>}
                    \/ job.outcome = "passed" /\ plan[i] = <<"analysis", "text">>
              /\ \E i \in DOMAIN plan : plan[i] = <<"result", job.outcome>>
<1> DEFINE input    == <<"input", "text">>
           logs     == <<"logs", "text">>
           analysis == <<"analysis", "text">>
           result   == <<"result", job.outcome>>
           last     == <<"outcome", job.outcome>>
           middle   == IF job.outcome = "passed" THEN <<analysis>> ELSE <<>>
           S        == {input, logs, analysis, result, last}
<1>1. Contents(u) = (<<input, logs>> \o middle) \o <<result, last>>
  BY AttemptContents, Zenon
<1> HIDE DEF input, logs, analysis, result, last
<1>2. /\ <<input, logs>> \in Seq(S) /\ Len(<<input, logs>>) = 2
      /\ <<result, last>> \in Seq(S) /\ Len(<<result, last>>) = 2
      /\ middle \in Seq(S)
      /\ job.outcome = "passed" => Len(middle) = 1 /\ middle[1] = analysis
      /\ job.outcome # "passed" => Len(middle) = 0
  <2>1. /\ <<input, logs>> \in Seq(S) /\ Len(<<input, logs>>) = 2
        /\ <<result, last>> \in Seq(S) /\ Len(<<result, last>>) = 2
    <3> HIDE DEF middle
    <3> QED OBVIOUS
  <2>2. <<analysis>> \in Seq(S) /\ Len(<<analysis>>) = 1 /\ <<analysis>>[1] = analysis
    OBVIOUS
  <2>3. <<>> \in Seq(S) /\ Len(<<>>) = 0 BY EmptySeq
  <2>4. CASE job.outcome = "passed"
    <3>1. middle = <<analysis>> BY <2>4
    <3> HIDE DEF middle, S
    <3> QED BY <2>1, <2>2, <2>4, <3>1
  <2>5. CASE job.outcome # "passed"
    <3>1. middle = <<>> BY <2>5
    <3> HIDE DEF middle, S
    <3> QED BY <2>1, <2>3, <2>5, <3>1
  <2> QED BY <2>4, <2>5
<1> HIDE DEF middle, S
<1>3. LET begin == <<input, logs>> \o middle
      IN /\ begin \in Seq(S) /\ Len(begin) = 2 + Len(middle)
         /\ \A i \in 1 .. 2 + Len(middle) :
               begin[i] = IF i <= 2 THEN <<input, logs>>[i] ELSE middle[i - 2]
  BY <1>2, ConcatProperties
<1>4. /\ DOMAIN Contents(u) = 1 .. 4 + Len(middle)
      /\ \A i \in 1 .. 4 + Len(middle) :
            Contents(u)[i] = IF i <= 2 + Len(middle)
                             THEN (IF i <= 2 THEN <<input, logs>>[i] ELSE middle[i - 2])
                             ELSE <<result, last>>[i - (2 + Len(middle))]
  <2> DEFINE begin == <<input, logs>> \o middle
  <2>1. /\ begin \in Seq(S) /\ <<result, last>> \in Seq(S)
        /\ Contents(u) = begin \o <<result, last>>
    BY <1>1, <1>2, <1>3
  <2> HIDE DEF begin
  <2>2. /\ Contents(u) \in Seq(S) /\ Len(Contents(u)) = Len(begin) + 2
        /\ \A i \in 1 .. Len(begin) + 2 :
              Contents(u)[i] = IF i <= Len(begin) THEN begin[i]
                               ELSE <<result, last>>[i - Len(begin)]
    BY <2>1, <1>2, ConcatProperties
  <2>3. DOMAIN Contents(u) = 1 .. Len(Contents(u)) BY <2>2, LenProperties
  <2> QED BY <2>2, <2>3, <1>2, <1>3 DEF begin
<1>5. LET plan == Contents(u)
      IN /\ DOMAIN plan \subseteq 1 .. 5
         /\ \A i \in DOMAIN plan :
               \/ plan[i] \in {input, logs, result, last}
               \/ job.outcome = "passed" /\ plan[i] = analysis
         /\ \E i \in DOMAIN plan : plan[i] = result
  <2>1. CASE job.outcome = "passed"
    <3>1. /\ DOMAIN Contents(u) = 1 .. 5
          /\ Contents(u)[1] = input /\ Contents(u)[2] = logs /\ Contents(u)[3] = analysis
          /\ Contents(u)[4] = result /\ Contents(u)[5] = last
      <4>1. Len(middle) = 1 /\ middle[1] = analysis BY <1>2, <2>1
      <4>2. DOMAIN Contents(u) = 1 .. 5 BY <1>4, <4>1
      <4>3. Contents(u)[1] = input /\ Contents(u)[2] = logs BY <1>4, <4>1
      <4>4. Contents(u)[3] = analysis BY <1>4, <4>1
      <4>5. Contents(u)[4] = result /\ Contents(u)[5] = last BY <1>4, <4>1
      <4> QED BY <4>2, <4>3, <4>4, <4>5
    <3> QED BY <2>1, <3>1
  <2>2. CASE job.outcome # "passed"
    <3>1. /\ DOMAIN Contents(u) = 1 .. 4
          /\ Contents(u)[1] = input /\ Contents(u)[2] = logs
          /\ Contents(u)[3] = result /\ Contents(u)[4] = last
      BY <1>2, <1>4, <2>2
    <3> QED BY <3>1
  <2> QED BY <2>1, <2>2
<1> QED BY <1>5, Zenon DEF input, logs, analysis, result, last

\* What is missing of a plan has a first one.
LEMMA Least ==
    ASSUME NEW S \in SUBSET (1 .. 5), S # {}
    PROVE  \E i \in S : \A j \in S : i <= j
<1>1. CASE 1 \in S BY <1>1
<1>2. CASE 1 \notin S /\ 2 \in S BY <1>2
<1>3. CASE 1 \notin S /\ 2 \notin S /\ 3 \in S BY <1>3
<1>4. CASE 1 \notin S /\ 2 \notin S /\ 3 \notin S
  <2>1. \A j \in S : j = 4 \/ j = 5 BY <1>4
  <2>2. CASE 4 \in S BY <2>1, <2>2
  <2>3. CASE 4 \notin S
    <3>1. PICK i \in S : TRUE OBVIOUS
    <3>2. \A j \in S : i <= j BY <2>1, <2>3, <3>1
    <3> QED BY <3>1, <3>2
  <2> QED BY <2>2, <2>3
<1> QED BY <1>1, <1>2, <1>3, <1>4

\* Files with a name among them are not none.
LEMMA SomeFile == ASSUME NEW files, NEW f, f \in DOMAIN files PROVE files # Nothing
BY DEF Nothing

\* The next file of a unit is one that was planned for it.
Planned(u, f, c) ==
    /\ u[1] # "attempt" => f = "result"
    /\ u[1] = "work" => c = "facts"
    /\ u[1] = "summary" => c = episodes[u[2]].inventory
    /\ u[1] = "attempt" =>
          /\ f \in FileNames /\ (f = "result" => c = job.outcome)
          /\ f = "analysis" => job.outcome = "passed"

\* What is planned for a unit has a result, and nothing that could not be its file.
LEMMA Plan ==
    ASSUME NEW u \in Units
    PROVE  LET plan == Contents(u)
           IN /\ DOMAIN plan \subseteq 1 .. 5
              /\ \A i \in DOMAIN plan : Planned(u, plan[i][1], plan[i][2])
              /\ \E i \in DOMAIN plan : plan[i][1] = "result"
<1>1. CASE u[1] = "work"
  <2>1. Contents(u) = <<<<"result", "facts">>>> BY <1>1, WorkContents
  <2> QED BY <1>1, <2>1 DEF Planned
<1>2. CASE u[1] = "summary"
  <2>1. Contents(u) = <<<<"result", episodes[u[2]].inventory>>>> BY <1>2, SummaryContents
  <2> QED BY <1>2, <2>1 DEF Planned
<1>3. CASE u[1] = "attempt"
  <2> DEFINE plan == Contents(u)
  <2>1. /\ DOMAIN plan \subseteq 1 .. 5
        /\ \A i \in DOMAIN plan :
              \/ plan[i] \in {<<"input", "text">>, <<"logs", "text">>,
                              <<"result", job.outcome>>, <<"outcome", job.outcome>>}
              \/ job.outcome = "passed" /\ plan[i] = <<"analysis", "text">>
        /\ \E i \in DOMAIN plan : plan[i] = <<"result", job.outcome>>
    BY <1>3, AttemptPlan
  <2> HIDE DEF plan
  <2>2. \A i \in DOMAIN plan : Planned(u, plan[i][1], plan[i][2])
    BY <1>3, <2>1 DEF Planned, FileNames
  <2>3. \E i \in DOMAIN plan : plan[i][1] = "result" BY <2>1
  <2> QED BY <2>1, <2>2, <2>3 DEF plan
<1> QED BY <1>1, <1>2, <1>3, UnitsAre

\* A step of Write links one planned file, or goes on when the result is there, or raises.
LEMMA Writes ==
    ASSUME job.unit \in Units, Write
    PROVE  LET u == job.unit
           IN \/ /\ \E f, c : /\ f \notin DOMAIN unit[u].files /\ Planned(u, f, c)
                              /\ unit' = [unit EXCEPT ![u].files = Put(@, f, c)]
                 /\ UNCHANGED <<pc, job, run, episodes, claim, stray, answer, launches,
                                faults, crashes>>
              \/ /\ "result" \in DOMAIN unit[u].files /\ pc' = "lock"
                 /\ UNCHANGED <<job, unit, run, episodes, claim, stray, answer, launches,
                                faults, crashes>>
              \/ /\ pc' = "idle" /\ job' = NoJob
                 /\ UNCHANGED <<unit, run, episodes, claim, stray, answer, launches,
                                faults, crashes>>
<1> DEFINE u       == job.unit
           plan    == Contents(u)
           missing == Missing(plan, unit[u].files)
<1>1. /\ DOMAIN plan \subseteq 1 .. 5
      /\ \A i \in DOMAIN plan : Planned(u, plan[i][1], plan[i][2])
      /\ \E i \in DOMAIN plan : plan[i][1] = "result"
  BY Plan
<1>2. missing \in SUBSET (1 .. 5) /\ missing \subseteq DOMAIN plan
      /\ \A i \in missing : plan[i][1] \notin DOMAIN unit[u].files
  BY <1>1 DEF Missing
<1>3. CASE /\ missing # {}
           /\ LET i == CHOOSE i \in missing : \A j \in missing : i <= j
              IN unit' = [unit EXCEPT ![u].files = Put(@, plan[i][1], plan[i][2])]
           /\ UNCHANGED <<pc, job, run, episodes, claim, stray, history, bounds>>
  <2> DEFINE i == CHOOSE i \in missing : \A j \in missing : i <= j
  <2>1. i \in missing BY <1>2, <1>3, Least
  <2>2. unit' = [unit EXCEPT ![u].files = Put(@, plan[i][1], plan[i][2])] BY <1>3
  <2>3. i \in DOMAIN plan /\ plan[i][1] \notin DOMAIN unit[u].files BY <1>2, <2>1
  <2> HIDE DEF i, missing, plan
  <2>4. Planned(u, plan[i][1], plan[i][2]) BY <1>1, <2>3
  <2> QED BY <1>3, <2>2, <2>3, <2>4 DEF history, bounds
<1>4. CASE /\ missing = {} /\ Goto("lock") /\ UNCHANGED <<durable, history>>
  <2>1. "result" \in DOMAIN unit[u].files BY <1>1, <1>4 DEF Missing
  <2> QED BY <1>4, <2>1 DEF Goto, durable, history, bounds
<1>5. CASE Raise
  BY <1>5 DEF Raise, durable, history, bounds
<1>6. \/ /\ missing # {}
         /\ LET i == CHOOSE i \in missing : \A j \in missing : i <= j
            IN unit' = [unit EXCEPT ![u].files = Put(@, plan[i][1], plan[i][2])]
         /\ UNCHANGED <<pc, job, run, episodes, claim, stray, history, bounds>>
      \/ missing = {} /\ Goto("lock") /\ UNCHANGED <<durable, history>>
      \/ Raise
  BY Zenon DEF Write
<1> HIDE DEF missing, plan
<1> QED BY <1>3, <1>4, <1>5, <1>6

\* What Recovered makes of the files, in the order in which it looks at them.
LEMMA RecoveredIs ==
    \A files : Recovered(files) = IF "result" \in DOMAIN files THEN files["result"]
                                  ELSE IF "analysis" \in DOMAIN files THEN "passed"
                                  ELSE "interrupted"
BY Zenon DEF Recovered

(* What a step leaves as it is *)

IData == /\ UnitsTyped /\ EpisodesTyped /\ StateTyped /\ UnitsOK /\ InventoriesOK /\ ClaimsOK
ICommand == CommandTyped /\ SealOK /\ AttemptOK /\ OrderlyOK

\* The parts of the invariant: of the data, and of the command.
LEMMA Parts ==
    /\ IInv => IData /\ ICommand
    /\ IData' /\ ICommand' => IInv'
BY DEF IInv, IData, ICommand

\* The recorded episodes are numbered from 1.
LEMMA EpisodesAre ==
    EpisodesTyped =>
       /\ Len(episodes) \in Nat /\ DOMAIN episodes = 1 .. Len(episodes)
       /\ DOMAIN episodes \subseteq Episodes
<1> SUFFICES ASSUME EpisodesTyped
             PROVE  /\ Len(episodes) \in Nat /\ DOMAIN episodes = 1 .. Len(episodes)
                    /\ DOMAIN episodes \subseteq Episodes
  OBVIOUS
<1> DEFINE S == {episodes[i] : i \in DOMAIN episodes}
<1>1. episodes \in Seq(S) /\ Len(episodes) <= MaxEpisodes BY DEF EpisodesTyped, IsSequence
<1> HIDE DEF S
<1>2. Len(episodes) \in Nat /\ DOMAIN episodes = 1 .. Len(episodes)
  BY <1>1, LenProperties
<1> QED BY <1>1, <1>2, RetrospectiveConstants DEF Episodes

\* The episode that is attended is one, and so are its units.
LEMMA AttendedUnits ==
    IInv /\ Attending =>
       /\ job.episode \in Episodes
       /\ Attempt(job.episode) \in Units /\ Summary(job.episode) \in Units
BY EpisodesAre, UnitsAre DEF IInv, AttemptOK

\* A step that only moves the command leaves the data right.
LEMMA DataKept ==
    IData /\ UNCHANGED <<run, episodes, unit, claim, stray, answer, launches>> => IData'
BY DEF IData, UnitsTyped, FilesTyped, EpisodesTyped, IsSequence, StateTyped, UnitsOK,
       SealsCanBeFinished, Sound, Sealed, Verified, Listed, InventoriesOK, CompletionsAreCitable,
       ClaimsOK, OneVerdict, AnalyzedOnce, ClaimsTellVerdicts, Said

\* A command that has ended is nowhere.
LEMMA Ended ==
    /\ pc' = "idle" /\ job' = NoJob
    /\ faults' \in 0 .. MaxFaults /\ crashes' \in 0 .. MaxCrashes
    => ICommand'
BY RetrospectiveConstants
   DEF ICommand, CommandTyped, Steps, NoJob, Attempt, SealOK, Sealing, SealSteps, AttemptOK,
       Attending, AttendSteps, OrderlyOK

\* One unit moves on: nothing that was listed in it changes.
LEMMA UnitMoves ==
    ASSUME IData, NEW u \in Units,
           DOMAIN unit' = Units, \A v \in Units : v # u => unit'[v] = unit[v],
           DOMAIN unit'[u] = {"files", "locked", "manifest", "shut", "receipt"},
           unit'[u].locked \in BOOLEAN, unit'[u].shut \in BOOLEAN,
           UNCHANGED <<run, episodes, claim, stray, answer, launches>>,
           unit[u].receipt = Nothing, FilesTyped(u)',
           Listed(u) => /\ unit'[u].files = unit[u].files
                        /\ unit'[u].manifest = unit[u].manifest
                        /\ (unit[u].locked => unit'[u].locked)
                        /\ (unit[u].shut => unit'[u].shut),
           Listed(u)' => Sound(u)' /\ "result" \in DOMAIN unit'[u].files,
           unit'[u].receipt # Nothing => Sealed(u)',
           u[1] = "attempt" =>
              LET files == unit'[u].files
              IN /\ claim[u[2]] = "absent" => DOMAIN files = {}
                 /\ "result" \in DOMAIN files => files["result"] \in {answer[u[2]], "interrupted"}
                 /\ "analysis" \in DOMAIN files => answer[u[2]] = "passed"
    PROVE  IData'
<1>1. UnitsTyped'
  BY DEF IData, UnitsTyped, FilesTyped
<1>2. EpisodesTyped' /\ StateTyped'
  BY DEF IData, EpisodesTyped, IsSequence, StateTyped
<1>3. UnitsOK'
  BY DEF IData, UnitsOK, SealsCanBeFinished, Sound, Sealed, Verified, Listed
<1>4. InventoriesOK'
  <2>1. \A v \in Units : Verified(v) => Verified(v)' /\ unit'[v].manifest = unit[v].manifest
    BY DEF Verified, Listed
  <2> QED BY <2>1 DEF IData, InventoriesOK, CompletionsAreCitable
<1>5. ClaimsOK'
  <2>1. \A e \in Episodes : Sealed(Attempt(e)) =>
           Sealed(Attempt(e))' /\ unit'[Attempt(e)].files = unit[Attempt(e)].files
    BY UnitsAre DEF Sealed, Verified, Listed
  <2>2. ClaimsTellVerdicts'
    <3>1. \A e \in Episodes : claim[e] \in Statuses =>
             Sealed(Attempt(e)) /\ claim[e] = unit[Attempt(e)].files["result"]
      BY DEF IData, ClaimsOK, OneVerdict, ClaimsTellVerdicts, Said
    <3>2. run.final => run.state = "completed" /\ claim[Len(episodes)] \in Statuses
      BY DEF IData, ClaimsOK, OneVerdict, ClaimsTellVerdicts
    <3> QED BY <2>1, <3>1, <3>2 DEF ClaimsTellVerdicts, Said
  <2>3. AnalyzedOnce'
    BY DEF IData, ClaimsOK, OneVerdict, AnalyzedOnce
  <2>4. \A e \in Episodes :
          LET files == unit'[Attempt(e)].files
          IN /\ claim[e] = "absent" => DOMAIN files = {}
             /\ "result" \in DOMAIN files => files["result"] \in {answer[e], "interrupted"}
             /\ "analysis" \in DOMAIN files => answer[e] = "passed"
    <3> SUFFICES ASSUME NEW e \in Episodes
                 PROVE  LET files == unit'[Attempt(e)].files
                        IN /\ claim[e] = "absent" => DOMAIN files = {}
                           /\ "result" \in DOMAIN files =>
                                 files["result"] \in {answer[e], "interrupted"}
                           /\ "analysis" \in DOMAIN files => answer[e] = "passed"
      OBVIOUS
    <3>1. CASE Attempt(e) = u BY <3>1, UnitsAre
    <3>2. CASE Attempt(e) # u
      <4>1. unit'[Attempt(e)] = unit[Attempt(e)] BY <3>2, UnitsAre
      <4> QED BY <4>1 DEF IData, ClaimsOK
    <3> QED BY <3>1, <3>2
  <2> QED BY <2>2, <2>3, <2>4 DEF IData, ClaimsOK, OneVerdict
<1> QED BY <1>1, <1>2, <1>3, <1>4, <1>5 DEF IData

\* The unit at hand, while it is sealed.
LEMMA AtHand ==
    IInv /\ pc \in SealSteps =>
       /\ job.unit \in Units /\ unit[job.unit].receipt = Nothing
       /\ \/ pc \in {"write", "lock", "list"} /\ ~Listed(job.unit)
          \/ /\ pc \in {"shut", "receipt"} /\ Listed(job.unit)
             /\ unit[job.unit].files = unit[job.unit].manifest /\ unit[job.unit].locked
       /\ pc \in {"lock", "list"} => "result" \in DOMAIN unit[job.unit].files
BY DEF IInv, SealOK, SealSteps, UnitsOK, SealsCanBeFinished, Sealed, Verified

\* What the files of the unit at hand still are when they do not change.
LEMMA SameFiles ==
    ASSUME IData, NEW u \in Units, unit'[u].files = unit[u].files,
           UNCHANGED <<episodes, claim, answer>>
    PROVE  /\ FilesTyped(u)'
           /\ u[1] = "attempt" =>
                LET files == unit'[u].files
                IN /\ claim[u[2]] = "absent" => DOMAIN files = {}
                   /\ "result" \in DOMAIN files =>
                         files["result"] \in {answer[u[2]], "interrupted"}
                   /\ "analysis" \in DOMAIN files => answer[u[2]] = "passed"
<1>1. FilesTyped(u)' BY DEF IData, UnitsTyped, FilesTyped
<1>2. u[1] = "attempt" => u[2] \in Episodes /\ u = Attempt(u[2])
  BY UnitsAre DEF WorkUnits
<1> QED BY <1>1, <1>2 DEF IData, ClaimsOK

(* The steps of a seal *)

LEMMA WriteKeeps == IInv /\ Write => IInv'
<1> SUFFICES ASSUME IInv, Write PROVE IInv'
  OBVIOUS
<1>1. PICK u : u = job.unit
  OBVIOUS
<1>2. /\ pc = "write" /\ u \in Units /\ unit[u].receipt = Nothing /\ ~Listed(u)
      /\ IData /\ ICommand /\ job.unit = u
  BY <1>1, AtHand, Parts DEF Write, SealSteps
<1>3. CASE /\ \E f, c : /\ f \notin DOMAIN unit[u].files /\ Planned(u, f, c)
                        /\ unit' = [unit EXCEPT ![u].files = Put(@, f, c)]
           /\ UNCHANGED <<pc, job, run, episodes, claim, stray, answer, launches,
                          faults, crashes>>
  <2>1. PICK f, c : /\ f \notin DOMAIN unit[u].files /\ Planned(u, f, c)
                    /\ unit' = [unit EXCEPT ![u].files = Put(@, f, c)]
    BY <1>3
  <2>2. /\ DOMAIN unit' = Units /\ \A v \in Units : v # u => unit'[v] = unit[v]
        /\ DOMAIN unit'[u] = {"files", "locked", "manifest", "shut", "receipt"}
        /\ unit'[u].files = Put(unit[u].files, f, c)
        /\ unit'[u].locked = unit[u].locked /\ unit'[u].manifest = unit[u].manifest
        /\ unit'[u].shut = unit[u].shut /\ unit'[u].receipt = unit[u].receipt
    BY <1>2, <2>1 DEF IData, UnitsTyped
  <2>3. /\ DOMAIN unit'[u].files = DOMAIN unit[u].files \cup {f} /\ unit'[u].files[f] = c
        /\ \A g \in DOMAIN unit[u].files : unit'[u].files[g] = unit[u].files[g]
    <3>1. PICK files : files = unit[u].files OBVIOUS
    <3>2. f \notin DOMAIN files /\ unit'[u].files = Put(files, f, c) BY <2>1, <2>2, <3>1
    <3>3. /\ DOMAIN Put(files, f, c) = DOMAIN files \cup {f} /\ Put(files, f, c)[f] = c
          /\ \A g \in DOMAIN files : Put(files, f, c)[g] = files[g]
      BY <3>2 DEF Put
    <3> QED BY <3>1, <3>2, <3>3
  <2>4. /\ u[1] = "attempt" => job.sealed = "confirm"
        /\ u[1] = "summary" => job.sealed = "claim"
    BY <1>2, UnitsAre DEF ICommand, SealOK, Sealing, SealSteps
  <2>5. /\ u[1] = "summary" => u[2] \in DOMAIN episodes
        /\ u[1] = "attempt" =>
              /\ u = Attempt(job.episode) /\ u[2] = job.episode
              /\ job.outcome \in Statuses /\ job.outcome \in {answer[u[2]], "interrupted"}
              /\ claim[u[2]] = "prepared"
    BY <1>2, <2>4, UnitsAre DEF ICommand, SealOK, AttemptOK, Attending, Sealing, SealSteps
  <2>6. FilesTyped(u)'
    <3>1. FilesTyped(u) BY <1>2 DEF IData, UnitsTyped
    <3> QED BY <1>3, <2>1, <2>3, <2>5, <3>1 DEF FilesTyped, Planned
  <2>7. u[1] = "attempt" =>
           LET files == unit'[u].files
           IN /\ claim[u[2]] = "absent" => DOMAIN files = {}
              /\ "result" \in DOMAIN files => files["result"] \in {answer[u[2]], "interrupted"}
              /\ "analysis" \in DOMAIN files => answer[u[2]] = "passed"
    <3>1. u[1] = "attempt" =>
             /\ "result" \in DOMAIN unit[u].files =>
                   unit[u].files["result"] \in {answer[u[2]], "interrupted"}
             /\ "analysis" \in DOMAIN unit[u].files => answer[u[2]] = "passed"
      <4>1. u[1] = "attempt" => u[2] \in Episodes /\ u = Attempt(u[2])
        BY <1>2, UnitsAre
      <4> QED BY <1>2, <4>1 DEF IData, ClaimsOK
    <3>2. u[1] = "attempt" =>
             /\ f = "result" => c \in {answer[u[2]], "interrupted"}
             /\ f = "analysis" => answer[u[2]] = "passed"
      BY <2>1, <2>5 DEF Planned
    <3> QED BY <2>3, <2>5, <3>1, <3>2
  <2>8. ~Listed(u)' BY <1>2, <2>2 DEF Listed
  <2>9. unit[u].locked \in BOOLEAN /\ unit[u].shut \in BOOLEAN
    BY <1>2 DEF IData, UnitsTyped
  <2>10. IData'
    BY <1>2, <1>3, <2>2, <2>6, <2>7, <2>8, <2>9, UnitMoves
  <2>11. CommandTyped' BY <1>2, <1>3 DEF ICommand, CommandTyped
  <2>12. SealOK'
    BY <1>2, <1>3, <2>2, <2>8 DEF ICommand, SealOK, Sealing
  <2>13. AttemptOK'
    <3>1. Attending => Attempt(job.episode) \in Units BY AttendedUnits
    <3> QED BY <1>2, <1>3, <2>2, <2>8, <3>1
            DEF ICommand, AttemptOK, Attending, Sealing, AttendSteps, SealSteps, Listed,
                Sealed, Verified
  <2>14. OrderlyOK'
    BY <1>2, <1>3, <2>2, <2>8
       DEF ICommand, OrderlyOK, Attending, Sealing, AttendSteps, SealSteps, Listed, Sealed,
           Verified
  <2> QED BY <2>10, <2>11, <2>12, <2>13, <2>14, Parts DEF ICommand
<1>4. CASE /\ "result" \in DOMAIN unit[u].files /\ pc' = "lock"
           /\ UNCHANGED <<job, unit, run, episodes, claim, stray, answer, launches,
                          faults, crashes>>
  <2>1. IData' BY <1>2, <1>4, DataKept
  <2>2. CommandTyped' BY <1>2, <1>4 DEF ICommand, CommandTyped, Steps
  <2>3. SealOK' BY <1>2, <1>4 DEF ICommand, SealOK, Sealing, SealSteps, Listed
  <2>4. AttemptOK'
    BY <1>2, <1>4 DEF ICommand, AttemptOK, Attending, Sealing, SealSteps, AttendSteps, Listed,
                      Sealed, Verified
  <2>5. OrderlyOK'
    BY <1>2, <1>4 DEF ICommand, OrderlyOK, Attending, Sealing, SealSteps, AttendSteps, Listed,
                      Sealed, Verified
  <2> QED BY <2>1, <2>2, <2>3, <2>4, <2>5, Parts DEF ICommand
<1>5. CASE /\ pc' = "idle" /\ job' = NoJob
           /\ UNCHANGED <<unit, run, episodes, claim, stray, answer, launches,
                          faults, crashes>>
  <2>1. IData' BY <1>2, <1>5, DataKept
  <2>2. faults \in 0 .. MaxFaults /\ crashes \in 0 .. MaxCrashes
    BY <1>2 DEF ICommand, CommandTyped
  <2>3. ICommand' BY <1>5, <2>2, Ended
  <2> QED BY <2>1, <2>3, Parts
<1> QED BY <1>2, <1>3, <1>4, <1>5, Writes

LEMMA LockKeeps == IInv /\ Lock => IInv'
<1> SUFFICES ASSUME IInv, Lock PROVE IInv'
  OBVIOUS
<1>1. PICK u : u = job.unit
  OBVIOUS
<1>2. /\ pc = "lock" /\ u \in Units /\ unit[u].receipt = Nothing /\ ~Listed(u)
      /\ "result" \in DOMAIN unit[u].files /\ IData /\ ICommand /\ job.unit = u
  BY <1>1, AtHand, Parts DEF Lock, Seals, SealSteps
<1>3. /\ unit' = [unit EXCEPT ![u] = [unit[u] EXCEPT !.locked = TRUE]] /\ pc' = "list"
      /\ UNCHANGED <<job, run, episodes, claim, stray, answer, launches, faults, crashes>>
  BY <1>1 DEF Lock, Seals, Goto, history, bounds
<1>4. /\ DOMAIN unit' = Units /\ \A v \in Units : v # u => unit'[v] = unit[v]
      /\ DOMAIN unit'[u] = {"files", "locked", "manifest", "shut", "receipt"}
      /\ unit'[u].files = unit[u].files /\ unit'[u].manifest = unit[u].manifest
      /\ unit'[u].locked = TRUE
      /\ unit'[u].shut = unit[u].shut /\ unit'[u].receipt = unit[u].receipt
  BY <1>2, <1>3 DEF IData, UnitsTyped
<1>5. ~Listed(u)' /\ unit[u].shut \in BOOLEAN
  BY <1>2, <1>4 DEF Listed, IData, UnitsTyped
<1>6. IData'
  BY <1>2, <1>3, <1>4, <1>5, SameFiles, UnitMoves
<1>7. CommandTyped' BY <1>2, <1>3 DEF ICommand, CommandTyped, Steps
<1>8. SealOK'
  BY <1>2, <1>3, <1>4, <1>5 DEF ICommand, SealOK, Sealing, SealSteps
<1>9. AttemptOK'
  <2>1. Attending => Attempt(job.episode) \in Units BY AttendedUnits
  <2> QED BY <1>2, <1>3, <1>4, <1>5, <2>1
          DEF ICommand, AttemptOK, Attending, Sealing, AttendSteps, SealSteps, Listed,
              Sealed, Verified
<1>10. OrderlyOK'
  BY <1>2, <1>3, <1>4, <1>5
     DEF ICommand, OrderlyOK, Attending, Sealing, AttendSteps, SealSteps, Listed, Sealed,
         Verified
<1> QED BY <1>6, <1>7, <1>8, <1>9, <1>10, Parts DEF ICommand

LEMMA ListKeeps == IInv /\ List => IInv'
<1> SUFFICES ASSUME IInv, List PROVE IInv'
  OBVIOUS
<1>1. PICK u : u = job.unit
  OBVIOUS
<1>2. /\ pc = "list" /\ u \in Units /\ unit[u].receipt = Nothing /\ ~Listed(u)
      /\ "result" \in DOMAIN unit[u].files /\ IData /\ ICommand /\ job.unit = u
      /\ unit[u].locked
  BY <1>1, AtHand, Parts DEF List, Seals, SealSteps, IInv, SealOK
<1>3. /\ unit' = [unit EXCEPT ![u] = [unit[u] EXCEPT !.manifest = unit[u].files]]
      /\ pc' = "shut"
      /\ UNCHANGED <<job, run, episodes, claim, stray, answer, launches, faults, crashes>>
  BY <1>1 DEF List, Seals, Goto, history, bounds
<1>4. /\ DOMAIN unit' = Units /\ \A v \in Units : v # u => unit'[v] = unit[v]
      /\ DOMAIN unit'[u] = {"files", "locked", "manifest", "shut", "receipt"}
      /\ unit'[u].files = unit[u].files /\ unit'[u].manifest = unit[u].files
      /\ unit'[u].locked = unit[u].locked
      /\ unit'[u].shut = unit[u].shut /\ unit'[u].receipt = Nothing
  BY <1>2, <1>3 DEF IData, UnitsTyped
<1>5. Listed(u)' /\ Sound(u)' /\ unit[u].shut \in BOOLEAN
  <2>1. unit[u].files # Nothing BY <1>2, SomeFile
  <2> QED BY <1>2, <1>4, <2>1 DEF Listed, Sound, IData, UnitsTyped
<1>6. IData'
  BY <1>2, <1>3, <1>4, <1>5, SameFiles, UnitMoves
<1>7. CommandTyped' BY <1>2, <1>3 DEF ICommand, CommandTyped, Steps
<1>8. SealOK'
  BY <1>2, <1>3, <1>4, <1>5 DEF ICommand, SealOK, Sealing, SealSteps
<1>9. AttemptOK'
  <2>1. Attending => Attempt(job.episode) \in Units BY AttendedUnits
  <2>2. Sealing("claim") => u # Attempt(job.episode)
    BY <1>2, UnitsAre DEF ICommand, SealOK
  <2> QED BY <1>2, <1>3, <1>4, <1>5, <2>1, <2>2
          DEF ICommand, AttemptOK, Attending, Sealing, AttendSteps, SealSteps, Listed,
              Sealed, Verified
<1>10. OrderlyOK'
  BY <1>2, <1>3, <1>4, <1>5
     DEF ICommand, OrderlyOK, Attending, Sealing, AttendSteps, SealSteps, Listed, Sealed,
         Verified
<1> QED BY <1>6, <1>7, <1>8, <1>9, <1>10, Parts DEF ICommand

LEMMA ShutKeeps == IInv /\ Shut => IInv'
<1> SUFFICES ASSUME IInv, Shut PROVE IInv'
  OBVIOUS
<1>1. PICK u : u = job.unit
  OBVIOUS
<1>2. /\ pc = "shut" /\ u \in Units /\ unit[u].receipt = Nothing /\ Listed(u)
      /\ unit[u].files = unit[u].manifest /\ unit[u].locked
      /\ IData /\ ICommand /\ job.unit = u
  BY <1>1, AtHand, Parts DEF Shut, Seals, SealSteps
<1>3. /\ unit' = [unit EXCEPT ![u] = [unit[u] EXCEPT !.shut = TRUE]] /\ pc' = "receipt"
      /\ UNCHANGED <<job, run, episodes, claim, stray, answer, launches, faults, crashes>>
  BY <1>1 DEF Shut, Seals, Goto, history, bounds
<1>4. /\ DOMAIN unit' = Units /\ \A v \in Units : v # u => unit'[v] = unit[v]
      /\ DOMAIN unit'[u] = {"files", "locked", "manifest", "shut", "receipt"}
      /\ unit'[u].files = unit[u].files /\ unit'[u].manifest = unit[u].manifest
      /\ unit'[u].locked = unit[u].locked
      /\ unit'[u].shut = TRUE /\ unit'[u].receipt = Nothing
  BY <1>2, <1>3 DEF IData, UnitsTyped
<1>5. /\ Listed(u)' /\ Sound(u)' /\ unit[u].locked \in BOOLEAN
      /\ "result" \in DOMAIN unit'[u].files
  BY <1>2, <1>4 DEF Listed, Sound, IData, UnitsTyped, UnitsOK
<1>6. IData'
  BY <1>2, <1>3, <1>4, <1>5, SameFiles, UnitMoves
<1>7. CommandTyped' BY <1>2, <1>3 DEF ICommand, CommandTyped, Steps
<1>8. SealOK'
  BY <1>2, <1>3, <1>4, <1>5 DEF ICommand, SealOK, Sealing, SealSteps
<1>9. AttemptOK'
  <2>1. Attending => Attempt(job.episode) \in Units BY AttendedUnits
  <2>2. Sealing("claim") => u # Attempt(job.episode)
    BY <1>2, UnitsAre DEF ICommand, SealOK
  <2> QED BY <1>2, <1>3, <1>4, <1>5, <2>1, <2>2
          DEF ICommand, AttemptOK, Attending, Sealing, AttendSteps, SealSteps, Listed,
              Sealed, Verified
<1>10. OrderlyOK'
  BY <1>2, <1>3, <1>4, <1>5
     DEF ICommand, OrderlyOK, Attending, Sealing, AttendSteps, SealSteps, Listed, Sealed,
         Verified
<1> QED BY <1>6, <1>7, <1>8, <1>9, <1>10, Parts DEF ICommand

LEMMA ReceiptKeeps == IInv /\ Receipt => IInv'
<1> SUFFICES ASSUME IInv, Receipt PROVE IInv'
  OBVIOUS
<1>1. PICK u : u = job.unit
  OBVIOUS
<1>2. /\ pc = "receipt" /\ u \in Units /\ unit[u].receipt = Nothing /\ Listed(u)
      /\ unit[u].files = unit[u].manifest /\ unit[u].locked /\ unit[u].shut
      /\ IData /\ ICommand /\ job.unit = u
  BY <1>1, AtHand, Parts DEF Receipt, Seals, SealSteps, IInv, SealOK
<1>3. /\ unit' = [unit EXCEPT ![u] = [unit[u] EXCEPT !.receipt = unit[u].manifest]]
      /\ pc' = job.sealed
      /\ UNCHANGED <<job, run, episodes, claim, stray, answer, launches, faults, crashes>>
  BY <1>1 DEF Receipt, Seals, Goto, history, bounds
<1>4. /\ DOMAIN unit' = Units /\ \A v \in Units : v # u => unit'[v] = unit[v]
      /\ DOMAIN unit'[u] = {"files", "locked", "manifest", "shut", "receipt"}
      /\ unit'[u].files = unit[u].files /\ unit'[u].manifest = unit[u].manifest
      /\ unit'[u].locked = unit[u].locked
      /\ unit'[u].shut = unit[u].shut /\ unit'[u].receipt = unit[u].manifest
  BY <1>2, <1>3 DEF IData, UnitsTyped
<1>5. /\ Listed(u)' /\ Sound(u)' /\ Sealed(u)'
      /\ unit[u].locked \in BOOLEAN /\ unit[u].shut \in BOOLEAN
      /\ "result" \in DOMAIN unit'[u].files
  BY <1>2, <1>4 DEF Listed, Sound, Sealed, Verified, IData, UnitsTyped, UnitsOK
<1>6. IData'
  BY <1>2, <1>3, <1>4, <1>5, SameFiles, UnitMoves
<1>7. job.sealed \in {"preflight", "progress", "summarize", "claim", "confirm"}
  BY <1>2 DEF ICommand, SealOK, SealSteps
<1>8. CommandTyped' BY <1>2, <1>3, <1>7 DEF ICommand, CommandTyped, Steps
<1>9. SealOK'
  BY <1>3, <1>7 DEF SealOK, Sealing, SealSteps
<1>10. AttemptOK'
  <2>1. Attending => Attempt(job.episode) \in Units BY AttendedUnits
  <2>2. Sealing("claim") => u # Attempt(job.episode)
    BY <1>2, UnitsAre DEF ICommand, SealOK
  <2>3. Sealing("summarize") \/ Sealing("confirm") => u = Attempt(job.episode)
    BY <1>2 DEF ICommand, SealOK
  <2> QED BY <1>2, <1>3, <1>4, <1>5, <1>7, <2>1, <2>2, <2>3
          DEF ICommand, AttemptOK, Attending, Sealing, AttendSteps, SealSteps, Listed,
              Sealed, Verified
<1>11. OrderlyOK'
  BY <1>2, <1>3, <1>4, <1>5, <1>7
     DEF ICommand, OrderlyOK, Attending, Sealing, AttendSteps, SealSteps, Listed, Sealed,
         Verified
<1> QED BY <1>6, <1>8, <1>9, <1>10, <1>11, Parts DEF ICommand

(* The stages, and how they stop *)

\* What Reconcile may lead to.
LEMMA Reconciles ==
    ASSUME IInv, NEW u \in Units, NEW next, Reconcile(u, next)
    PROVE  \/ /\ Sealed(u) /\ pc' = next
              /\ job' = [job EXCEPT !.unit = u, !.sealed = next]
           \/ /\ Listed(u) /\ unit[u].files = unit[u].manifest /\ unit[u].locked
              /\ unit[u].receipt = Nothing
              /\ pc' \in {"shut", "receipt"} /\ (pc' = "receipt" => unit[u].shut)
              /\ job' = [job EXCEPT !.unit = u, !.sealed = next]
           \/ /\ ~Listed(u) /\ pc' = "write"
              /\ job' = [job EXCEPT !.unit = u, !.sealed = next]
           \/ pc' = "idle" /\ job' = NoJob
BY DEF Reconcile, Finish, Sound, IInv, UnitsTyped

\* A seal that is finished goes on where it was cut off.
LEMMA Finishes ==
    ASSUME NEW u \in Units, NEW next, Sound(u), Finish(u, next), UnitsTyped
    PROVE  \/ /\ Sealed(u) /\ pc' = next
              /\ job' = [job EXCEPT !.unit = u, !.sealed = next]
           \/ /\ Listed(u) /\ unit[u].files = unit[u].manifest /\ unit[u].locked
              /\ unit[u].receipt = Nothing
              /\ pc' \in {"shut", "receipt"} /\ (pc' = "receipt" => unit[u].shut)
              /\ job' = [job EXCEPT !.unit = u, !.sealed = next]
BY DEF Finish, Sound, UnitsTyped

\* A job of its own, with another unit.
LEMMA JobWith ==
    ASSUME CommandTyped, NEW u \in Units, NEW next \in Steps,
           job' = [job EXCEPT !.unit = u, !.sealed = next]
    PROVE  /\ job' \in [episode : 0 .. MaxEpisodes, unit : Units \cup {NoJob.unit},
                        outcome : {"none"} \cup Statuses, sealed : Steps, then : Steps]
           /\ job'.unit = u /\ job'.sealed = next /\ job'.episode = job.episode
           /\ job'.then = job.then /\ job'.outcome = job.outcome
BY DEF CommandTyped

\* A job for the attempt of an episode.
LEMMA JobFor ==
    ASSUME NEW e \in 0 .. MaxEpisodes, NEW next \in Steps, Attend(e, next)
    PROVE  /\ job' \in [episode : 0 .. MaxEpisodes, unit : Units \cup {NoJob.unit},
                        outcome : {"none"} \cup Statuses, sealed : Steps, then : Steps]
           /\ job'.sealed = "idle" /\ job'.episode = e /\ job'.then = next /\ pc' = "inspect"
BY DEF Attend, NoJob, Steps, Attempt

\* A stage takes up a unit only when nothing else is half sealed.
LEMMA StageKeeps == IInv /\ Stage => IInv'
<1> SUFFICES ASSUME IInv, Stage PROVE IInv'
  OBVIOUS
<1>1. /\ pc = "stage" /\ IData /\ ICommand
      /\ UNCHANGED <<run, episodes, unit, claim, stray, answer, launches, faults, crashes>>
  BY Parts DEF Stage, durable, history, bounds
<1>2. IData' BY <1>1, DataKept
<1>3. faults \in 0 .. MaxFaults /\ crashes \in 0 .. MaxCrashes /\ CommandTyped
  BY <1>1 DEF ICommand, CommandTyped
<1>4. \A v \in Units : Listed(v) => Sealed(v)
  BY <1>1 DEF ICommand, OrderlyOK
<1>5. ~run.final BY <1>1 DEF ICommand, AttemptOK
<1>6. ASSUME NEW u \in WorkUnits, ~Sealed(u), Reconcile(u, "progress") PROVE IInv'
  <2>1. u \in Units BY UnitsAre
  <2>2. CASE pc' = "idle" /\ job' = NoJob
    <3>1. ICommand' BY <1>1, <1>3, <2>2, Ended
    <3> QED BY <1>2, <3>1, Parts
  <2>3. CASE /\ ~Listed(u) /\ pc' = "write"
             /\ job' = [job EXCEPT !.unit = u, !.sealed = "progress"]
    <3>1. /\ job' \in [episode : 0 .. MaxEpisodes, unit : Units \cup {NoJob.unit},
                        outcome : {"none"} \cup Statuses, sealed : Steps, then : Steps]
          /\ job'.unit = u /\ job'.sealed = "progress"
      <4>1. "progress" \in Steps BY DEF Steps
      <4> QED BY <1>3, <2>1, <2>3, <4>1, JobWith
    <3>2. CommandTyped' BY <1>1, <1>3, <2>3, <3>1 DEF CommandTyped, Steps
    <3>3. SealOK'
      BY <1>1, <1>6, <2>1, <2>3, <3>1 DEF SealOK, Sealing, SealSteps, Listed
    <3>4. AttemptOK'
      BY <1>1, <1>5, <2>3, <3>1 DEF AttemptOK, Attending, Sealing, SealSteps, AttendSteps
    <3>5. OrderlyOK' BY <1>1, <1>4, <2>3 DEF OrderlyOK, Listed, Sealed, Verified
    <3> QED BY <1>2, <3>2, <3>3, <3>4, <3>5, Parts DEF ICommand
  <2>4. Listed(u) => Sealed(u) BY <1>4, <2>1
  <2> QED BY <1>6, <2>1, <2>2, <2>3, <2>4, Reconciles
<1>7. CASE pc' \in {"alert", "complete"} /\ UNCHANGED job
  <2>1. CommandTyped' BY <1>1, <1>3, <1>7 DEF CommandTyped, Steps
  <2>2. SealOK' BY <1>7 DEF SealOK, Sealing, SealSteps
  <2>3. AttemptOK'
    BY <1>1, <1>5, <1>7 DEF AttemptOK, Attending, Sealing, SealSteps, AttendSteps
  <2>4. OrderlyOK' BY <1>1, <1>4 DEF OrderlyOK, Listed, Sealed, Verified
  <2> QED BY <1>2, <2>1, <2>2, <2>3, <2>4, Parts DEF ICommand
<1>8. CASE pc' = "idle" /\ job' = NoJob
  <2>1. ICommand' BY <1>1, <1>3, <1>8, Ended
  <2> QED BY <1>2, <2>1, Parts
<1> QED BY <1>6, <1>7, <1>8 DEF Stage

LEMMA ProgressKeeps == IInv /\ Progress => IInv'
<1> SUFFICES ASSUME IInv, Progress PROVE IInv'
  OBVIOUS
<1>1. /\ pc = "progress" /\ pc' = "stage" /\ IData /\ ICommand
      /\ run' = [run EXCEPT !.state = "working"]
      /\ UNCHANGED <<job, episodes, unit, claim, stray, answer, launches, faults, crashes>>
  BY Parts DEF Progress, Goto, history, bounds
<1>2. ~run.final BY <1>1 DEF ICommand, AttemptOK
<1>3. run' \in [state : {"working", "attention", "completed"}, final : BOOLEAN]
      /\ run'.state = "working" /\ ~run'.final
  BY <1>1, <1>2 DEF IData, StateTyped
<1>4. IData'
  <2>1. UnitsTyped' /\ EpisodesTyped' /\ StateTyped' /\ UnitsOK'
    BY <1>1, <1>3 DEF IData, UnitsTyped, FilesTyped, EpisodesTyped, IsSequence, StateTyped,
       UnitsOK, SealsCanBeFinished, Sound, Sealed, Verified, Listed
  <2>2. InventoriesOK'
    BY <1>1, <1>3 DEF IData, InventoriesOK, CompletionsAreCitable, Verified, Listed
  <2>3. ClaimsOK'
    BY <1>1, <1>3 DEF IData, ClaimsOK, OneVerdict, AnalyzedOnce, ClaimsTellVerdicts, Said,
       Sealed, Verified, Listed
  <2> QED BY <2>1, <2>2, <2>3 DEF IData
<1>5. CommandTyped' BY <1>1 DEF ICommand, CommandTyped, Steps
<1>6. SealOK' BY <1>1 DEF SealOK, Sealing, SealSteps
<1>7. AttemptOK'
  BY <1>1, <1>3 DEF AttemptOK, Attending, Sealing, SealSteps, AttendSteps
<1>8. OrderlyOK' BY <1>1 DEF ICommand, OrderlyOK, Listed, Sealed, Verified
<1> QED BY <1>4, <1>5, <1>6, <1>7, <1>8, Parts DEF ICommand

LEMMA StageFailsKeeps == IInv /\ StageFails => IInv'
<1> SUFFICES ASSUME IInv, StageFails PROVE IInv'
  OBVIOUS
<1>1. /\ pc \in SealSteps /\ pc' = "alert" /\ faults' = faults + 1 /\ faults < MaxFaults
      /\ IData /\ ICommand
      /\ UNCHANGED <<job, run, episodes, unit, claim, stray, answer, launches, crashes>>
  BY Parts DEF StageFails, SealSteps, durable, history, bounds
<1>2. IData' BY <1>1, DataKept
<1>3. CommandTyped'
  BY <1>1, RetrospectiveConstants DEF ICommand, CommandTyped, Steps
<1>4. SealOK' BY <1>1 DEF SealOK, Sealing, SealSteps
<1>5. AttemptOK'
  BY <1>1 DEF ICommand, AttemptOK, Attending, Sealing, SealSteps, AttendSteps
<1>6. OrderlyOK' BY <1>1 DEF OrderlyOK, Attending, Sealing, SealSteps, AttendSteps
<1> QED BY <1>2, <1>3, <1>4, <1>5, <1>6, Parts DEF ICommand

(* The attempt of an episode *)

\* An attempt that begins: the episode is recorded, and what follows is allowed.
LEMMA Attends ==
    ASSUME NEW e \in 1 .. MaxEpisodes, NEW next \in {"idle", "stage", "record", "finalize"},
           Attend(e, next), e \in DOMAIN episodes', ~run'.final,
           next = "finalize" => run'.state = "completed",
           next = "stage" => \A u \in Units : Listed(u)' => Sealed(u)',
           faults' \in 0 .. MaxFaults, crashes' \in 0 .. MaxCrashes
    PROVE  ICommand'
<1>1. /\ job' \in [episode : 0 .. MaxEpisodes, unit : Units \cup {NoJob.unit},
                   outcome : {"none"} \cup Statuses, sealed : Steps, then : Steps]
      /\ job'.episode = e /\ job'.then = next /\ pc' = "inspect"
  BY RetrospectiveConstants, JobFor DEF Steps
<1>2. CommandTyped' BY <1>1 DEF CommandTyped, Steps
<1>3. SealOK' BY <1>1 DEF SealOK, Sealing, SealSteps
<1>4. AttemptOK' BY <1>1 DEF AttemptOK, Attending, Sealing, SealSteps, AttendSteps
<1>5. OrderlyOK' BY <1>1 DEF OrderlyOK, Attending, Sealing, SealSteps, AttendSteps
<1> QED BY <1>2, <1>3, <1>4, <1>5 DEF ICommand

LEMMA AlertKeeps == IInv /\ Alert => IInv'
<1> SUFFICES ASSUME IInv, Alert PROVE IInv'
  OBVIOUS
<1>1. /\ pc = "alert" /\ IData /\ ICommand
      /\ UNCHANGED <<run, episodes, unit, claim, stray, answer, launches, faults, crashes>>
  BY Parts DEF Alert, durable, history, bounds
<1>2. IData' BY <1>1, DataKept
<1>3. /\ faults \in 0 .. MaxFaults /\ crashes \in 0 .. MaxCrashes /\ ~run.final
  BY <1>1 DEF ICommand, CommandTyped, AttemptOK
<1>4. CASE run.state = "attention" /\ Attend(Len(episodes), "record")
  <2>1. Len(episodes) \in DOMAIN episodes /\ Len(episodes) \in 1 .. MaxEpisodes
    BY <1>1, <1>4, EpisodesAre DEF IData, InventoriesOK, Episodes
  <2>2. ICommand' BY <1>1, <1>3, <1>4, <2>1, Attends
  <2> QED BY <1>2, <2>2, Parts
<1>5. CASE pc' = "record" /\ job' = NoJob
  <2>1. CommandTyped'
    BY <1>1, <1>3, <1>5, RetrospectiveConstants DEF CommandTyped, Steps, NoJob, Attempt
  <2>2. SealOK' BY <1>5 DEF SealOK, Sealing, SealSteps
  <2>3. AttemptOK'
    BY <1>1, <1>3, <1>5 DEF AttemptOK, Attending, Sealing, SealSteps, AttendSteps
  <2>4. OrderlyOK' BY <1>5 DEF OrderlyOK, Attending, Sealing, SealSteps, AttendSteps
  <2> QED BY <1>2, <2>1, <2>2, <2>3, <2>4, Parts DEF ICommand
<1> QED BY <1>4, <1>5 DEF Alert

\* A raised error: the command ends.
LEMMA RaiseKeeps == IInv /\ Raise => IInv'
<1> SUFFICES ASSUME IInv, Raise PROVE IInv'
  OBVIOUS
<1>1. /\ pc' = "idle" /\ job' = NoJob
      /\ UNCHANGED <<run, episodes, unit, claim, stray, answer, launches, faults, crashes>>
  BY DEF Raise, durable, history, bounds
<1>2. IData' BY <1>1, DataKept, Parts
<1>3. faults \in 0 .. MaxFaults /\ crashes \in 0 .. MaxCrashes
  BY Parts DEF ICommand, CommandTyped
<1>4. ICommand' BY <1>1, <1>3, Ended
<1> QED BY <1>2, <1>4, Parts

\* Every sequence is one of its own elements.
LEMMA OwnElements ==
    ASSUME NEW S, NEW s \in Seq(S)
    PROVE  IsSequence(s)
<1> DEFINE T == {s[i] : i \in DOMAIN s}
<1>1. Len(s) \in Nat /\ DOMAIN s = 1 .. Len(s) /\ s \in [1 .. Len(s) -> S]
  BY LenProperties
<1>2. \A i \in 1 .. Len(s) : s[i] \in T BY <1>1
<1> HIDE DEF T
<1>3. s \in [1 .. Len(s) -> T] BY <1>1, <1>2
<1>4. s \in Seq(T) BY <1>1, <1>3
<1> QED BY <1>4 DEF T, IsSequence

\* An episode more.
LEMMA Episode ==
    ASSUME EpisodesTyped, Len(episodes) < MaxEpisodes,
           NEW state \in {"attention", "completed"}, NEW inventory,
           episodes' = Append(episodes, [state |-> state, inventory |-> inventory])
    PROVE  /\ EpisodesTyped' /\ Len(episodes') = Len(episodes) + 1
           /\ DOMAIN episodes' = 1 .. Len(episodes) + 1
           /\ \A e \in DOMAIN episodes : e \in DOMAIN episodes' /\ episodes'[e] = episodes[e]
           /\ episodes'[Len(episodes) + 1] = [state |-> state, inventory |-> inventory]
<1> DEFINE new == [state |-> state, inventory |-> inventory]
           S == {episodes[i] : i \in DOMAIN episodes} \cup {new}
<1>1. Len(episodes) \in Nat /\ DOMAIN episodes = 1 .. Len(episodes)
  BY EpisodesAre
<1>2. episodes \in Seq({episodes[i] : i \in DOMAIN episodes})
  BY DEF EpisodesTyped, IsSequence
<1>3. episodes \in Seq(S)
  <2>1. episodes \in [1 .. Len(episodes) -> S] BY <1>1, <1>2, LenProperties
  <2> HIDE DEF S
  <2> QED BY <1>1, <2>1
<1>4. new \in S OBVIOUS
<1>5. episodes' = Append(episodes, new) OBVIOUS
<1> HIDE DEF S, new
<1>6. /\ episodes' \in Seq(S) /\ Len(episodes') = Len(episodes) + 1
      /\ \A i \in 1 .. Len(episodes) : episodes'[i] = episodes[i]
      /\ episodes'[Len(episodes) + 1] = new
  BY <1>3, <1>4, <1>5, AppendProperties
<1>7. DOMAIN episodes' = 1 .. Len(episodes) + 1 BY <1>6, LenProperties
<1>8. IsSequence(episodes') BY <1>6, OwnElements
<1>9. EpisodesTyped'
  <2>1. \A e \in DOMAIN episodes' : episodes'[e].state \in {"attention", "completed"}
    BY <1>1, <1>6, <1>7 DEF EpisodesTyped, new
  <2> QED BY <1>1, <1>6, <1>8, <2>1, RetrospectiveConstants DEF EpisodesTyped
<1> QED BY <1>1, <1>6, <1>7, <1>9 DEF new

\* An episode is recorded with the inventory of what is listed; nothing else changes.
LEMMA OpenKeeps ==
    ASSUME IInv, NEW state \in {"attention", "completed"}, NEW next \in {"idle", "finalize"},
           Open(state, next), ~run.final, next = "finalize" => state = "completed",
           state = "completed" => \A u \in Units : Listed(u) => Sealed(u)
    PROVE  IInv'
<1>1. /\ Len(episodes) < MaxEpisodes /\ IData /\ ICommand
      /\ episodes' = Append(episodes, [state |-> state, inventory |-> Captured])
      /\ run' = [run EXCEPT !.state = state] /\ Attend(Len(episodes) + 1, next)
      /\ UNCHANGED <<unit, claim, stray, answer, launches, faults, crashes>>
  BY Parts DEF Open, history, bounds
<1>2. /\ EpisodesTyped' /\ Len(episodes') = Len(episodes) + 1
      /\ DOMAIN episodes' = 1 .. Len(episodes) + 1
      /\ \A e \in DOMAIN episodes : e \in DOMAIN episodes' /\ episodes'[e] = episodes[e]
      /\ episodes'[Len(episodes) + 1] = [state |-> state, inventory |-> Captured]
  <2> HIDE DEF Captured
  <2> QED BY <1>1, Episode DEF IData
<1>3. /\ Len(episodes) \in Nat /\ DOMAIN episodes = 1 .. Len(episodes)
      /\ \A e \in DOMAIN episodes' : e \in DOMAIN episodes \/ e = Len(episodes) + 1
  BY <1>1, <1>2, EpisodesAre DEF IData
<1>4. run' \in [state : {"working", "attention", "completed"}, final : BOOLEAN]
      /\ run'.state = state /\ ~run'.final
  BY <1>1 DEF IData, StateTyped
<1>5. UnitsTyped' /\ StateTyped' /\ UnitsOK'
  <2>1. UnitsTyped' BY <1>1, <1>2 DEF IData, UnitsTyped, FilesTyped
  <2>2. StateTyped' BY <1>1, <1>4 DEF IData, StateTyped
  <2>3. UnitsOK'
    BY <1>1 DEF IData, UnitsOK, SealsCanBeFinished, Sound, Sealed, Verified, Listed
  <2> QED BY <2>1, <2>2, <2>3
<1>6. /\ Captured.known =>
            \A cited \in Captured.cites :
               /\ cited[1] \in Units /\ Verified(cited[1])
               /\ unit[cited[1]].manifest = cited[2]
      /\ state = "completed" => Captured.known
  <2>1. (\A u \in {u \in Units : Listed(u)} : Verified(u)) =>
           Captured = [known |-> TRUE,
                       cites |-> {<<u, unit[u].manifest>> : u \in {u \in Units : Listed(u)}}]
    BY DEF Captured
  <2>2. ~(\A u \in {u \in Units : Listed(u)} : Verified(u)) => ~Captured.known
    BY DEF Captured, Unavailable
  <2>3. state = "completed" => \A u \in {u \in Units : Listed(u)} : Verified(u)
    BY DEF Sealed
  <2>4. CASE \A u \in {u \in Units : Listed(u)} : Verified(u)
    <3>1. Captured.known BY <2>1, <2>4
    <3>2. Captured.cites = {<<u, unit[u].manifest>> : u \in {u \in Units : Listed(u)}}
      BY <2>1, <2>4
    <3>3. \A cited \in Captured.cites :
             \E u \in Units : Listed(u) /\ cited = <<u, unit[u].manifest>>
      BY <3>2
    <3> QED BY <2>4, <3>1, <3>3
  <2>5. CASE ~(\A u \in {u \in Units : Listed(u)} : Verified(u))
    BY <2>2, <2>3, <2>5
  <2> QED BY <2>4, <2>5
<1>7. InventoriesOK'
  <2>1. \A e \in DOMAIN episodes' :
          /\ episodes'[e].inventory.known =>
                \A cited \in episodes'[e].inventory.cites :
                   /\ cited[1] \in Units /\ Verified(cited[1])
                   /\ unit[cited[1]].manifest = cited[2]
          /\ episodes'[e].state = "completed" => episodes'[e].inventory.known
    <3> HIDE DEF Captured
    <3>1. \A e \in DOMAIN episodes :
          /\ episodes[e].inventory.known =>
                \A cited \in episodes[e].inventory.cites :
                   /\ cited[1] \in Units /\ Verified(cited[1])
                   /\ unit[cited[1]].manifest = cited[2]
          /\ episodes[e].state = "completed" => episodes[e].inventory.known
      BY <1>1 DEF IData, InventoriesOK, CompletionsAreCitable
    <3> QED BY <1>2, <1>3, <1>6, <3>1
  <2> QED BY <1>1, <1>2, <1>3, <2>1 DEF InventoriesOK, CompletionsAreCitable, Verified, Listed
<1>8. ClaimsOK'
  BY <1>1, <1>4 DEF IData, ClaimsOK, OneVerdict, AnalyzedOnce, ClaimsTellVerdicts, Said,
     Sealed, Verified, Listed
<1>9. faults \in 0 .. MaxFaults /\ crashes \in 0 .. MaxCrashes
  BY <1>1 DEF ICommand, CommandTyped
<1>10. Len(episodes) + 1 \in 1 .. MaxEpisodes BY <1>1, <1>3, RetrospectiveConstants
<1>11. ICommand' BY <1>1, <1>2, <1>3, <1>4, <1>9, <1>10, Attends
<1> QED BY <1>2, <1>5, <1>7, <1>8, <1>11, Parts DEF IData

\* A completion is only recorded where all that is listed verifies.
LEMMA RecordKeeps == IInv /\ (RecordAttention \/ RecordCompletion) => IInv'
<1>1. pc \in {"record", "complete"} /\ IInv => ~run.final
  BY DEF IInv, AttemptOK
<1>2. ASSUME IInv, RecordAttention PROVE IInv'
  BY <1>1, <1>2, OpenKeeps, RaiseKeeps DEF RecordAttention
<1>3. ASSUME IInv, RecordCompletion PROVE IInv'
  <2>1. \A u \in Units : Listed(u) => Sealed(u)
    BY <1>3 DEF RecordCompletion, IInv, OrderlyOK
  <2> QED BY <1>1, <1>3, <2>1, OpenKeeps, RaiseKeeps DEF RecordCompletion
<1> QED BY <1>2, <1>3

\* Behind Inspect, sealed evidence of the attempt has its receipt.
LEMMA InspectKeeps == IInv /\ Inspect => IInv'
<1> SUFFICES ASSUME IInv, Inspect PROVE IInv'
  OBVIOUS
<1>1. PICK e, u : e = job.episode /\ u = Attempt(e)
  OBVIOUS
<1>2. /\ pc = "inspect" /\ IData /\ ICommand /\ e = job.episode /\ u = Attempt(job.episode)
      /\ u \in Units
  BY <1>1, Parts, AttendedUnits DEF Inspect, Attending, AttendSteps
<1>3. ~run.final BY <1>2 DEF ICommand, AttemptOK
<1>4. CASE Raise BY <1>4, RaiseKeeps
<1>5. CASE ~Raise
  <2>1. /\ UNCHANGED <<run, episodes, unit, claim, stray, answer, launches, faults, crashes>>
        /\ \/ ~Listed(u) /\ pc' = "summarize" /\ job' = job
           \/ Sound(u) /\ Finish(u, "summarize")
    BY <1>2, <1>5 DEF Inspect, Goto, durable, history, bounds
  <2>2. IData' BY <1>2, <2>1, DataKept
  <2>3. CASE ~Listed(u) /\ pc' = "summarize" /\ job' = job
    <3>1. CommandTyped' BY <1>2, <2>1, <2>3 DEF ICommand, CommandTyped, Steps
    <3>2. SealOK' BY <2>3 DEF SealOK, Sealing, SealSteps
    <3>3. AttemptOK'
      BY <1>2, <1>3, <2>1, <2>3
         DEF ICommand, AttemptOK, Attending, Sealing, SealSteps, AttendSteps, Listed
    <3>4. OrderlyOK'
      BY <1>2, <2>1, <2>3 DEF ICommand, OrderlyOK, Attending, Sealing, SealSteps, AttendSteps,
         Listed, Sealed, Verified
    <3> QED BY <2>2, <3>1, <3>2, <3>3, <3>4, Parts DEF ICommand
  <2>4. CASE Sound(u) /\ Finish(u, "summarize")
    <3>1. \/ /\ Sealed(u) /\ pc' = "summarize"
             /\ job' = [job EXCEPT !.unit = u, !.sealed = "summarize"]
          \/ /\ Listed(u) /\ unit[u].files = unit[u].manifest /\ unit[u].locked
             /\ unit[u].receipt = Nothing
             /\ pc' \in {"shut", "receipt"} /\ (pc' = "receipt" => unit[u].shut)
             /\ job' = [job EXCEPT !.unit = u, !.sealed = "summarize"]
      BY <1>2, <2>4, Finishes DEF IData
    <3>2. /\ job' \in [episode : 0 .. MaxEpisodes, unit : Units \cup {NoJob.unit},
                       outcome : {"none"} \cup Statuses, sealed : Steps, then : Steps]
          /\ job'.unit = u /\ job'.sealed = "summarize" /\ job'.episode = job.episode
          /\ job'.then = job.then
      <4>1. "summarize" \in Steps BY DEF Steps
      <4> QED BY <1>2, <3>1, <4>1, JobWith DEF ICommand
    <3>3. CommandTyped' BY <1>2, <2>1, <3>1, <3>2 DEF ICommand, CommandTyped, Steps
    <3>4. SealOK' BY <1>2, <2>1, <3>1, <3>2 DEF SealOK, Sealing, SealSteps, Listed
    <3>5. AttemptOK'
      <4>1. Attending => Attending' BY <3>1, <3>2 DEF Attending, Sealing, SealSteps, AttendSteps
      <4> QED BY <1>2, <1>3, <2>1, <3>1, <3>2, <4>1
         DEF ICommand, AttemptOK, Attending, Sealing, SealSteps, AttendSteps, Listed, Sealed,
             Verified
    <3>6. OrderlyOK'
      BY <1>2, <2>1, <3>1, <3>2
         DEF ICommand, OrderlyOK, Attending, Sealing, SealSteps, AttendSteps, Listed, Sealed,
             Verified
    <3> QED BY <2>2, <3>3, <3>4, <3>5, <3>6, Parts DEF ICommand
  <2> QED BY <2>1, <2>3, <2>4
<1> QED BY <1>4, <1>5

LEMMA SummarizeKeeps == IInv /\ Summarize => IInv'
<1> SUFFICES ASSUME IInv, Summarize PROVE IInv'
  OBVIOUS
<1>1. PICK e, u : e = job.episode /\ u = Summary(e)
  OBVIOUS
<1>2. /\ pc = "summarize" /\ IData /\ ICommand /\ e = job.episode /\ u = Summary(job.episode)
      /\ u \in Units /\ Attempt(job.episode) \in Units
  BY <1>1, Parts, AttendedUnits DEF Summarize, Attending, AttendSteps
<1>3. ~run.final BY <1>2 DEF ICommand, AttemptOK
<1>4. CASE Raise BY <1>4, RaiseKeeps
<1>5. CASE ~Raise
  <2>1. /\ UNCHANGED <<run, episodes, unit, claim, stray, answer, launches, faults, crashes>>
        /\ Reconcile(u, "claim")
    BY <1>2, <1>5 DEF Summarize, Goto, durable, history, bounds
  <2>2. IData' BY <1>2, <2>1, DataKept
  <2>3. CASE pc' = "idle" /\ job' = NoJob
    <3>1. faults \in 0 .. MaxFaults /\ crashes \in 0 .. MaxCrashes
      BY <1>2 DEF ICommand, CommandTyped
    <3> QED BY <2>1, <2>2, <2>3, <3>1, Ended, Parts
  <2>4. CASE /\ job' = [job EXCEPT !.unit = u, !.sealed = "claim"]
             /\ \/ Sealed(u) /\ pc' = "claim"
                \/ /\ Listed(u) /\ unit[u].files = unit[u].manifest /\ unit[u].locked
                   /\ unit[u].receipt = Nothing
                   /\ pc' \in {"shut", "receipt"} /\ (pc' = "receipt" => unit[u].shut)
                \/ ~Listed(u) /\ pc' = "write"
    <3>1. /\ job' \in [episode : 0 .. MaxEpisodes, unit : Units \cup {NoJob.unit},
                       outcome : {"none"} \cup Statuses, sealed : Steps, then : Steps]
          /\ job'.unit = u /\ job'.sealed = "claim" /\ job'.episode = job.episode
          /\ job'.then = job.then
      <4>1. "claim" \in Steps BY DEF Steps
      <4> QED BY <1>2, <2>4, <4>1, JobWith DEF ICommand
    <3>2. CommandTyped' BY <1>2, <2>1, <2>4, <3>1 DEF ICommand, CommandTyped, Steps
    <3>3. SealOK' BY <1>2, <2>1, <2>4, <3>1 DEF SealOK, Sealing, SealSteps, Listed
    <3>4. AttemptOK'
      BY <1>2, <1>3, <2>1, <2>4, <3>1
         DEF ICommand, AttemptOK, Attending, Sealing, SealSteps, AttendSteps, Listed, Sealed,
             Verified
    <3>5. OrderlyOK'
      BY <1>2, <2>1, <2>4, <3>1
         DEF ICommand, OrderlyOK, Attending, Sealing, SealSteps, AttendSteps, Listed, Sealed,
             Verified
    <3> QED BY <2>2, <3>2, <3>3, <3>4, <3>5, Parts DEF ICommand
  <2> QED BY <1>2, <2>1, <2>3, <2>4, Reconciles
<1> QED BY <1>4, <1>5

\* A step within the attempt of the episode, of which the evidence does not change.
LEMMA AttemptStep ==
    ASSUME IInv, pc \in AttendSteps, ~run.final,
           pc' \in {"launch", "analyzing", "recover", "confirm", "replace"}, IData',
           UNCHANGED <<job, run, episodes, unit, faults, crashes>>,
           pc' \in {"launch", "analyzing", "recover"} => ~Listed(Attempt(job.episode)),
           pc' \in {"confirm", "replace"} => Sealed(Attempt(job.episode)),
           claim'[job.episode] = "prepared",
           pc' = "launch" => launches'[job.episode] = 0,
           pc' = "analyzing" => launches'[job.episode] > 0 /\ answer'[job.episode] = "none"
    PROVE  IInv'
<1>1. CommandTyped' BY DEF IInv, CommandTyped, Steps
<1>2. SealOK' BY DEF SealOK, Sealing, SealSteps
<1>3. AttemptOK'
  BY DEF IInv, AttemptOK, Attending, Sealing, SealSteps, AttendSteps, Listed, Sealed, Verified
<1>4. OrderlyOK'
  BY DEF IInv, OrderlyOK, Attending, Sealing, SealSteps, AttendSteps, Listed, Sealed, Verified
<1> QED BY <1>1, <1>2, <1>3, <1>4, Parts DEF ICommand

\* The command goes on behind the attempt.
LEMMA GoesOn ==
    ASSUME IInv, pc \in AttendSteps, pc' = job.then, IData',
           UNCHANGED <<job, run, episodes, unit, faults, crashes>>, ~run.final
    PROVE  IInv'
<1>1. job.then \in {"idle", "stage", "record", "finalize"}
  BY DEF IInv, AttemptOK, Attending
<1>2. CommandTyped' BY <1>1 DEF IInv, CommandTyped, Steps
<1>3. SealOK' BY <1>1 DEF SealOK, Sealing, SealSteps
<1>4. AttemptOK'
  BY <1>1 DEF IInv, AttemptOK, Attending, Sealing, SealSteps, AttendSteps
<1>5. OrderlyOK'
  BY <1>1 DEF IInv, OrderlyOK, Attending, Sealing, SealSteps, AttendSteps, Listed, Sealed,
     Verified
<1> QED BY <1>2, <1>3, <1>4, <1>5, Parts DEF ICommand

\* The claim is made before the analysis, and only once.
LEMMA ClaimKeeps == IInv /\ Claim => IInv'
<1> SUFFICES ASSUME IInv, Claim PROVE IInv'
  OBVIOUS
<1>1. PICK e : e = job.episode
  OBVIOUS
<1>2. /\ pc = "claim" /\ pc \in AttendSteps /\ IData /\ ICommand /\ job.episode = e
      /\ e \in Episodes /\ Attempt(e) \in Units
  BY <1>1, Parts, AttendedUnits DEF Claim, Attending, AttendSteps
<1>3. ~run.final BY <1>2 DEF ICommand, AttemptOK
<1>4. Listed(Attempt(e)) => Sealed(Attempt(e)) BY <1>2 DEF ICommand, AttemptOK
<1>5. CASE Raise BY <1>5, RaiseKeeps
<1>6. CASE /\ ~Listed(Attempt(e)) /\ claim[e] = "absent"
           /\ claim' = [claim EXCEPT ![e] = "prepared"] /\ Goto("launch")
           /\ UNCHANGED <<run, episodes, unit, stray, history>>
  <2>1. /\ pc' = "launch" /\ claim' = [claim EXCEPT ![e] = "prepared"]
        /\ UNCHANGED <<job, run, episodes, unit, stray, answer, launches, faults, crashes>>
    BY <1>6 DEF Goto, history, bounds
  <2>2. /\ claim'[e] = "prepared" /\ \A d \in Episodes : d # e => claim'[d] = claim[d]
        /\ claim' \in [Episodes -> {"absent", "prepared"} \cup Statuses]
    BY <1>2, <2>1 DEF IData, StateTyped
  <2>3. "prepared" \notin Statuses BY DEF Statuses
  <2>4. UnitsTyped' /\ EpisodesTyped' /\ StateTyped' /\ UnitsOK' /\ InventoriesOK'
    BY <1>2, <2>1, <2>2 DEF IData, UnitsTyped, FilesTyped, EpisodesTyped, IsSequence,
       StateTyped, UnitsOK, SealsCanBeFinished, Sound, Sealed, Verified, Listed, InventoriesOK,
       CompletionsAreCitable
  <2>5. ClaimsOK'
    <3>1. ClaimsTellVerdicts'
      BY <1>2, <1>3, <2>1, <2>2, <2>3
         DEF IData, ClaimsOK, OneVerdict, ClaimsTellVerdicts, Said, Sealed, Verified, Listed
    <3> QED BY <1>2, <2>1, <2>2, <3>1 DEF IData, ClaimsOK, OneVerdict, AnalyzedOnce
  <2>6. launches[e] = 0
    BY <1>2, <1>6 DEF IData, ClaimsOK, StateTyped
  <2> QED BY <1>2, <1>3, <1>6, <2>1, <2>2, <2>4, <2>5, <2>6, AttemptStep DEF IData
<1>7. CASE /\ UNCHANGED <<durable, history>>
           /\ \/ ~Listed(Attempt(e)) /\ claim[e] = "prepared" /\ Goto("recover")
              \/ Listed(Attempt(e)) /\ claim[e] = "prepared" /\ Goto("confirm")
  <2>1. IData' BY <1>2, <1>7, DataKept DEF durable, history
  <2> QED BY <1>2, <1>3, <1>4, <1>7, <2>1, AttemptStep DEF Goto, durable, history, bounds
<1>8. CASE Goto(job.then) /\ UNCHANGED <<durable, history>>
  <2>1. IData' BY <1>2, <1>8, DataKept DEF durable, history
  <2> QED BY <1>2, <1>3, <1>8, <2>1, GoesOn DEF Goto, durable, bounds
<1> QED BY <1>1, <1>5, <1>6, <1>7, <1>8 DEF Claim

LEMMA LaunchKeeps == IInv /\ Launch => IInv'
<1> SUFFICES ASSUME IInv, Launch PROVE IInv'
  OBVIOUS
<1>1. PICK e : e = job.episode
  OBVIOUS
<1>2. /\ pc = "launch" /\ pc \in AttendSteps /\ IData /\ ICommand /\ job.episode = e
      /\ e \in Episodes /\ Attempt(e) \in Units
  BY <1>1, Parts, AttendedUnits DEF Launch, Attending, AttendSteps
<1>3. /\ ~run.final /\ launches[e] = 0 /\ claim[e] = "prepared" /\ ~Listed(Attempt(e))
  BY <1>2 DEF ICommand, AttemptOK
<1>4. /\ pc' = "analyzing" /\ launches' = [launches EXCEPT ![e] = @ + 1]
      /\ UNCHANGED <<job, run, episodes, unit, claim, stray, answer, faults, crashes>>
  BY <1>1 DEF Launch, Goto, durable, bounds
<1>5. /\ launches'[e] = 1 /\ \A d \in Episodes : d # e => launches'[d] = launches[d]
      /\ launches' \in [Episodes -> Nat]
  BY <1>2, <1>3, <1>4 DEF IData, StateTyped
<1>6. UnitsTyped' /\ EpisodesTyped' /\ StateTyped' /\ UnitsOK' /\ InventoriesOK'
  BY <1>2, <1>4, <1>5 DEF IData, UnitsTyped, FilesTyped, EpisodesTyped, IsSequence,
     StateTyped, UnitsOK, SealsCanBeFinished, Sound, Sealed, Verified, Listed, InventoriesOK,
     CompletionsAreCitable
<1>7. ClaimsOK'
  <2>1. ClaimsTellVerdicts'
    BY <1>2, <1>4 DEF IData, ClaimsOK, OneVerdict, ClaimsTellVerdicts, Said, Sealed, Verified,
       Listed
  <2>2. AnalyzedOnce' BY <1>2, <1>4, <1>5 DEF IData, ClaimsOK, OneVerdict, AnalyzedOnce
  <2> QED BY <1>2, <1>3, <1>4, <1>5, <2>1, <2>2 DEF IData, ClaimsOK, OneVerdict
<1>8. answer[e] = "none" BY <1>2, <1>3 DEF IData, ClaimsOK
<1> QED BY <1>2, <1>3, <1>4, <1>5, <1>6, <1>7, <1>8, AttemptStep DEF IData

\* A verdict is about to be written.
LEMMA Persists ==
    ASSUME IInv, pc \in {"analyzing", "recover"}, NEW outcome \in Statuses, Persist(outcome),
           IData', outcome \in {answer'[job.episode], "interrupted"}
    PROVE  IInv'
<1>1. PICK u : u = Attempt(job.episode)
  OBVIOUS
<1>2. /\ u = Attempt(job.episode) /\ u \in Units /\ CommandTyped
  BY <1>1, AttendedUnits DEF Attending, AttendSteps, IInv
<1>3. /\ pc' = "write"
      /\ job' = [job EXCEPT !.unit = u, !.outcome = outcome, !.sealed = "confirm"]
      /\ UNCHANGED <<run, episodes, unit, claim, stray, launches, faults, crashes>>
  BY <1>1 DEF Persist, durable, bounds
<1>4. /\ job' \in [episode : 0 .. MaxEpisodes, unit : Units \cup {NoJob.unit},
                   outcome : {"none"} \cup Statuses, sealed : Steps, then : Steps]
      /\ job'.unit = u /\ job'.sealed = "confirm" /\ job'.episode = job.episode
      /\ job'.then = job.then /\ job'.outcome = outcome
  BY <1>2, <1>3 DEF CommandTyped, Steps
<1>5. /\ ~Listed(u) /\ claim[job.episode] = "prepared" /\ ~run.final
  BY <1>2 DEF IInv, AttemptOK
<1>6. CommandTyped' BY <1>2, <1>3, <1>4 DEF CommandTyped, Steps
<1>7. SealOK' BY <1>2, <1>3, <1>4, <1>5 DEF SealOK, Sealing, SealSteps, Listed
<1>8. AttemptOK'
  BY <1>2, <1>3, <1>4, <1>5
     DEF IInv, AttemptOK, Attending, Sealing, SealSteps, AttendSteps
<1>9. OrderlyOK'
  BY <1>2, <1>3, <1>4, <1>5
     DEF IInv, OrderlyOK, Attending, Sealing, SealSteps, AttendSteps, Listed, Sealed, Verified
<1> QED BY <1>6, <1>7, <1>8, <1>9, Parts DEF ICommand

\* The answer is the first of this episode; evidence that a crash left does not contradict it.
LEMMA AnalyzeKeeps == IInv /\ Analyze => IInv'
<1> SUFFICES ASSUME IInv, Analyze PROVE IInv'
  OBVIOUS
<1>1. PICK e : e = job.episode
  OBVIOUS
<1>2. /\ pc = "analyzing" /\ IData /\ ICommand /\ job.episode = e /\ e \in Episodes
      /\ Attempt(e) \in Units
  BY <1>1, Parts, AttendedUnits DEF Analyze, Attending, AttendSteps
<1>3. PICK s \in Statuses : Persist(s) /\ answer' = [answer EXCEPT ![e] = s]
  BY <1>1 DEF Analyze
<1>4. answer[e] = "none" /\ claim[e] = "prepared"
  BY <1>2 DEF ICommand, AttemptOK
<1>5. /\ answer'[e] = s /\ \A d \in Episodes : d # e => answer'[d] = answer[d]
      /\ answer' \in [Episodes -> {"none"} \cup Statuses]
  BY <1>2, <1>3 DEF IData, StateTyped
<1>6. UNCHANGED <<run, episodes, unit, claim, stray, launches>>
  BY <1>3 DEF Persist, durable
<1>7. UnitsTyped' /\ EpisodesTyped' /\ StateTyped' /\ UnitsOK' /\ InventoriesOK'
  BY <1>2, <1>5, <1>6 DEF IData, UnitsTyped, FilesTyped, EpisodesTyped, IsSequence,
     StateTyped, UnitsOK, SealsCanBeFinished, Sound, Sealed, Verified, Listed, InventoriesOK,
     CompletionsAreCitable
<1>8. ClaimsOK'
  <2>1. ClaimsTellVerdicts' /\ AnalyzedOnce'
    BY <1>2, <1>6 DEF IData, ClaimsOK, OneVerdict, ClaimsTellVerdicts, AnalyzedOnce, Said,
       Sealed, Verified, Listed
  <2>2. LET files == unit[Attempt(e)].files
        IN /\ "result" \in DOMAIN files => files["result"] = "interrupted"
           /\ "analysis" \notin DOMAIN files
    <3>1. FilesTyped(Attempt(e)) BY <1>2 DEF IData, UnitsTyped
    <3>2. "result" \in DOMAIN unit[Attempt(e)].files =>
             unit[Attempt(e)].files["result"] \in Statuses
      BY <3>1, UnitsAre DEF FilesTyped
    <3> QED BY <1>2, <1>4, <3>2 DEF IData, ClaimsOK, Statuses
  <2>3. launches[e] # 0
    BY <1>2 DEF ICommand, AttemptOK
  <2> QED BY <1>2, <1>4, <1>5, <1>6, <2>1, <2>2, <2>3 DEF IData, ClaimsOK, OneVerdict
<1> QED BY <1>2, <1>3, <1>5, <1>7, <1>8, Persists DEF IData

\* What a crash left is taken as the answer, or as interrupted.
LEMMA RecoverKeeps == IInv /\ Recover => IInv'
<1> SUFFICES ASSUME IInv, Recover PROVE IInv'
  OBVIOUS
<1>1. PICK e, files : e = job.episode /\ files = unit[Attempt(e)].files
  OBVIOUS
<1>2. /\ pc = "recover" /\ IData /\ ICommand /\ job.episode = e /\ e \in Episodes
      /\ Attempt(e) \in Units /\ unit[Attempt(e)].files = files
  BY <1>1, Parts, AttendedUnits DEF Recover, Attending, AttendSteps
<1>3. CASE Raise BY <1>3, RaiseKeeps
<1>4. CASE Persist(Recovered(files)) /\ UNCHANGED answer
  <2>1. /\ "result" \in DOMAIN files =>
              files["result"] \in Statuses /\ files["result"] \in {answer[e], "interrupted"}
        /\ "analysis" \in DOMAIN files => answer[e] = "passed"
    <3>1. FilesTyped(Attempt(e)) BY <1>2 DEF IData, UnitsTyped
    <3>2. "result" \in DOMAIN files => files["result"] \in Statuses
      BY <1>2, <3>1, UnitsAre DEF FilesTyped
    <3> QED BY <1>2, <3>2 DEF IData, ClaimsOK
  <2>2. PICK outcome : outcome = Recovered(files)
    OBVIOUS
  <2>3. outcome \in Statuses /\ outcome \in {answer[e], "interrupted"}
    BY <2>1, <2>2, RecoveredIs DEF Statuses
  <2>4. IData' BY <1>2, <1>4, DataKept DEF Persist, durable
  <2> QED BY <1>2, <1>4, <2>2, <2>3, <2>4, Persists
<1> QED BY <1>1, <1>3, <1>4 DEF Recover

LEMMA ConfirmKeeps == IInv /\ Confirm => IInv'
<1> SUFFICES ASSUME IInv, Confirm PROVE IInv'
  OBVIOUS
<1>1. /\ pc = "confirm" /\ pc' = "replace"
      /\ UNCHANGED <<job, run, episodes, unit, claim, stray, answer, launches, faults, crashes>>
  BY DEF Confirm, Goto, durable, history, bounds
<1>2. IData' BY <1>1, DataKept, Parts
<1>3. ~run.final /\ Sealed(Attempt(job.episode)) /\ claim[job.episode] = "prepared"
  BY <1>1 DEF IInv, AttemptOK
<1> QED BY <1>1, <1>2, <1>3, AttemptStep DEF AttendSteps

\* The claim takes the verdict from the sealed evidence.
LEMMA ReplaceKeeps == IInv /\ Replace => IInv'
<1> SUFFICES ASSUME IInv, Replace PROVE IInv'
  OBVIOUS
<1>1. PICK e : e = job.episode
  OBVIOUS
<1>2. /\ pc = "replace" /\ pc \in AttendSteps /\ IData /\ ICommand /\ job.episode = e
      /\ e \in Episodes /\ Attempt(e) \in Units
  BY <1>1, Parts, AttendedUnits DEF Replace, Attending, AttendSteps
<1>3. ~run.final /\ Sealed(Attempt(e)) /\ claim[e] = "prepared"
  BY <1>2 DEF ICommand, AttemptOK
<1>4. /\ claim' = [claim EXCEPT ![e] = Said(e)] /\ pc' = job.then
      /\ UNCHANGED <<job, run, episodes, unit, stray, answer, launches, faults, crashes>>
  BY <1>1 DEF Replace, Goto, history, bounds
<1>5. Said(e) \in Statuses
  <2>1. Listed(Attempt(e)) /\ FilesTyped(Attempt(e))
    BY <1>2, <1>3 DEF Sealed, Verified, IData, UnitsTyped
  <2>2. "result" \in DOMAIN unit[Attempt(e)].files BY <1>2, <2>1 DEF IData, UnitsOK
  <2> QED BY <2>1, <2>2, UnitsAre DEF FilesTyped, Said
<1>6. /\ claim'[e] = Said(e) /\ \A d \in Episodes : d # e => claim'[d] = claim[d]
      /\ claim' \in [Episodes -> {"absent", "prepared"} \cup Statuses]
  BY <1>2, <1>4, <1>5 DEF IData, StateTyped
<1>7. UnitsTyped' /\ EpisodesTyped' /\ StateTyped' /\ UnitsOK' /\ InventoriesOK'
  BY <1>2, <1>4, <1>6 DEF IData, UnitsTyped, FilesTyped, EpisodesTyped, IsSequence,
     StateTyped, UnitsOK, SealsCanBeFinished, Sound, Sealed, Verified, Listed, InventoriesOK,
     CompletionsAreCitable
<1>8. ClaimsOK'
  <2>1. ClaimsTellVerdicts'
    BY <1>2, <1>3, <1>4, <1>6
       DEF IData, ClaimsOK, OneVerdict, ClaimsTellVerdicts, Said, Sealed, Verified, Listed
  <2>2. AnalyzedOnce' BY <1>2, <1>4 DEF IData, ClaimsOK, OneVerdict, AnalyzedOnce
  <2>3. claim'[e] # "absent" BY <1>5, <1>6 DEF Statuses
  <2> QED BY <1>2, <1>4, <1>6, <2>1, <2>2, <2>3 DEF IData, ClaimsOK, OneVerdict
<1> QED BY <1>2, <1>3, <1>4, <1>7, <1>8, GoesOn DEF IData

\* The Run is only released behind a verdict.
LEMMA FinalizeKeeps == IInv /\ Finalize => IInv'
<1> SUFFICES ASSUME IInv, Finalize PROVE IInv'
  OBVIOUS
<1>1. PICK e : e = Len(episodes)
  OBVIOUS
<1>2. pc = "finalize" /\ IData /\ ICommand /\ run.state = "completed" /\ e = Len(episodes)
  BY <1>1, Parts DEF Finalize, IInv, AttemptOK
<1>3. CASE Raise BY <1>3, RaiseKeeps
<1>4. CASE /\ Sealed(Attempt(e)) /\ claim[e] = Said(e)
           /\ run' = [run EXCEPT !.final = TRUE] /\ pc' = "idle" /\ job' = NoJob
           /\ UNCHANGED <<episodes, unit, claim, stray, history, bounds>>
  <2>1. UNCHANGED <<episodes, unit, claim, stray, answer, launches, faults, crashes>>
    BY <1>4 DEF history, bounds
  <2>2. run' \in [state : {"working", "attention", "completed"}, final : BOOLEAN]
        /\ run'.state = "completed"
    BY <1>2, <1>4 DEF IData, StateTyped
  <2>3. e \in Episodes /\ Attempt(e) \in Units
    <3>1. e > 0 /\ e \in Nat /\ e <= MaxEpisodes
      BY <1>2, EpisodesAre DEF IData, InventoriesOK, EpisodesTyped
    <3> QED BY <3>1, RetrospectiveConstants, UnitsAre DEF Episodes
  <2>4. Said(e) \in Statuses
    <3>1. Listed(Attempt(e)) /\ FilesTyped(Attempt(e))
      BY <1>2, <1>4, <2>3 DEF Sealed, Verified, IData, UnitsTyped
    <3>2. "result" \in DOMAIN unit[Attempt(e)].files BY <1>2, <2>3, <3>1 DEF IData, UnitsOK
    <3> QED BY <3>1, <3>2, UnitsAre DEF FilesTyped, Said
  <2>5. UnitsTyped' /\ EpisodesTyped' /\ StateTyped' /\ UnitsOK' /\ InventoriesOK'
    <3>1. Len(episodes) > 0 BY <1>2 DEF IData, InventoriesOK
    <3> QED BY <1>2, <2>1, <2>2, <3>1
       DEF IData, UnitsTyped, FilesTyped, EpisodesTyped, IsSequence, StateTyped, UnitsOK,
           SealsCanBeFinished, Sound, Sealed, Verified, Listed, InventoriesOK,
           CompletionsAreCitable
  <2>6. ClaimsOK'
    <3>1. ClaimsTellVerdicts'
      BY <1>2, <1>4, <2>1, <2>2, <2>4 DEF IData, ClaimsOK, OneVerdict, ClaimsTellVerdicts,
         Said, Sealed, Verified, Listed
    <3> QED BY <1>2, <2>1, <3>1 DEF IData, ClaimsOK, OneVerdict, AnalyzedOnce
  <2>7. faults \in 0 .. MaxFaults /\ crashes \in 0 .. MaxCrashes
    BY <1>2 DEF ICommand, CommandTyped
  <2> QED BY <1>4, <2>1, <2>5, <2>6, <2>7, Ended, Parts DEF IData
<1> QED BY <1>1, <1>3, <1>4 DEF Finalize

(* Commands *)

\* What Preflight may lead to.
LEMMA Preflights ==
    Preflight =>
       /\ pc = "preflight"
       /\ UNCHANGED <<run, episodes, unit, claim, stray, answer, launches, faults, crashes>>
       /\ \/ pc' = "alert" /\ UNCHANGED job
          \/ \E u \in Units : Sound(u) /\ ~Sealed(u) /\ Finish(u, "preflight")
          \/ pc' = "idle" /\ job' = NoJob
          \/ /\ \A u \in Units : Listed(u) => Sealed(u)
             /\ \/ run.state = "working" /\ pc' = "stage" /\ job' = NoJob
                \/ run.state = "attention" /\ Attend(Len(episodes), "stage")
                \/ run.state = "completed" /\ Attend(Len(episodes), "finalize")
                \/ run.state \notin {"working", "attention", "completed"}
<1>1. (CASE run.state = "working" -> pc' = "stage" /\ job' = NoJob
         [] run.state = "attention" -> Attend(Len(episodes), "stage")
         [] run.state = "completed" -> Attend(Len(episodes), "finalize"))
      => \/ run.state = "working" /\ pc' = "stage" /\ job' = NoJob
         \/ run.state = "attention" /\ Attend(Len(episodes), "stage")
         \/ run.state = "completed" /\ Attend(Len(episodes), "finalize")
         \/ run.state \notin {"working", "attention", "completed"}
  BY Zenon
<1> QED BY <1>1, Zenon DEF Preflight, durable, history, bounds

\* A preflight only lets a command pass when all seals are finished.
LEMMA PreflightKeeps == IInv /\ Preflight => IInv'
<1> SUFFICES ASSUME IInv, Preflight PROVE IInv'
  OBVIOUS
<1>1. /\ pc = "preflight" /\ IData /\ ICommand
      /\ UNCHANGED <<run, episodes, unit, claim, stray, answer, launches, faults, crashes>>
  BY Parts, Preflights
<1>2. IData' BY <1>1, DataKept
<1>3. /\ faults \in 0 .. MaxFaults /\ crashes \in 0 .. MaxCrashes /\ ~run.final
      /\ CommandTyped
  BY <1>1 DEF ICommand, CommandTyped, AttemptOK
<1>4. CASE pc' = "alert" /\ UNCHANGED job
  <2>1. CommandTyped' BY <1>1, <1>3, <1>4 DEF CommandTyped, Steps
  <2>2. SealOK' BY <1>4 DEF SealOK, Sealing, SealSteps
  <2>3. AttemptOK'
    BY <1>1, <1>3, <1>4 DEF AttemptOK, Attending, Sealing, SealSteps, AttendSteps
  <2>4. OrderlyOK' BY <1>4 DEF OrderlyOK, Attending, Sealing, SealSteps, AttendSteps
  <2> QED BY <1>2, <2>1, <2>2, <2>3, <2>4, Parts DEF ICommand
<1>5. ASSUME NEW u \in Units, Sound(u), ~Sealed(u), Finish(u, "preflight") PROVE IInv'
  <2>1. /\ Listed(u) /\ unit[u].files = unit[u].manifest /\ unit[u].locked
        /\ unit[u].receipt = Nothing
        /\ pc' \in {"shut", "receipt"} /\ (pc' = "receipt" => unit[u].shut)
        /\ job' = [job EXCEPT !.unit = u, !.sealed = "preflight"]
    BY <1>1, <1>5, Finishes DEF IData
  <2>2. /\ job' \in [episode : 0 .. MaxEpisodes, unit : Units \cup {NoJob.unit},
                     outcome : {"none"} \cup Statuses, sealed : Steps, then : Steps]
        /\ job'.unit = u /\ job'.sealed = "preflight"
    <3>1. "preflight" \in Steps BY DEF Steps
    <3> QED BY <1>3, <2>1, <3>1, JobWith
  <2>3. CommandTyped' BY <1>1, <1>3, <2>1, <2>2 DEF CommandTyped, Steps
  <2>4. SealOK' BY <1>1, <2>1, <2>2 DEF SealOK, Sealing, SealSteps, Listed
  <2>5. AttemptOK'
    BY <1>1, <1>3, <2>1, <2>2 DEF AttemptOK, Attending, Sealing, SealSteps, AttendSteps
  <2>6. OrderlyOK' BY <2>1, <2>2 DEF OrderlyOK, Attending, Sealing, SealSteps, AttendSteps
  <2> QED BY <1>2, <2>3, <2>4, <2>5, <2>6, Parts DEF ICommand
<1>6. CASE pc' = "idle" /\ job' = NoJob
  BY <1>1, <1>2, <1>3, <1>6, Ended, Parts
<1>7. CASE /\ \A u \in Units : Listed(u) => Sealed(u)
           /\ \/ run.state = "working" /\ pc' = "stage" /\ job' = NoJob
              \/ run.state = "attention" /\ Attend(Len(episodes), "stage")
              \/ run.state = "completed" /\ Attend(Len(episodes), "finalize")
  <2>1. \A u \in Units : Listed(u)' => Sealed(u)'
    BY <1>1, <1>7 DEF Listed, Sealed, Verified
  <2>2. CASE run.state = "working" /\ pc' = "stage" /\ job' = NoJob
    <3>1. CommandTyped'
      BY <1>1, <1>3, <2>2, RetrospectiveConstants DEF CommandTyped, Steps, NoJob, Attempt
    <3>2. SealOK' BY <2>2 DEF SealOK, Sealing, SealSteps
    <3>3. AttemptOK'
      BY <1>1, <1>3, <2>2 DEF AttemptOK, Attending, Sealing, SealSteps, AttendSteps
    <3>4. OrderlyOK' BY <2>1 DEF OrderlyOK
    <3> QED BY <1>2, <3>1, <3>2, <3>3, <3>4, Parts DEF ICommand
  <2>3. CASE \/ run.state = "attention" /\ Attend(Len(episodes), "stage")
             \/ run.state = "completed" /\ Attend(Len(episodes), "finalize")
    <3>1. Len(episodes) \in DOMAIN episodes /\ Len(episodes) \in 1 .. MaxEpisodes
      BY <1>1, <2>3, EpisodesAre DEF IData, InventoriesOK, Episodes
    <3>2. ICommand' BY <1>1, <1>3, <2>1, <2>3, <3>1, Attends
    <3> QED BY <1>2, <3>2, Parts
  <2> QED BY <1>7, <2>2, <2>3
<1>8. run.state \in {"working", "attention", "completed"}
  BY <1>1 DEF IData, StateTyped
<1> QED BY <1>4, <1>5, <1>6, <1>7, <1>8, Preflights

LEMMA ResumeKeeps == IInv /\ Resume => IInv'
<1> SUFFICES ASSUME IInv, Resume PROVE IInv'
  OBVIOUS
<1>1. /\ pc = "idle" /\ ~run.final /\ pc' = "preflight" /\ IData /\ ICommand
      /\ UNCHANGED <<job, run, episodes, unit, claim, stray, answer, launches, faults, crashes>>
  BY Parts DEF Resume, Goto, durable, history, bounds
<1>2. IData' BY <1>1, DataKept
<1>3. CommandTyped' BY <1>1 DEF ICommand, CommandTyped, Steps
<1>4. SealOK' BY <1>1 DEF SealOK, Sealing, SealSteps
<1>5. AttemptOK' BY <1>1 DEF AttemptOK, Attending, Sealing, SealSteps, AttendSteps
<1>6. OrderlyOK' BY <1>1 DEF OrderlyOK, Attending, Sealing, SealSteps, AttendSteps
<1> QED BY <1>2, <1>3, <1>4, <1>5, <1>6, Parts DEF ICommand

LEMMA CrashKeeps == IInv /\ Crash => IInv'
<1> SUFFICES ASSUME IInv, Crash PROVE IInv'
  OBVIOUS
<1>1. /\ pc' = "idle" /\ job' = NoJob /\ stray' = (stray \/ pc = "replace")
      /\ crashes < MaxCrashes /\ crashes' = crashes + 1 /\ IData /\ ICommand
      /\ UNCHANGED <<run, episodes, unit, claim, answer, launches, faults>>
  BY Parts DEF Crash, history
<1>2. stray' \in BOOLEAN BY <1>1, Zenon DEF IData, StateTyped
<1>3. UnitsTyped' /\ EpisodesTyped' /\ StateTyped' /\ UnitsOK' /\ InventoriesOK' /\ ClaimsOK'
  <2> HIDE DEF StateTyped
  <2>1. StateTyped' BY <1>1, <1>2 DEF IData, StateTyped
  <2>2. UnitsTyped' /\ EpisodesTyped' /\ UnitsOK' /\ InventoriesOK' /\ ClaimsOK'
    BY <1>1 DEF IData, UnitsTyped, FilesTyped, EpisodesTyped, IsSequence, UnitsOK,
       SealsCanBeFinished, Sound, Sealed, Verified, Listed, InventoriesOK,
       CompletionsAreCitable, ClaimsOK, OneVerdict, AnalyzedOnce, ClaimsTellVerdicts, Said
  <2> QED BY <2>1, <2>2
<1>4. faults' \in 0 .. MaxFaults /\ crashes' \in 0 .. MaxCrashes
  BY <1>1, RetrospectiveConstants DEF ICommand, CommandTyped
<1> QED BY <1>1, <1>3, <1>4, Ended, Parts DEF IData

LEMMA StutterKeeps == IInv /\ UNCHANGED vars => IInv'
<1> SUFFICES ASSUME IInv, UNCHANGED vars PROVE IInv'
  OBVIOUS
<1>1. UNCHANGED <<run, episodes, unit, claim, stray, pc, job, answer, launches, faults, crashes>>
  BY DEF vars, durable, history, bounds
<1>2. IData' BY <1>1, DataKept, Parts
<1>3. CommandTyped' BY <1>1 DEF IInv, CommandTyped
<1>4. SealOK' BY <1>1 DEF IInv, SealOK, Sealing, Listed
<1>5. AttemptOK'
  BY <1>1 DEF IInv, AttemptOK, Attending, Sealing, Listed, Sealed, Verified
<1>6. OrderlyOK'
  BY <1>1 DEF IInv, OrderlyOK, Attending, Sealing, Listed, Sealed, Verified
<1> QED BY <1>2, <1>3, <1>4, <1>5, <1>6, Parts DEF ICommand

LEMMA Initially == Init => IInv
<1> SUFFICES ASSUME Init PROVE IInv
  OBVIOUS
<1>1. /\ DOMAIN unit = Units
      /\ \A u \in Units :
            /\ DOMAIN unit[u] = {"files", "locked", "manifest", "shut", "receipt"}
            /\ unit[u].files = <<>> /\ unit[u].locked = FALSE /\ unit[u].manifest = <<>>
            /\ unit[u].shut = FALSE /\ unit[u].receipt = <<>>
  BY DEF Init, Nothing
<1>2. \A u \in Units : DOMAIN unit[u].files = {} /\ ~Listed(u)
  BY <1>1 DEF Listed, Nothing
<1>3. UnitsTyped BY <1>1, <1>2 DEF UnitsTyped, FilesTyped
<1>4. EpisodesTyped /\ DOMAIN episodes = {} /\ Len(episodes) = 0
  <2>1. episodes = <<>> BY DEF Init
  <2>2. episodes \in Seq({}) /\ Len(episodes) = 0 BY <2>1, EmptySeq
  <2>3. IsSequence(episodes) BY <2>2, OwnElements
  <2>4. DOMAIN episodes = {} BY <2>1
  <2> QED BY <2>2, <2>3, <2>4, RetrospectiveConstants DEF EpisodesTyped
<1>5. StateTyped BY DEF Init, StateTyped
<1>6. CommandTyped
  BY RetrospectiveConstants DEF Init, CommandTyped, Steps, NoJob, Attempt
<1>7. UnitsOK BY <1>1, <1>2 DEF UnitsOK, SealsCanBeFinished, Nothing
<1>8. InventoriesOK BY <1>4 DEF Init, InventoriesOK, CompletionsAreCitable
<1>9. ClaimsOK
  <2>1. ClaimsTellVerdicts BY DEF Init, ClaimsTellVerdicts, Statuses
  <2>2. AnalyzedOnce BY DEF Init, AnalyzedOnce
  <2>3. \A e \in Episodes : DOMAIN unit[Attempt(e)].files = {} BY <1>2, UnitsAre
  <2>4. \A e \in Episodes : launches[e] = 0 /\ answer[e] = "none" BY DEF Init
  <2> QED BY <2>1, <2>2, <2>3, <2>4 DEF ClaimsOK, OneVerdict
<1>10. SealOK BY DEF Init, SealOK, Sealing, SealSteps
<1>11. AttemptOK BY DEF Init, AttemptOK, Attending, Sealing, SealSteps, AttendSteps
<1>12. OrderlyOK BY <1>2 DEF OrderlyOK
<1> QED BY <1>3, <1>4, <1>5, <1>6, <1>7, <1>8, <1>9, <1>10, <1>11, <1>12 DEF IInv

\* Every step keeps the invariant.
LEMMA NextKeeps == IInv /\ [Next]_vars => IInv'
BY WriteKeeps, LockKeeps, ListKeeps, ShutKeeps, ReceiptKeeps, StageKeeps, ProgressKeeps,
   AlertKeeps, RecordKeeps, InspectKeeps, SummarizeKeeps, ClaimKeeps, LaunchKeeps,
   AnalyzeKeeps, RecoverKeeps, ConfirmKeeps, ReplaceKeeps, FinalizeKeeps, PreflightKeeps,
   StageFailsKeeps, CrashKeeps, ResumeKeeps, StutterKeeps
   DEF Next, Step

LEMMA Inductive == Spec => []IInv
<1>1. Init => IInv BY Initially
<1>2. IInv /\ [Next]_vars => IInv' BY NextKeeps
<1> QED BY <1>1, <1>2, PTL DEF Spec

-----------------------------------------------------------------------------
(* What follows *)

\* The invariant has TypeOK in it.
LEMMA WellTyped == IInv => TypeOK
<1> SUFFICES ASSUME IInv PROVE TypeOK
  OBVIOUS
<1>1. /\ run \in [state : {"working", "attention", "completed"}, final : BOOLEAN]
      /\ Len(episodes) <= MaxEpisodes
      /\ \A e \in DOMAIN episodes : episodes[e].state \in {"attention", "completed"}
  BY DEF IInv, EpisodesTyped, StateTyped
<1>2. \A u \in Units :
         /\ DOMAIN unit[u].files \subseteq IF u[1] = "attempt" THEN FileNames ELSE {"result"}
         /\ unit[u].locked \in BOOLEAN /\ unit[u].shut \in BOOLEAN
  BY DEF IInv, UnitsTyped, FilesTyped
<1>3. \A u \in Units : "result" \in DOMAIN unit[u].files =>
         CASE u[1] = "work"    -> unit[u].files["result"] = "facts"
           [] u[1] = "summary" -> unit[u].files["result"] = episodes[u[2]].inventory
           [] u[1] = "attempt" -> unit[u].files["result"] \in Statuses
  <2> SUFFICES ASSUME NEW u \in Units, "result" \in DOMAIN unit[u].files
               PROVE  CASE u[1] = "work"    -> unit[u].files["result"] = "facts"
                        [] u[1] = "summary" ->
                              unit[u].files["result"] = episodes[u[2]].inventory
                        [] u[1] = "attempt" -> unit[u].files["result"] \in Statuses
    OBVIOUS
  <2>1. /\ u[1] = "work" => unit[u].files["result"] = "facts"
        /\ u[1] = "summary" => unit[u].files["result"] = episodes[u[2]].inventory
        /\ u[1] = "attempt" => unit[u].files["result"] \in Statuses
    BY DEF IInv, UnitsTyped, FilesTyped
  <2>2. u[1] \in {"work", "summary", "attempt"} BY UnitsAre
  <2>3. CASE u[1] = "work" BY <2>1, <2>3, Zenon
  <2>4. CASE u[1] = "summary" BY <2>1, <2>4, Zenon
  <2>5. CASE u[1] = "attempt" BY <2>1, <2>5, Zenon
  <2> QED BY <2>2, <2>3, <2>4, <2>5, Zenon
<1>4. /\ claim \in [Episodes -> {"absent", "prepared"} \cup Statuses] /\ stray \in BOOLEAN
      /\ answer \in [Episodes -> {"none"} \cup Statuses] /\ launches \in [Episodes -> Nat]
  BY DEF IInv, StateTyped
<1>5. /\ pc \in Steps /\ job.episode \in 0 .. MaxEpisodes
      /\ job.unit \in Units \cup {NoJob.unit} /\ job.outcome \in {"none"} \cup Statuses
      /\ job.sealed \in Steps /\ job.then \in Steps
      /\ faults \in 0 .. MaxFaults /\ crashes \in 0 .. MaxCrashes
  BY DEF IInv, CommandTyped
<1> QED BY <1>1, <1>2, <1>3, <1>4, <1>5, Zenon DEF TypeOK

\* Every reachable state is well typed: what a unit holds is what is written for a unit of
\* its kind, and a summary is that of the inventory that was recorded.
THEOREM TypeCorrect == Spec => []TypeOK
BY Inductive, WellTyped, PTL

\* An analysis is started once for an episode; the claim tells of the verdict that is
\* sealed, and the Run is released only behind it.
THEOREM VerdictSole == Spec => []OneVerdict
<1>1. IInv => OneVerdict BY DEF IInv, ClaimsOK
<1> QED BY <1>1, Inductive, PTL

\* Whatever a crash or a failed stage leaves of a seal can be finished; a receipt tells of
\* nothing that would be refused; what an inventory cites verifies for ever; and the
\* inventory of a completion is never unavailable.
THEOREM SealsAlwaysHold == Spec => []SealsHold
<1>1. IInv => SealsHold
  <2>1. IInv => SealsCanBeFinished /\ CompletionsAreCitable
    BY DEF IInv, UnitsOK, InventoriesOK
  <2>2. IInv => InventoriesHold
    BY DEF IInv, InventoriesOK, InventoriesHold, Citable
  <2> QED BY <2>1, <2>2 DEF SealsHold
<1> QED BY <1>1, Inductive, PTL

\* Units only change by the steps of a seal.
LEMMA UnitsStay ==
    [Next]_vars => \/ UNCHANGED unit
                   \/ Write \/ Lock \/ List \/ Shut \/ Receipt
<1>1. Stage \/ Progress \/ Alert \/ RecordAttention \/ RecordCompletion => UNCHANGED unit
  BY DEF Stage, Progress, Alert, RecordAttention, RecordCompletion, Open, Raise, durable
<1>2. Inspect \/ Summarize \/ Claim \/ Launch => UNCHANGED unit
  BY DEF Inspect, Summarize, Claim, Launch, Raise, durable
<1>3. Analyze \/ Recover \/ Confirm \/ Replace \/ Finalize => UNCHANGED unit
  BY DEF Analyze, Recover, Confirm, Replace, Finalize, Persist, Raise, durable
<1>4. Preflight \/ Resume \/ Crash \/ StageFails => UNCHANGED unit
  BY Preflights DEF Resume, Crash, StageFails, durable
<1>5. UNCHANGED vars => UNCHANGED unit BY DEF vars, durable
<1> QED BY <1>1, <1>2, <1>3, <1>4, <1>5 DEF Next, Step

\* A step of a seal changes one unit: one that is not listed yet, or only in that it is
\* closed or that its receipt is added.
LEMMA SealSteady ==
    ASSUME IInv, Write \/ Lock \/ List \/ Shut \/ Receipt
    PROVE  /\ \A v \in Units : v # job.unit => unit'[v] = unit[v]
           /\ job.unit \in Units /\ unit[job.unit].receipt = Nothing
           /\ Listed(job.unit) => /\ unit'[job.unit].files = unit[job.unit].files
                                  /\ unit'[job.unit].manifest = unit[job.unit].manifest
           /\ ~Receipt => unit'[job.unit].receipt = Nothing
<1>1. PICK u : u = job.unit
  OBVIOUS
<1>2. /\ u = job.unit /\ u \in Units /\ unit[u].receipt = Nothing /\ UnitsTyped
      /\ pc \in SealSteps /\ (pc \in {"write", "lock", "list"} => ~Listed(u))
  BY <1>1, AtHand DEF Write, Lock, List, Shut, Receipt, Seals, SealSteps, IInv
<1>3. CASE Write
  <2>1. \/ \E f, c : unit' = [unit EXCEPT ![u].files = Put(@, f, c)]
        \/ UNCHANGED unit
    BY <1>2, <1>3, Writes
  <2>2. pc = "write" BY <1>3 DEF Write
  <2> QED BY <1>2, <2>1, <2>2 DEF UnitsTyped
<1>4. CASE Lock
  BY <1>2, <1>4 DEF Lock, Seals, UnitsTyped
<1>5. CASE List
  BY <1>2, <1>5 DEF List, Seals, UnitsTyped
<1>6. CASE Shut
  BY <1>2, <1>6 DEF Shut, Seals, UnitsTyped
<1>7. CASE Receipt
  BY <1>2, <1>7 DEF Receipt, Seals, UnitsTyped
<1> QED BY <1>3, <1>4, <1>5, <1>6, <1>7

\* Of a unit that was listed no file and no digest ever changes, and of one with a receipt
\* nothing, in whatever step of whatever command.
THEOREM SealedForever == Spec => SealedNeverChanges
<1> DEFINE Steady ==
      \A u \in Units :
         /\ Listed(u) => unit[u].files = unit'[u].files /\ unit[u].manifest = unit'[u].manifest
         /\ unit[u].receipt # Nothing => unit'[u] = unit[u]
<1>1. IInv /\ [Next]_vars => Steady
  <2> SUFFICES ASSUME IInv, [Next]_vars PROVE Steady
    OBVIOUS
  <2>1. CASE UNCHANGED unit BY <2>1
  <2>2. CASE Write \/ Lock \/ List \/ Shut \/ Receipt BY <2>2, SealSteady
  <2> QED BY <2>1, <2>2, UnitsStay
<1>2. IInv /\ [Next]_vars => [Steady]_vars BY <1>1
<1> QED BY <1>2, Inductive, PTL DEF Spec, SealedNeverChanges

(* The refinement of SoleAnalysis *)

\* What SoleAnalysis calls the request and the verdict of an episode.
Asked(e)   == claim[e] # "absent"
Verdict(e) == IF unit[Attempt(e)].receipt # Nothing THEN Said(e) ELSE "none"

\* Where neither request nor verdict changes, SoleAnalysis stutters.
LEMMA SoleStutter ==
    ASSUME \A e \in Episodes : Asked(e)' = Asked(e) /\ Verdict(e)' = Verdict(e),
           UNCHANGED answer
    PROVE  UNCHANGED Sole!vars
<1>1. [e \in Episodes |-> claim[e] # "absent"]' = [e \in Episodes |-> claim[e] # "absent"]
  BY Zenon DEF Asked
<1>2. [e \in Episodes |-> IF unit[Attempt(e)].receipt # Nothing THEN Said(e) ELSE "none"]'
      = [e \in Episodes |-> IF unit[Attempt(e)].receipt # Nothing THEN Said(e) ELSE "none"]
  BY Zenon DEF Verdict
<1> QED BY <1>1, <1>2, Zenon DEF Sole!vars

\* A function that differs from another at one place.
LEMMA Updated ==
    ASSUME NEW S, NEW f, NEW g, NEW d \in S, NEW v,
           f = [x \in S |-> f[x]], g = [x \in S |-> g[x]],
           g[d] = v, \A x \in S : x # d => g[x] = f[x]
    PROVE  g = [f EXCEPT ![d] = v]
OBVIOUS

\* Claim asks, Analyze answers, the receipt of the attempt decides; the rest is stuttering.
LEMMA SoleStep ==
    ASSUME IInv, IInv', [Next]_vars
    PROVE  [Sole!Next]_(Sole!vars)
<1> DEFINE asked    == [e \in Episodes |-> claim[e] # "absent"]
           verdict  == [e \in Episodes |->
                           IF unit[Attempt(e)].receipt # Nothing THEN Said(e) ELSE "none"]
<1>1. \/ UNCHANGED <<unit, claim, answer>>
      \/ (Write \/ Lock \/ List \/ Shut) /\ UNCHANGED <<claim, answer>>
      \/ Receipt /\ UNCHANGED <<claim, answer>>
      \/ Claim /\ UNCHANGED <<unit, answer>>
      \/ Analyze /\ UNCHANGED <<unit, claim>>
      \/ Replace /\ UNCHANGED <<unit, answer>>
  <2>1. Stage \/ Progress \/ Alert \/ RecordAttention \/ RecordCompletion =>
           UNCHANGED <<unit, claim, answer>>
    BY DEF Stage, Progress, Alert, RecordAttention, RecordCompletion, Open, Raise, durable,
           history
  <2>2. /\ Inspect \/ Summarize \/ Launch => UNCHANGED <<unit, claim, answer>>
        /\ Claim => UNCHANGED <<unit, answer>>
    BY DEF Inspect, Summarize, Claim, Launch, Raise, durable, history
  <2>3. /\ Recover \/ Confirm \/ Finalize => UNCHANGED <<unit, claim, answer>>
        /\ Analyze => UNCHANGED <<unit, claim>>
        /\ Replace => UNCHANGED <<unit, answer>>
    BY DEF Analyze, Recover, Confirm, Replace, Finalize, Persist, Raise, durable, history
  <2>4. Preflight \/ Resume \/ Crash \/ StageFails => UNCHANGED <<unit, claim, answer>>
    BY Preflights DEF Resume, Crash, StageFails, durable, history
  <2>5. UNCHANGED vars => UNCHANGED <<unit, claim, answer>> BY DEF vars, durable, history
  <2>6. Write \/ Lock \/ List \/ Shut \/ Receipt => UNCHANGED <<claim, answer>>
    BY DEF Write, Lock, List, Shut, Receipt, Seals, Raise, durable, history
  <2> QED BY <2>1, <2>2, <2>3, <2>4, <2>5, <2>6 DEF Next, Step
<1>2. CASE UNCHANGED <<unit, claim, answer>>
  <2>1. \A e \in Episodes : Asked(e)' = Asked(e) /\ Verdict(e)' = Verdict(e)
    BY <1>2 DEF Asked, Verdict, Said
  <2> QED BY <1>2, <2>1, SoleStutter
<1>3. CASE (Write \/ Lock \/ List \/ Shut) /\ UNCHANGED <<claim, answer>>
  <2>1. ~Receipt
    BY <1>3 DEF Write, Lock, List, Shut, Receipt, Seals
  <2>2. /\ \A v \in Units : v # job.unit => unit'[v] = unit[v]
        /\ unit[job.unit].receipt = Nothing /\ unit'[job.unit].receipt = Nothing
    BY <1>3, <2>1, SealSteady
  <2>3. \A e \in Episodes : Asked(e)' = Asked(e) /\ Verdict(e)' = Verdict(e)
    BY <1>3, <2>2, UnitsAre DEF Asked, Verdict, Said
  <2> QED BY <1>3, <2>3, SoleStutter
<1>4. CASE Receipt /\ UNCHANGED <<claim, answer>>
  <2>1. /\ \A v \in Units : v # job.unit => unit'[v] = unit[v]
        /\ job.unit \in Units /\ unit[job.unit].receipt = Nothing
        /\ Listed(job.unit) => unit'[job.unit].files = unit[job.unit].files
    BY <1>4, SealSteady
  <2>2. Listed(job.unit) /\ pc = "receipt"
    BY <1>4, AtHand DEF Receipt, Seals, SealSteps
  <2>3. CASE \E e \in Episodes : job.unit = Attempt(e)
    <3>1. PICK e \in Episodes : job.unit = Attempt(e) BY <2>3
    <3>2. /\ unit[Attempt(e)].receipt = Nothing /\ Listed(Attempt(e))
          /\ unit'[Attempt(e)].receipt # Nothing
          /\ unit'[Attempt(e)].files = unit[Attempt(e)].files
      <4>1. unit' = [unit EXCEPT ![job.unit] =
                        [unit[job.unit] EXCEPT !.receipt = unit[job.unit].manifest]]
        BY <1>4 DEF Receipt, Seals
      <4>2. unit'[job.unit].receipt = unit[job.unit].manifest
        BY <2>1, <4>1 DEF IInv, UnitsTyped
      <4> QED BY <2>1, <2>2, <3>1, <4>2 DEF Listed
    <3>3. /\ "result" \in DOMAIN unit[Attempt(e)].files /\ Said(e) \in Statuses
          /\ Said(e) \in {answer[e], "interrupted"} /\ claim[e] # "absent"
      <4>1. "result" \in DOMAIN unit[Attempt(e)].files
        BY <2>1, <3>1, <3>2 DEF IInv, UnitsOK
      <4>2. FilesTyped(Attempt(e)) BY <2>1, <3>1 DEF IInv, UnitsTyped
      <4>3. Said(e) \in Statuses BY <4>1, <4>2, UnitsAre DEF FilesTyped, Said
      <4> QED BY <4>1, <4>3 DEF IInv, ClaimsOK, Said
    <3>4. /\ verdict[e] = "none" /\ verdict'[e] = Said(e)
          /\ \A d \in Episodes : d # e => verdict'[d] = verdict[d]
      BY <2>1, <3>1, <3>2, UnitsAre DEF Said
    <3>5. verdict' = [verdict EXCEPT ![e] = Said(e)] BY <3>4, Updated
    <3>6. /\ claim[e] # "absent" /\ verdict[e] = "none"
          /\ Said(e) \in {answer[e], "interrupted"} \ {"none"}
      BY <3>3, <3>4 DEF Statuses
    <3>7. asked' = asked BY <1>4
    <3>8. Sole!Decide(e) BY <1>4, <3>5, <3>6, <3>7 DEF Sole!Decide
    <3> QED BY <3>8 DEF Sole!Next
  <2>4. CASE ~\E e \in Episodes : job.unit = Attempt(e)
    <3>1. \A e \in Episodes : Asked(e)' = Asked(e) /\ Verdict(e)' = Verdict(e)
      BY <1>4, <2>1, <2>4, UnitsAre DEF Asked, Verdict, Said
    <3> QED BY <1>4, <3>1, SoleStutter
  <2> QED BY <2>3, <2>4
<1>5. CASE Claim /\ UNCHANGED <<unit, answer>>
  <2>1. PICK e : e = job.episode OBVIOUS
  <2>2. e \in Episodes /\ claim \in [Episodes -> {"absent", "prepared"} \cup Statuses]
    BY <1>5, <2>1, AttendedUnits DEF Claim, Attending, AttendSteps, IInv, StateTyped
  <2>3. UNCHANGED claim \/ (claim[e] = "absent" /\ claim' = [claim EXCEPT ![e] = "prepared"])
    BY <1>5, <2>1 DEF Claim, Raise, durable
  <2>4. CASE UNCHANGED claim
    <3>1. \A e_1 \in Episodes : Asked(e_1)' = Asked(e_1) /\ Verdict(e_1)' = Verdict(e_1)
      BY <1>5, <2>4 DEF Asked, Verdict, Said
    <3> QED BY <1>5, <3>1, SoleStutter
  <2>5. CASE claim[e] = "absent" /\ claim' = [claim EXCEPT ![e] = "prepared"]
    <3>1. /\ asked[e] = FALSE /\ asked'[e] = TRUE
          /\ \A d \in Episodes : d # e => asked'[d] = asked[d]
      BY <2>2, <2>5
    <3>2. asked' = [asked EXCEPT ![e] = TRUE] BY <2>2, <3>1, Updated
    <3>3. verdict' = verdict BY <1>5 DEF Said
    <3>4. Sole!Ask(e) BY <1>5, <2>2, <3>1, <3>2, <3>3 DEF Sole!Ask
    <3> QED BY <2>2, <3>4 DEF Sole!Next
  <2> QED BY <2>3, <2>4, <2>5
<1>6. CASE Analyze /\ UNCHANGED <<unit, claim>>
  <2>1. PICK e : e = job.episode OBVIOUS
  <2>2. /\ e \in Episodes /\ Attempt(e) \in Units /\ pc = "analyzing"
        /\ answer[e] = "none" /\ claim[e] = "prepared" /\ ~Listed(Attempt(e))
    BY <1>6, <2>1, AttendedUnits DEF Analyze, Attending, AttendSteps, IInv, AttemptOK
  <2>3. PICK s \in Statuses : answer' = [answer EXCEPT ![e] = s]
    BY <1>6, <2>1 DEF Analyze
  <2>4. unit[Attempt(e)].receipt = Nothing
    BY <2>2 DEF IInv, UnitsOK, SealsCanBeFinished, Sealed, Verified
  <2>5. asked[e] /\ verdict[e] = "none" BY <2>2, <2>4
  <2>6. asked' = asked /\ verdict' = verdict BY <1>6 DEF Said
  <2>7. Sole!Answer(e) BY <2>2, <2>3, <2>5, <2>6 DEF Sole!Answer
  <2> QED BY <2>2, <2>7 DEF Sole!Next
<1>7. CASE Replace /\ UNCHANGED <<unit, answer>>
  <2>1. PICK e : e = job.episode OBVIOUS
  <2>2. /\ e \in Episodes /\ claim[e] = "prepared" /\ pc = "replace"
        /\ Sealed(Attempt(e)) /\ Attempt(e) \in Units
        /\ claim \in [Episodes -> {"absent", "prepared"} \cup Statuses]
    BY <1>7, <2>1, AttendedUnits
       DEF Replace, Attending, AttendSteps, IInv, AttemptOK, StateTyped
  <2>3. Said(e) \in Statuses
    <3>1. Listed(Attempt(e)) /\ FilesTyped(Attempt(e))
      BY <2>2 DEF Sealed, Verified, IInv, UnitsTyped
    <3>2. "result" \in DOMAIN unit[Attempt(e)].files BY <2>2, <3>1 DEF IInv, UnitsOK
    <3> QED BY <3>1, <3>2, UnitsAre DEF FilesTyped, Said
  <2>4. claim' = [claim EXCEPT ![e] = Said(e)] BY <1>7, <2>1 DEF Replace
  <2>5. \A d \in Episodes : Asked(d)' = Asked(d) /\ Verdict(d)' = Verdict(d)
    <3>1. claim'[e] = Said(e) /\ \A d \in Episodes : d # e => claim'[d] = claim[d]
      BY <2>2, <2>4
    <3>2. \A d \in Episodes : Verdict(d)' = Verdict(d) BY <1>7 DEF Verdict, Said
    <3>3. \A d \in Episodes : Asked(d)' = Asked(d)
      BY <2>2, <2>3, <3>1 DEF Asked, Statuses
    <3> QED BY <3>2, <3>3
  <2> QED BY <1>7, <2>5, SoleStutter
<1> QED BY <1>1, <1>2, <1>3, <1>4, <1>5, <1>6, <1>7

\* Retrospective implements SoleAnalysis: the claim is the request, the answer of the
\* analysis is given once and before the verdict, and the verdict is the receipt's: the
\* answer, or "interrupted" where a crash may have lost it.
THEOREM Refinement == Spec => ImplementsSoleAnalysis
<1>1. Init => Sole!Init
  <2> SUFFICES ASSUME Init PROVE Sole!Init
    OBVIOUS
  <2>1. \A e \in Episodes : claim[e] = "absent" /\ unit[Attempt(e)].receipt = Nothing
    BY UnitsAre DEF Init
  <2> QED BY <2>1 DEF Init, Sole!Init
<1>2. IInv /\ IInv' /\ [Next]_vars => [Sole!Next]_(Sole!vars)
  BY SoleStep
<1> QED BY <1>1, <1>2, Inductive, PTL DEF Spec, ImplementsSoleAnalysis, Sole!Spec
=============================================================================
