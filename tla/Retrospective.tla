---------------------------- MODULE Retrospective ----------------------------
(***************************************************************************)
(* Evidence and the retrospective (run_store.py, run_summary.py,           *)
(* retrospective_attempt.py).                                              *)
(*                                                                         *)
(* A unit of evidence is a directory.  Its files are written one by one,   *)
(* made read-only, listed in a manifest; then the directory is closed and  *)
(* a receipt for the manifest is published.  A command may die between any *)
(* two of these, and the next one finishes the seal or starts over.        *)
(*                                                                         *)
(* Each attention and the completion of a Run is an episode: it records an *)
(* inventory of the sealed evidence, a summary is sealed from that, and    *)
(* one analysis of the summary is run behind a claim, sealed as evidence,  *)
(* and confirmed.  The Run goes on, or ends, only behind that.             *)
(*                                                                         *)
(* One command runs at a time (the lock of RunStore).                      *)
(***************************************************************************)
EXTENDS Naturals, Sequences, FiniteSets

CONSTANTS
    MaxEpisodes, \* bound: episodes per behaviour
    MaxWork,     \* bound: units of evidence of the stages
    MaxFaults,   \* bound: failed calls of the file system
    MaxCrashes   \* bound: crashes

ASSUME RetrospectiveConstants ==
    MaxEpisodes \in Nat /\ MaxWork \in Nat /\ MaxFaults \in Nat /\ MaxCrashes \in Nat

Episodes == 1 .. MaxEpisodes

\* How an analysis may end.  An analysis without findings counts as passed.
Statuses == {"passed", "unavailable", "interrupted", "invalid"}

WorkUnits  == {"work"} \X (1 .. MaxWork)
Summary(e) == <<"summary", e>>
Attempt(e) == <<"attempt", e>>
Units      == WorkUnits \cup ({"summary", "attempt"} \X Episodes)

\* The files of a unit are a function from names to contents; a manifest and the receipt for
\* it stand for the digests they hold, that is, for the same function.
Nothing     == <<>>
Unavailable == [known |-> FALSE, cites |-> {}]
FileNames   == {"input", "logs", "analysis", "result", "outcome"}

NoJob == [episode |-> 0, unit |-> Attempt(0), outcome |-> "none",
          sealed |-> "idle", then |-> "idle"]

VARIABLES
    run,      \* projected state; whether completion-finalization.json was written
    episodes, \* the recorded episodes with their inventories
    unit,     \* the evidence directories
    claim,    \* the claim Effect of each episode; a confirmed one tells a status
    stray,    \* whether a temporary file was left in the Effect directory
    pc, job,  \* the command: its step; what it is at, and where it goes from there
    answer, launches, \* history: what the analysis answered, how often it was started
    faults, crashes

durable == <<run, episodes, unit, claim, stray>>
history == <<answer, launches>>
bounds  == <<faults, crashes>>
vars    == <<durable, pc, job, history, bounds>>

Init ==
    /\ run = [state |-> "working", final |-> FALSE] /\ episodes = <<>>
    /\ unit = [u \in Units |-> [files |-> Nothing, locked |-> FALSE, manifest |-> Nothing,
                                shut |-> FALSE, receipt |-> Nothing]]
    /\ claim = [e \in Episodes |-> "absent"] /\ stray = FALSE
    /\ pc = "stage" /\ job = NoJob
    /\ answer = [e \in Episodes |-> "none"] /\ launches = [e \in Episodes |-> 0]
    /\ faults = 0 /\ crashes = 0

Goto(next)  == pc' = next /\ UNCHANGED <<job, bounds>>
Raise       == pc' = "idle" /\ job' = NoJob /\ UNCHANGED <<durable, history, bounds>>
Recorded(e) == e <= Len(episodes)

-----------------------------------------------------------------------------
(* Units of evidence *)

Listed(u) == unit[u].manifest # Nothing

\* _verify_evidence_directory: it is as listed, and nothing of it is writable.
Verified(u) ==
    Listed(u) /\ unit[u].files = unit[u].manifest /\ unit[u].locked /\ unit[u].shut

Sealed(u) == Verified(u) /\ unit[u].receipt = unit[u].manifest

\* _verify_or_finish_seal_at: sealed, or all that is missing is the closed directory and the
\* receipt, or the receipt.
Sound(u) ==
    \/ Sealed(u)
    \/ Listed(u) /\ unit[u].files = unit[u].manifest /\ unit[u].locked /\ unit[u].receipt = Nothing

\* The rest of a seal that was cut off, or nothing.
Finish(u, next) ==
    /\ pc' = IF Sealed(u) THEN next ELSE IF unit[u].shut THEN "receipt" ELSE "shut"
    /\ job' = [job EXCEPT !.unit = u, !.sealed = next]

\* Wrong: the result of an analysis is written before the analysis.
ContentsResultFirst(u) ==
    CASE u[1] = "work"    -> <<<<"result", "facts">>>>
      [] u[1] = "summary" -> <<<<"result", episodes[u[2]].inventory>>>>
      [] u[1] = "attempt" ->
            <<<<"input", "text">>, <<"logs", "text">>, <<"result", job.outcome>>>>
            \o (IF job.outcome = "passed" THEN <<<<"analysis", "text">>>> ELSE <<>>)
            \o <<<<"outcome", job.outcome>>>>

\* What goes into a unit, in the order in which it is written.  Command record, stdout and
\* stderr of an analysis are one file.
Contents(u) ==
    CASE u[1] = "work"    -> <<<<"result", "facts">>>>
      [] u[1] = "summary" -> <<<<"result", episodes[u[2]].inventory>>>>
      [] u[1] = "attempt" ->
            <<<<"input", "text">>, <<"logs", "text">>>>
            \o (IF job.outcome = "passed" THEN <<<<"analysis", "text">>>> ELSE <<>>)
            \o <<<<"result", job.outcome>>, <<"outcome", job.outcome>>>>

\* reconcile_evidence_result: finish or write the unit; what it says must be as expected.
Reconcile(u, next) ==
    LET expected == Contents(u)[1][2]
        agrees == "result" \in DOMAIN unit[u].files => unit[u].files["result"] = expected
    IN \/ Listed(u) /\ Sound(u) /\ agrees /\ Finish(u, next)
       \/ ~Listed(u) /\ agrees /\ pc' = "write" /\ job' = [job EXCEPT !.unit = u, !.sealed = next]
       \/ ((Listed(u) /\ ~Sound(u)) \/ ~agrees) /\ pc' = "idle" /\ job' = NoJob

Missing(plan, files) == {i \in DOMAIN plan : plan[i][1] \notin DOMAIN files}
Agrees(plan, files)  ==
    \A i \in DOMAIN plan \ Missing(plan, files) : files[plan[i][1]] = plan[i][2]

\* The files with one more.
Put(files, name, content) ==
    [f \in DOMAIN files \cup {name} |-> IF f = name THEN content ELSE files[f]]

\* The next file that is missing is linked into place; one that exists must agree.
Write ==
    LET u == job.unit
        plan == Contents(u)
        missing == Missing(plan, unit[u].files)
    IN /\ pc = "write"
       /\ \/ /\ Agrees(plan, unit[u].files) /\ missing # {}
             /\ LET i == CHOOSE i \in missing : \A j \in missing : i <= j
                IN unit' = [unit EXCEPT ![u].files = Put(@, plan[i][1], plan[i][2])]
             /\ UNCHANGED <<pc, job, run, episodes, claim, stray, history, bounds>>
          \/ /\ Agrees(plan, unit[u].files) /\ missing = {} /\ Goto("lock")
             /\ UNCHANGED <<durable, history>>
          \/ ~Agrees(plan, unit[u].files) /\ Raise

\* A step of the seal of the unit at hand.
Seals(step, unitAfter, next) ==
    /\ pc = step /\ unit' = [unit EXCEPT ![job.unit] = unitAfter]
    /\ Goto(next) /\ UNCHANGED <<run, episodes, claim, stray, history>>

Lock    == LET d == unit[job.unit] IN Seals("lock", [d EXCEPT !.locked = TRUE], "list")

\* Wrong: the directory is not closed.
ListOnly == LET d == unit[job.unit] IN Seals("list", [d EXCEPT !.manifest = d.files], "receipt")

List    == LET d == unit[job.unit] IN Seals("list", [d EXCEPT !.manifest = d.files], "shut")
Shut    == LET d == unit[job.unit] IN Seals("shut", [d EXCEPT !.shut = TRUE], "receipt")
Receipt == LET d == unit[job.unit]
           IN Seals("receipt", [d EXCEPT !.receipt = d.manifest], job.sealed)

-----------------------------------------------------------------------------
(* The stages of the Run, and how they stop *)

\* A stage seals evidence and records progress, or stops, or is the last one.
Stage ==
    /\ pc = "stage"
    /\ \/ \E u \in WorkUnits : ~Sealed(u) /\ Reconcile(u, "progress")
       \/ Len(episodes) < MaxEpisodes /\ pc' = "alert" /\ UNCHANGED job
       \/ (\A u \in WorkUnits : Sealed(u)) /\ Len(episodes) < MaxEpisodes
          /\ pc' = "complete" /\ UNCHANGED job
       \/ pc' = "idle" /\ job' = NoJob
    /\ UNCHANGED <<durable, history, bounds>>

Progress ==
    /\ pc = "progress" /\ run' = [run EXCEPT !.state = "working"]
    /\ Goto("stage") /\ UNCHANGED <<episodes, unit, claim, stray, history>>

\* The file system fails a stage; the handler of the stage catches that and stops.
StageFails ==
    /\ pc \in {"write", "lock", "list", "shut", "receipt"} /\ job.unit \in WorkUnits
    /\ job.sealed = "progress" /\ faults < MaxFaults /\ Len(episodes) < MaxEpisodes
    /\ faults' = faults + 1 /\ pc' = "alert"
    /\ UNCHANGED <<job, crashes, durable, history>>

\* The attempt of episode e, and then on.
Attend(e, next) == pc' = "inspect" /\ job' = [NoJob EXCEPT !.episode = e, !.then = next]

\* _attention: the retrospective of the attention before comes first.
Alert ==
    /\ pc = "alert"
    /\ IF run.state = "attention" THEN Attend(Len(episodes), "record")
                                  ELSE pc' = "record" /\ job' = NoJob
    /\ UNCHANGED <<durable, history, bounds>>

\* _read_evidence_inventory: all units that have a manifest, strictly verified.
Captured ==
    LET listed == {u \in Units : Listed(u)}
    IN IF \A u \in listed : Verified(u)
       THEN [known |-> TRUE, cites |-> {<<u, unit[u].manifest>> : u \in listed}]
       ELSE Unavailable

\* append_event for an episode; _read_effect_inventory raises for a file that is no Effect.
Open(state, next) ==
    /\ ~stray /\ Len(episodes) < MaxEpisodes
    /\ episodes' = Append(episodes, [state |-> state, inventory |-> Captured])
    /\ run' = [run EXCEPT !.state = state]
    /\ Attend(Len(episodes) + 1, next)
    /\ UNCHANGED <<unit, claim, stray, history, bounds>>

\* record_attention_episode: the attention that is projected may be the same one.
RecordAttention ==
    /\ pc = "record"
    /\ \/ Open("attention", "idle")
       \/ run.state = "attention" /\ Raise
       \/ stray /\ Raise

RecordCompletion ==
    /\ pc = "complete"
    /\ \/ Open("completed", "finalize")
       \/ stray /\ Raise

-----------------------------------------------------------------------------
(* The attempt of an episode *)

Said(e) == unit[Attempt(e)].files["result"]

\* sealed_evidence_result
Inspect ==
    LET u == Attempt(job.episode)
    IN /\ pc = "inspect"
       /\ \/ ~Listed(u) /\ Goto("summarize") /\ UNCHANGED <<durable, history>>
          \/ Sound(u) /\ Finish(u, "summarize") /\ UNCHANGED <<durable, history, bounds>>
          \/ Listed(u) /\ ~Sound(u) /\ Raise

\* _read_retrospective_inventory
Citable(e) ==
    /\ episodes[e].inventory.known
    /\ \A cited \in episodes[e].inventory.cites :
          Verified(cited[1]) /\ unit[cited[1]].manifest = cited[2]

\* build_run_summary; sealed evidence needs its claim.
Summarize ==
    LET e == job.episode
        proceeds == Citable(e) /\ (Listed(Attempt(e)) => claim[e] # "absent")
    IN /\ pc = "summarize"
       /\ \/ proceeds /\ Reconcile(Summary(e), "claim") /\ UNCHANGED <<durable, history, bounds>>
          \/ ~proceeds /\ Raise

\* _validate_sealed_attempt
Whole(files) ==
    /\ DOMAIN files = FileNames \ (IF files["result"] = "passed" THEN {} ELSE {"analysis"})
    /\ files["outcome"] = files["result"]

\* What the claim says decides: nothing yet, perhaps an analysis, or a confirmed verdict.
Claim ==
    LET e == job.episode
        listed == Listed(Attempt(e))
        sealed == listed /\ Whole(unit[Attempt(e)].files)
    IN /\ pc = "claim"
       /\ \/ /\ ~listed /\ claim[e] = "absent" /\ claim' = [claim EXCEPT ![e] = "prepared"]
             /\ Goto("launch") /\ UNCHANGED <<run, episodes, unit, stray, history>>
          \/ /\ ~listed /\ claim[e] = "prepared" /\ Goto("recover")
             /\ UNCHANGED <<durable, history>>
          \/ /\ sealed /\ claim[e] = "prepared" /\ Goto("confirm")
             /\ UNCHANGED <<durable, history>>
          \/ /\ sealed /\ claim[e] = Said(e) /\ Goto(job.then)
             /\ UNCHANGED <<durable, history>>
          \/ listed /\ ~(sealed /\ claim[e] \in {"prepared", Said(e)}) /\ Raise
          \/ ~listed /\ claim[e] \in Statuses /\ Raise

Launch ==
    /\ pc = "launch" /\ launches' = [launches EXCEPT ![job.episode] = @ + 1]
    /\ Goto("analyzing") /\ UNCHANGED <<durable, answer>>

\* The verdict at hand goes to disk.
Persist(outcome) ==
    /\ pc' = "write"
    /\ job' = [job EXCEPT !.unit = Attempt(job.episode), !.outcome = outcome, !.sealed = "confirm"]
    /\ UNCHANGED <<durable, launches, bounds>>

Analyze ==
    /\ pc = "analyzing"
    /\ \E s \in Statuses : Persist(s) /\ answer' = [answer EXCEPT ![job.episode] = s]

\* Which files may be there without which others.
InOrder(files) ==
    /\ "outcome" \in DOMAIN files => "result" \in DOMAIN files
    /\ {"result", "analysis"} \cap DOMAIN files # {} => {"input", "logs"} \subseteq DOMAIN files

\* Wrong: that nothing was written is taken for a failure to start.
RecoveredUnavailable(files) ==
    CASE "result" \in DOMAIN files -> files["result"]
      [] "result" \notin DOMAIN files /\ "analysis" \in DOMAIN files -> "passed"
      [] OTHER -> "unavailable"

\* Nothing was written: the analysis may have run, and is not run again.
Recovered(files) ==
    CASE "result" \in DOMAIN files -> files["result"]
      [] "result" \notin DOMAIN files /\ "analysis" \in DOMAIN files -> "passed"
      [] OTHER -> "interrupted"

Consistent(files) ==
    /\ InOrder(files) /\ (Recovered(files) = "passed" <=> "analysis" \in DOMAIN files)
    /\ "outcome" \in DOMAIN files => files["outcome"] = Recovered(files)

\* Wrong: an analysis that left nothing is run again.
RecoverRelaunches ==
    LET files == unit[Attempt(job.episode)].files
    IN /\ pc = "recover"
       /\ IF files = Nothing THEN Goto("launch") /\ UNCHANGED <<durable, history>>
          ELSE Persist(Recovered(files)) /\ UNCHANGED answer

\* _recover_prepared_attempt
Recover ==
    LET files == unit[Attempt(job.episode)].files
    IN /\ pc = "recover"
       /\ \/ Consistent(files) /\ Persist(Recovered(files)) /\ UNCHANGED answer
          \/ ~Consistent(files) /\ Raise

\* confirm_effect writes a temporary file into the Effect directory and replaces the Effect.
Confirm ==
    /\ pc = "confirm" /\ Goto("replace") /\ UNCHANGED <<durable, history>>

\* Wrong: the claim is given the verdict in memory, not the sealed one.
ReplaceInMemory ==
    /\ pc = "replace" /\ claim' = [claim EXCEPT ![job.episode] = job.outcome]
    /\ Goto(job.then) /\ UNCHANGED <<run, episodes, unit, stray, history>>

Replace ==
    /\ pc = "replace" /\ claim' = [claim EXCEPT ![job.episode] = Said(job.episode)]
    /\ Goto(job.then) /\ UNCHANGED <<run, episodes, unit, stray, history>>

\* record_completion_finalization, and the release of the Run.
Finalize ==
    LET e == Len(episodes)
    IN /\ pc = "finalize"
       /\ \/ /\ Sealed(Attempt(e)) /\ claim[e] = Said(e)
             /\ run' = [run EXCEPT !.final = TRUE] /\ pc' = "idle" /\ job' = NoJob
             /\ UNCHANGED <<episodes, unit, claim, stray, history, bounds>>
          \/ ~(Sealed(Attempt(e)) /\ claim[e] = Said(e)) /\ Raise

-----------------------------------------------------------------------------
(* Commands *)

\* Every afk resume, as long as the Run is owned.
Resume ==
    /\ pc = "idle" /\ ~run.final /\ Goto("preflight") /\ UNCHANGED <<durable, history>>

\* Wrong: a seal that was cut off is discarded.
PreflightDiscards ==
    /\ pc = "preflight"
    /\ \/ /\ \E u \in Units :
                /\ Sound(u) /\ ~Sealed(u)
                /\ unit' = [unit EXCEPT ![u] = [@ EXCEPT !.files = Nothing, !.manifest = Nothing]]
          /\ UNCHANGED <<run, episodes, claim, stray, pc, job>>
       \/ /\ \A u \in Units : Listed(u) => Sealed(u)
          /\ CASE run.state = "working" -> pc' = "stage" /\ job' = NoJob
               [] run.state = "attention" -> Attend(Len(episodes), "stage")
               [] run.state = "completed" -> Attend(Len(episodes), "finalize")
          /\ UNCHANGED durable
    /\ UNCHANGED <<history, bounds>>

\* _validate_resume_projection: Effects first, then each seal that was cut off is finished.
Preflight ==
    /\ pc = "preflight"
    /\ \/ stray /\ pc' = "alert" /\ UNCHANGED job
       \/ ~stray /\ \E u \in Units : Sound(u) /\ ~Sealed(u) /\ Finish(u, "preflight")
       \/ ~stray /\ (\E u \in Units : Listed(u) /\ ~Sound(u)) /\ pc' = "idle" /\ job' = NoJob
       \/ /\ ~stray /\ \A u \in Units : Listed(u) => Sealed(u)
          /\ CASE run.state = "working" -> pc' = "stage" /\ job' = NoJob
               [] run.state = "attention" -> Attend(Len(episodes), "stage")
               [] run.state = "completed" -> Attend(Len(episodes), "finalize")
    /\ UNCHANGED <<durable, history, bounds>>

\* The command is killed, and the analysis with it.
Crash ==
    /\ pc # "idle" /\ crashes < MaxCrashes /\ crashes' = crashes + 1
    /\ stray' = (stray \/ pc = "replace") /\ pc' = "idle" /\ job' = NoJob
    /\ UNCHANGED <<run, episodes, unit, claim, history, faults>>

Step ==
    \/ Write \/ Lock \/ List \/ Shut \/ Receipt
    \/ Stage \/ Progress \/ Alert \/ RecordAttention \/ RecordCompletion
    \/ Inspect \/ Summarize \/ Claim \/ Launch \/ Analyze \/ Recover \/ Confirm \/ Replace
    \/ Finalize \/ Preflight

Next == Step \/ StageFails \/ Crash \/ Resume

\* A running command goes on; the operator resumes as long as the Run is owned.
Spec == Init /\ [][Next]_vars /\ WF_vars(Step) /\ WF_vars(Resume)

-----------------------------------------------------------------------------
(* Properties *)

Steps ==
    {"idle", "preflight", "stage", "progress", "alert", "record", "complete", "inspect",
     "summarize", "claim", "launch", "analyzing", "recover", "confirm", "replace", "finalize",
     "write", "lock", "list", "shut", "receipt"}

\* Every variable holds what the code can put into it.
TypeOK ==
    /\ run \in [state : {"working", "attention", "completed"}, final : BOOLEAN]
    /\ Len(episodes) <= MaxEpisodes
    /\ \A e \in DOMAIN episodes : episodes[e].state \in {"attention", "completed"}
    /\ \A u \in Units :
          /\ DOMAIN unit[u].files \subseteq IF u[1] = "attempt" THEN FileNames ELSE {"result"}
          /\ unit[u].locked \in BOOLEAN /\ unit[u].shut \in BOOLEAN
          /\ "result" \in DOMAIN unit[u].files =>
                CASE u[1] = "work"    -> unit[u].files["result"] = "facts"
                  [] u[1] = "summary" -> unit[u].files["result"] = episodes[u[2]].inventory
                  [] u[1] = "attempt" -> unit[u].files["result"] \in Statuses
    /\ claim \in [Episodes -> {"absent", "prepared"} \cup Statuses] /\ stray \in BOOLEAN
    /\ pc \in Steps /\ job.episode \in 0 .. MaxEpisodes
    /\ job.unit \in Units \cup {NoJob.unit} /\ job.outcome \in {"none"} \cup Statuses
    /\ job.sealed \in Steps /\ job.then \in Steps
    /\ answer \in [Episodes -> {"none"} \cup Statuses] /\ launches \in [Episodes -> Nat]
    /\ faults \in 0 .. MaxFaults /\ crashes \in 0 .. MaxCrashes

\* "Run and seal the sole analysis attempt": an analysis is never started twice, although the
\* command may die at any point behind its claim and each later command repeats the attempt.
AnalyzedOnce == \A e \in Episodes : launches[e] <= 1

\* Wherever a seal is cut off, the next command can finish it: a manifest only lists what is
\* there and locked.  And a receipt, which status and report read without the lock, never
\* tells of a unit that they would then refuse.
SealsCanBeFinished ==
    \A u \in Units : (Listed(u) => Sound(u)) /\ (unit[u].receipt # Nothing => Sealed(u))

\* What was listed once stays as it is: in every later step of whatever command.
SealedNeverChanges ==
    [][\A u \in Units :
          /\ Listed(u) => unit[u].files = unit'[u].files /\ unit[u].manifest = unit'[u].manifest
          /\ unit[u].receipt # Nothing => unit'[u] = unit[u]]_vars

\* A recorded inventory can be cited for ever: each unit in it verifies, with that digest.
InventoriesHold ==
    \A e \in DOMAIN episodes : episodes[e].inventory.known => Citable(e)

\* The claim tells of the verdict that is sealed, and the Run is released only behind it.
ClaimsTellVerdicts ==
    /\ \A e \in Episodes : claim[e] \in Statuses => Sealed(Attempt(e)) /\ claim[e] = Said(e)
    /\ run.final => run.state = "completed" /\ claim[Len(episodes)] \in Statuses

\* No failure of a stage spoils the inventory of a completion, which could then never be final.
CompletionsAreCitable ==
    \A e \in DOMAIN episodes : episodes[e].state = "completed" => episodes[e].inventory.known

\* One analysis, and one verdict that claim, evidence and finalization agree on.
OneVerdict == AnalyzedOnce /\ ClaimsTellVerdicts

\* What a crash leaves of a seal can be finished, and what was finished can be cited.
SealsHold == SealsCanBeFinished /\ InventoriesHold /\ CompletionsAreCitable

\* The promise about one episode, which no crash breaks.
Sole == INSTANCE SoleAnalysis WITH
    asked <- [e \in Episodes |-> claim[e] # "absent"],
    verdict <- [e \in Episodes |->
                  IF unit[Attempt(e)].receipt # Nothing THEN Said(e) ELSE "none"]

ImplementsSoleAnalysis == Sole!Spec

\* Every episode gets its verdict, confirmed, and a completed Run its finalization, if the
\* operator resumes.  Left out: an inventory that is unavailable, and a temporary file in the
\* Effect directory, behind which no command records an episode.
VerdictReached ==
    \A e \in Episodes :
        Recorded(e) ~>
            \/ claim[e] \in Statuses /\ (run.state = "completed" => run.final)
            \/ Recorded(e) /\ ~episodes[e].inventory.known
            \/ stray

(* A statement of the README that the code does not meet *)

\* "External mutations are recorded as prepared and confirmed effects, so resume reconciles
\* ambiguous outcomes": the Effects that a crash leaves are accepted by the next resume.
InterruptedEffectIsAccepted == pc = "idle" => ~stray
=============================================================================
