# A formal model of AFK

AFK carries one Bead (an issue) through implementation, validation, review,
repair, merge and closure without a person at the keyboard. Its hard part is not
any of these stages but what lies between them: a command may die between any
two of its writes, every call to `git`, `gh`, `bd`, `systemd-run` or Codex may
fail, time out or succeed without an answer, and other people act on the same
branch, pull request and Bead. The next `afk resume` has only the durable Event
History, the sealed evidence and what it can observe to find out what happened.
The modules here model that, TLC checks them on small instances, and TLAPS
proves all safety properties that TLC finds to hold, and the three refinements, for
every value of the constants.

Source paths are relative to `src/src/afk/`.

## 1. The system

| Component | State it keeps | Operations | What is hard, and what makes it correct |
|---|---|---|---|
| **Run Store** (`run_store.py`) | per Run: `run.json`, `events.jsonl`, `state.json`, Effect files, evidence directories, `completion-finalization.json`; per store: `active.json`, `afk.lock` | `create_run`, `append_event`, `resume_status`, `supersede_active_run`, `prepare_effect`, `confirm_effect`, `seal_evidence`, completion episode and finalization | crashes between writes; torn records; scan and pointer disagreeing. One Active Run, append-only history, cache never ahead, released only after the retrospective |
| **Commands, worker unit** (`cli.py`, `start.py`) | none beyond the store; the transient systemd unit | `start`, `resume`, `supersede`, `status`, `run_worker_unit` | the unit starts late or although its launch was reported as failed; the lock is handed on. A confirmed launch is not repeated, a retired Run stays retired |
| **Claim and worktree** (`bead_spec.py`, `worktree.py`, `start.py`) | Effects of claim and worktree; the worktree | `_advance_bead_claim`, `_advance_worktree` | read-update-read in a shared tracker; half-made worktrees |
| **Implementation Attempts** (`candidate.py`, `implementation_attempt.py`) | projected attempt, its evidence directory | `produce_candidate`, recovery of an attempt | an attempt cut off is judged from what it left behind |
| **Candidate publication** (`candidate.py`, `candidate_*publication.py`) | Effects of push and PR | `_reconcile_push`, `_reconcile_pr` | ambiguous push and PR creation |
| **Validation** (`candidate_validation.py`, `start.py`) | projected attempt and verdict, sealed evidence | start, finish, recover | a verdict whose record is lost; an attempt that is still open |
| **Gate Cycles** (`candidate_gate.py`) | review and cycle evidence, comment Effects, projected cycles | `complete_gate_cycle`, `run_candidate_reviews`, `reconcile_gate_comment` | a review cut off must not approve; a comment must not be posted twice; the Candidate may drift meanwhile |
| **Repair Attempts** (`candidate.py`, `start.py`) | four slots, briefs, evidence per slot | `produce_repair_candidate`, interruption and adoption | a slot is spent before the agent runs, once; the push must not destroy a foreign commit |
| **Integration** (`candidate.py`, `start.py`) | four Effects, completion evidence | mark ready, squash-merge, delete the branch, close the Bead, clean up | requests that take effect without an answer or after their sender is gone; exact-head merge; truthful completion |
| **Resume preflight** (`resume_preflight.py`) | none | checks every open attempt against the projection | it must accept every history that AFK itself writes |
| **Lifecycle signals** (`lifecycle_signals.py`) | a record and an attention | `record_lifecycle_interruption` | it replaces the last event and the attention on which resume dispatches |
| **Retrospective** (`retrospective_*.py`, `run_summary.py`) | claim Effect, sealed outcome per episode | `run_retrospective_attempt` | an analysis that may have run is never run again |
| **Process supervision** (`process_supervision*.py`, `process_io.py`) | process tree, subreaper, pidfds | `run_supervised_command` | descendants that fork, exit and are re-parented during the scan |
| **Broker and containers** (`candidate_broker.py`, `candidate_capability.py`, `container_cleanup_watchdog.py`) | sockets, a container | run the Candidate, disarm or trigger the watchdog | whoever dies first, the container goes |
| **Bootstrap** (`bootstrap_*.py`) | approval record | approve once | the digest approved is the one that is run |
| **Redaction, permissions, JSON, identifiers** | none | pure functions | no state |

How they interact: a *command* takes the flock of the store and runs one chain of
stages. A stage records facts with `append_event`, announces mutations of the
outside with `prepare_effect`, performs them by subprocesses, and confirms them
from observation with `confirm_effect`; it seals evidence before it records what
the evidence shows. A stage that cannot go on calls `_attention`, which records
*Attention Required* at the checkpoint the Run has reached. `resume_run` picks
the next stage from the projection of the history. All coordination is through
these files: there is no channel between commands.

## 2. Modules

| Module | Models | State → code |
|---|---|---|
| `ActiveRun` | what the store promises about ownership (abstract) | `owner`: the Active Run; `retired`: completed or superseded Runs |
| `RunStore` | the store under start, resume, supersede and the worker | `layout`, `log`, `snapshot`, `launch`, `retro`, `final`, `pointer` are the files; `lock` the flock; `pc`, `job` the locals of each command |
| `GateRepair` | one Run from published Candidate to *reviewed* | `run` is the projection; `verdict`, `slot`, `gate`, `confirmed`, `pushed` the evidence and Effects; `tree`, `remote`, `comments` the world; `pc`, `hand`, `retry`, `thenGate` the command |
| `Delivery` | what AFK promises about a reviewed change (abstract) | `stage`: the Run State; `merged`, `closed`: the facts behind it |
| `Integration` | one Run from *reviewed* to *completed* | `run`, `effect`, `completion` are durable; `pr`, `remote`, `base`, `bead`, `checkout`, `local` the world; `late` the requests of dead or timed-out clients; `pc`, `cleaned` the command |
| `SoleAnalysis` | what AFK promises about a retrospective (abstract) | `asked`, `answer`, `verdict` of each episode |
| `Retrospective` | evidence units and their seal, episodes, the one analysis of each | `unit` are the evidence directories with their files, modes, manifest and receipt; `episodes` the records with their inventories; `claim` the claim Effects; `stray` a temporary file beside the Effects; `pc`, `job` the command |
| `Implementation` | one Run from the launched worker to its Candidate | `run` is the projection; `effect`, `evidence` are durable; `bead`, `tree`, `remote`, `target`, `prs` the world; `unit` the worker unit; `pc`, `todo`, `hand`, `again` the command; `ran` (the attempts that started an agent) is a history |
| `Supervision` | one supervised command | `alive`, `born`, `parent`, `exit`, `uncollected` are what the kernel knows; `sup` is each supervisor with its pidfds, scan and round; `message` the sockets; `known`, `trouble`, `late` the helper's view; `caller`, `answer` the caller; `slipped`, `gaveUp`, `loose` are histories |
| `Broker` | one Candidate command in a container | `pc`, `outcome` the broker; `client`, `request`, `box`, `cidfile` the runtime; `watchdog`, `line`, `tries` the watchdog; `looked` is a history |
| `RunStoreProofs`, `GateRepairProofs`, `IntegrationProofs`, `RetrospectiveProofs`, `ImplementationProofs`, `SupervisionProofs`, `BrokerProofs` | proofs about the module each is named for, which it extends | the inductive invariant stands at the beginning, the theorems at the end |
| `MC*` | model values and symmetry for TLC | |

Every action carries the name of the step it stands for, and `PROJECT.json`
gives its lines. Some conventions:

- One action is one durable or external effect with the tests in front of it, so
  that a crash can fall between any two. `pc` names the step that comes next.
- `Record` is `append_event`, `Stop` is `_attention`, `Prepare` and `Confirm` are
  the Effect calls. In `RunStore` an append is cut in its parts (truncate and
  write, `state.json`, pointer); the other modules take it as atomic, which
  `RunStore` justifies: behind a crash a record is there or not.
- `Fault` is a call that failed, timed out, or answered what cannot be parsed. A
  crash (`Crash`) leaves no trace; a signal (`Signal`) leaves its record.
- In `Integration` a mutation is a *request*: the command waits at the request's
  name. It is answered, refused, or goes unanswered; then it has taken effect,
  never will, or stays in `late` and lands at some later point. This is what a
  subprocess timeout, or a `gh` that outlives its killed parent, can do.
- Definitions marked `Wrong:` are plausible mistakes. They are used by nothing
  here but the mutation runs: each property of a passing run is violated when
  one of them replaces the definition after it.

Composition: `RunStore` stands for the whole of a Run's work by the event
`progress`; `Implementation`, `GateRepair` and `Integration` unfold that work
between two Run States each, with the lock held. `Implementation` starts with the
worker whose launch `RunStore` confirms and ends at *candidate_ready*, the first
state of `GateRepair`, which ends at *reviewed*, the first state of `Integration`.
`Retrospective` unfolds the evidence all of them seal and the analysis behind each
of their attentions. Every subprocess is run by what `Supervision` models; the
answers `Broker` expects of its supervised client (`Returned`) are those that
`Supervision` can give: the client's own end, a kill after a timeout, or a failure
of supervision with the client perhaps alive.

Two things are easily misread in `Supervision`. A process that has exited is not in
`alive`, zombie or not: a zombie matters only for the status of the command, which
`uncollected` holds. And a process that is handed on to another parent during a
scan may be read under neither; `Visit` shows this by taking the children of each
process when it gets to it.

## 3. Runs

| Run | Asks | Result |
|---|---|---|
| `run_store` | do ownership, the durable files, history, launch and finalization stay consistent, and is `ActiveRun` implemented? | holds |
| `late_worker` | is `run.superseded` the last record of its Run? | violated |
| `implementation` | are mutations announced, found again and not repeated, does the record say what the evidence says, is the agent started once per attempt, is others' work kept, does preflight accept what AFK writes, does a Run reach its Candidate? | holds |
| `ambiguous_recovery` | does a restarted recovery come to the ruling that was being written? | violated |
| `gate_repair` | does the record explain the pull request, are slots and approvals right, does preflight accept what AFK writes, does every command end? | holds |
| `lost_repair` | is the sealed report of the current repair adopted? | violated |
| `integration` | are mutations announced and not repeated, is the reviewed head merged, is others' work kept, is the completion record true, is `Delivery` implemented, does a Run recover? | holds |
| `first_signal` | does the next resume accept a signalled Run? | violated |
| `retrospective` | can every seal be finished and does it hold, is there one verdict per analysis, is `SoleAnalysis` implemented, is a verdict reached? | holds |
| `stray_effect` | does a resume accept the Effects that a crash leaves? | violated |
| `supervision` | does an answer mean that nothing of the command is left, is the reported exit the command's own, do call and tree come to an end? | holds |
| `broker` | does a result mean that no container is left, and is the container of a dead broker removed? | holds |

The properties, with the sentence of the documents each one is about, are at the
end of their modules. Some are conjunctions of named parts that rest on each other
(`DurableFilesAgree`, `PullRequestIsExplained`, `MutationsAreCovered`, `OneVerdict`,
`SealsHold`, `EffectsCoverTheWorld`, `CallEnds`); each part has its own comment.

**What the violated runs show.** Each of them starts from a sentence of the
README or from what a test expects, and the counterexample is a history of
ordinary commands; `PROJECT.json` quotes both sides.

- `late_worker`: `systemd-run` times out although the unit started, the operator
  supersedes the Run, and the worker appends behind `run.superseded`. From then
  on every scan of the store raises.
- `ambiguous_recovery`: `recovery.json` is written, then sealed. A resume that finds
  it unsealed does not read it but judges the attempt again by what the directory
  and the worktree show, and the file has changed that: another ruling results, and
  `_seal_implementation_interruption` refuses its own evidence as ambiguous in
  every resume from then on.
- `lost_repair`: after an interrupted slot, a sealed report is looked for under
  the brief of the last recorded cycle, which is that of the interrupted slot.
- `first_signal`: the record of a signal says that the Run requires attention but
  opens no attention episode. A Run that never required attention before then has
  a state without the episode that goes with it, and resume, supersede and the
  recording of an attention all refuse it.
- `stray_effect`: `confirm_effect` writes its temporary file into the directory of
  the Effects. A kill before the rename leaves it there, where the preflight of
  every resume and the inventory of every attention refuse it.

Some more were met while modelling and have no run of their own.

- Supersession dies before it removes the pointer: no Run is active, resume falls
  back on the pointer, and no branch of `resume_run` looks for *superseded*.
- `create_run` makes the Run directory before its first record; if the start dies in
  between, every later scan refuses the directory.
- For a *repaired* Candidate the projection still holds the verdict of an earlier
  one, so the test `"validation" not in projection` (`start.py:1040`) misses a
  finished validation whose record a crash prevented; the Candidate is validated
  again.
- At `candidate_ready`, resume looks at the last event and at the attention; a
  signal replaces both, and no branch leads back to the checkpoint. In the same way
  `worker.terminal` and the attention for a signal or a unit cover the record by
  which resume would go on *before the first attempt exists* (`Covered` in
  `Implementation`).
- `_gate_retry_authorization` looks at the last recorded cycle only. When a retry of the
  review was recorded with the action *repair* and a signal comes before that repair
  starts, resume goes back to the Gate Cycle with retry 0 (`start.py:344`), finds the
  first review's sealed *attention* and stops as inconclusive; the note of the operator
  that would authorize a retry is then refused, because the last recorded cycle asks
  for a repair. Only a supersession is left.
- A SIGTERM that reaches the broker while it arms or disarms the watchdog becomes an
  ordinary `CandidateBrokerError` (`candidate_broker.py:572`, `590`): the request is
  answered *invalid*, and the server goes on accepting. `close()` kills it ten seconds
  later; if the signal was that of a dead parent, nobody does.
- A SIGTERM to the helper while no process has a pidfd (between launch and
  `track()`, or between the two scans of `terminate`), or within `__exit__`, skips the
  cleanup (`process_supervision.py:465`). What is left goes to the guardian, or to
  the end of the namespace. A helper or guardian that has left `__exit__` has given
  up being a subreaper and its handler: a SIGTERM then just kills it, and what it
  may have left goes further up.

And one in `Retrospective`: when the file system fails a stage between the
manifest and the closed directory, the attention that follows records an
*unavailable* inventory (`run_store.py:1993`), and `_read_retrospective_inventory`
raises for it in every later resume (`start.py:223`) before any stage is reached.
`VerdictReached` leaves such an episode out; `CompletionsAreCitable`, a part of
`SealsHold`, says that a completion never becomes one.

**Bounds and why they are enough.**

- `RunStore`: two Runs (a Run and its successor), one command line, the worker of
  each Run, one crash, six records. A second command line adds nothing: any
  command beyond its first step holds the flock, so two of them never interleave;
  only the workers do. Six records hold creation, launch, progress and a terminal
  state, or an attention and a supersession; seven (2.4 million states) pass as
  well. The proofs hold for every bound.
- `GateRepair`: both review axes, two slots instead of four, three comments
  instead of the code's limit, two failures and two crashes or signals. Two slots
  have every relation of a slot to its predecessor, and exhaustion; three comments
  are one per cycle of a fully repaired Run, so that a retried cycle reaches the
  limit before the slots do. 187 thousand states.
- `Integration`: one unanswered or failed call, two crashes or signals (each of
  which may cut a request off too), and two actions of other people, so that they
  may do something and undo it. 2.7 million states.
- `Retrospective`: two episodes (an attention before another or before a
  completion, whose inventory cites the evidence of the first), one unit of a stage,
  one failure of the file system, two crashes, so that a recovery may be cut off
  too. 135 thousand states.

- `Implementation`: both attempts the code allows, two failures (of the tracker, git,
  GitHub, the agent or systemd, or an act of someone else) and two crashes or
  signals: a failure may be followed by a crash in the recovery from it, and that by
  another. 486 thousand states.
- `Supervision`: three in all of processes the command has, killed supervisors and
  stalled or dead callers; two rounds before a cleanup deadline. A command, its child
  and a grandchild handed on, or a command, a child and a killed supervisor are the
  cases the code distinguishes. 367 thousand states, with liveness. One case needs
  more: that a process is handed on during *each* of four consecutive scans, the only
  way for one to slip through (`slipped`), does not occur with three processes.
  The proofs hold for every bound.
- `Broker`: three tries of the watchdog, three signals or kills. 6470 states; the
  proofs hold for every bound.

`CHECK_DEADLOCK FALSE` is right in all of them: a finished Run, or one whose
operator does nothing, may stop.

**Fairness.** `RunStore` needs none; its properties are safety. `GateRepair` has
`WF_vars(Step)`: a running command goes on, since every subprocess it waits for
has a time limit; nobody is obliged to resume. `Integration` adds
`WF_vars(Resume)`: its property `Recovers` is about an operator who resumes until
the Run is completed, and says that crashes, lost answers, and signals behind an
earlier attention, never leave a Run that no number of resumes completes. (A signal
that is the first attention does: the run `first_signal`.) `Retrospective` has the
same two. `Implementation` has `WF_vars(Step)`, and strong fairness of `Resume` and of
`RecordTerminal`, since the lock may be taken again and again: the operator repeats
the command, and `run_worker_unit` tries for its lock in a loop. Its `Recovers` ends
in the Candidate or in a state that needs a person, which `NeedsPerson` enumerates:
the attempts are used up, others changed what AFK relies on, git left half a
worktree, the ruling is ambiguous, or the record is covered. `Supervision` assumes
that the supervisors and the caller run and that time passes (`SF_vars(Deadline)`:
the loop reads the clock in each turn), but nothing of the command; SIGTERM may be ignored,
SIGKILL may not. `Broker` assumes that broker and watchdog run, and nothing of the
runtime, nor that `rm` succeeds. No fairness is assumed for late
requests, for other people, or for crashes.

Histories in the model: those of the table, `applied` (what became of each request), `answer` and
`launches` (what the analysis said and how often it ran), `faults`, `crashes` and `meddling` are not in the code; they bound the model and state the
properties.

## 4. Proofs

Each module of proofs rests on the assumptions about the constants that its component
names (the bounds are natural numbers, some at least 1; in `RunStore` identifiers are
distinct; in `GateRepair` and `Implementation` `Faults` is a set of the kinds of failure
the module knows), on nothing else, and holds for every value of the constants.
Bounds of failures, crashes and other people's acts are constants too, so that "any
number" is meant.

Every proof goes the same way. None of the properties is inductive alone. `IInv` adds
what the durable state always looks like, and what the command may rely on at each of
its steps; every action has a lemma that it preserves `IInv`; and `IInv` implies the
properties, or, for an action property, each step from a state with `IInv` has it. TLC
checked each `IInv` on the instance of its run before it was proved.

**`RunStoreProofs`**, from `ConstantsAssumption`:

| Theorem | Property |
|---|---|
| `TypeCorrect` | `TypeOK` |
| `AtMostOneActiveRun` | `OneActiveRun` |
| `PointerIsOwners` | `PointerNamesOwner` |
| `HistoriesParse` | `HistoryParses` |
| `SnapshotsNotAhead` | `SnapshotNotAhead` |
| `FinalAfterRetrospective` | `ReleasedAfterRetrospective` |
| `DurableFilesAlwaysAgree` | `DurableFilesAgree`, the conjunction of the last four |
| `WritersHoldLock` | `LockProtectsWrites` |
| `HistoryGrows` | `HistoryAppendOnly` |
| `LaunchedOnce` | `ConfirmedLaunchNotRepeated` |
| `Refinement` | `ImplementsActiveRun` |

That a start finds no owner is known where it takes the lock and used three writes
later. `IInv` therefore adds
what the disk always looks like (`DiskOK`: histories parse, a Run with any record
has its creation, a finalization implies its retrospective), what the holder of
the flock may rely on at each of its steps (`HoldersOK`: for example, a command
between `make_directory` and `run.created` knows that there is no pointer and no
owner; one that is about to write the pointer knows that only its Run owns work),
and that a worker unit exists only for a recorded Run (`WorkersRecorded`). Lemmas
say what truncating to the valid bytes and appending behind them do to a history.
Only the holder of the flock writes, so an action of one actor can only disturb
what the others rely on by handing the lock on, and an actor at a step that
writes cannot lose it. `LaunchedOnce` has an invariant of its own on top
(`LaunchOK`: only an unconfirmed launch is at a step that starts a unit).
`Refinement` maps the owner to the one Run that has a creation and neither a
supersession nor a finalization: `run.created` is `Open`, the record of a
supersession and the finalization file are `Retire`, everything else stutters.

**`ImplementationProofs`**, from `ImplementationConstants`:

| Theorem | Property |
|---|---|
| `TypeCorrect` | `TypeOK` |
| `EffectsCovered` | `EffectsCoverTheWorld` |
| `RecordsTrue` | `RecordTellsEvidence` |
| `PreflightPasses` | `PreflightAccepts` |
| `AgentOncePerAttempt` | `AttemptsSpentOnce` |
| `OthersUndisturbed` | `OthersKept` |

A command only takes the steps of the phase that the Run is in (`StageOK`), and the
last record and the attention say how far that is (`ProgressOK`), which is what resume
dispatches on. Whatever is there was announced by the time a step is about to make it
(`EffectsOK`). Attempts are numbered upwards, an open one has not ended (`AttemptsOK`),
no agent ran in one that is still to be started (`SpentOK`), and the evidence of the open
one is as far as the command is and does not contradict itself: where a ruling stands
against a completed report, there is no commit (`EvidenceOK`). Nothing is published
before there is a commit, or twice (`PublishedOK`). `EvidenceOK` is what an attempt that
is cut off, recovered, cut off again and judged from its directory needs.

**`GateRepairProofs`**, from `GateConstants`:

| Theorem | Property |
|---|---|
| `TypeCorrect` | `TypeOK` |
| `PullRequestExplained` | `PullRequestIsExplained` |
| `PreflightPasses` | `PreflightAccepts` |
| `SlotsOnce` | `SlotsSpentOnce` |
| `OnlyApproved` | `ReviewedIsApproved` |
| `ForeignKept` | `ForeignHeadKept` |

The invariant has two halves. `IData` says what the projection, the evidence and the
pull request always look like: a repair is paid for with the slot in use until its
Candidate is verified or its interruption is recorded (`RepairOK`); only that slot may
be without evidence (`SlotsOK`); an open validation is that of the Candidate
(`AttemptOK`), and a Candidate with a verdict that leads to a Gate Cycle never loses it
(`JudgedOK`); recorded cycles are each of their own and retries follow a first review
(`CyclesOK`); evidence of a cycle is that of the cycle and retry whose turn it is
(`GateOK`); the comments are those of the recorded cycles in their order, and behind
them at most the one of the outcome that is sealed and not recorded (`CommentsOK`).
`ICommand` says what a command knows at each step of a validation, of a Gate Cycle, behind
a recorded one, and of a paid repair (`ValidatingOK`, `CyclingOK`, `DecidedOK`,
`PaidOK`). That the next retry is one nobody has reviewed needs the greatest element of
a set of numbers (`Greatest`), and the dispatch of resume, the first of nineteen
conditions that holds, the least (`Least`).

The attempt to prove it found an error in an earlier form of the module: a resume may
enter a cycle that is already recorded (`candidate_gate.py:131-138`, `246-252`), where
the code compares the sealed outcome with what the projection says instead of beginning
a new review. The module now does the same (`Outcome`, `Told`).

**`IntegrationProofs`**, from `IntegrationConstants`:

| Theorem | Property |
|---|---|
| `TypeCorrect` | `TypeOK` |
| `MutationsCovered` | `MutationsAreCovered` |
| `CompletionTrue` | `CompletionIsTrue` |
| `NeverRepeated` | `NothingRepeated` |
| `OthersKept` | `OthersWorkKept` |
| `Refinement` | `ImplementsDelivery` |

A request that is on its way, may still land, or has landed was announced
(`AnnouncedOK`); a merged pull request stays as it was merged, and what the Run calls
merged is the Candidate on the pinned base (`MergedOK`); AFK closes the Bead only behind
the merge (`ClosedOK`); the ref goes after the worktree, so neither claim of a cleanup
outlives its fact (`CleanedOK`); and what AFK did stays done as long as nobody else undoes
it (`UndoneOK`). The hard case of each is the late request: one that lands after the
command that sent it has died and another one has looked. `Refinement` maps the Run State
and the two facts behind it to `Delivery`; requests that take effect, late or not, are
its `Merge` and `Close`, the records its steps of `stage`, everything else stutters.

**`RetrospectiveProofs`**, from `RetrospectiveConstants`:

| Theorem | Property |
|---|---|
| `TypeCorrect` | `TypeOK` |
| `VerdictSole` | `OneVerdict` |
| `SealsAlwaysHold` | `SealsHold` |
| `SealedForever` | `SealedNeverChanges` |
| `Refinement` | `ImplementsSoleAnalysis` |

Whatever a crash left of a seal can be finished (`UnitsOK`); a known inventory cites
units and verifies, and that of a completion is known (`InventoriesOK`); there is no
analysis, answer or evidence of one without its claim, and no verdict but the answer,
or that it may have been lost (`ClaimsOK`). Of the command, `SealOK` says where it is
with a seal and what it seals, `AttemptOK` how far the attempt of the episode is, and
`OrderlyOK` that a stage goes on only when nothing is left half sealed. `Refinement` maps
the claims, answers and verdicts of the episodes to `SoleAnalysis`.

**`SupervisionProofs`**, from `SupervisionConstants`:

| Theorem | Property |
|---|---|
| `TypeCorrect` | `TypeOK` |
| `NothingLeft` | `NothingOutlives` |
| `ExitReal` | `ReportedExitIsReal` |

The core is the lemma `EmptyTree`: if a scan is through, has found nothing that runs, and
nothing was handed on to its supervisor meanwhile, then the command has no process left.
Take the oldest one that is: its parent is not a process of the command, since a parent is
older and alive; not the supervisor, which would have tracked it; and not anybody above the
supervisor, which as subreaper would have got it first. Two parts of `IInv` make
that argument: `TreeOK`, whose parents are older and who reaps below whom, and `ScanOK`, by
which a child of the supervisor is before the scan or tracked unless it was handed on
during the scan. Two scans that found nothing therefore leave either an empty tree or a
process that was handed on in both (`Cleared`). `HelperOK`, `OuterOK` and `AnswerOK` carry
this from the second look through the response, the guardian's own two looks, and its
response to the answer; within a namespace the end of either process empties the tree.
For `ExitReal`, `StatusOK` says that a helper that watches still has no status, and that
a command gone by then ended by itself and waits for the helper; and that a helper that
terminates has a reason to (a deadline, trouble with the output) or has that status. A
signal of the guardian cannot come between unnoticed, because the guardian has the
helper among what it signals as long as that runs. That a process can slip through four
scans, which TLC's instance is too small for, is thus proved to be the *only* way for one
to be left.

The attempt to prove it found two errors in an earlier form of the module: a supervisor
that has left its cleanup and then dies of a signal hands on its children as any other
does, and the helper gets its death signal also when the guardian ends normally
(`Leave`, `Taken`). It also made `slipped` say more: only a process handed on to that
very supervisor counts (`Hit`).

**`BrokerProofs`** proves `TypeCorrect` and `CleanupFailsClosed` (`FailsClosed`) for any
number of tries and of signals and kills, from `BrokerConstants`. What makes
`FailsClosed` inductive: before the client runs there is nothing to remove, and a
client that ended by itself leaves the runtime nothing to do (`RuntimeOK`); the
watchdog is armed, or killed, whenever a container can come into being, and is
through only when the container was looked for (`WatchdogOK`); and an outcome that
will be answered belongs to a client that is not alive and whose container was
looked for (`OutcomeOK`).

**Only model-checked**, because liveness under fairness is out of this prover's reach:
`CommandEnds` (`GateRepair`), `Recovers` (`Implementation` and `Integration`),
`VerdictReached`, `CallEnds` and `OrphanRemoved`. The violated runs need no proof: their
counterexamples are the result.

## 5. Not modelled, and why

- Contents: prompts, reports, comments, identities and digests are data. That a
  sealed file is unchanged is assumed; AFK compares digests on every read and
  refuses what differs, which would only stop a Run.
- GitHub's listing lagging behind its own state, and merge queues, auto-merge and
  required reviews, which `_require_direct_merge_topology` refuses.
- `gh pr merge --delete-branch` deletes whatever the branch holds by then;
  `OthersWorkKept` leaves this deletion out by name (a hazard in `PROJECT.json`).
- In all modules but `Retrospective` an Effect is confirmed in one step: the liveness
  of `Integration` holds for crashes outside the window of `stray_effect`.
- `Retrospective` leaves out signals (their attention has no episode), reads that
  fail, and a change of the analysis command between two versions of AFK. The kill
  of the analysis with its command (`PR_SET_PDEATHSIG`) is assumed: `Crash` ends both.
- `GateRepair` leaves out the bootstrap branch, the retrospective of an attention
  (it changes no state the module has) and the end of the worker unit.
- `Implementation` leaves out the lag of GitHub's listing, the bootstrap branch, and
  the retrospective of an attention; a worktree that git left half made is left to a
  person, as the code does.
- `Supervision` leaves out the reuse of pids (a pidfd names a process, not a number),
  the start of guardian and helper before the request is read, and the bytes of
  input and output: an overflow, a failed reader and a drain that does not end are
  choices. A SIGKILL of the caller is `CallerDies`.
- `Broker` leaves out the socket on which requests follow each other, the snapshot,
  and the options of the runtime. Without a container a command runs in `bwrap`,
  about which `Supervision` says all there is.
- `bootstrap_*.py` is a one-time approval by a pinned digest: a branch of the
  validation stage with no recovery of its own.
- Components without a module: see the plan. Redaction, permissions and helpers
  are pure functions on text without state worth checking.

## 6. Plan

Done, in this order: `ActiveRun` and `RunStore` (everything rests on the store),
its proofs, `GateRepair` (the longest chain of stages), `Delivery` and
`Integration` (the mutations that cannot be taken back), `SoleAnalysis` and
`Retrospective` (evidence, and what stands between an attention and its resume),
`Implementation` (the stages in front of the Candidate), `Supervision`,
`Broker`, and the proofs about each of them.

To come:

1. Proofs: all safety properties of the runs are proved. What may follow are
   invariants that no run checks yet, such as the guardian's own cleanup in `Supervision`
   behind a helper that was killed, and a refinement that joins `Implementation` and
   `GateRepair` as `Delivery` does for `Integration`.
2. The worker's stages in place of `progress` in `RunStore`, and signals there.
3. The bootstrap branch of the validation stage.
