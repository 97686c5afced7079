# Verification of Assemblywright

TLA+ specifications of the control logic of Assemblywright's Windows master, of the
local IPC between its execution services, and of the Developer build, model-checked
with TLC on small instances. Every safety property the passing runs check, and every
refinement, is also proved with TLAPS for every instance. Paths such as `lib.rs:6628` are relative to
`src/crates/assemblywright-master/src/` unless they say otherwise.

## 1. The system

Assemblywright turns approved feature specifications into merged pull requests.
A Windows *master* owns all durable state in one SQLite database. Enrolled
*workers* connect to it over mutual TLS, lease steps and return results. The
*owner* drives it through a Mac bridge and HTTP routes. External services are a
review provider, GitHub and the repositories. The *Developer build* is a
single-machine product around the same ideas: one process with its own database
that builds, validates, reviews and publishes a queue of features by itself.

| Part | State it keeps | Operations | Talks to |
|---|---|---|---|
| Step kernel (`lib.rs` `MasterKernel`) | devices, connections with epoch and sequence, steps, attempts, cancellations, result artifacts, event journal | register/revoke, handshake, enqueue, lease, result, cancel, acknowledge, reconcile | workers through the host's HTTP routes |
| Feature Conveyor (`lib.rs`) | queue, singleton active-feature lease, lifecycle status and revision, transition ledger, integration/validation/review/publication records | enqueue, reorder, claim, dispatch coding, four gates, cancel, abandon | step kernel (packets are steps), review provider, GitHub |
| Feature orchestration (`lib.rs`) | activation, checkpoint per feature | activate, coordinate, owner pause/resume | reads the conveyor's tables |
| Emergency Pause (`lib.rs`, `main.rs`) | flag and revision | pause, resume | every admission check |
| Host (`main.rs`) | one process mutex, one-shot timers, one reviewer, one publisher | HTTP routes, TLS sessions, calls to GitHub and the provider | kernel, outside world |
| Execution IPC (`assemblywright-protocol`, broker, executor, `execution_ipc.rs`) | one append-only journal per service with the last frame, sequence and acknowledgement, and its copy in memory | open, admit, complete, replay, quarantine; forward and acknowledge a frame | named pipes |
| Full-machine assembly line (`lib.rs:7404-9577`) | grants, effect intents and receipts | issue, dispatch, receipt, reconcile | broker and executor |
| Developer runner (`developer_main.rs`) | queue of features, drafts, retained candidate, review history, repair budget, Emergency Pause, Auto-run; in memory the cancellation latches, the run, claim and publication flags, the effect gate | start, repair, stop, emergency pause, clear, enqueue, remove, reconcile, abandon, shutdown; recovery at start | project files, local model, validation commands, reviewer, GitHub |
| Developer publication (`developer_publication.rs`) | one record per feature: stage, base, commit, pull request, merge, a bounded list of intents and receipts; a private checkout | publish, resume, reconcile, verify again, abandon | `git`, `gh`, the repository on GitHub |
| Agent (`assemblywright-agent`) | relay state, artifact and snapshot stores | connect, lease, run, upload | master |
| Local pipeline (`local_*.rs`) | job life, local publication | | files, GitHub |
| Identity, planning effects, validation containment, integration, snapshots | enrolment intents, provider effect ledger, temporary Git repositories | | |
| Apps, CLI, scripts | none that matters here | user interface | HTTP routes |

What is hard in the master: every kernel operation is one immediate transaction
under one mutex, so the hazards lie *between* transactions. A lease, a review call
and a publication action each span several of them with a network in between; in
the gap come expiry, reconnection under a new epoch, Emergency Pause, owner
cancellation, abandonment, another feature's queue change, a lapsed grant, or a
crash. Messages are late, duplicated or lost. An effect on GitHub may have
happened although no answer arrived.

What is hard in the execution IPC: a service changes its memory first and its
journal afterwards, a write can be refused, torn or not synced, and an answer can
be lost after both journals moved.

What is hard in the Developer build: the runner, the publication and every owner
request run on threads of their own and meet in lock-free latches, one effect gate
and one database mutex, taken in different orders. A Stop must win against
a file write that was already checked, and stop a publication before its next command. A crash can fall between any file write, record
and outside effect, and a command against GitHub can take effect after it was
given up.

`PROJECT.json` lists every hazard at its line with the property that watches it.

What makes each part correct:

* step kernel: one live attempt per step and per device, always on the active
  connection; finished steps never change; a pause leaves no remote work running
  unasked; sequence numbers never repeat; the journal agrees with the tables;
  requested cancellations end;
* conveyor: one feature holds the lease from claim to release; the queue and the
  ledger agree with it; nothing merges that the gates did not produce; effects
  are asked for once, in order; an ambiguous merge is never forgotten; blocked
  features stay blocked until the owner resolves them;
* execution IPC: each frame is executed and answered at most once, whatever is lost
  or torn; a service never acts on what its journal does not hold; a quarantine is
  for ever;
* Developer runner: an answered Stop is not lost, and no file is written and no
  command begun after it; every run ends; success only on the bytes the reviewer saw; one model answer per
  attempt; no work beside an unresolved publication; no feature left running or
  under review with nobody at work;
* Developer publication: every effect has an intent on record before it; only the
  reviewed commit is merged; done means merged, abandoned means never merged.

## 2. Modules

| Module | Models | Notes |
|---|---|---|
| `StepKernel` | the step kernel, the host's cancellation timer, Emergency Pause of remote work, startup reconciliation | one action per committed transaction |
| `StepLifecycle` | abstract promise: queue, run, stop or lose, finish | `StepKernel` implements it |
| `MCStepKernel` | instances and symmetry | |
| `StepKernel_proofs` | connections, leases, pause, finished steps | TLAPS |
| `StepLifecycle_proofs` | limits, sequence numbers, journal, coding results, the refinement | TLAPS, on `StepKernel_proofs` |
| `FeatureConveyor` | queue, lease, packets, gates, publication, owner resolution, orchestration, pause, restart | |
| `MCFeatureConveyor` | instances | |
| `FeatureConveyor_proofs` | lease, ledger, effects, abandonment | TLAPS |
| `FeatureGates_proofs` | queue, dependencies, resolution, the chain of gates, types | TLAPS, on `FeatureConveyor_proofs` |
| `ExecutionIpc` | the journals of broker and executor, their serve loops, the pipe between them, the frames the master signs | |
| `DispatchLog` | abstract log: a frame is acknowledged at most once, in sequence, by the broker before the executor | `ExecutionIpc` implements it |
| `MCExecutionIpc` | instance and symmetry | |
| `ExecutionIpc_proofs` | journals, quarantine, the refinement | TLAPS |
| `DeveloperRunner` | the runner task, the publication task as a few effects, the owner's requests, recovery at start | |
| `MCDeveloperRunner` | instances | |
| `DeveloperRunner_proofs` | threads, model budget, publication barrier, attended features, reviews, success | TLAPS |
| `DeveloperStop_proofs` | what an answered Stop is worth | TLAPS, on `DeveloperRunner_proofs` |
| `DeveloperPublication` | one publication with every intent, command and receipt, and what others do on GitHub | details what `DeveloperRunner` abstracts |
| `PublicationPromise` | abstract promise: done only if merged, abandoned only if not, both final | `DeveloperPublication` keeps it |
| `MCDeveloperPublication` | instance | |
| `DeveloperPublication_proofs` | intents, merges, the refinement | TLAPS |

A refinement mapping stands at the end of the module that is mapped, so that the run
and the theorem are about the same formula.

A definition `X_Variant...`, or one whose comment begins with "Bug:", is a plausible
bug in the code behind the definition after it. No specification uses it.
Substituting it must break the property it is listed for in `PROJECT.json`.

### How the modules correspond to the code

*Transactions of the master.* An operation that returns an error rolls back and
stutters; an action's guard is the conjunction of the conditions under which it
commits. Everything the transaction writes is in the action, including the event or
ledger row. Requests carry expected revisions. A request that names an old revision
is rejected, so an action whose caller reads and writes at once compares nothing;
only a call that spans transactions (a lease's epoch and sequence, a packet, a
review call, a publication) carries its binding in the state.

*StepKernel.* `registry`, `conn`, `stepStatus`, `attStatus`, `job`, `cancel` and
`artifact` are the columns of `master_devices`, `master_connections`,
`master_steps`, `master_attempts` and `feature_result_artifacts`.
`stepEvent`/`deviceEvent` keep the last journal event per subject: what a client
that replays the journal believes. `now` is the wall clock, which may be set back
when `ClockMayStepBack`; `timers` hold the monotonic sleeps of
`schedule_cancellation_deadline_reconciliation` (`main.rs:6762`). Expired leases
are reconciled where the code does it, inside `LeaseNextStep`, and are rolled back
with it when no step is eligible. Late, duplicated and reordered messages are the
same action with an old attempt or sequence number; stuttering when refused.
Device certificates and message signatures are outside the model.

*FeatureConveyor.* `status`/`lrev`/`ledger` are the lifecycle row and its
evidence rows (a row records which digests were written, because
`feature_resolution_origin_tx` reads them back). `position` is the column
`queue_position` (0 where there is no row). `integration`, `validation`,
`review`, `publication` hold the bindings (lifecycle, queue and pause revision)
each gate stores and the next gate compares. `reviewer` and `publisher` are the
host threads between two transactions; each is at most one because the host
serialises them with `try_lock`. `remote` is what GitHub executed, which no
table knows for sure. `packet` follows the life `StepLifecycle` describes, the
interface to the step kernel. Abstractions worth knowing:

* a feature is claimed at most once, so its lease and snapshot are identified
  with the feature, and a feature has one candidate (the code has no replacement
  candidate);
* the preparation half of claim and integration is left out: the finalising
  transaction checks everything again;
* `granted` is whether the grant revisions in the approved specification still
  hold; revocation, expiry and re-grant are one step;
* the active-processing budget is an arbitrary choice of `CoordinateOrchestration`
  once a checkpoint exists, the retry time an action of its own;
* `record_artifact_integration_conflict` (`lib.rs:1974`) changes no lifecycle
  state; `advance_feature_lifecycle` (`lib.rs:5466`) and `mark_feature_succeeded`
  (`lib.rs:5694`) have only test callers; none is modelled;
* `coordinate_feature_orchestration` has no production caller either, but owner
  pause, resume and activation are HTTP routes that depend on its checkpoints, so
  it is modelled. The findings below that need a checkpoint say so.

*ExecutionIpc.* `file` is the journal of each service as the disk holds it, with a
flag for a torn end; `mem` is the ledger a running service holds, which may be ahead
of the file after a refused write and may describe a file that a failed sync left in
doubt. `stage` is the place of a service in its serve loop, so that a crash can come
between admission and completion, between the two journals, and before or after an
answer. A frame is an identity with a kind, a sequence number and what verification
finds in it; the master may send any signed frame again at any time. A service that
meets an error stops, and a restart opens the journal again.

*DeveloperRunner.* A step is one database transaction, one access to a latch, one
file write or one outside call. `flag` are the atomics of `Engine`; `gate` is
`effect_gate`; the database mutex is a variable only where Start and Repair hold it
across latch accesses, since elsewhere it covers one step. `run`, `publish` and `req`
are the runner task, the task that talks to GitHub and the requests in flight, each
with its program position. A request with more than one access to shared state has one
action for each: Clear checks, saves, and clears the two latches one by one; Repair
reserves and then makes its stores; a publication saves an intent (`PublishIntends`), looks
at the cancellation (`PublishChecks`), and the command takes effect some time later, or
not (`PublishLands`), under no gate. Requests of all kinds overlap.
A candidate gives every file of `Path` a new version, and
`disk` holds the version of each file, so that half a candidate, an edit by somebody
else and a candidate that differs from the reviewed bytes are distinct. The
comparison of `recovery_scan_epoch` is kept as its answer. Auto AI repair is off and
there is no OpenCode executable.

*DeveloperPublication.* A commit is named by the base it is built on, since its tree,
author and date are frozen; the base branch is a counter of its commits. The record
keeps what the code decides on: stage, status, base, pull request, merge, the number
of events, which stages have an intent, and whether an effect has a receipt without
one. A request to GitHub can be decided after the runner stopped waiting for it. The
owner and others open, close and merge pull requests and move the base and the branch
at any time; nobody reopens a closed pull request.

## 3. Runs

| Run | Instance | Shows |
|---|---|---|
| `step_contended` | 2 devices, 2 steps (one that Emergency Pause stops, one that it leaves alone), 2 attempts, `MaxJobs` 1, fairness, forward clock | `TypeOK`, `LiveAttemptsOnActiveConnection`, `StepLeasedIffLiveAttempt`, `WithinLimits`, `NextMessageIsNeverAReplay`, `JournalAgreesWithTables`, the refinement `ImplementsLifecycle`, and `PendingCancellationResolves` |
| `step_coding` | 1 coding worker, 2 dispatches, `MaxJobs` 2, clock may step back | `OneAttemptPerDevice`, `PauseQuiescesRemoteWork`, `CodingOutcomeIsBoundAndBacked`, `TerminalStepsStay` |
| `conveyor_line` | 2 independent features, 1 packet | `TypeOK`, `LeaseHeldUntilReleased`, `QueueMatchesLease`, `LedgerExplainsStatus`, `EffectsOnceInOrder`, `MergedThenAbandonedIsReconciled` |
| `conveyor_gates` | 2 features, the second depends on the first, 2 packets, fairness | `DependentsWaitForSuccess`, `ResolutionIsFinal`, `PublicationSettles` |
| `conveyor_orchestrated` | 1 feature, 2 packets, orchestration | `MergeBackedByGates` |
| `execution_ipc` | 2 frames, 2 sequence numbers, journals of 5 records | `TypeOK`, `JournalReloads`, `MemoryIsDurable`, `QuarantineIsFinal`, and the refinement `ImplementsDispatchLog` |
| `developer_stop` | 1 feature on GitHub, 1 repair; Start, Repair, one Stop or Emergency Pause, Clear, reconciliation, removal, shutdown; fairness | `TypeOK`, `StopIsNotLost`, `NoEffectAfterStop`, `RunEnds` |
| `developer_queue` | 2 features, the first on GitHub, 1 repair, 2 reviews, 1 crash, 1 edit from outside | `ModelBudget`, `BarrierHolds`, `RunningIsAttended`, `PendingIsReviewing`, `SuccessIsReviewed` |
| `developer_publication` | 1 publication, 2 commits on the base besides the first, 2 pull requests, 14 events | `TypeOK`, `EffectsAreIntended`, `OnlyReviewedMerges`, and the refinement `KeepsPromise` |
| `pause_after_cancel`, `publication_after_stop`, `clear_frees_run` | 1 feature | violated: see section 5 |

**Bounds of the master.** `MaxTime` 1 with `LeaseDuration` and `AckDeadline` 1
separates before and at each deadline; `PendingCancellationResolves` speaks of
cancellations whose deadline the clock reaches, which are those of time 0.
`MaxEpoch` 2 gives a stale and a current connection for every device. `MaxSeq` leaves
room for a lease and its result or cancellation on one connection. Two attempts let a
step be leased, lost and leased again. Two features are enough for one to hold the
lease while the other waits, is reordered or is claimed next; `MaxQueueRev` 4 lets one
reordering happen after a claim with two features enqueued. `MaxPauseRev` 2 is one
pause and one resume. `MaxReviewCalls` (3 in the code) is 1 or 2, so that the budget is
exhausted; `MaxPackets` (3 in the code) is the number of packets. `MaxLifecycle` 7 allows
an owner pause and resume at publishing, the latest stage that has a gate after it.
The seven publication actions are all modelled.

**Bounds of the IPC.** Two frames give a current and an old one, or two frames that claim one
number. Five records hold the opening record and the admission and completion of two
frames, so the size limit (1 MiB in the code) is reached by a quarantine after them.
Two attempts (100 in the code) separate a retry from giving up.

**Bounds of the Developer build.** One repair and one or two reviews (`RepairLimit`,
`ReviewLimit`) let each budget be used and run out. One crash can fall anywhere, and
recovery is followed by every request. A feature has one file and at most
three versions of it: the first candidate, the repaired one, and an edit from outside.
`developer_stop` has no crash, because a crash ends the promise it is about, and one
version, since a Stop does not tell candidates apart: whichever of Start and Repair gets
the usable answer writes it. All its requests overlap, each any number of times except
that `MaxStops` allows one Stop or Emergency Pause. That is enough for a Stop to be lost by
what others do; two of them, one after the other, are left to the proofs, which hold for
every `MaxStops`. `developer_queue` leaves Stop out; its second feature is completed
without a publication, so that both ways to success are taken. `EventLimit` (80 in the code) is 14: a publication without failures uses
fewer, one that is reconciled runs into the limit. Two moves of the base and two pull
requests allow a move before and after the merge, and a pull request that was closed and one
that replaced it.

**Deadlock** is checked except in `execution_ipc`, where both services may end with a
torn or quarantined journal, and `developer_publication`, where a publication may be
finished.

**Symmetry.** Attempt identities and frames are
interchangeable; `step_coding` and `execution_ipc` use it. The runs with fairness do not.

**Fairness.** `StepKernel`'s `FairSpec` assumes that time passes and that a
scheduled timer whose sleep ended runs: both hold of a live process. Nothing is assumed
of workers or owners. The property is checked for a clock that is not set back:
the one-shot timer compares the wall clock with a stored deadline, and a clock set
back makes it fire too early. `FeatureConveyor`'s `FairSpec` assumes that the
publishing host thread takes its next step, which holds because each GitHub call
has a deadline (`GITHUB_PUBLICATION_ACTION_DEADLINE`) and the loop does nothing
else; nothing is assumed of the owner, the provider or GitHub's answer.
`DeveloperRunner`'s `FairSpec` assumes that a runner task, a publication task and a
Stop, Start or Repair that is being served take their next step: each has a thread,
every outside call has a time limit, and a thread that waits for the effect gate or the
database is not passed over for ever (strong fairness of the runner and of Stop, which
meet at the gate). Nothing is assumed of requests that were not made.

**What the proofs take over.** A run checks a property in the instance where its
interesting cases happen; that it holds in the other instances too, and beyond the
bounds above, is what section 4 adds. `conveyor_orchestrated` checks one property for
this reason. The inductive invariants of section 4 were checked with TLC on the same
instances before they were proved.

## 4. Proofs

`StepKernel_proofs` proves, for all devices, steps, attempts, capabilities, limits
and clock behaviour allowed by `ConstantsAssumption`:

* `TypeCorrect`, `ConnectionsHoldLiveAttempts`, `LeaseExclusion`,
  `DeviceExclusion`: `Spec => []P` for the invariants of the same content;
* `PauseQuiesces`: `PauseQuiescesRemoteWork`;
* `TerminalStepsAreFinal`: the action property `TerminalStepsStay`.

The inductive invariant `IInv` is `TypeOK`, `JobsKnown` (an attempt that was handed
out has a job), and the three structural invariants together. None of those three is
inductive alone: that a disconnect frees *all* attempts of a device needs them to
be on the active connection, that the step rows then agree with the attempts needs
a step to have one live attempt, and that a new lease does not break the second
needs the step to be queued, hence without a live attempt. Almost every operation only
removes live attempts, so the lemma `Shrink` proves the invariant for any
transaction that removes a set of live attempts with their steps' leases;
`TeardownPreserves` and `DisconnectPreserves` reduce disconnects, replaced
connections, revocation, deadlines and restarts to it. Only `LeaseNextStep` adds an
attempt. `TerminalStepsAreFinal` and `PauseQuiesces` follow action by action from `IInv`.

`FeatureConveyor_proofs` proves, for all features, dependencies, packets, review
budgets and revision bounds allowed by `ConveyorAssumption` and `NoRowAssumption`
(an existing publication row is not the absent one):

* `LeaseSafety`: `LeaseHeldUntilReleased`;
* `LedgerSafety`: `LedgerExplainsStatus`;
* `EffectSafety`: `EffectsOnceInOrder`;
* `AbandonmentSafety`: `MergedThenAbandonedIsReconciled`.

Its `IInv` adds to these what the transactions leave unsaid. `EffectsIntended`: the
remote executed at most the actions that have a durable intent. `PublisherKnows`: the
action the host thread holds is the one whose outcome is missing, it was not
executed before the call, and it was if the thread holds evidence; without it
nothing forbids a second push after the first. `AbandonedReconciled` speaks of the
*intent* to merge rather than the merge, because the intent is what
`publication_merge_effect_possible_tx` reads and it precedes the effect.
`PausesResumable`: a checkpoint that records a pause names a gated stage to resume,
so that neither a resume nor a coordination moves a feature out of the statuses that
hold the lease. A lifecycle change by the holder of the lease is one lemma
(`RowPreserves`, on `MoveKeepsLedger`), a step of the publishing thread without
one another (`HostPreserves`, `PhasePreserves`), and a step that touches neither
a third (`QuietPreserves`); enqueueing, claiming, completing the merge or the
last action, and abandonment have proofs of their own.

`StepLifecycle_proofs` adds, from the same assumptions:

* `LimitsHold`: `WithinLimits`; `WorkersAreNeverReplays`: `NextMessageIsNeverAReplay`;
  `JournalIsAccurate`: `JournalAgreesWithTables`;
* `CodingOutcomesAreBacked`: the action property `CodingOutcomeIsBoundAndBacked`;
* `LifecycleImplemented`: the refinement `ImplementsLifecycle`.

A proof with one case per operation and property would repeat itself, so the lemma
`Effects` says once what the twenty-two operations do to attempts, steps and
connections: nothing, connect, lose attempts, insert a step, ask attempts to stop,
lease, or end an attempt. Every result is a proof by cases over these seven. The limits need
the sets of live attempts and open steps to be finite (`Bounded`), since a cardinality
says nothing of an infinite set; the coding results need `OnItsTarget`, which ties a
coding attempt to the device its step was dispatched to. The refinement maps a step to
its phase and picks its holder with `CHOOSE`; `View` says that the invariant leaves only
one choice, after which each effect is shown to be one abstract action.

`FeatureGates_proofs` adds to the conveyor, from the same assumptions:

* `QueueSafety`: `QueueMatchesLease`; `DependencySafety`: `DependentsWaitForSuccess`;
  `MergeSafety`: `MergeBackedByGates`; `ConveyorTyped`: `TypeOK`;
* `OnlyOwnerReopens`: nothing but abandonment or an owner pause changes a cancelled or
  quarantined feature, in any instance;
* `ResolutionFinal`: `ResolutionIsFinal` when `OrchestrationEvidence` is false. The
  hypothesis is needed: `pause_after_cancel` refutes the property without it (section 5),
  and `OnlyOwnerReopens` says that this is the only way.

For the queue and the lifecycle a step does one of a few things to status, revision,
lease and position (`LineEffects`). `MergeBackedByGates` looks at rows that were written
long before the merge, so it is not inductive. `Chain` splits it at every gate: an integration took
all packets coded until then and lies before the present revision; a
validation is of that integration; an approval is of that validation and is not followed by
another decision; a publication is of that approval. The first part needs a fact of the packets
(`PacketsKept`): a succeeded packet never changes and a new one carries the present
revision, so nothing is added later to what was integrated.

`ExecutionIpc_proofs` proves, for all frames, sequence numbers, retries and journal
sizes allowed by `IpcAssumption` and `OptionAssumption` (the marks for "no
acknowledgement" and "service is down" are not values of those types):

* `TypeCorrect`, `JournalsReload`: `JournalReloads`, `MemoryDurable`: `MemoryIsDurable`;
* `QuarantineFinal`: the action property `QuarantineIsFinal`;
* `DispatchLogImplemented`: the refinement `ImplementsDispatchLog`.

`IInv` says that every record names its predecessor (`Chained`), that a running service
holds the end of an intact journal (`RunningIsHeld`), that what a service is working on
is on record (`StageIsRecorded`), and for the refinement that an acknowledgement
on record is of a signed frame, below the next number (`RecordedAcks`), that the numbers
have no gap (`Contiguous`) and that a pending frame carries the next number and, at the
executor, was acknowledged by the broker (`PendingIsNext`). Without the last part a
restart that recovers a pending frame could acknowledge one twice or out of order. `Written` states
once what each outcome of a write leaves in the file.

`DeveloperPublication_proofs` proves, for every length of the base branch, number of
pull requests and event limit allowed by `PublicationAssumption` and `TaskAssumption`
(the mark for "none" is neither a pull request nor a task):

* `TypeCorrect`; `EffectsIntended`: `EffectsAreIntended`;
* `OnlyReviewed`: the action property `OnlyReviewedMerges`;
* `PromiseKept`: the refinement `KeepsPromise`.

The saved record lags behind the copy the task works on; `TaskExtendsRecord` says at
which stage which part of it has been saved, which is what makes an intent precede its
effect. `NumbersExist` ties the requests that are still under way to the recorded
candidate, so that a merge decided late is of that candidate. `OutcomeStands` says of an
abandoned publication that its pull request is closed, or that it never had a branch and no
request is under way: only that makes "never merged" stable while others keep acting
on GitHub. Their actions, which all leave record, task and feature alone, are one lemma
(`OutsideStepOk`).

`DeveloperRunner_proofs` proves, for every queue, set of connected projects, set of
files, limit and mix of requests, in every overlap, allowed by `RunnerAssumption` and
`OptionAssumption` (the mark for "none" is not a value of the types it is used in):

* `RunnerTyped`: `TypeOK`; `BudgetKept`: `ModelBudget`; `Barrier`: `BarrierHolds`;
  `Attended`: `RunningIsAttended`; `Reviewing`: `PendingIsReviewing`;
* `SuccessReviewed`: the action property `SuccessIsReviewed`.

None of these is inductive, because each is kept by what a thread learned several steps
earlier. `Inv` says in two parts what the threads know. `Threads` is about each other:
`running` is set while a Start is being admitted or a run exists, the database is held
across steps by a Start or a Repair and by nobody else, the claim of publications has one
holder, a run that waits for its publication and that publication name the same feature,
the gate belongs to a write, a spawn or a Stop. `Work` is about the features: `RunFits` and
`PublishFits` say for every program position what the entry in hand looks like there;
`Counted` ties the saved answers to the repairs, with one answer less while a reserved
repair has none; `PublicationFits` binds a publication to the approved packet of the newest
review; `RemoteFits` says that only a merge completes; `Clear` that nobody starts
while a publication is unresolved. That a completed feature was reviewed then needs only the
step that completes it: `CompletionProceeds` compares the files again, and at the end of a
publication the candidate is the approved packet by `PublicationFits`. Each step of
the runner is reduced to what it leaves as the entry in hand (`EntryFits`, `RunnerKeeps`),
each step of a publication to `PublishGoesOn` or `PublishOver`, each request to
`RequestKeeps`, and a crash to an entry at rest (`RecoveredFacts`, `RestFits`).

`DeveloperStop_proofs` adds:

* `StopKept`: `StopIsNotLost`;
* `EffectsHonourStop`: the action property `NoEffectAfterStop`;
* `OnlyClearUnlatches`: the late stores of a Clear are the only steps that take a latch from
  a run or a publication that is active.

Which Stops count is part of the statement, for the code has no single point at which
requests are put in order. The history `stopped` knows of an answered Stop that it was

* `"met"`: answered while the run, the publication, or the Start that launched the run
  was under way, and asked for after that Start read its epoch;
* `"earlier"`: answered during a Start or Repair but asked for before it. It was saved
  before the Start or Repair was admitted, which therefore comes after it;
* `"raced"`: answered between the check of a Clear and its last store. The Clear
  takes the latch away (`clear_frees_run` in section 5); the theorems are about all the others.

Start clears the latches one after the other without the effect gate. What saves a Stop
that is answered meanwhile is that it moved the epoch (`StartKnows`) and that no run and
no publication exists while a Start holds the database (`Threads`). Repair looks at no
epoch: a Stop that begins after the reservation may set the cancellation before Repair
stores 0 over it, but it has to save its state under the database mutex, which Repair
holds until the run is launched, and sets the latches again afterwards (`RepairHolds`).
`ClearMissed` says that what is active while a Clear is under way has met no other Stop: nothing
was active at its check. `GateUnstopped` says that the runner has the gate only when no Stop
was answered: a Stop waits for the gate, and the runner takes it only while it is not
cancelled, so a write or a spawn that was checked before the Stop ends before the answer.
There is no such gate for publications. A command that passed its check may still
land after the Stop, and what is proved is that no further command begins; what a command
that lands late may do is the subject of `DeveloperPublication`.

Only model-checked: the liveness properties `PendingCancellationResolves`,
`PublicationSettles` and `RunEnds`. Liveness under fairness is out of the prover's reach, as
is `ENABLED`.

## 5. Where the code and its documents disagree

Three disagreements are runs:

1. `pause_after_cancel`: an owner pause and resume revives a cancelled or
   quarantined feature (`lib.rs:4028`). Needs an orchestration checkpoint.
   `ResolutionIsFinal` is therefore a passing property without orchestration and a
   violated one with it; the safety of the merge (`MergeBackedByGates`,
   `EffectsOnceInOrder`, `MergedThenAbandonedIsReconciled`) survives.
2. `publication_after_stop`: a Stop that is answered between the approval of the review
   and the admission of the publication is undone for the publication
   (`developer_main.rs:10601-10604`), which then begins to push and merge.
3. `clear_frees_run`: a Clear looks whether work is active without a lock
   (`developer_main.rs:21541-21550`) and clears the latches after it has given the
   database back (`21557-21558`); a run that was started and stopped in between goes
   on, although "Clear Emergency Pause only clears that latch; Resume remains a separate
   action" (`docs/developer-build.md:270-271`).

Others were met on the way. Their properties are defined in the modules and each can be
reproduced by naming it in the configuration given here:

* `FeatureConveyor`, in the instance of `FeatureConveyorPauseAfterCancel.cfg`:
  * `OwnerCancelAvailable`: after Emergency Pause asked a running packet to stop, the
    owner cannot cancel the feature until the packet is acknowledged or overdue
    (`lib.rs:11845`, `12060`), although the comment at `lib.rs:5640` says
    cancellation remains available;
  * `ReconciledFeatureCanBeAbandoned`: a feature cancelled or quarantined in
    `verifying_main` can never be abandoned, because the row the publication writes
    (`lib.rs:3045`) is not the one abandonment requires (`lib.rs:14811`);
  * `ResumedReviewIsAdmitted`: a pause and resume (provider backoff or owner) shift the
    lifecycle revision by two and the review gate never admits the feature again
    (`lib.rs:16165`);
  * `RestartQuarantinesUnresolvedEffects`: a feature paused over a stale checkpoint with
    a publication under way is left resumable by a restart (`lib.rs:11484`, `16719`).
* `DeveloperRunner`, in the instance of `DeveloperRunnerStop.cfg`, with the
  requests and bounds given:
  * `StateLoads` (Start and Repair, 2 crashes): after a crash between the complete
    publication receipt and the local promotion, Repair accepts the feature
    (`developer_main.rs:5618-5695`), and the state it saves is refused by the next start
    (`13602-13626`); `docs/developer-github-publication-design.md:130-133` describes
    a resume;
  * `ReviewedWasValidated` (Start, 1 edit from outside, 2 versions): the packet for the
    reviewer is read from the project after validation and is not compared with what was validated
    (`15066-15073`), whereas the design says the validated candidate is the one that is
    approved (`docs/developer-github-publication-design.md:31-32`);
  * `PausedCanResume` (Start, Stop, Repair, shutdown, Emergency Pause and Clear): the
    feature left by a Stop can be quarantined, in which case the "Resume continues" of its
    message (`13654-13661`) is refused.
* `DeveloperPublication`, all of them ways in which a publication stops being resolvable,
  none a breach of what it must not do: files a crash leaves in the private checkout make
  every later preparation fail, although it is meant to be clean
  (`docs/developer-github-publication-design.md:74`); a second intent to prepare, or a
  base that moved meanwhile, makes abandonment impossible, although it "clears a
  permanent queue barrier" (`:189`); a pull request opened by hand is taken over, which
  leaves a receipt without an intent that the next start refuses to load; `EVENT_LIMIT`
  events are used up by reconciling; a merged pull request is not recognised once the
  base has moved on.

Smaller observations without a property: a Stop that meets the completion ends the feature as
`failed` rather than `paused`; a refused reconciliation or abandonment leaves its claim
behind for a moment in which the runner's own claim fails; a quarantine whose write fails
is dropped by the broker (`assemblywright-broker/src/ipc.rs:153`) and holds only until the
service stops; an empty journal left by a crash never opens again
(`assemblywright-protocol/src/execution_ipc_state.rs:97-138`); an executor that is asked
again after the frame expired quarantines itself; one validation attempt per candidate
and one candidate per feature mean that a validation lost to a crash blocks its feature
(`lib.rs:10388`); and `updated_at_ms >= created_at_ms` refuses every update of a
row while the wall clock is behind its creation (`lib.rs:10619`).

## 6. Not modelled, and the plan

Not modelled because nothing there is protocol state: Git and file operations,
process trees and containment, Windows service plumbing, prompt and packet
construction, message-shape and record validation, settings, the apps, the CLI and the
scripts. A large part of the sources is of this kind, or tests beside the code; a
definition is mapped only to the lines it translates, so the share of mapped lines is
small although the protocols that keep durable state are largely covered.
`PROJECT.json` gives the reason part by part.

Left out of the Developer build: Auto AI repair and its escalation, the OpenCode tool
path and its approvals, planning beyond the enqueue that ends it, chat, the GitHub account
and repository set-up, the inference lease, and failures of the database other than
those of a Stop.

Next, in this order:

1. `AssemblyLine`: the full-machine grants, effect intents and receipts of
   `lib.rs:7404-9577` with their startup reconciliation, composed with `ExecutionIpc`;
2. `FeatureCoding`: `StepKernel` and `FeatureConveyor` composed through the coding
   dispatches instead of the `packet` abstraction;
3. Auto AI repair and tool approvals of the Developer build, the local runner and local
   GitHub publication, planning effects, device enrolment, the agent's relay.
