# A verification of morzer

morzer is one Go binary that installs, updates, rolls back, backs up and watches a
self-hosted Docker Compose product on one machine. There is no daemon: every invocation
is a process of its own, started by an operator or by a systemd timer, and everything
that outlives it is a file under the installation's root. What makes it hard is not
computing but *stopping in the middle*: a killed process, a cut cable, a full disk, a
second operator, a timer that fires during a migration, an upgrade of the manager between
a crash and its `--resume`. These modules are about that.

Paths below are relative to `src/internal` unless they begin with `rfcs/` or `pages/`.

## 1. Inventory

| Component | Code | State it keeps | Operations | What makes it correct |
|---|---|---|---|---|
| Step engine | `lifecycle/engine` | an operation's record, in memory and in the journal; the work of its steps | run, resume, compensate, cancel, acknowledge | the record never claims more than was done, nothing unsafe is repeated, compensation is newest-first and stays past the point of no return |
| Operation gate | `lifecycle/ops/{ops,apply,update,rollback,stop,status}.go` | the plan a command holds while it waits | plan, wait, re-check, run, acknowledge | a plan made without the lock is as good as one made under it |
| Operation journal | `infra/state/state.go` 477-713 | `operations.jsonl` | append, read, list unfinished | the last record that was written is the one that is read |
| Release pointers and store | `infra/state/state.go` 399-460, `lifecycle/ops/{prune,fetch,ingest}.go`, `domain/image.go` | `current.json`, `previous.json`, the release directories, the runtime's images | promote, roll back, fetch, prune | there is always a release to go back to, it is on disk, and its images are there |
| Installation state | `infra/state/state.go` 95-398 | `installation.json` and its schema version | load, migrate, save | a read-modify-write under the deployment lock |
| Deployment lock | `infra/lock` | an flock per name and an owner sidecar | acquire, wait, release, name the owner | one writer; the death of a holder releases |
| Update pipeline | `lifecycle/ops/update*.go` | staged release, restore point | stage, back up, migrate, converge, record | the database and the release agree |
| Convergence | `lifecycle/ops/{apply,restart,rotate,task}.go` | rendered files, containers, "replaced" flags | render, replace, restart, verify | a resumed convergence replaces what the first did not |
| Channel | `lifecycle/ops/{channel,channel_marks,fetch}.go` | candidate, marks, release records | poll, stage, unattended tick | no release goes backwards by itself; a failed install is tried once |
| Notification outbox | `lifecycle/ops/notify_*.go` | a directory of undelivered events, the count of those dropped | keep, send, forget a target | one sender at a time, a removed target hears nothing, a target that answers is caught up with |
| Self-update | `lifecycle/ops/self_update.go` | the binary, a record in each journal | lock every installation, replace | the manager moves forward only, and every journal says when |
| Backup, restore, retention | `lifecycle/ops/{backup,recovery*}.go`, `adapters/backup`, `ports/backup.go` | archives, volumes, the restore's record | dump, seal, copy, prune, restore, resume | retention keeps what a restore or an update may need; a restore puts back one moment |
| Backup targets | `lifecycle/ops/targets.go`, `adapters/target` | remote copies | push, clean up, list, fetch | what a target lists is whole |
| Secrets | `adapters/secrets`, `infra/agecrypt` | an encrypted document | set, edit, rotate | an edit is not lost to another |
| Attestations | `lifecycle/ops/attest*.go` | a hash chain of records | append, push, prune, verify | the chain stays verifiable from a pruned start |
| Configuration | `lifecycle/ops/{config,settings}.go` | settings in `installation.json` | validate, set | values are valid together |
| Init, import, remove | `lifecycle/ops/{init,remove}.go` | the whole root | create, adopt, delete | sequential |
| Fleet | `lifecycle/ops/fleet_*.go` | reports in an object store | publish, list | nothing depends on it |
| Reports | `lifecycle/ops/{doctor,status,inspect,support,metrics}.go` | none | read | read-only |
| Adapters, infrastructure, UI | `adapters`, `infra`, `cli`, `ui`, `events`, `ports`, `schema`, `release` | none that others read | - | external, pure, or presentation |

How they interact. A command loads the installation and the release records, reads the
journal and builds a list of steps, all without the lock. It takes the **deployment
lock**, checks again what it read, and hands the list to the **step engine**, which
journals every transition and calls the steps; the steps change containers, files, the
release pointers and the stop record. The process may die at any instruction. The next
command learns of it from the journal alone: `gateUnfinished` refuses, `--resume`
continues, `status --clear-intervention` acknowledges. A timer runs the channel's tick as
one more such command. There is no shared memory between commands, so every interaction
is a file, the lock, or the machine itself.

The hazards of the code are listed in `PROJECT.json` with the line at which each bites
and the properties that would catch it. What is known to go wrong and no run states is
under "Limits" in section 4.

## 2. Modules

| Module | What it is |
|---|---|
| `OperationLifecycle` | abstract: what the journal promises about one operation |
| `StepEngine` | one operation as a list of steps; implements `OperationLifecycle` |
| `SerialDeployment` | abstract: commands one after another, each deciding on the state it begins in |
| `DeploymentGate` | commands of several processes around the deployment lock; implements `SerialDeployment` |
| `Journal` | the journal file under failing writes, crashes and power cuts |
| `Convergence` | what the steps of apply, update and rollback do to the machine, and what their compensators put back |
| `ImageStore` | the release stores of several installations and the image store they share: update, fetch, roll back, prune |
| `Channel` | one installation that follows a channel: a timer and an operator beside it |
| `Outbox` | undelivered notifications: writers without a lock, a sender with one, a target added and removed |
| `ManagerUpdate` | the named locks, their owner files, and the replacement of the manager under all of them |
| `Backup` | backups, their copies on targets, retention, and restores over several runs |
| `MC_StepEngine`, `MC_DeploymentGate`, `MC_Channel`, `MC_Convergence`, `MC_ImageStore`, `MC_ManagerUpdate` | the instances TLC checks; the others need none |
| `StepEngineProofs`, `DeploymentGateProofs`, `HostProofs` (of `Journal` and `ManagerUpdate`), `ConvergenceProofs`, `ImageStoreProofs`, `ChannelProofs`, `OutboxProofs`, `BackupProofs` | the theorems |

How they divide the system. `StepEngine` and `DeploymentGate` meet in the durable record:
what the engine does with one operation between its first record and its last is
`StepEngine`; what *other* commands may do meanwhile, and what they make of the record it
leaves, is `DeploymentGate`, where a run is reduced to the writes others read. `Journal`
is the file under both. `Convergence` turns the engine round: the engine is only the
outcome of each step, and the machine is what the steps change. The remaining four take
an operation as `DeploymentGate` leaves it (re-checked under the lock, ending in one of
the engine's outcomes) and add what their part alone writes and reads: `ImageStore` what
is on disk and in the runtime, `Channel` what is staged, `Outbox` what is told,
`Backup` what is kept. `ManagerUpdate` is the locks themselves, which all the others
take as given.

### StepEngine

| Model | Code |
|---|---|
| `run` | the locals of `Engine.Run` and `execute` (engine.go:100-240) and `State` (step.go:100-143) |
| `rec`, `journal` | `OperationRecord` in memory, and its newest line in the journal |
| `effect` | what a step has left on the machine: external to the engine |
| `ranSafe`, `passed` | history variables: read by properties only |
| `Start`, `Resume` | `Run` up to the loop, with `resumePoint` and `findResumable` |
| `SkipCredited` ... `VerifySucceeds` | one iteration of the loop: check, execute, verify, each with its failure |
| `StopBetweenSteps`, `SettleInterrupted` | a cancelled context, between steps and inside one |
| `SettleAbort`, `BeginCompensation`, `CompensateNext`, `SettleCompensated` | `handleFailure` and `compensate` |
| `Cancel`, `Crash` | Ctrl-C or `--timeout`; SIGKILL or a power cut, between any two steps of the model |
| `ClearIntervention` | `status --clear-intervention` |

A step is a record of what the engine reads of it: policy, `Idempotent`, `Restartable`,
whether it has Check, Verify and Compensate, whether it declares that a half-done run
needs a person, and whether it may pass the point of no return. `Plan` gives the steps
as each *build* of the manager plans them, because a resume may be by another build.
`CompensableAssumption` (a step with a compensator is idempotent, in every build that
knows it) and `OptionalAssumption` (what follows a step that may fail is safe to start
again: those are the prunes, idempotent and last) hold of every step list in
`lifecycle/ops` that accepts `--resume`. `UndoAssumption` holds of every step list: the
prunes, the only steps that may fail (backup.go:444 and 537, update.go:1076), have no
compensator and leave nothing a person must repair, and the migration, the only step that
passes the point of no return, does it last in its Execute and has no Verify
(apply.go `stepMigrate`). A record names the build that wrote it, as `ManagerVersion` does
in the journal, so a property of a final record can speak of the plan it was run with.

### DeploymentGate

A command is one invocation. Its actions are its reads, in the order the code makes them
(`Invoke`, `ReadCurrent`, `ReadPrevious`, `ReadJournal`), the lock (`TakeLock`), the
re-checks under it (`StillHolds`: `refuseIfStoppedNow`, `refreshResumable`,
`gateUnfinished`, `refuseMovedRelease`), the first record (`Run`), the writes others read
(`DemoteCurrent` and `PromoteNew`, the two of `SetCurrentRelease`; `RecordStop`,
`ClearStop`), their compensation, and the last record (`Finish`). Other commands may act
between any two. The start time of a record is in seconds, as in the code, and ties are
broken by the id's place in the order ids were drawn.

### Journal

The file is the sequence of what each append left: a whole record, a record without its
newline, or a part of one. `Readable` is what `readJournal` makes of it: it splits at
newlines and skips what does not parse, so a partial line takes the record glued behind it
along. `synced` is what a power cut cannot take.

### Convergence

| Model | Code |
|---|---|
| `machine` | `current.json` and `previous.json` with `SchemaAtInstall`, the `current` link, the release store, the rendered files and secrets, the containers, the database's schema |
| `journal` | the newest record of each type of operation: its status and the step it stopped at |
| `op` | the process: the operation's plan, the step it is at, which compensators its completed steps have armed, what the render kept aside |
| `Update`, `Apply`, `Rollback`, `ResumeUpdate`, `ResumeApply` | the commands under the lock, with `gateUnfinished`, `AssessRollback` and `--resume` (a rollback takes none) |
| `CheckCompatibility` ... `RecordState` | the steps of update.go, apply.go and rollback.go, each whole, half done, or cut off |
| `UndoConfiguration` ... `RestoreRuntime` | their compensators, newest first, each of which may fail |
| `SettleUndone`, `Succeed`, `Acknowledge` | the engine's endings and an operator's |

A rollback's steps are apply's with the move of the pointers after the first (`After`): so
load-secrets, which aborts, comes *before* anything changes in an apply and an update, and
*behind the move* in a rollback. An update may be asked for any release. What its migrations do (`Leaves`) and what it runs on
(`Runs`) is the release's; what its manifest says of both (`Produces`, `Reads`) is another
matter, and may be nothing (0). A hook may report the schema it left or nothing either; a
service reports nothing, and its success is taken for what the manifest declares.
`ClosesTheWayBack` is `migrate`'s decision to pass the point of no return, from a report, or
else the declaration, and what the fallback declares it reads: what is unknown forbids
nothing, but a fallback whose manifest cannot be read forbids going back (`known`).

### ImageStore

A command (`cmd`) holds the lock of its own installation; `asked` is one that waits with
the plan it made. `store`, `staging` and `half` are the release directories as a stager
and a `release fetch` (which holds no lock) leave them; `names` is the runtime's image
store, which every installation shares, and in which an alias of one release and a digest
of another may be one key (`ImageKey`, `domain/image.go`). A prune lists what it may
remove, reads the store of every installation one by one, withholds what any of them
names, and removes the rest (`ListReleases`, `ReadStore`, `Withhold`,
`PlanImageRemoval`, `RemoveTree`, `RemoveImage`); each of these is a step between which
the other installation acts. `loaded` is a history variable: the releases whose images
were loaded while no prune held a plan that could not know of them (RFC 0031, section 7,
accepts that race and names its repair).

### Channel

| Model | Code |
|---|---|
| `candidate`, `mark` | `update-candidate.json`; the followed channel's entry of the marks file |
| `release` | `current.json` with its `UpstreamDigest`, and the bundle of `previous.json` |
| `store` | which bundle has each version's directory |
| `memory` | what a process has read: the peeked artefact, or the plan it waits with |
| `forMark`, `delivered`, `settled` | history variables: read by properties only |
| `Peek`, `SeenMeanwhile`, `Refuse`, `Fetch`, `Stage` | `FollowChannel` and `stageUnderLock`: the peek and comparison without the lock, the comparison under it, the refusal, and the two writes of a staging |
| `Decide`, `PlanUnattended` | `RunUnattended` after its poll |
| `Ask`, `Run` | an operator's update, rollback or apply; the re-checks under the lock |
| `PlaceRelease`, `PointToPrevious`, `RecordRelease`, `Retire`, `Succeed`, `LowerMark` | the steps that write what a poll reads |
| `Fail`, `MarkInstallFailed` | the engine's other outcomes; the mark on the candidate |
| `End` | a refusal, a lock held by another, a write that fails, or a kill, at any point |

Artefacts are what a tag names (upstream digests), bundles what they hold (content
digests), and a bundle has a version: the code compares all three, and much depends on
which it compares where. The dates of a refusal and of a mark, kept to the second, are
their order: before, same second, after. An action takes the lock together with the first
thing done under it, because nothing in between is visible to another process. A failing
fetch, a bad signature and a prerelease are one refusal, as in the candidate's record; a
promotion is one write here (its two are in `DeploymentGate`). `--allow-older` is given
only where the update would be refused without it.

### Outbox

| Model | Code |
|---|---|
| `entries`, `dropped` | the files of the outbox directory, by event and target; the count of drops of each target |
| `outbox`, `deployment` | the two locks |
| `memory` | where each process is: its notifiers as it read them, its listing, the entry in its hands |
| `Wire`, `Notify`, `Write`, `List`, `Drop`, `Count`, `Tell` | a command's end: the notifiers are wired from the configuration as it began, tell, keep what was not taken, and drop what is over the bound, with no lock |
| `Flush`, `Busy`, `Take`, `Read`, `Post`, `RemoveEntry`, `CaughtUp` | the scheduled doctor's send and `notify flush` |
| `AddTarget`, `RemoveTarget`, `ForgetTarget`, `Forgotten` | the target's line in the configuration, and its entries under both locks |
| `answered`, `again`, `forgotten` | history variables |

### ManagerUpdate

`holder` is the flock, `sidecar` the owner file, which is written after the lock is taken
and removed before it is given back, in steps of their own; that the file itself can be
written and removed is taken for granted: the code ignores a failure of either, at the
price of a worse message and nothing more (lock.go:81). A process has two sets of locks, `wanted` and `held`: it
takes the first of the one (`TakeLock`, refused unless it waits) and gives back the last of
the other, in the order `Before` of `lockEveryInstallation`. A command wants the locks of
one installation; a self-update reads which installations there are (`Discover`), takes
the lock of the directory it replaces a file in, then both locks of each installation,
looks again at what is installed (`Check`), renames, and writes to every journal
(`JournalUpdate`). A dev build has no version to compare: it reads the digest of its file
after it has started (`Digest`, `seen`), and looks for that file again under the locks. `excused` names the journals that could not be told: those of
installations made after the discovery, and those an updater died before.

### Backup

| Model | Code |
|---|---|
| `local`, `staged`, `remote` | which files of each backup are in this machine's store, in its `<id>.fetching` there, and on each target |
| `preUpdate` | the backups labelled as guarding an update |
| `services`, `data` | the containers; whose contents the volumes and the database hold |
| `restore` | the journal's newest record of a restore |
| `op`, `asked`, `fetch` | the command under the lock; a restore that waits for it with its choice; a `backup fetch` |
| `BeginBackup` ... `Discard` | `backup create`: the hook, the cold capture, the seal, the verification |
| `PutComponents`, `PutManifest`, `PushFails`, `Unpush` | `blob.Push`, and the cleaning up of a push that failed |
| `BeginUpdate`, `Converge` | what an update does to all this |
| `Prune` ... `RemoveRemoteFails` | `RetentionPolicy.Prunes`, decided once from one listing, and the removals |
| `Ask`, `Take`, `SkipStep` ... `Restored` | `restore`, step by step, with its resume, its refusals and its undoing |
| `BeginFetch`, `FetchClears` ... `FetchFails` | `backup fetch`, without the lock: the directory beside is cleared, filled with the manifest last, verified, renamed, or removed |
| `Converges`, `Stop`, `Clear` | what an operator may run in between |

The store's listing takes any directory with a manifest for a backup, a fetch's
`<id>.fetching` among them (`ListedHere`): it can be restored, pushed and pruned like any
other, under the id its manifest names. A command that has chosen it holds its path
(`staging`, `Source`); a resume has the id alone, which leads to `<id>`.

## 3. Runs

| Run | Shows | Bounds |
|---|---|---|
| `StepEngine` | ten properties of one operation, one of them liveness, one a refinement | six steps, one of each kind; builds v1, v2 (one step no longer safe to start again, one no longer idempotent), v3 (one step replaced); three processes; one lost journal write |
| `StepEngine_PointAcrossResume` | finding: compensation crosses the migration after a resume | an update's list, two processes |
| `DeploymentGate` | four properties of commands on one installation, one a refinement | three commands of five kinds, two releases; 1.7 million states up to symmetry |
| `Journal` | a record is lost only behind a torn line, and a dead operation blocks the others | two operations, four appends |
| `Journal_TornTail` | finding: a flushed record cannot be read | the same |
| `Convergence` | what `compensated` and `succeeded` say of the machine | three releases, two schemas; two processes, one interruption or crash, one acknowledgement; a hook whose manifest does not speak for it, a release that declares nothing, a migrating service; any step may fail, and any compensator; 3.4 million states |
| `Convergence_StaleSchema` | finding: a rollback is assessed against a schema the database has left | three releases that declare everything; two processes |
| `ImageStore` | directories and images a release needs stay | two installations, four releases, four images; two commands and one; one kill |
| `Channel` | six properties of a followed channel | a timer and an operator, two artefacts, three versions, one of which comes as two bundles; no bound on the number of polls, operations or moves of the tag; 1.5 million states |
| `Outbox` | who is told what, once, and that a target is caught up with | a command and the doctor, two targets of which one goes down and comes back for ever; two events, a bound of one message, one kill or change of targets |
| `ManagerUpdate` | locks, owners, and the order of versions | two self-updates and a command over two installations, each killed at most once; a dev build may be told to install either release; 2.2 million states |
| `Backup` | what is whole, what is kept, what is put back | three backups, two targets, both quotas one; four commands, two failures, interruptions or kills, one fetch at a time; 3.8 million states |

Why the bounds are enough.

*StepEngine*: every flag combination that occurs in `lifecycle/ops` occurs in `Every`, and
a step interacts only with those before it, the point of no return and the failed one,
which six positions separate. Three processes give run, resume, resume again, the
shortest history in which a resume's own record is judged by another build.
*DeploymentGate*: each re-check guards against one other command having acted; the third
allows a wreck and an acknowledgement, or two waiters behind one holder. Two releases
suffice because the code compares releases only for equality. Commands and releases are
symmetric: each command draws its kind in `Invoke`, and no property names one. *Journal*:
a tear, the record behind it, one after that, and one of the other operation.
*Convergence*: an operation and the one that resumes or follows it; a third release is
what distinguishes "the previous one" from "not this one", and two schemas what a
migration closes. *ImageStore*: one installation prunes while the other stages, and one
image is shared under two spellings; four releases with one kept are the fewest from which
a prune removes something. *Channel*: the state space is finite without a bound, so any
number of polls, operations and crashes is covered. Two artefacts are the newer and the
withdrawn one; the third version is below both, so that both are installable; the second
bundle of a version is the republished one. *Outbox*: two events are one over the bound; a
second target is what the first may hold up. *ManagerUpdate*: two updaters race for a
release each; the command is the third party a lock names. *Backup*: three backups are the
guard, the one retention would take and the one that pushes it out; two targets because a
push goes on, or stops, at the second; a resume, something between, and another resume are
four commands.

The theorems of section 5 remove these bounds for every safety property of every passing
run; the runs are what found the counterexamples while the invariants were being looked
for, and what the mutants are refuted by. Of the modules but `ManagerUpdate` the type
invariant is a theorem alone (`TypeCorrect`, `JournalTypeCorrect`).

Deadlock. These systems may come to rest: an operation ends, commands are finite, the
file is full, a machine that needs a person refuses. So the runs do not check for
deadlock; that a live run cannot get stuck is `RunEnds`, and that the outbox does not is
`KeptIsSettled`.

Fairness. `StepEngine` assumes weak fairness of `RunStep \/ Settle`: a live process goes
on, because every call a step makes is bounded by a timeout (`infra/exec`, the health
checks' deadlines, the operation's own `--timeout`). Nothing is assumed of `Crash`,
`Cancel`, `Resume` or an operator. `Outbox` assumes that the doctor's timer fires again and
again (systemd starts it, `OnUnitActiveSec`) and that a process which runs, doctor or
command, goes on (a post has a deadline): weak fairness of the doctor's sends and of each
process's steps. Nothing is assumed of commands being run, of targets coming back, or of
kills not happening but for their bound. The other modules state safety only: a command
that waits with `--wait` may be interrupted or never get the lock, and the code promises
nothing else.

### Properties worth a reader's attention

* `HalfDoneIsOnRecord`: the journal is ahead of the machine. Half-done work is on record
  as started, so a resume never takes it for none.
* `SuccessMeansDone`: whatever history led to `succeeded`, each step's work is there, but
  for one that the plan of the build which says so allowed to fail.
* `NoUnsafeRepeat`, `CreditIsKept`: over any number of resumes and builds, no step is
  executed over work that the build which did it calls unsafe to repeat, and a finished one
  keeps its credit if the record *or* the build at work calls it unsafe.
* `CompensatedByOneRun`: `compensated` is true when the process that did the work says it.
  Over resumes it is not: a step whose Check finds the earlier run's work done is
  skipped, and a skipped step is not compensated (engine.go:500-504).
* `ImplementsSerial`: every behaviour of the commands, with their plans made early and
  their crashes, is one in which each decides and works in one go. The re-checks under
  the lock are what makes it so: dropping any one is a mutant the run refutes.
* `NeverResumesHistory`: `--resume` continues nothing from before the last success, but
  where two operations began in one second (see Limits).
* `LostOnlyBehindATear`: damage to the journal is local.
* `CompensatedUpdateIsBack`: an update that found the machine converged and says
  `compensated` has left all six parts of it as they were, whichever step failed and
  however far; and a database the release can read, wherever the manifests and the
  migration said enough for the point of no return to be judged.
* `RollbackMovesOrPointsBack`: a rollback that failed either changed nothing or moved the
  pointers together with the containers; the one step that breaks this is named in it.
* `ImagesStay`, `RolesStay`: a prune is decided from what it read of every installation's
  store, one after another, without their locks.
* `NeverDowngrades`: what a timer decided without the lock never takes the machine back,
  whatever an operator did while it waited.
* `NeverBelowDelivered`, `LoweredMarkIsSeen`: the two files of a channel, written by
  different processes and dated to the second, neither forget a delivery over a crash nor
  go on refusing what an operator has admitted.
* `UpstreamIsWhatIsInstalled`: a release takes its upstream digest from a candidate of the
  same *version*; that the bundle is the same too rests on the store never replacing one.
* `ForgottenIsNeverSent`: a send that had read a removed target's entries is waited for.
* `BoundedAtRest`: commands that end together each count what the others wrote, and
  none of them takes a lock for it; once they are done the bound holds all the same.
* `OwnerIsHolder`: a refusal names the process that does hold the lock, although the name
  is in another file.
* `OneMoment`: the volumes and the database of a restore are of one backup, though its
  runs may be days apart with other operations between them.
* `ResumeFindsItsBackup`: retention runs between them too, and so do fetches; a restore
  that read a fetch's staging directory is excepted.
* `NeverMovesBack`: two self-updates in any order, one of which may be a dev build that
  cannot compare versions; the one way back there is, is in the property.

Each property of a passing run has a mutant in `PROJECT.json`: a change a plausible bug
would make, under which TLC finds the property violated.

## 4. Findings

Each is a run that TLC refutes, with the line of the source that says otherwise.

1. `StepEngine_PointAcrossResume`. The point of no return is in the memory of a process
   (`engine.go:151`). A resumed update compensates across its migration.
2. `Journal_TornTail`. A record appended behind a torn line is flushed and unreadable
   (`state.go:552`).
3. `Convergence_StaleSchema`. An update that migrated and was compensated leaves the old
   schema on record (`apply.go:1232`), so a rollback is assessed against a schema the
   database has left (`domain/version.go:454`) and starts a release that cannot read it.

### Limits

Behaviour met while modelling that no run states, because a property excepts it or because
the bounds leave it out. A reader who changes the code should know of them.

* *Engine.* A resume rewrites the flags of the step it is about to repeat
  (`engine.go:651`), so after a crash another build's refusal is forgotten. `NoUnsafeRepeat`
  speaks of the build that last executed the step. A step that is allowed to fail
  (`Continue`) and is followed by one that is unsafe to repeat would let a resume begin
  before the latter; in `lifecycle/ops` such steps are the last of their lists.
* *Gate.* Operations that start in the same second are ordered by ids drawn before a wait
  (`state.go:604`): `NeverResumesHistory` excuses them.
* *Pointers.* A rollback killed inside `SetCurrentRelease` (`state.go:457`) leaves the
  previous record equal to the current one. A rollback that fails leaves what it had started
  (`rollback.go:384`), although `pages/docs/reference/exit-codes.md:28` says of
  `compensated` that the installation is as it was: `RollbackMovesOrPointsBack` is about
  the pointers. A rollback in which load-secrets fails ends `failed` with the pointers on
  the previous release and the current one's containers running: the step only aborts
  (`apply.go:357`), and in a rollback it comes after point-to-previous
  (`rollback.go:411-412`). The comment there (407-410) moved preflight in front of the
  pointers for exactly this reason. `RollbackMovesOrPointsBack` excepts a failure at that
  step by name. An interruption past the point of no return may be followed by an apply.
* *Point of no return.* A migration by a hook that reports no schema, in a release that
  declares none, or a fallback that declares no newest schema, leaves nothing to judge:
  `passIfFallbackCannotRead` (`apply.go:1039-1043`) and `AssessRollback`
  (`domain/version.go:470`) then let the update go back, and it may say `compensated` over
  a database the release it restored cannot read. `CompensatedUpdateIsBack` asks for the
  schema only where it could be judged (`Judged`); the run of it reaches the other case,
  and holds for everything else there.
* *Channel.* A poll that waited for the lock with an old peek replaces a failed candidate
  (`channel.go:165`), and the next tick installs the failed release again. A rollback's
  record does not say what its channel called the release (`rollback.go:427`), so the next
  tick takes the channel for moved and, unattended, installs the release just left. A
  fetch that fails for a reason that passes is recorded as a refusal (`channel.go:215`).
  A candidate that cannot be forgotten after its release was recorded is only a warning
  (`apply.go:1275`).
* *Release store.* `release fetch` holds no lock and removes the directory it was writing
  when it is refused, also when an update has meanwhile landed that version there:
  `RolesStay` excepts this step. `rollback --to` can move `current` to a directory that a
  prune is removing. Two prunes at once may each keep an image for the sake of a release the
  other removes. RFC 0031, section 7, accepts that a prune takes an image loaded after it
  read the stores: `ImagesStay` excepts it through `loaded`.
* *Outbox.* The count of dropped messages is read and written back with no lock and may
  lose some. A sender killed between a delivery and the removal of its entry sends it
  again; `NeverSentTwice` excepts the one whose sender died.
* *Backup.* A restore whose undoing was itself cut off has run the product over its
  volumes and may still be resumed: `OneMoment` excepts it through `overrun`. A push onto a
  target that already holds the backup whole, and fails, removes that copy
  (`backup.go:291`). A cold capture whose stop fails half way leaves services down under a
  hint that says they run (`volumes.go:386`). A `backup fetch` writes into `<id>.fetching`
  in the backup store, its manifest before the verification and the rename
  (`targets.go:669-716`, `blob.go:272-275`), and the store's `List`
  (`hookbackup/backup.go:800-830`) does not skip it, as recovery's does
  (`recovery_backup.go:130`). So a fetch that is under way, or was killed, is listed,
  although `targets.go:667-668` and `678-683` say it never is: it can be restored (its
  verification still refuses what is not whole), pushed, and removed by retention. A
  restore begun from it cannot be resumed, because a resume names the backup by its id
  (`backup.go:691-694`), which resolves to `<id>` (`hookbackup/backup.go:1145-1158`).
  `ResumeFindsItsBackup` excepts such a restore through `staging`; without the exception
  the run refutes it. Two `backup fetch` of one id share their staging directory
  (`targets.go:669`; the model has one fetch at a time). A prune killed
  inside a local backup's directory may leave it listed with a component missing, which a
  restore's verification refuses.
* *Self-update.* A dev build reads the digest it will be held to when it has started
  (`self_update.go:113-121`), not when it was. If another self-update replaces the file in
  between, it takes that one's file for its own and may install an older release over it:
  `NeverMovesBack` excepts a dev build that found a release.

## 5. Proofs

Each listed theorem is stated for all values of the constants; `PROJECT.json` lists them. They hold for
any number of steps, builds, commands, processes, releases, installations, artefacts,
backups, targets and events, and any bound on crashes and operations. They rest only on
the named assumptions of the modules, which TLC evaluates on every run, and which are
either what a type says (`BoundAssumption`, `ReleaseAssumption`, `CountAssumption`,
`NoneAssumption` and the like) or, where they are not:

* `StepEngine`: `PlanAssumption`, `DistinctAssumption` (steps of one plan have distinct
  names), `CompensableAssumption` (a step with a compensator is idempotent, in every build),
  `OptionalAssumption` (what follows a step allowed to fail is safe to start again),
  `UndoAssumption` (a step allowed to fail has nothing to undo, and one that passes the
  point of no return cannot fail after it), `NoBuildAssumption`. The code enforces none of
  the three about lists of steps: they hold of those it has, and a list that broke one
  would lose `SuccessMeansDone`, `NoUnsafeRepeat` or `CompensatedByOneRun`.
* `DeploymentGate`: `CommandsAssumption`, that there are finitely many.
* `Convergence`: `SchemaAssumption`, that a release can run on what its own migrations
  leave, and that a manifest which declares something does not promise more than is so: no
  schema below what the migrations leave, no newest schema above what the release runs on.
  What it declares may be nothing.
* `ImageStore`: `KeepAssumption`, that a prune keeps at least one, and `Installed`, that
  the releases with a role are in the store at first.
* `Channel`: `ArtefactsAssumption` (an artefact holds one bundle: it is a digest),
  `BundlesAssumption` (a bundle declares a version, above 0 which stands for no mark).
* `ManagerUpdate`: `ProductsAssumption`, that the installations are listed without a name
  twice, as the directories they are; `DevTargetsAssumption`, that a dev build is told to
  install a release.
* `Backup`: `RetentionAssumption`, that retention keeps at least one.

The arguments.

*StepEngine* (`EngineInvHolds`, `PointAlwaysHolds`, `InterventionAlwaysSticks`,
`CreditAlwaysKept`, `EngineImplementsLifecycle`). None of the properties is inductive.
`EngineInv` adds what the process in flight knows: it holds a running record and the
journal holds one it may write over (`LiveRecord`); the step under way is on the record as
running (`AtStep`); every step it has worked on or may yet carries its own build's flags
(`OwnFlags`); it holds every credit the journal gives (`CreditHeld`); nothing is undone
before compensation and compensation keeps past the point (`UndoneOnlyPast`). Without
`OwnFlags` a compensator could take back a credited step: its record may carry the flags
of another build, and `CompensableAssumption` speaks of the plan. Each step of the engine
is first put in one of four shapes (a process begins, ends, works, or there is none:
`StepShape`), and each conjunct is preserved over the shapes.

What the journal says of the machine (`HalfDoneAlwaysOnRecord`, `SuccessAlwaysMeansDone`,
`NeverRepeatsUnsafely`) rests on a second invariant, `DiskInv`, for as long as no write of
the journal was lost. `Word`: the record of a finished step is true of the machine, unless
a compensation that a crash kept from the journal may have undone it, and then every build
repeats the step; a half done step is not on record as finished; work that the build which
did it calls unsafe to repeat is on record as started and unsafe. `Alone`: such work that
did not finish has only finished steps before it, so a resume stops in front of it. That is
where the two assumptions on the step lists are used. `Agreed` says by how much the
process's record may differ from the journal (a stop between steps, what has been undone),
and `Stands` that each step before the one at hand has finished or was allowed to fail.
`DiskShape` puts each step in one of ten shapes. `NewestAlwaysFirst` is by `ListInv`: what
may be undone and is no longer on the list has been undone, or has failed to be.

`CompensatedAlwaysTrue` is about an operation's first process, which `FirstRun` says knows
everything that was done. What lies ahead of it is untouched and unfinished (so no Check
of its finds work of an earlier run, and no credit is skipped); what lies behind is
completed or was allowed to fail; what it completed is not half done, and what its Check
skipped is not there at all; the way back is closed only by a step it completed
(`ClosedHere`: between Execute and the end of the step the index is not set yet, and
`UndoAssumption` keeps such a step from failing in Verify); a compensator that failed is in
`allUndone`. With the list empty, `ListInv` then says that what a compensator undoes is
gone. A second process would have none of this, and the property does not hold of it.

*DeploymentGate* (`OverNoWreck`, `RunOnce`, `NoHistoryResumed`, `ImplementsSerialDeployment`). `GateInv` is the
types with the lock tied to the place of its holder, what a command remembers of its reads
(`Remembers`: it works for an operation of its own or for the one it resumes, and until it
runs its own is not on record), and that the one command that runs is the lock's holder,
with its operation recorded as running (`Running`). `ClockInv` orders the records as their
operations began, which is all a resume needs of the clock. The refinement goes step by step: what a command does
before its first record is hidden (`HiddenSteps`), the first record is where it decides and
begins (`RunBegins`), and writes, endings, deaths and acknowledgements map to theirs.

*Journal* (in `HostProofs`: `LostBehindATear`, `TheDeadBlock`). `JournalInv`: what was acknowledged is in
the file, flushed, whole and of its operation, so only what lies before it on its line can
hide it.

*Convergence* (`SuccessIsConverged`, `RollbackMoves`, `UpdateIsBack`). Going forward,
what each step has done is a function of where the process is (`ForwardInv`), also for a
process that resumed: every step it skips is one that is repeated. For the way back,
`Recoverable` says of each part of the machine that it is either untouched or there is a
compensator armed for it, and `Returning` that what has been put back stays so while older
steps are undone. `UpdateInv` needs the schema beside: the way back is open only while the
release it leads to can read the database, or nothing said enough to tell. `RollbackInv`
follows the pointers and the containers: only between the move and the end of load-secrets
does a rollback have the one without a compensation that would put it back.

*ImageStore* (`RolesAlwaysStay`, `ImagesAlwaysStay`). `PruneInv`: what a prune removes has
no role, because roles change only under the lock it holds. `SafeInv`: a release that was
loaded, or is being loaded with no prune about that cannot know of it (`Protected`), is in
its store, and towards every running prune it is `Harmless`: either its directory is what
that prune removes first (`Leaving`), or none of its names is among what the prune, as far
as it has read, would go on to remove (`Doomed`). `NamesInv`: the names of a protected
release are there, or still to load.

*Channel*, every property of its run. `TypeInv` ties what a process holds to its place, and
the lock to that place. `StoreInv`: what is recorded is in the store, and the store never
takes a bundle back; so a candidate of the same version as the installed release is the
same bundle, which is all `adoptStagedCandidate` compares. `TimerInv`: the plan was not
older than what it was made from, the re-check under the lock makes that what is
installed, and only the lock's holder writes the records. `DeliveryInv`: the mark covers
what was delivered, and between the two writes of a staging or of going back the holder
knows by how much.

*Outbox* (`SentOnce`, `ForgottenStaysUnsent`). `TypeInv` ties both locks to places.
`MessageInv`: an answered entry that is still there has a process at its removal
(`Settled`); what a writer is about to write is known to nobody (`Unseen`); what a sender
holds is neither answered nor forgotten (`Unposted`).

`NoMoreThanTheBound` is an argument about several processes that remove entries each
from a listing of its own. That a target's entries number at most the bound, the crashes
and the processes at it (`Writers`) is not inductive: one that has just listed sees what is
there, but what it would leave is what another may be removing as well. `Fits` therefore
speaks of every set S of the processes that are removing: what would be left if all of S
were done (`Going`) is no more than the bound, the crashes and the writers outside S. A
write adds one entry and one writer; a listing takes everything past the newest of what it
sees, so that with it in S at most the bound is left whoever else is in S; a removal takes
the same entry from the entries and from the list; and a process that is killed turns
from a writer into a crash. At rest nobody is removing and S is empty.

*ManagerUpdate* (in `HostProofs`: `ManagerTypeCorrect`, `TheOwnerIsHolder`,
`TheRecordComesFirst`, `NothingMovesBack`). `ManagerInv` has five parts. The types, with
each lock held by exactly the process that has it among its own. `Shape`: what a process
has at each place, above all that an updater past its check holds both locks of every
installation it found, and the directory's. `InOrder`: what is held comes before what is
wanted, so the lock just taken is the last one held and the owner file just written is
that lock's. `Named`: the owner file of a held lock is its holder's own, but for the
lock it is just taking or giving back; a file that a killed process left names a life that
is over. `Forward`: between the check and the rename nobody else changes what is installed,
because the directory is locked, so what is renamed over is older, or is the file a dev
build took for its own. `ToldOfAll`: a version that is installed, or that a
process runs as, is in each journal, or excused, or about to be written by the updater
that holds the lock an operation would need to be recorded there at all.

*Backup*, every property of its run. `WholeInv`: on a target the manifest comes last and
goes first. `TakenInv` and `RunInv`: the backup a run makes is the newest there is, guards
nothing until it is sealed, and no restore is of it. `GuardInv`, `LandedInv`: whatever is
still to be removed has a later one of its kind, or is older than what has landed; the
quotas matter only in being positive. `FoundInv`: a restore that is not over has the backup
it verified in the backup's own directory, unless what it verified was a fetch's, and what
retention is removing is not that one; a fetch places nothing where there is something. `StepsInv`: a restore has done
every step before the one it is at, and every run of it stops the services anew before it
writes; `VolumesInv`: with the volumes back and the database not yet, either the record
says what ran over them or they are the backup's.

Only model-checked. Liveness and ENABLED are beyond the prover: `RunEnds` and
`KeptIsSettled`, the two temporal properties under fairness. Every other property of a
passing run is stated by a theorem. The properties of the three findings are false, and
refuted by their runs. No recursive operator is used.

## 6. Not modelled, and why

* Presentation, parsing, rendering, signatures, registries, archive formats, object stores:
  external or pure. Dry runs change nothing.
* *Installation state, configuration, init, import, remove*: sequential, each one atomic
  write under the deployment lock, which `DeploymentGate` has.
* *Secrets*: an edit under a lock of its own on opaque data.
* *Attestations*: a hash chain under a lock of its own; its hazards are cryptographic and
  of formats.
* *Reports, fleet*: read-only, or state nobody reads back.
* *Preflight checks*: predicates over disk, ports and tools; the one over unfinished
  operations is the gate.
* Of modelled parts: the `OpsGate` of `restart`, `rotate` and `task` reads and checks what
  an apply does, so they are not kinds of their own. A journal line over the size limit
  drops its step list. Several channels, the drift, stopped and prerelease holds, and the
  export of marks are left out of `Channel`; the release feed and the verification of a
  download out of `ManagerUpdate`; restores of some components or of another installation,
  the options that skip a step, and the encryption of components out of `Backup`;
  pre-update backups and retired parameters out of `Convergence` (the former are in
  `Backup`).
