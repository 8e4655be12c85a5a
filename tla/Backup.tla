------------------------------- MODULE Backup -------------------------------
(***************************************************************************)
(* The backups of one installation, on the machine and on its targets, and  *)
(* the restores that read them: internal/lifecycle/ops backup.go and        *)
(* targets.go, internal/adapters/backup/hookbackup and                      *)
(* internal/adapters/target/blob.  Backups, pushes, updates and restores    *)
(* hold the deployment lock; `backup fetch' does not, and a restore chooses *)
(* its backup before it waits for the lock.                                 *)
(***************************************************************************)
EXTENDS Integers, FiniteSets

CONSTANTS
  MaxBackups,     \* bound: backups taken
  NumTargets,     \* targets configured, pushed to in order
  Keep,           \* retention.backups
  KeepPreUpdate,  \* retention.pre_update_backups
  None,           \* no command
  MaxOps,         \* bound: commands asked
  MaxFaults       \* bound: failures, interruptions and kills

ASSUME CountAssumption == MaxBackups \in Nat /\ NumTargets \in Nat
\* Installation.RetentionBackups and RetentionPreUpdateBackups, of which Prunes
\* takes at least one.
ASSUME RetentionAssumption == Keep \in Nat \ {0} /\ KeepPreUpdate \in Nat \ {0}
ASSUME BoundAssumption == MaxOps \in Nat /\ MaxFaults \in Nat

VARIABLES
  local,       \* the files of each backup in this machine's store
  staged,      \* and those a fetch has in its <id>.fetching there
  remote,      \* and those of its copy on each target
  preUpdate,   \* the backups taken to guard an update
  taken,       \* backups taken so far; a backup is named by its number
  services,    \* whether the product's containers run
  data,        \* whose contents the volumes and the database hold: a
               \* backup's, or 0 for the product's own and the half-written
  stopped,     \* an operator has the product stopped
  release,     \* how often an update has replaced the installed release
  restore,     \* the journal's newest record of a restore
  asked,       \* a restore that waits for the lock
  op,          \* the command that holds the lock
  fetch,       \* a `backup fetch' under way
  landed,      \* history: the newest backup pushed whole to each target
  ops, faults  \* what has been spent of the bounds

vars == <<local, staged, remote, preUpdate, taken, services, data, stopped, release,
          restore, asked, op, fetch, landed, ops, faults>>

stores == <<local, staged, remote, preUpdate, taken, landed>>
product == <<services, data, stopped, release>>
spent == <<ops, faults>>

Backups == 1..MaxBackups
Targets == 1..NumTargets

\* A backup's components, and the manifest that names them.
Files == {"data", "manifest"}

\* What List reads: a directory without a manifest is no backup.
Listed(dir) == {b \in Backups : "manifest" \in dir[b]}

\* On the machine a fetch's staging directory is a directory like any other, and no
\* backup has files in both.
ListedHere == Listed(local) \cup Listed(staged)

Services == {"up", "some", "down"}
OfProduct == [volumes |-> 0, database |-> 0]

Steps == <<"verify-backup", "check-compatibility", "stop-services",
           "restore-volumes", "restore-data", "reapply-release", "smoke-test">>
Index == 1..7
Position == 1..8

\* restoreSteps: the product stays down when an operator has it stopped.
Last == IF stopped THEN 5 ELSE 7

Idempotent == {3, 6, 7}
Restartable == {1, 2, 4}
StartsAgain(i) == i \in Idempotent \cup Restartable

Statuses == {"none", "running", "succeeded", "failed", "compensated",
             "interrupted", "requires-manual-intervention"}

Record == [id : 0..MaxBackups, status : Statuses,
           done : SUBSET Index,   \* steps recorded as succeeded
           begun : 0..7,          \* a step recorded as begun and not as done
           undone : BOOLEAN,      \* stop-services is recorded as compensated
           stale : BOOLEAN,       \* an operation other than a backup ran after it
           overrun : BOOLEAN,     \* history: an undoing that failed or was cut
                                  \* off ran the product over its volumes
           staging : BOOLEAN,     \* history: what verify-backup read was a
                                  \* fetch's staging directory
           made : 0..MaxOps]      \* the operation's own id

NoRestore == [id |-> 0, status |-> "none", done |-> {}, begun |-> 0,
              undone |-> FALSE, stale |-> FALSE, overrun |-> FALSE,
              staging |-> FALSE, made |-> 0]

Kinds == {"backup", "push", "update", "restore"}

Process == [kind : Kinds, id : 0..MaxBackups,
            pc : {"create", "quiesce", "copy", "seal", "verify", "discard",
                  "push", "manifest", "unpush", "converge", "prune", "remove",
                  "prune-remote", "remove-remote",
                  "step", "work", "write", "undo"},
            at : 1..(NumTargets + 1),   \* the target a backup is at
            step : Position,            \* the step a restore is at
            pushed : SUBSET Targets,    \* targets that have this run's backup
            staging : BOOLEAN,          \* it reads its backup in a staging directory
            go : SUBSET Backups,        \* what retention is yet to remove
            beside : SUBSET Backups,    \* those of them listed in one
            before : Services]          \* the services a cold copy stopped

BeginOn(kind, id, staging, pc) ==
  [kind |-> kind, id |-> id, pc |-> pc, at |-> 1, step |-> 1, pushed |-> {},
   staging |-> staging, go |-> {}, beside |-> {}, before |-> "down"]

Begin(kind, pc) == BeginOn(kind, 0, FALSE, pc)

At(pc) == op # None /\ op.pc = pc
Goto(pc) == op' = [op EXCEPT !.pc = pc]
End == op' = None
\* The directory the command's reference points to.
Source == IF op.staging THEN staged[op.id] ELSE local[op.id]

Spend == ops < MaxOps /\ ops' = ops + 1 /\ UNCHANGED faults
Fault == faults < MaxFaults /\ faults' = faults + 1 /\ UNCHANGED ops

\* gateUnfinished: a restore that died or needs a person is in the way of an
\* update, an apply, a start and a stop.
GateOpen == restore.status \notin {"running", "requires-manual-intervention"}

\* refuseStaleRestore takes any operation but a backup as built on the restore.
BuiltOn == [restore EXCEPT !.stale = TRUE]

-----------------------------------------------------------------------------
(* A backup is taken *)

BeginBackup ==
  /\ op = None
  /\ taken < MaxBackups
  /\ Spend
  /\ op' = Begin("backup", "create")
  /\ UNCHANGED <<stores, product, restore, asked, fetch>>

\* Update reaches pre-update-backup, or skips it at the operator's request.
BeginUpdate ==
  /\ op = None
  /\ GateOpen /\ ~stopped
  /\ Spend
  /\ \/ taken < MaxBackups /\ op' = Begin("update", "create")
     \/ op' = Begin("update", "converge")
  /\ restore' = BuiltOn
  /\ UNCHANGED <<stores, product, asked, fetch>>

\* Create: directories that never got a manifest go first; a new one is made
\* and the hook writes into it.
Create ==
  /\ At("create")
  /\ taken' = taken + 1
  /\ local' = [b \in Backups |-> IF b = taken + 1 THEN {"data"}
                                 ELSE IF "manifest" \in local[b] THEN local[b] ELSE {}]
  /\ op' = [op EXCEPT !.id = taken + 1, !.pc = "quiesce"]
  /\ UNCHANGED <<staged, remote, preUpdate, landed, product, restore, asked, fetch, spent>>

\* captureCold stops the services that run; without a cold volume, or with
\* nothing running, there is nothing to stop.
Quiesce ==
  /\ At("quiesce")
  /\ \/ Goto("seal") /\ UNCHANGED services
     \/ /\ services # "down"
        /\ services' = "down"
        /\ op' = [op EXCEPT !.before = services, !.pc = "copy"]
  /\ UNCHANGED <<stores, data, stopped, release, restore, asked, fetch, spent>>

\* The copy, and the start that is deferred behind it.
CopyVolumes ==
  /\ At("copy")
  /\ services' = op.before
  /\ Goto("seal")
  /\ UNCHANGED <<stores, data, stopped, release, restore, asked, fetch, spent>>

\* Create ends: components encrypted, the manifest last.
Seal ==
  /\ At("seal")
  /\ local' = [local EXCEPT ![op.id] = Files]
  /\ preUpdate' = IF op.kind = "update" THEN preUpdate \cup {op.id} ELSE preUpdate
  /\ Goto(IF op.kind = "update" THEN "push" ELSE "verify")
  /\ UNCHANGED <<staged, remote, taken, landed, product, restore, asked, fetch, spent>>

\* What an attempt to stop the services may leave.
HalfStopped == IF services = "down" THEN {"down"} ELSE {services, "some", "down"}

\* What a step of a restore that is cut off leaves of the product; the sixth
\* brings services up.
LeftBy(i) ==
  CASE i = 3 -> services' \in HalfStopped /\ UNCHANGED data
    [] i = 6 -> services' \in {"up", "some", "down"} /\ data' = OfProduct
    [] OTHER -> UNCHANGED <<services, data>>

\* Any failure of Create removes the directory.  The services it stopped are
\* started again, which may fail; a stop that fails half way is not undone.
CreateFails ==
  /\ op # None /\ op.pc \in {"quiesce", "copy", "seal"}
  /\ Fault
  /\ local' = [local EXCEPT ![op.id] = {}]
  /\ services' \in CASE op.pc = "quiesce" -> HalfStopped
                     [] op.pc = "copy"    -> {op.before, "some", "down"}
                     [] OTHER             -> {services}
  /\ End
  /\ UNCHANGED <<staged, remote, preUpdate, taken, landed, data, stopped, release,
                 restore, asked, fetch>>

\* verify-backup.
Verify == /\ At("verify")
          /\ Goto("push")
          /\ UNCHANGED <<stores, product, restore, asked, fetch, spent>>

\* A backup that fails its checksums is removed again; an interruption leaves it.
VerifyFails == /\ At("verify")
               /\ Fault
               /\ Goto("discard") \/ End
               /\ UNCHANGED <<stores, product, restore, asked, fetch>>

\* os.RemoveAll: the files of a directory in no order of its own.
RemoveFile(b) == \E f \in local[b] : local' = [local EXCEPT ![b] = @ \ {f}]

\* removeBackup, the compensation of create-backup.
Discard ==
  /\ At("discard")
  /\ IF local[op.id] = {} THEN End /\ UNCHANGED local
                          ELSE RemoveFile(op.id) /\ UNCHANGED op
  /\ UNCHANGED <<staged, remote, preUpdate, taken, landed, product, restore, asked, fetch, spent>>

-----------------------------------------------------------------------------
(* It is copied to the targets *)

\* `morzer backup push': the backup is chosen and verified under the lock.
BeginPush ==
  /\ op = None
  /\ NumTargets > 0
  /\ Spend
  /\ \E b \in ListedHere, staging \in BOOLEAN :
       /\ (IF staging THEN staged ELSE local)[b] = Files
       /\ op' = BeginOn("push", b, staging, "push")
  /\ UNCHANGED <<stores, product, restore, asked, fetch>>

HasTarget == op.at \in Targets

Holds(t, b, files) == remote' = [remote EXCEPT ![t][b] = files]

Max2(m, n) == IF m > n THEN m ELSE n

\* Mutant: nothing waits for the components.
PutComponents_ManifestFirst ==
  /\ At("push") /\ HasTarget
  /\ Holds(op.at, op.id, remote[op.at][op.id] \cup {"manifest"})
  /\ Goto("manifest")
  /\ UNCHANGED <<local, staged, preUpdate, taken, landed, product, restore, asked, fetch, spent>>

\* blob.Push: the components first; a put replaces a whole file, so that of a
\* copy already there the bytes stay what they are.
PutComponents ==
  /\ At("push") /\ HasTarget /\ Source = Files
  /\ Holds(op.at, op.id, remote[op.at][op.id] \cup {"data"})
  /\ Goto("manifest")
  /\ UNCHANGED <<local, staged, preUpdate, taken, landed, product, restore, asked, fetch, spent>>

\* The manifest last, and on to the next target.
PutManifest ==
  /\ At("manifest") /\ "manifest" \in Source
  /\ Holds(op.at, op.id, Files)
  /\ landed' = [landed EXCEPT ![op.at] = Max2(@, op.id)]
  /\ op' = [op EXCEPT !.pc = "push", !.at = @ + 1, !.pushed = @ \cup {op.at}]
  /\ UNCHANGED <<local, staged, preUpdate, taken, product, restore, asked, fetch, spent>>

\* A backup and a push stop at the first target that fails, and clean it up; the
\* backup that guards an update goes on to the next one.  A staging directory that
\* goes away fails a push without a fault.
PushFails ==
  /\ op # None /\ op.pc \in {"push", "manifest"} /\ HasTarget
  /\ \/ Fault
     \/ Source # Files /\ UNCHANGED spent
  /\ op' = IF op.kind = "update" THEN [op EXCEPT !.pc = "push", !.at = @ + 1]
                                 ELSE [op EXCEPT !.pc = "unpush"]
  /\ UNCHANGED <<stores, product, restore, asked, fetch>>

\* blob.Remove: the manifest first, then the rest.
RemoveRemotely(t, b) ==
  Holds(t, b, IF "manifest" \in remote[t][b] THEN remote[t][b] \ {"manifest"} ELSE {})

\* unpush removes this backup's copy from the target that failed, also one that
\* an earlier push had left there whole: what that loses is not held against
\* retention below.
Unpush ==
  /\ At("unpush")
  /\ IF remote[op.at][op.id] = {}
     THEN End /\ UNCHANGED <<remote, landed>>
     ELSE /\ RemoveRemotely(op.at, op.id)
          /\ landed' = [landed EXCEPT ![op.at] = IF @ = op.id THEN 0 ELSE @]
          /\ UNCHANGED op
  /\ UNCHANGED <<local, staged, preUpdate, taken, product, restore, asked, fetch, spent>>

UnpushFails == /\ At("unpush")
               /\ Fault
               /\ End
               /\ UNCHANGED <<stores, product, restore, asked, fetch>>

PushDone ==
  /\ At("push") /\ ~HasTarget
  /\ CASE op.kind = "push"   -> End
       [] op.kind = "backup" -> Goto("prune")
       [] op.kind = "update" -> Goto("converge")
  /\ UNCHANGED <<stores, product, restore, asked, fetch, spent>>

\* The rest of the update, up to its retention.
Converge ==
  /\ At("converge")
  /\ release' = release + 1
  /\ services' = "up" /\ data' = OfProduct
  /\ Goto("prune")
  /\ UNCHANGED <<stores, stopped, restore, asked, fetch, spent>>

ConvergeFails ==
  /\ At("converge")
  /\ Fault
  /\ LeftBy(6)
  /\ End
  /\ UNCHANGED <<stores, stopped, release, restore, asked, fetch>>

-----------------------------------------------------------------------------
(* Retention *)

NewerIn(S, b) == Cardinality({c \in S : c > b})

\* Mutant: pre-update backups are backups like any other.
Prunes_NoGuard(S, b) == NewerIn(S, b) >= Keep

\* Mutant: one too few is kept.
Prunes_OneMore(S, b) ==
  /\ NewerIn(S, b) + 1 >= Keep
  /\ b \in preUpdate => NewerIn(S \cap preUpdate, b) >= KeepPreUpdate

\* RetentionPolicy.Prunes over the listing S.
Prunes(S, b) ==
  /\ NewerIn(S, b) >= Keep
  /\ b \in preUpdate => NewerIn(S \cap preUpdate, b) >= KeepPreUpdate

\* Mutant: an interrupted restore is over.
KeepID_Interrupted ==
  IF restore.status \in {"running", "failed", "requires-manual-intervention"}
  THEN restore.id ELSE 0

\* unfinishedRestoreBackup.
KeepID ==
  IF restore.status \in {"running", "interrupted", "failed", "requires-manual-intervention"}
  THEN restore.id ELSE 0

\* prune-backups: what goes is decided once, from one listing, and by its path.
Prune ==
  /\ At("prune")
  /\ LET go == IF op.id = 0 THEN {}
               ELSE {b \in ListedHere : Prunes(ListedHere, b) /\ b # KeepID}
     IN  op' = [op EXCEPT !.pc = "remove", !.go = go, !.beside = go \cap Listed(staged)]
  /\ UNCHANGED <<stores, product, restore, asked, fetch, spent>>

NewestToGo(b) == b \in op.go /\ \A c \in op.go : c <= b

RemoveStaged(b) == \E f \in staged[b] : staged' = [staged EXCEPT ![b] = @ \ {f}]

Remove ==
  /\ At("remove")
  /\ \E b \in op.go :
       /\ NewestToGo(b)
       /\ \/ b \notin op.beside /\ RemoveFile(b) /\ UNCHANGED staged
          \/ b \in op.beside /\ staged[b] # {} /\ RemoveStaged(b) /\ UNCHANGED local
          \/ b \in op.beside /\ staged[b] = {} /\ UNCHANGED <<local, staged>>
       /\ op' = IF (IF b \in op.beside THEN staged' ELSE local')[b] = {}
                THEN [op EXCEPT !.go = @ \ {b}] ELSE op
  /\ UNCHANGED <<remote, preUpdate, taken, landed, product, restore, asked, fetch, spent>>

RemoveDone ==
  /\ At("remove") /\ op.go = {}
  /\ op' = [op EXCEPT !.pc = "prune-remote", !.at = 1]
  /\ UNCHANGED <<stores, product, restore, asked, fetch, spent>>

\* A failure of retention is a warning, and the targets are pruned all the same.
RemoveFails ==
  /\ op # None /\ op.pc \in {"prune", "remove"}
  /\ Fault
  /\ op' = [op EXCEPT !.pc = "prune-remote", !.at = 1, !.go = {}]
  /\ UNCHANGED <<stores, product, restore, asked, fetch>>

\* prune-remote-backups, remoteRetention: the targets this run's backup reached.
PruneRemote ==
  /\ At("prune-remote")
  /\ IF ~HasTarget THEN End
     ELSE op' = IF op.at \in op.pushed
                THEN [op EXCEPT !.pc = "remove-remote", !.go =
                        {b \in Listed(remote[op.at]) : Prunes(Listed(remote[op.at]), b)}]
                ELSE [op EXCEPT !.at = @ + 1]
  /\ UNCHANGED <<stores, product, restore, asked, fetch, spent>>

RemoveRemote ==
  /\ At("remove-remote")
  /\ \E b \in op.go :
       /\ NewestToGo(b)
       /\ RemoveRemotely(op.at, b)
       /\ op' = IF remote'[op.at][b] = {} THEN [op EXCEPT !.go = @ \ {b}] ELSE op
  /\ UNCHANGED <<local, staged, preUpdate, taken, landed, product, restore, asked, fetch, spent>>

NextTarget == op' = [op EXCEPT !.pc = "prune-remote", !.at = @ + 1, !.go = {}]

RemoveRemoteDone == /\ At("remove-remote") /\ op.go = {}
                    /\ NextTarget
                    /\ UNCHANGED <<stores, product, restore, asked, fetch, spent>>

RemoveRemoteFails == /\ At("remove-remote")
                     /\ Fault
                     /\ NextTarget
                     /\ UNCHANGED <<stores, product, restore, asked, fetch>>

-----------------------------------------------------------------------------
(* A restore *)

Resumable == {"running", "interrupted", "failed"}

\* Before the lock: the operator names a listed backup, or resumes, which looks for
\* the backup under its id alone.
Ask ==
  /\ asked = None
  /\ Spend
  /\ \/ \E b \in ListedHere :
          asked' = [id |-> b, staging |-> b \in Listed(staged), resume |-> FALSE,
                    made |-> 0, release |-> release]
     \/ /\ restore.status \in Resumable
        /\ asked' = [id |-> restore.id, staging |-> FALSE, resume |-> TRUE,
                     made |-> restore.made, release |-> release]
  /\ UNCHANGED <<stores, product, restore, op, fetch>>

FirstIncomplete(i) == i <= Last /\ i \notin restore.done /\ 1..(i - 1) \subseteq restore.done

\* Mutant: what ran since the restore began is not asked.
CanContinue_Stale ==
  /\ restore.status \in Resumable
  /\ ~restore.undone
  /\ \E i \in Index : /\ FirstIncomplete(i)
                      /\ restore.begun = i => StartsAgain(i)

\* findResumable, refuseStaleRestore and the engine's resumePoint.
CanContinue ==
  /\ restore.status \in Resumable
  /\ ~restore.undone /\ ~restore.stale
  /\ \E i \in Index : /\ FirstIncomplete(i)
                      /\ restore.begun = i => StartsAgain(i)

\* Under the lock: refreshResumable and refuseMovedRelease.
StillSo == /\ asked.release = release
           /\ asked.resume => restore.made = asked.made /\ CanContinue

Take ==
  /\ asked # None /\ op = None
  /\ asked' = None
  /\ IF StillSo
     THEN /\ op' = BeginOn("restore", asked.id, asked.staging, "step")
          /\ restore' = IF asked.resume
                        THEN [restore EXCEPT !.status = "running", !.begun = 0]
                        ELSE [NoRestore EXCEPT !.id = asked.id, !.status = "running",
                                               !.made = ops]
     ELSE UNCHANGED <<op, restore>>
  /\ UNCHANGED <<stores, product, fetch, spent>>

\* The lock held by another, an interrupted wait, a kill before the lock.
GiveUp == /\ asked # None
          /\ asked' = None
          /\ UNCHANGED <<stores, product, restore, op, fetch, spent>>

AtStep(i, pc) == At(pc) /\ op.step = i

\* A step credited by the journal, and not one to repeat.
SkipStep ==
  /\ At("step") /\ op.step <= Last
  /\ op.step \in restore.done \ Idempotent
  /\ op' = [op EXCEPT !.step = @ + 1]
  /\ UNCHANGED <<stores, product, restore, asked, fetch, spent>>

BeginStep ==
  /\ At("step") /\ op.step <= Last
  /\ op.step \notin restore.done \ Idempotent
  /\ restore' = [restore EXCEPT !.begun = op.step, !.done = @ \ {op.step}]
  /\ Goto("work")
  /\ UNCHANGED <<stores, product, asked, fetch, spent>>

StepDone ==
  /\ restore' = [restore EXCEPT !.begun = 0, !.done = @ \cup {op.step},
                                !.overrun = IF op.step = 4 THEN FALSE ELSE @,
                                !.staging = IF op.step = 1 THEN op.staging ELSE @]
  /\ op' = [op EXCEPT !.pc = "step", !.step = @ + 1]

\* What a step reads of its backup: check-compatibility the manifest alone, the
\* smoke test nothing.
ReadBy(i) == CASE i \in {1, 4, 5} -> Files
               [] i = 2           -> {"manifest"}
               [] OTHER           -> {}

Inspect ==
  /\ At("work") /\ op.step \in {1, 2, 7}
  /\ ReadBy(op.step) \subseteq Source
  /\ StepDone
  /\ UNCHANGED <<stores, product, asked, fetch, spent>>

StopServices ==
  /\ AtStep(3, "work")
  /\ services' = "down"
  /\ StepDone
  /\ UNCHANGED <<stores, data, stopped, release, asked, fetch, spent>>

\* Engine.Restore, volumes: verified, and refused while a service holds one
\* open.  A volume is wiped and extracted.
WipeVolumes ==
  /\ AtStep(4, "work")
  /\ Source = Files /\ services = "down"
  /\ data' = [data EXCEPT !.volumes = 0]
  /\ Goto("write")
  /\ UNCHANGED <<stores, services, stopped, release, restore, asked, fetch, spent>>

ExtractVolumes ==
  /\ AtStep(4, "write")
  /\ data' = [data EXCEPT !.volumes = op.id]
  /\ StepDone
  /\ UNCHANGED <<stores, services, stopped, release, asked, fetch, spent>>

\* Engine.Restore, the release's hook.
BeginHook ==
  /\ AtStep(5, "work")
  /\ Source = Files
  /\ data' = [data EXCEPT !.database = 0]
  /\ Goto("write")
  /\ UNCHANGED <<stores, services, stopped, release, restore, asked, fetch, spent>>

HookDone ==
  /\ AtStep(5, "write")
  /\ data' = [data EXCEPT !.database = op.id]
  /\ StepDone
  /\ UNCHANGED <<stores, services, stopped, release, asked, fetch, spent>>

Reapply ==
  /\ AtStep(6, "work")
  /\ services' = "up" /\ data' = OfProduct
  /\ StepDone
  /\ UNCHANGED <<stores, stopped, release, asked, fetch, spent>>

\* A step fails.  Reading a backup that is not whole, or no longer there, fails
\* without a fault.
StepFails ==
  /\ op # None /\ op.pc \in {"work", "write"}
  /\ \/ Fault
     \/ ~(ReadBy(op.step) \subseteq Source) /\ UNCHANGED spent
  /\ LeftBy(op.step)
  /\ IF op.step \in {1, 2, 7}
     THEN /\ restore' = [restore EXCEPT !.status = "failed"]
          /\ End
     ELSE Goto("undo") /\ UNCHANGED restore
  /\ UNCHANGED <<stores, stopped, release, asked, fetch>>

\* Compensation: stop-services brings the product up again, unless an operator
\* had it stopped.  What the volumes and the hook left needs a person.
Undo ==
  /\ At("undo")
  /\ services' = IF stopped THEN services ELSE "up"
  /\ data' = IF stopped THEN data ELSE OfProduct
  /\ restore' = [restore EXCEPT !.undone = TRUE, !.done = @ \ {3}, !.status =
                   IF op.step \in {4, 5} THEN "requires-manual-intervention" ELSE "compensated"]
  /\ End
  /\ UNCHANGED <<stores, stopped, release, asked, fetch, spent>>

UndoFails ==
  /\ At("undo") /\ ~stopped
  /\ Fault
  /\ services' \in {"up", "some", "down"} /\ data' = OfProduct
  /\ restore' = [restore EXCEPT !.status = "requires-manual-intervention",
                                !.overrun = TRUE]
  /\ End
  /\ UNCHANGED <<stores, stopped, release, asked, fetch>>

\* Ctrl-C: nothing is undone; between two steps the next one is marked.
Interrupt ==
  /\ op # None /\ op.pc \in {"step", "work", "write"}
  /\ op.step <= Last
  /\ op.pc = "step" => op.step \notin restore.done \ Idempotent
  /\ Fault
  /\ IF op.pc = "work" THEN LeftBy(op.step) ELSE UNCHANGED <<services, data>>
  /\ restore' = [restore EXCEPT !.status = "interrupted", !.begun = op.step,
                                !.done = @ \ {op.step}]
  /\ End
  /\ UNCHANGED <<stores, stopped, release, asked, fetch>>

Restored ==
  /\ At("step") /\ op.step > Last
  /\ restore' = [restore EXCEPT !.status = "succeeded"]
  /\ End
  /\ UNCHANGED <<stores, product, asked, fetch, spent>>

-----------------------------------------------------------------------------
(* Other commands *)

\* `morzer apply', which is refused while stopped, and `morzer start', which
\* clears the stop at its end; either may fail half way.
Converges ==
  /\ op = None /\ GateOpen
  /\ Spend
  /\ \/ services' = "up" /\ stopped' = FALSE
     \/ services' = "some" /\ UNCHANGED stopped
  /\ data' = OfProduct
  /\ restore' = BuiltOn
  /\ UNCHANGED <<stores, release, asked, op, fetch>>

Stop ==
  /\ op = None /\ GateOpen
  /\ Spend
  /\ services' = "down" /\ stopped' = TRUE
  /\ restore' = BuiltOn
  /\ UNCHANGED <<stores, data, release, asked, op, fetch>>

\* `morzer status --clear-intervention'.
Clear ==
  /\ op = None /\ ~GateOpen
  /\ restore' = [restore EXCEPT !.status = "failed"]
  /\ UNCHANGED <<stores, product, asked, op, fetch, spent>>

\* FetchRemote, without the lock: what an earlier one left in the directory beside
\* goes first.
BeginFetch ==
  /\ fetch = None
  /\ Spend
  /\ \E t \in Targets : \E b \in Listed(remote[t]) :
       /\ local[b] = {}
       /\ fetch' = [id |-> b, target |-> t,
                    pc |-> IF staged[b] = {} THEN "copy" ELSE "clear"]
  /\ UNCHANGED <<stores, product, restore, asked, op>>

Fetching(pc) == fetch # None /\ fetch.pc = pc

FetchGoto(pc) == fetch' = [fetch EXCEPT !.pc = pc]

FetchClears ==
  /\ Fetching("clear")
  /\ IF staged[fetch.id] = {} THEN FetchGoto("copy") /\ UNCHANGED staged
                             ELSE RemoveStaged(fetch.id) /\ UNCHANGED fetch
  /\ UNCHANGED <<local, remote, preUpdate, taken, landed, product, restore, asked, op, spent>>

\* blob.Fetch: the components, and the manifest last; then verifyFetched.  A file that
\* is gone, on the target or in the directory, fails it.
FetchCopies ==
  /\ fetch # None /\ fetch.pc \in {"copy", "manifest"}
  /\ LET file == IF fetch.pc = "copy" THEN "data" ELSE "manifest"
     IN  IF {file, "manifest"} \subseteq remote[fetch.target][fetch.id]
         THEN /\ staged' = [staged EXCEPT ![fetch.id] = @ \cup {file}]
              /\ FetchGoto(IF fetch.pc = "copy" THEN "manifest" ELSE "verify")
         ELSE FetchGoto("drop") /\ UNCHANGED staged
  /\ UNCHANGED <<local, remote, preUpdate, taken, landed, product, restore, asked, op, spent>>

FetchVerifies ==
  /\ Fetching("verify")
  /\ FetchGoto(IF staged[fetch.id] = Files THEN "place" ELSE "drop")
  /\ UNCHANGED <<stores, product, restore, asked, op, spent>>

\* The rename fails over a directory that has since been made, and without one to move.
FetchPlaces ==
  /\ Fetching("place")
  /\ IF local[fetch.id] = {} /\ staged[fetch.id] # {}
     THEN /\ local' = [local EXCEPT ![fetch.id] = staged[fetch.id]]
          /\ staged' = [staged EXCEPT ![fetch.id] = {}]
          /\ fetch' = None
     ELSE FetchGoto("drop") /\ UNCHANGED <<local, staged>>
  /\ UNCHANGED <<remote, preUpdate, taken, landed, product, restore, asked, op, spent>>

FetchDrops ==
  /\ Fetching("drop")
  /\ IF staged[fetch.id] = {} THEN fetch' = None /\ UNCHANGED staged
                             ELSE RemoveStaged(fetch.id) /\ UNCHANGED fetch
  /\ UNCHANGED <<local, remote, preUpdate, taken, landed, product, restore, asked, op, spent>>

\* A failure removes the directory; a kill leaves it.
FetchFails ==
  /\ fetch # None
  /\ Fault
  /\ fetch' = None \/ FetchGoto("drop")
  /\ UNCHANGED <<stores, product, restore, asked, op>>

\* A kill or a power cut takes the command that holds the lock with it, and a
\* call to the runtime may be half done.
Crash ==
  /\ op # None
  /\ Fault
  /\ CASE op.pc = "work"             -> LeftBy(op.step)
       [] op.pc = "quiesce"          -> LeftBy(3)
       [] op.pc = "copy"             -> services' \in {op.before, "some", "down"} /\ UNCHANGED data
       [] op.pc = "converge"         -> LeftBy(6)
       [] op.pc = "undo" /\ ~stopped -> LeftBy(6)
       [] OTHER                      -> UNCHANGED <<services, data>>
  /\ restore' = IF op.pc = "undo" /\ ~stopped THEN [restore EXCEPT !.overrun = TRUE]
                ELSE restore
  /\ End
  /\ UNCHANGED <<stores, stopped, release, asked, fetch>>

-----------------------------------------------------------------------------

Init == /\ local = [b \in Backups |-> {}]
        /\ staged = [b \in Backups |-> {}]
        /\ remote = [t \in Targets |-> [b \in Backups |-> {}]]
        /\ preUpdate = {}
        /\ taken = 0
        /\ services = "up"
        /\ data = OfProduct
        /\ stopped = FALSE
        /\ release = 0
        /\ restore = NoRestore
        /\ asked = None
        /\ op = None
        /\ fetch = None
        /\ landed = [t \in Targets |-> 0]
        /\ ops = 0 /\ faults = 0

TakeBackup == BeginBackup \/ Create \/ Quiesce \/ CopyVolumes \/ Seal \/ CreateFails
              \/ Verify \/ VerifyFails \/ Discard

PushBackup == BeginPush \/ PutComponents \/ PutManifest \/ PushFails \/ Unpush
              \/ UnpushFails \/ PushDone

Update == BeginUpdate \/ Converge \/ ConvergeFails

Retention == Prune \/ Remove \/ RemoveDone \/ RemoveFails \/ PruneRemote
             \/ RemoveRemote \/ RemoveRemoteDone \/ RemoveRemoteFails

Restore == Ask \/ Take \/ GiveUp \/ SkipStep \/ BeginStep \/ Inspect \/ StopServices
           \/ WipeVolumes \/ ExtractVolumes \/ BeginHook \/ HookDone \/ Reapply
           \/ StepFails \/ Undo \/ UndoFails \/ Interrupt \/ Restored

Fetch == BeginFetch \/ FetchClears \/ FetchCopies \/ FetchVerifies \/ FetchPlaces
         \/ FetchDrops \/ FetchFails

Next == TakeBackup \/ PushBackup \/ Update \/ Retention \/ Restore \/ Fetch
        \/ Converges \/ Stop \/ Clear \/ Crash

Spec == Init /\ [][Next]_vars

-----------------------------------------------------------------------------
(* Properties *)

Asked == [id : Backups, staging : BOOLEAN, resume : BOOLEAN, made : 0..MaxOps, release : Nat]
FetchProcess == [id : Backups, target : Targets,
                 pc : {"clear", "copy", "manifest", "verify", "place", "drop"}]

\* Types; a command at a file of a backup or a target has one.
TypeOK ==
  /\ local \in [Backups -> SUBSET Files]
  /\ staged \in [Backups -> SUBSET Files]
  /\ remote \in [Targets -> [Backups -> SUBSET Files]]
  /\ preUpdate \subseteq Backups
  /\ taken \in 0..MaxBackups
  /\ services \in Services
  /\ data \in [volumes : 0..MaxBackups, database : 0..MaxBackups]
  /\ stopped \in BOOLEAN /\ release \in Nat
  /\ restore \in Record
  /\ asked \in Asked \cup {None}
  /\ op \in Process \cup {None}
  /\ fetch \in FetchProcess \cup {None}
  /\ landed \in [Targets -> 0..MaxBackups]
  /\ ops \in 0..MaxOps /\ faults \in 0..MaxFaults

\* What a target lists is whole, whatever was cut off while it was pushed,
\* removed or cleaned up (blob.Push and blob.Remove).
ListedIsWhole ==
  \A t \in Targets : \A b \in Listed(remote[t]) : remote[t][b] = Files

\* A restore that a resume would continue finds its backup, however many
\* backups retention has made way for since (unfinishedRestoreBackup); but not one
\* that was listed, and verified, in the staging directory of a fetch, which is not
\* where a resume looks.
ResumeFindsItsBackup ==
  CanContinue /\ 1 \in restore.done /\ 5 \notin restore.done /\ ~restore.staging
    => local[restore.id] = Files

\* When the restore hook is done, the volumes and the database are those of
\* one backup and nothing has run over them, in whatever runs the restore was
\* done and whatever ran between them (refuseStaleRestore); but when the undoing
\* of one of those runs brought the product up half way, which no step of the
\* record says.
OneMoment ==
  [][5 \in restore'.done \ restore.done /\ ~restore.overrun
       => /\ data' = [volumes |-> restore'.id, database |-> restore'.id]
          /\ services' = "down"]_vars

\* The backup that guards the last update that took one stays on the machine
\* (RetentionPolicy.Prunes).
GuardStays ==
  \A b \in preUpdate : (\A c \in preUpdate : c <= b) => local[b] = Files

\* A target keeps the newest backup that has landed there, also when later ones
\* cannot be pushed to it (stepPruneRemoteBackups).
LandedStays ==
  \A t \in Targets : landed[t] # 0 => remote[t][landed[t]] = Files
=============================================================================
