---------------------------- MODULE BackupProofs ----------------------------
(***************************************************************************)
(* Theorems of Backup: what its run checks on three backups and two        *)
(* targets, for any number of backups, targets, commands and faults and    *)
(* any retention.                                                          *)
(***************************************************************************)
EXTENDS Backup, FiniteSetTheorems, TLAPS

-----------------------------------------------------------------------------
(* Types *)

StoresTyped ==
  /\ local \in [Backups -> SUBSET Files]
  /\ staged \in [Backups -> SUBSET Files]
  /\ remote \in [Targets -> [Backups -> SUBSET Files]]
  /\ preUpdate \subseteq Backups
  /\ taken \in 0..MaxBackups
  /\ landed \in [Targets -> 0..MaxBackups]

ProductTyped ==
  /\ services \in Services
  /\ data \in [volumes : 0..MaxBackups, database : 0..MaxBackups]
  /\ stopped \in BOOLEAN /\ release \in Nat

RestoreTyped ==
  /\ restore \in Record
  /\ restore.status # "none" => restore.id \in Backups

ReadersTyped ==
  /\ asked \in Asked \cup {None}
  /\ fetch \in FetchProcess \cup {None}
  /\ ops \in 0..MaxOps /\ faults \in 0..MaxFaults

\* What a command is at when it works on a backup, a target or a step.
OpTyped ==
  /\ op \in Process \cup {None}
  /\ op # None =>
       /\ op.pc = "create" => op.kind \in {"backup", "update"} /\ taken < MaxBackups
       /\ op.pc \notin {"create", "converge", "prune", "remove", "prune-remote"}
            => op.id \in Backups
       /\ op.pushed # {} => op.id \in Backups
       /\ op.pc \in {"manifest", "unpush", "remove-remote"} => op.at \in Targets
       /\ op.pc \in {"work", "write", "undo"} => op.step \in Index
       /\ op.kind = "restore" <=> op.pc \in {"step", "work", "write", "undo"}
       /\ op.kind = "restore" => restore.status # "none"

TypeInv == StoresTyped /\ ProductTyped /\ RestoreTyped /\ ReadersTyped /\ OpTyped

LEMMA TypeInvOK == TypeInv => TypeOK
  BY DEF TypeInv, StoresTyped, ProductTyped, RestoreTyped, ReadersTyped, OpTyped, TypeOK

LEMMA NumberTypes ==
  /\ \A b \in Backups : b \in 0..MaxBackups /\ b \in Nat
  /\ 0 \in 0..MaxBackups /\ 0 \in 0..MaxOps /\ 0 \in 0..MaxFaults
  /\ 1 \in 1..(NumTargets + 1)
  BY CountAssumption, BoundAssumption DEF Backups

LEMMA StoresInit == Init => StoresTyped
  BY NumberTypes DEF Init, StoresTyped, Files

LEMMA TypeInit == Init => TypeInv
<1> SUFFICES ASSUME Init PROVE TypeInv
  OBVIOUS
<1>1. RestoreTyped
  BY NumberTypes DEF Init, RestoreTyped, NoRestore, Record, Statuses
<1>2. ProductTyped
  BY NumberTypes DEF Init, ProductTyped, OfProduct, Services
<1>3. QED
  BY <1>1, <1>2, StoresInit, NumberTypes DEF Init, TypeInv, ReadersTyped, OpTyped

\* A file system step leaves directories of files.
LEMMA RemovedFile ==
  ASSUME StoresTyped, NEW b, RemoveFile(b)
  PROVE  local' \in [Backups -> SUBSET Files]
  BY DEF StoresTyped, RemoveFile

LEMMA RemovedStaged ==
  ASSUME StoresTyped, NEW b, RemoveStaged(b)
  PROVE  staged' \in [Backups -> SUBSET Files]
  BY DEF StoresTyped, RemoveStaged

LEMMA HeldFiles ==
  ASSUME StoresTyped, NEW t \in Targets, NEW b \in Backups, NEW S \in SUBSET Files, Holds(t, b, S)
  PROVE  remote' \in [Targets -> [Backups -> SUBSET Files]]
  BY DEF StoresTyped, Holds

LEMMA RemovedRemotely ==
  ASSUME StoresTyped, NEW t \in Targets, NEW b \in Backups, RemoveRemotely(t, b)
  PROVE  remote' \in [Targets -> [Backups -> SUBSET Files]]
<1>1. remote[t][b] \subseteq Files
  BY DEF StoresTyped
<1>2. QED
  BY <1>1, HeldFiles DEF RemoveRemotely

LEMMA OpShape ==
  ASSUME OpTyped, op # None
  PROVE  /\ op.kind \in Kinds /\ op.id \in 0..MaxBackups
         /\ op.at \in 1..(NumTargets + 1) /\ op.step \in Position
         /\ op.pushed \subseteq Targets /\ op.go \subseteq Backups
         /\ op.staging \in BOOLEAN /\ op.beside \subseteq Backups
         /\ op.before \in Services
  BY DEF OpTyped, Process

LEMMA StoresStep ==
  ASSUME TypeInv, Next
  PROVE  StoresTyped'
<1> USE DEF TypeInv
<1>1. CASE Create
  <2>1. taken + 1 \in 0..MaxBackups
    BY <1>1, CountAssumption DEF Create, At, OpTyped, StoresTyped
  <2>2. local' \in [Backups -> SUBSET Files]
    BY <1>1 DEF Create, StoresTyped, Files
  <2>3. QED
    BY <1>1, <2>1, <2>2 DEF Create, StoresTyped
<1>2. CASE Seal
  <2>1. op.id \in Backups
    BY <1>2 DEF Seal, At, OpTyped
  <2>2. QED
    BY <1>2, <2>1 DEF Seal, StoresTyped
<1>3. CASE CreateFails
  BY <1>3 DEF CreateFails, StoresTyped, Fault, End
<1>4. CASE Discard
  BY <1>4, RemovedFile DEF Discard, StoresTyped
<1>5. CASE PutComponents
  <2>1. op # None /\ op.at \in Targets /\ op.id \in Backups
    BY <1>5 DEF PutComponents, At, HasTarget, OpTyped
  <2>2. remote[op.at][op.id] \cup {"data"} \in SUBSET Files
    BY <2>1 DEF StoresTyped, Files
  <2>3. QED
    BY <1>5, <2>1, <2>2, HeldFiles DEF PutComponents, StoresTyped
<1>6. CASE PutManifest
  <2>1. op # None /\ op.at \in Targets /\ op.id \in Backups
    BY <1>6 DEF PutManifest, At, OpTyped
  <2>2. Max2(landed[op.at], op.id) \in 0..MaxBackups
    BY <2>1, NumberTypes DEF StoresTyped, Max2
  <2>3. QED
    BY <1>6, <2>1, <2>2, HeldFiles DEF PutManifest, StoresTyped
<1>7. CASE Unpush
  <2>1. op # None /\ op.at \in Targets /\ op.id \in Backups
    BY <1>7 DEF Unpush, At, OpTyped
  <2>2. QED
    BY <1>7, <2>1, RemovedRemotely, NumberTypes DEF Unpush, StoresTyped
<1>8. CASE Remove
  BY <1>8, RemovedFile, RemovedStaged DEF Remove, StoresTyped
<1>9. CASE RemoveRemote
  <2>1. op # None /\ op.at \in Targets /\ op.go \subseteq Backups
    BY <1>9, OpShape DEF RemoveRemote, At, OpTyped
  <2>2. QED
    BY <1>9, <2>1, RemovedRemotely DEF RemoveRemote, NewestToGo, StoresTyped
<1>10. CASE FetchClears \/ FetchDrops
  BY <1>10, RemovedStaged DEF FetchClears, FetchDrops, StoresTyped
<1>11. CASE FetchCopies
  <2>1. staged' \in [Backups -> SUBSET Files]
    BY <1>11 DEF FetchCopies, StoresTyped, Files
  <2>2. QED
    BY <1>11, <2>1 DEF FetchCopies, StoresTyped
<1>12. CASE FetchPlaces
  <2>1. staged' \in [Backups -> SUBSET Files]
    BY <1>12 DEF FetchPlaces, StoresTyped
  <2>2. local' \in [Backups -> SUBSET Files]
    BY <1>12 DEF FetchPlaces, StoresTyped, ReadersTyped, FetchProcess
  <2>3. QED
    BY <1>12, <2>1, <2>2 DEF FetchPlaces, StoresTyped
<1>13. CASE UNCHANGED stores
  BY <1>13 DEF stores, StoresTyped
<1>14. QED
  BY <1>1, <1>2, <1>3, <1>4, <1>5, <1>6, <1>7, <1>8, <1>9, <1>10, <1>11, <1>12, <1>13
     DEF Next, TakeBackup, PushBackup, Update, Retention, Restore, Fetch,
         BeginBackup, Quiesce, CopyVolumes, Verify, VerifyFails, BeginPush, PushFails,
         UnpushFails, PushDone, BeginUpdate, Converge, ConvergeFails, Prune, RemoveDone,
         RemoveFails, PruneRemote, RemoveRemoteDone, RemoveRemoteFails, Ask, Take, GiveUp,
         SkipStep, BeginStep, Inspect, StopServices, WipeVolumes, ExtractVolumes, BeginHook,
         HookDone, Reapply, StepFails, Undo, UndoFails, Interrupt, Restored, BeginFetch,
         FetchVerifies, FetchFails, Converges, Stop, Clear, Crash

Contents == [volumes : 0..MaxBackups, database : 0..MaxBackups]

LEMMA HalfStoppedTyped == ProductTyped => HalfStopped \subseteq Services
  BY DEF ProductTyped, HalfStopped, Services

LEMMA LeftByTyped ==
  ASSUME ProductTyped, NEW i, LeftBy(i)
  PROVE  services' \in Services /\ data' \in Contents
<1>1. OfProduct \in Contents
  BY NumberTypes DEF OfProduct, Contents
<1>2. services \in Services /\ data \in Contents
  BY DEF ProductTyped, Contents
<1>3. QED
  BY <1>1, <1>2, HalfStoppedTyped DEF LeftBy, Services

LEMMA ProductStep ==
  ASSUME TypeInv, Next
  PROVE  ProductTyped'
<1> USE DEF TypeInv
<1>a. services \in Services /\ data \in Contents /\ stopped \in BOOLEAN /\ release \in Nat
  BY DEF ProductTyped, Contents
<1>b. OfProduct \in Contents /\ \A s \in {"up", "some", "down"} : s \in Services
  BY NumberTypes DEF OfProduct, Contents, Services
<1>c. ASSUME services' \in Services, data' \in Contents, stopped' \in BOOLEAN, release' \in Nat
      PROVE  ProductTyped'
  BY <1>c DEF ProductTyped, Contents
<1>d. op # None => op.before \in Services /\ op.id \in 0..MaxBackups
  BY OpShape
<1>1. CASE Quiesce
  BY <1>1, <1>a, <1>b, <1>c DEF Quiesce
<1>2. CASE CopyVolumes
  BY <1>2, <1>a, <1>c, <1>d DEF CopyVolumes, At
<1>3. CASE CreateFails
  BY <1>3, <1>a, <1>b, <1>c, <1>d, HalfStoppedTyped DEF CreateFails
<1>4. CASE Converge
  BY <1>4, <1>a, <1>b, <1>c DEF Converge
<1>5. CASE ConvergeFails
  BY <1>5, <1>a, <1>c, LeftByTyped DEF ConvergeFails
<1>6. CASE StopServices \/ Reapply
  BY <1>6, <1>a, <1>b, <1>c DEF StopServices, Reapply
<1>7. CASE WipeVolumes \/ ExtractVolumes \/ BeginHook \/ HookDone
  <2>1. data' \in Contents
    BY <1>7, <1>d, NumberTypes, <1>a DEF WipeVolumes, ExtractVolumes, BeginHook, HookDone,
       AtStep, At, Contents
  <2>2. QED
    BY <1>7, <1>a, <1>c, <2>1 DEF WipeVolumes, ExtractVolumes, BeginHook, HookDone
<1>8. CASE StepFails
  BY <1>8, <1>a, <1>c, LeftByTyped DEF StepFails
<1>9. CASE Undo \/ UndoFails
  BY <1>9, <1>a, <1>b, <1>c DEF Undo, UndoFails
<1>10. CASE Interrupt
  BY <1>10, <1>a, <1>c, LeftByTyped DEF Interrupt
<1>11. CASE Converges \/ Stop
  BY <1>11, <1>a, <1>b, <1>c DEF Converges, Stop
<1>12. CASE Crash
  <2>1. services' \in Services /\ data' \in Contents
    BY <1>12, <1>a, <1>b, <1>d, LeftByTyped DEF Crash
  <2>2. QED
    BY <1>12, <1>a, <1>c, <2>1 DEF Crash
<1>13. CASE UNCHANGED product
  BY <1>13 DEF product, ProductTyped
<1>14. QED
  BY <1>1, <1>2, <1>3, <1>4, <1>5, <1>6, <1>7, <1>8, <1>9, <1>10, <1>11, <1>12, <1>13
     DEF Next, TakeBackup, PushBackup, Update, Retention, Restore, Fetch, product,
         BeginBackup, Create, Seal, Verify, VerifyFails, Discard, BeginPush, PutComponents,
         PutManifest, PushFails, Unpush, UnpushFails, PushDone, BeginUpdate, Prune, Remove,
         RemoveDone, RemoveFails, PruneRemote, RemoveRemote, RemoveRemoteDone,
         RemoveRemoteFails, Ask, Take, GiveUp, SkipStep, BeginStep, Inspect, Restored,
         BeginFetch, FetchClears, FetchCopies,
         FetchVerifies, FetchPlaces, FetchDrops, FetchFails, Clear

LEMMA Fields ==
  /\ 0 \in 0..7 /\ Index = 1..7 /\ Index \subseteq 0..7
  /\ TRUE \in BOOLEAN /\ FALSE \in BOOLEAN
  BY DEF Index

\* A record of a restore stays one when its status changes,
LEMMA StatusFits ==
  ASSUME NEW r \in Record, NEW s \in Statuses
  PROVE  /\ [r EXCEPT !.status = s] \in Record
         /\ [r EXCEPT !.status = s, !.begun = 0] \in Record
         /\ [r EXCEPT !.status = s, !.overrun = TRUE] \in Record
         /\ [r EXCEPT !.overrun = TRUE] \in Record
         /\ [r EXCEPT !.stale = TRUE] \in Record
  BY Fields DEF Record

\* and when one of its steps does.
LEMMA StepFits ==
  ASSUME NEW r \in Record, NEW s \in Statuses, NEW S \in SUBSET Index, NEW i \in Index
  PROVE  /\ [r EXCEPT !.status = s, !.begun = i, !.done = S] \in Record
         /\ [r EXCEPT !.begun = i, !.done = S] \in Record
         /\ [r EXCEPT !.undone = TRUE, !.done = S, !.status = s] \in Record
<1>1. i \in 0..7
  BY Fields
<1>2. QED
  BY <1>1, Fields DEF Record

LEMMA DoneFits ==
  ASSUME NEW r \in Record, NEW S \in SUBSET Index, NEW x \in BOOLEAN, NEW y \in BOOLEAN
  PROVE  [r EXCEPT !.begun = 0, !.done = S, !.overrun = x, !.staging = y] \in Record
  BY Fields DEF Record

LEMMA FreshFits ==
  ASSUME NEW i \in Backups, NEW m \in 0..MaxOps
  PROVE  [NoRestore EXCEPT !.id = i, !.status = "running", !.made = m] \in Record
<1>1. NoRestore \in Record
  BY Fields, NumberTypes DEF Record, NoRestore, Statuses
<1>2. "running" \in Statuses /\ i \in 0..MaxBackups
  BY NumberTypes DEF Statuses
<1>3. QED
  BY <1>1, <1>2 DEF Record

LEMMA RestoreStep ==
  ASSUME TypeInv, Next
  PROVE  RestoreTyped'
<1> USE DEF TypeInv
<1>a. restore \in Record /\ (restore.status # "none" => restore.id \in Backups)
  BY DEF RestoreTyped
<1>b. ops \in 0..MaxOps /\ asked \in Asked \cup {None}
  BY DEF ReadersTyped
<1>c. /\ restore.done \subseteq Index
      /\ \A i \in Index : restore.done \cup {i} \in SUBSET Index /\ restore.done \ {i} \in SUBSET Index
  BY <1>a DEF Record
<1>d. "failed" \in Statuses /\ "running" \in Statuses /\ "interrupted" \in Statuses
      /\ "succeeded" \in Statuses /\ "compensated" \in Statuses
      /\ "requires-manual-intervention" \in Statuses
  BY DEF Statuses
<1>e. ASSUME restore' \in Record, restore'.id = restore.id, restore.status # "none"
      PROVE  RestoreTyped'
  BY <1>e, <1>a DEF RestoreTyped
<1>f. ASSUME restore' \in Record, restore'.id = restore.id, restore'.status = restore.status
      PROVE  RestoreTyped'
  BY <1>f, <1>a DEF RestoreTyped
<1>1. CASE BeginUpdate \/ Converges \/ Stop
  <2>1. restore' \in Record
    BY <1>1, <1>a, StatusFits, <1>d DEF BeginUpdate, Converges, Stop, BuiltOn
  <2>2. restore'.id = restore.id /\ restore'.status = restore.status
    BY <1>1, <1>a DEF BeginUpdate, Converges, Stop, BuiltOn, Record
  <2>3. QED
    BY <2>1, <2>2, <1>f
<1>2. CASE Take
  <2>1. CASE UNCHANGED restore
    BY <1>a, <2>1 DEF RestoreTyped
  <2>2. CASE restore' = [restore EXCEPT !.status = "running", !.begun = 0] /\ StillSo /\ asked.resume
    <3>1. restore.status # "none"
      BY <2>2 DEF StillSo, CanContinue, Resumable
    <3>2. restore' \in Record /\ restore'.id = restore.id
      BY <2>2, <1>a, <1>d, StatusFits DEF Record
    <3>3. QED
      BY <3>1, <3>2, <1>e
  <2>3. CASE restore' = [NoRestore EXCEPT !.id = asked.id, !.status = "running", !.made = ops]
    <3>1. asked.id \in Backups
      BY <1>2, <1>b DEF Take, Asked
    <3>2. restore' \in Record /\ restore'.id = asked.id
      BY <2>3, <3>1, <1>b, FreshFits DEF NoRestore
    <3>3. QED
      BY <3>1, <3>2 DEF RestoreTyped
  <2>4. QED
    BY <1>2, <2>1, <2>2, <2>3 DEF Take
<1>3. CASE BeginStep
  <2>1. op.step \in Index
    BY <1>3, OpShape DEF BeginStep, At, Last, Index, Position
  <2>2. restore' \in Record
    BY <1>3, <1>a, <1>c, <1>d, <2>1, StepFits DEF BeginStep
  <2>3. restore'.id = restore.id /\ restore'.status = restore.status
    BY <1>3, <1>a DEF BeginStep, Record
  <2>4. QED
    BY <2>2, <2>3, <1>f
<1>4. CASE StepDone /\ op # None /\ op.pc \in {"work", "write"}
  <2>1. op.step \in Index
    BY <1>4 DEF OpTyped
  <2>2. restore' \in Record
    <3>1. op.staging \in BOOLEAN
      BY <1>4, OpShape
    <3>2. restore.overrun \in BOOLEAN /\ restore.staging \in BOOLEAN
      BY <1>a DEF Record
    <3> DEFINE x == IF op.step = 4 THEN FALSE ELSE restore.overrun
               y == IF op.step = 1 THEN op.staging ELSE restore.staging
    <3>3. x \in BOOLEAN /\ y \in BOOLEAN
      BY <3>1, <3>2
    <3>4. restore' = [restore EXCEPT !.begun = 0, !.done = restore.done \cup {op.step},
                                     !.overrun = x, !.staging = y]
      BY <1>4, <1>a DEF StepDone, Record
    <3> HIDE DEF x, y
    <3>5. QED
      BY <1>a, <1>c, <2>1, <3>3, <3>4, DoneFits
  <2>3. restore'.status = restore.status /\ restore'.id = restore.id
    BY <1>4, <1>a DEF StepDone, Record
  <2>4. QED
    BY <2>2, <2>3, <1>f
<1>5. CASE StepFails \/ Restored \/ Clear \/ UndoFails
  <2>1. \/ UNCHANGED restore
        \/ \E st \in Statuses : \/ restore' = [restore EXCEPT !.status = st]
                               \/ restore' = [restore EXCEPT !.status = st, !.overrun = TRUE]
    BY <1>5, <1>d DEF StepFails, Restored, Clear, UndoFails
  <2>2. restore.status # "none"
    BY <1>5 DEF StepFails, Restored, Clear, GateOpen, UndoFails, At, OpTyped
  <2>3. CASE restore' # restore
    <3>1. restore' \in Record
      BY <1>a, <2>1, <2>3, StatusFits
    <3>2. restore'.id = restore.id
      BY <1>a, <2>1 DEF Record
    <3>3. QED
      BY <2>2, <3>1, <3>2, <1>e
  <2>4. QED
    BY <2>3, <1>a DEF RestoreTyped
<1>6. CASE Crash
  <2>1. restore' \in Record /\ restore'.id = restore.id /\ restore'.status = restore.status
    BY <1>6, <1>a, StatusFits, <1>d DEF Crash, Record
  <2>2. QED
    BY <2>1, <1>f
<1>7. CASE Undo
  <2>1. op.step \in Index /\ restore.status # "none" /\ 3 \in Index
    BY <1>7 DEF Undo, At, OpTyped, Index
  <2>2. restore' \in Record
    <3>1. PICK st \in Statuses :
            restore' = [restore EXCEPT !.undone = TRUE, !.done = restore.done \ {3}, !.status = st]
      BY <1>7, <1>d DEF Undo
    <3>2. restore.done \ {3} \in SUBSET Index
      BY <1>c, <2>1
    <3>3. QED
      BY <1>a, <2>1, <3>1, <3>2, StepFits
  <2>3. restore'.id = restore.id
    BY <1>7, <1>a DEF Undo, Record
  <2>4. QED
    BY <2>1, <2>2, <2>3, <1>e
<1>8. CASE Interrupt
  <2>1. op.step \in Index /\ restore.status # "none"
    BY <1>8, OpShape DEF Interrupt, Last, Index, Position, OpTyped
  <2>2. restore' = [restore EXCEPT !.status = "interrupted", !.begun = op.step,
                                   !.done = restore.done \ {op.step}]
    BY <1>8 DEF Interrupt
  <2>3. restore' \in Record
    BY <1>a, <1>c, <1>d, <2>1, <2>2, StepFits
  <2>4. restore'.id = restore.id
    BY <2>2, <1>a DEF Record
  <2>5. QED
    BY <2>1, <2>3, <2>4, <1>e
<1>10. CASE UNCHANGED restore
  BY <1>a, <1>10 DEF RestoreTyped
<1>11. QED
  BY <1>1, <1>2, <1>3, <1>4, <1>5, <1>6, <1>7, <1>8, <1>10
     DEF Next, TakeBackup, PushBackup, Update, Retention, Restore, Fetch, AtStep, At,
         BeginBackup, Create, Quiesce, CopyVolumes, Seal, CreateFails, Verify, VerifyFails,
         Discard, BeginPush, PutComponents, PutManifest, PushFails, Unpush, UnpushFails,
         PushDone, Converge, ConvergeFails, Prune, Remove, RemoveDone, RemoveFails,
         PruneRemote, RemoveRemote, RemoveRemoteDone, RemoveRemoteFails, Ask, GiveUp, SkipStep,
         Inspect, StopServices, WipeVolumes, ExtractVolumes, BeginHook, HookDone, Reapply,
         BeginFetch, FetchClears, FetchCopies,
         FetchVerifies, FetchPlaces, FetchDrops, FetchFails

LEMMA SpentStep ==
  ASSUME TypeInv, Next
  PROVE  ops' \in 0..MaxOps /\ faults' \in 0..MaxFaults
<1>a. ops \in 0..MaxOps /\ faults \in 0..MaxFaults
  BY DEF TypeInv, ReadersTyped
<1>1. CASE Spend
  BY <1>1, <1>a, BoundAssumption DEF Spend
<1>2. CASE Fault
  BY <1>2, <1>a, BoundAssumption DEF Fault
<1>3. CASE UNCHANGED spent
  BY <1>3, <1>a DEF spent
<1>4. QED
  BY <1>1, <1>2, <1>3
     DEF Next, TakeBackup, PushBackup, Update, Retention, Restore, Fetch,
         BeginBackup, Create, Quiesce, CopyVolumes, Seal, CreateFails, Verify, VerifyFails,
         Discard, BeginPush, PutComponents, PutManifest, PushFails, Unpush, UnpushFails,
         PushDone, BeginUpdate, Converge, ConvergeFails, Prune, Remove, RemoveDone, RemoveFails,
         PruneRemote, RemoveRemote, RemoveRemoteDone, RemoveRemoteFails, Ask, Take, GiveUp,
         SkipStep, BeginStep, Inspect, StopServices, WipeVolumes, ExtractVolumes, BeginHook,
         HookDone, Reapply, StepFails, Undo, UndoFails, Interrupt, Restored, BeginFetch,
         FetchClears, FetchCopies,
         FetchVerifies, FetchPlaces, FetchDrops, FetchFails, Converges, Stop, Clear, Crash

LEMMA ReadersStep ==
  ASSUME TypeInv, Next
  PROVE  ReadersTyped'
<1> USE DEF TypeInv
<1>a. asked \in Asked \cup {None} /\ fetch \in FetchProcess \cup {None}
  BY DEF ReadersTyped
<1>1. CASE Ask
  <2>1. restore.made \in 0..MaxOps /\ release \in Nat /\ 0 \in 0..MaxOps
    BY NumberTypes DEF RestoreTyped, Record, ProductTyped
  <2>2. restore.status \in Resumable => restore.id \in Backups
    BY DEF RestoreTyped, Resumable
  <2>3. asked' \in Asked
    <3>1. CASE \E b \in ListedHere :
                 asked' = [id |-> b, staging |-> b \in Listed(staged), resume |-> FALSE,
                           made |-> 0, release |-> release]
      BY <2>1, <3>1 DEF ListedHere, Listed, Asked
    <3>2. CASE /\ restore.status \in Resumable
               /\ asked' = [id |-> restore.id, staging |-> FALSE, resume |-> TRUE,
                            made |-> restore.made, release |-> release]
      BY <2>1, <2>2, <3>2 DEF Asked
    <3>3. QED
      BY <1>1, <3>1, <3>2 DEF Ask
  <2>4. QED
    BY <1>1, <1>a, <2>3, SpentStep DEF Ask, ReadersTyped
<1>2. CASE asked' = None /\ UNCHANGED fetch
  BY <1>2, <1>a, SpentStep DEF ReadersTyped
<1>3. CASE BeginFetch
  <2>1. fetch' \in FetchProcess
    BY <1>3 DEF BeginFetch, Listed, FetchProcess
  <2>2. QED
    BY <1>3, <1>a, <2>1, SpentStep DEF BeginFetch, ReadersTyped
<1>4. CASE FetchClears \/ FetchCopies \/ FetchVerifies
  <2>1. fetch' \in FetchProcess /\ UNCHANGED asked
    BY <1>4, <1>a DEF FetchClears, FetchCopies, FetchVerifies, Fetching, FetchGoto, FetchProcess
  <2>2. QED
    BY <1>a, <2>1, SpentStep DEF ReadersTyped
<1>5. CASE FetchPlaces \/ FetchDrops \/ FetchFails
  <2>1. fetch' \in FetchProcess \cup {None} /\ UNCHANGED asked
    BY <1>5, <1>a DEF FetchPlaces, FetchDrops, FetchFails, Fetching, FetchGoto, FetchProcess
  <2>2. QED
    BY <1>a, <2>1, SpentStep DEF ReadersTyped
<1>6. CASE UNCHANGED <<asked, fetch>>
  BY <1>6, <1>a, SpentStep DEF ReadersTyped
<1>7. QED
  BY <1>1, <1>2, <1>3, <1>4, <1>5, <1>6
     DEF Next, TakeBackup, PushBackup, Update, Retention, Restore, Fetch,
         BeginBackup, Create, Quiesce, CopyVolumes, Seal, CreateFails, Verify, VerifyFails,
         Discard, BeginPush, PutComponents, PutManifest, PushFails, Unpush, UnpushFails,
         PushDone, BeginUpdate, Converge, ConvergeFails, Prune, Remove, RemoveDone, RemoveFails,
         PruneRemote, RemoveRemote, RemoveRemoteDone, RemoveRemoteFails, Take, GiveUp,
         SkipStep, BeginStep, Inspect, StopServices, WipeVolumes, ExtractVolumes, BeginHook,
         HookDone, Reapply, StepFails, Undo, UndoFails, Interrupt, Restored, Converges, Stop,
         Clear, Crash

\* A command begins, goes on, or ends.
LEMMA BeginFits ==
  ASSUME NEW kind \in Kinds, NEW id \in 0..MaxBackups, NEW here \in BOOLEAN,
         NEW pc \in {"create", "push", "converge", "step"}
  PROVE  LET p == BeginOn(kind, id, here, pc)
         IN  /\ p \in Process
             /\ p.kind = kind /\ p.id = id /\ p.pc = pc /\ p.pushed = {}
  BY NumberTypes DEF BeginOn, Process, Position, Services, Targets, Backups

Going == {"quiesce", "copy", "seal", "verify", "discard", "push", "manifest", "unpush",
          "converge", "prune", "remove", "prune-remote", "remove-remote", "step", "work",
          "write", "undo"}

LEMMA GotoFits ==
  ASSUME NEW p \in Process, NEW pc \in Going
  PROVE  /\ [p EXCEPT !.pc = pc] \in Process
         /\ \A n \in 0..MaxBackups : [p EXCEPT !.id = n, !.pc = pc] \in Process
         /\ \A s \in Services : [p EXCEPT !.before = s, !.pc = pc] \in Process
         /\ [p EXCEPT !.pc = pc, !.at = 1] \in Process
<1>1. /\ pc \in {"create", "quiesce", "copy", "seal", "verify", "discard",
                "push", "manifest", "unpush", "converge", "prune", "remove",
                "prune-remote", "remove-remote", "step", "work", "write", "undo"}
      /\ 1 \in 1..(NumTargets + 1)
  BY NumberTypes DEF Going
<1>2. [p EXCEPT !.pc = pc] \in Process
  BY <1>1 DEF Process
<1>3. ASSUME NEW n \in 0..MaxBackups PROVE [p EXCEPT !.id = n, !.pc = pc] \in Process
  BY <1>1 DEF Process
<1>4. ASSUME NEW s \in Services PROVE [p EXCEPT !.before = s, !.pc = pc] \in Process
  BY <1>1 DEF Process
<1>5. [p EXCEPT !.pc = pc, !.at = 1] \in Process
  BY <1>1 DEF Process
<1>6. QED
  BY <1>2, <1>3, <1>4, <1>5

LEMMA GoFits ==
  ASSUME NEW p \in Process, NEW S \in SUBSET Backups
  PROVE  /\ [p EXCEPT !.go = S] \in Process
         /\ \A pc \in Going : /\ [p EXCEPT !.pc = pc, !.go = S] \in Process
                              /\ [p EXCEPT !.pc = pc, !.at = 1, !.go = S] \in Process
         /\ \A T \in SUBSET Backups :
              [p EXCEPT !.pc = "remove", !.go = S, !.beside = T] \in Process
<1>1. [p EXCEPT !.go = S] \in Process
  BY DEF Process
<1>2. ASSUME NEW pc \in Going
      PROVE  /\ [p EXCEPT !.pc = pc, !.go = S] \in Process
             /\ [p EXCEPT !.pc = pc, !.at = 1, !.go = S] \in Process
  <2>1. /\ pc \in {"create", "quiesce", "copy", "seal", "verify", "discard",
                  "push", "manifest", "unpush", "converge", "prune", "remove",
                  "prune-remote", "remove-remote", "step", "work", "write", "undo"}
        /\ 1 \in 1..(NumTargets + 1)
    BY NumberTypes DEF Going
  <2>2. QED
    BY <2>1 DEF Process
<1>3. ASSUME NEW T \in SUBSET Backups
      PROVE  [p EXCEPT !.pc = "remove", !.go = S, !.beside = T] \in Process
  BY DEF Process
<1>4. QED
  BY <1>1, <1>2, <1>3

LEMMA AtFits ==
  ASSUME NEW p \in Process, NEW t \in Targets, p.at = t
  PROVE  /\ [p EXCEPT !.at = t + 1] \in Process
         /\ \A pc \in Going :
              /\ [p EXCEPT !.pc = pc, !.at = t + 1] \in Process
              /\ [p EXCEPT !.pc = pc, !.at = t + 1, !.go = {}] \in Process
              /\ [p EXCEPT !.pc = pc, !.at = t + 1, !.pushed = p.pushed \cup {t}] \in Process
<1>1. t + 1 \in 1..(NumTargets + 1)
  BY CountAssumption DEF Targets
<1>2. p.pushed \cup {t} \in SUBSET Targets /\ {} \in SUBSET Backups
  BY DEF Process
<1>3. [p EXCEPT !.at = t + 1] \in Process
  BY <1>1 DEF Process
<1>4. ASSUME NEW pc \in Going
      PROVE  /\ [p EXCEPT !.pc = pc, !.at = t + 1] \in Process
             /\ [p EXCEPT !.pc = pc, !.at = t + 1, !.go = {}] \in Process
             /\ [p EXCEPT !.pc = pc, !.at = t + 1, !.pushed = p.pushed \cup {t}] \in Process
  <2>1. pc \in {"create", "quiesce", "copy", "seal", "verify", "discard",
               "push", "manifest", "unpush", "converge", "prune", "remove",
               "prune-remote", "remove-remote", "step", "work", "write", "undo"}
    BY DEF Going
  <2>2. QED
    BY <1>1, <1>2, <2>1 DEF Process
<1>5. QED
  BY <1>3, <1>4

LEMMA NextStepFits ==
  ASSUME NEW p \in Process, p.step \in Index
  PROVE  /\ [p EXCEPT !.step = p.step + 1] \in Process
         /\ \A pc \in Going : [p EXCEPT !.pc = pc, !.step = p.step + 1] \in Process
<1>1. p.step + 1 \in Position
  BY DEF Index, Position
<1>2. QED
  BY <1>1 DEF Process, Going

\* A restore goes on only when there is a record of one.
LEMMA RecordStays ==
  ASSUME TypeInv, Next, restore.status # "none"
  PROVE  restore'.status # "none"
<1>a. restore \in Record
  BY DEF TypeInv, RestoreTyped
<1>1. CASE UNCHANGED restore
  BY <1>1
<1>2. CASE BeginUpdate \/ Converges \/ Stop
  BY <1>2, <1>a DEF BeginUpdate, Converges, Stop, BuiltOn, Record
<1>3. CASE Take
  BY <1>3, <1>a DEF Take, Record, NoRestore
<1>4. CASE BeginStep \/ StepDone
  BY <1>4, <1>a DEF BeginStep, StepDone, Record
<1>5. CASE StepFails \/ Interrupt \/ Restored \/ Clear
  BY <1>5, <1>a DEF StepFails, Interrupt, Restored, Clear, Record
<1>6. CASE Undo \/ UndoFails \/ Crash
  BY <1>6, <1>a DEF Undo, UndoFails, Crash, Record
<1>7. QED
  BY <1>1, <1>2, <1>3, <1>4, <1>5, <1>6
     DEF Next, TakeBackup, PushBackup, Update, Retention, Restore, Fetch,
         BeginBackup, Create, Quiesce, CopyVolumes, Seal, CreateFails, Verify, VerifyFails,
         Discard, BeginPush, PutComponents, PutManifest, PushFails, Unpush, UnpushFails,
         PushDone, Converge, ConvergeFails, Prune, Remove, RemoveDone, RemoveFails,
         PruneRemote, RemoveRemote, RemoveRemoteDone, RemoveRemoteFails, Ask, GiveUp, SkipStep,
         Inspect, StopServices, WipeVolumes, ExtractVolumes, BeginHook, HookDone, Reapply,
         BeginFetch, FetchClears, FetchCopies,
         FetchVerifies, FetchPlaces, FetchDrops, FetchFails

LEMMA OpStep ==
  ASSUME TypeInv, Next
  PROVE  OpTyped'
<1> USE DEF TypeInv
<1>a. op \in Process \cup {None} /\ taken \in 0..MaxBackups
  BY DEF OpTyped, StoresTyped
<1>b. restore.status # "none" => restore'.status # "none"
  BY RecordStays
<1>1. CASE op' = None
  BY <1>1 DEF OpTyped
<1>2. CASE UNCHANGED <<op, taken>>
  BY <1>2, <1>b DEF OpTyped
<1>3. CASE BeginBackup \/ BeginUpdate \/ BeginPush
  <2>1. \E kind \in Kinds, id \in 0..MaxBackups, here \in BOOLEAN,
           pc \in {"create", "push", "converge"} :
          /\ op' = BeginOn(kind, id, here, pc)
          /\ pc = "create" => kind \in {"backup", "update"} /\ taken < MaxBackups
          /\ pc = "push" => id \in Backups
          /\ kind # "restore"
    BY <1>3, NumberTypes DEF BeginBackup, BeginUpdate, BeginPush, Begin, BeginOn, Kinds, ListedHere, Listed
  <2>2. taken' = taken
    BY <1>3 DEF BeginBackup, BeginUpdate, BeginPush, stores
  <2>3. QED
    BY <2>1, <2>2, BeginFits DEF OpTyped
<1>4. CASE Take
  <2>1. CASE op' = BeginOn("restore", asked.id, asked.staging, "step")
    <3>1. asked \in Asked /\ asked.id \in Backups /\ asked.staging \in BOOLEAN
      BY <1>4 DEF Take, ReadersTyped, Asked
    <3>2. "restore" \in Kinds /\ asked.id \in 0..MaxBackups
      BY <3>1, NumberTypes DEF Kinds
    <3>3. /\ op' \in Process /\ op'.pc = "step" /\ op'.id \in Backups
          /\ op'.kind = "restore"
      BY <2>1, <3>1, <3>2, BeginFits
    <3>4. \/ restore' = [restore EXCEPT !.status = "running", !.begun = 0]
          \/ restore' = [NoRestore EXCEPT !.id = asked.id, !.status = "running", !.made = ops]
          \/ op' = None
      BY <1>4 DEF Take
    <3>5. CASE op' # None
      <4>1. restore'.status # "none"
        BY <3>4, <3>5 DEF RestoreTyped, Record, NoRestore
      <4>2. QED
        BY <3>3, <4>1 DEF OpTyped
    <3>6. QED
      BY <3>5, <1>1
  <2>2. QED
    BY <1>4, <2>1, <1>2 DEF Take, stores
<1>5. CASE Create
  <2>1. taken + 1 \in Backups /\ taken + 1 \in 0..MaxBackups
    BY <1>5, <1>a, CountAssumption DEF Create, At, OpTyped, Backups
  <2>2. op # None /\ op \in Process /\ op.kind # "restore"
    BY <1>5, <1>a DEF Create, At, OpTyped
  <2>3. op' \in Process
    BY <1>5, <2>1, <2>2, GotoFits DEF Create, Going
  <2>4. op'.pc = "quiesce" /\ op'.id \in Backups /\ op'.kind # "restore"
    BY <1>5, <2>1, <2>2 DEF Create, Process
  <2>5. QED
    BY <2>1, <2>3, <2>4 DEF OpTyped
\* A backup and a push, to the end of their pushes.
<1>6. CASE \E pc \in {"copy", "seal", "push", "verify", "discard", "unpush", "converge", "prune"} :
             /\ op # None /\ Goto(pc) /\ taken' = taken /\ op.kind # "restore"
             /\ pc \in {"copy", "seal", "push", "verify", "discard", "unpush"} => op.id \in Backups
             /\ pc = "unpush" => op.at \in Targets
  <2>1. PICK pc \in {"copy", "seal", "push", "verify", "discard", "unpush", "converge", "prune"} :
             /\ op # None /\ Goto(pc) /\ taken' = taken /\ op.kind # "restore"
             /\ pc \in {"copy", "seal", "push", "verify", "discard", "unpush"} => op.id \in Backups
             /\ pc = "unpush" => op.at \in Targets
    BY <1>6
  <2>2. op' \in Process
    BY <2>1, <1>a, GotoFits DEF Goto, Going
  <2>3. op'.pc = pc /\ op'.id = op.id /\ op'.at = op.at
        /\ op'.kind = op.kind /\ op'.pushed = op.pushed
    BY <2>1, <1>a DEF Goto, Process
  <2>4. QED
    BY <2>1, <2>2, <2>3 DEF OpTyped
<1>7. CASE Quiesce
  <2>1. op # None /\ op \in Process /\ op.id \in Backups /\ taken' = taken
        /\ op.kind # "restore"
    BY <1>7, <1>a DEF Quiesce, At, OpTyped, stores
  <2>2. CASE Goto("seal")
    BY <2>1, <2>2, <1>6
  <2>3. CASE op' = [op EXCEPT !.before = services, !.pc = "copy"]
    <3>1. op' \in Process
      BY <2>1, <2>3, GotoFits DEF ProductTyped, Going
    <3>2. op'.pc = "copy" /\ op'.id = op.id /\ op'.kind = op.kind
      BY <2>1, <2>3 DEF Process
    <3>3. QED
      BY <2>1, <3>1, <3>2 DEF OpTyped
  <2>4. QED
    BY <1>7, <2>2, <2>3 DEF Quiesce
<1>8. CASE CopyVolumes \/ Verify \/ Converge
  BY <1>8, <1>6 DEF CopyVolumes, Verify, Converge, At, OpTyped, stores
<1>9. CASE Seal
  BY <1>9, <1>6 DEF Seal, At, OpTyped
<1>10. CASE VerifyFails
  BY <1>10, <1>1, <1>6 DEF VerifyFails, At, End, OpTyped, stores
<1>11. CASE PutComponents
  <2>1. op # None /\ op \in Process /\ op.id \in Backups /\ op.at \in Targets
        /\ op.kind # "restore"
    BY <1>11, <1>a DEF PutComponents, At, HasTarget, OpTyped
  <2>2. op' \in Process
    BY <1>11, <2>1, GotoFits DEF PutComponents, Goto, Going
  <2>3. op'.pc = "manifest" /\ op'.id = op.id /\ op'.at = op.at /\ op'.kind = op.kind
    BY <1>11, <2>1 DEF PutComponents, Goto, Process
  <2>4. QED
    BY <2>1, <2>2, <2>3 DEF OpTyped
<1>12. CASE PutManifest
  <2>1. op # None /\ op \in Process /\ op.id \in Backups /\ op.at \in Targets
        /\ op.kind # "restore"
    BY <1>12, <1>a DEF PutManifest, At, OpTyped
  <2>2. op' = [op EXCEPT !.pc = "push", !.at = op.at + 1, !.pushed = op.pushed \cup {op.at}]
    BY <1>12 DEF PutManifest
  <2>3. op' \in Process
    BY <2>1, <2>2, AtFits DEF Going
  <2>4. op'.pc = "push" /\ op'.id = op.id /\ op'.kind = op.kind
    BY <2>1, <2>2 DEF Process
  <2>5. QED
    BY <2>1, <2>3, <2>4 DEF OpTyped
<1>13. CASE PushFails
  <2>1. op # None /\ op \in Process /\ op.id \in Backups /\ op.at \in Targets /\ taken' = taken
        /\ op.kind # "restore"
    BY <1>13, <1>a DEF PushFails, HasTarget, OpTyped, stores
  <2>2. CASE op' = [op EXCEPT !.pc = "push", !.at = op.at + 1]
    <3>1. op' \in Process
      BY <2>1, <2>2, AtFits DEF Going
    <3>2. op'.pc = "push" /\ op'.id = op.id /\ op'.kind = op.kind
      BY <2>1, <2>2 DEF Process
    <3>3. QED
      BY <2>1, <3>1, <3>2 DEF OpTyped
  <2>3. CASE Goto("unpush")
    BY <2>1, <2>3, <1>6
  <2>4. QED
    BY <1>13, <2>2, <2>3 DEF PushFails, Goto
<1>14. CASE PushDone
  <2>1. op # None /\ taken' = taken /\ op.kind \in {"push", "backup", "update"}
    BY <1>14, <1>a DEF PushDone, At, stores, Process, OpTyped, Kinds
  <2>2. QED
    BY <1>14, <2>1, <1>1, <1>6 DEF PushDone, End
<1>15. CASE Discard \/ Unpush
  BY <1>15, <1>1, <1>2 DEF Discard, Unpush, End
\* Retention.
<1>16. CASE Prune
  <2>1. op # None /\ op \in Process /\ op.kind # "restore"
    BY <1>16, <1>a DEF Prune, At, OpTyped
  <2>2. PICK S, T \in SUBSET Backups :
          op' = [op EXCEPT !.pc = "remove", !.go = S, !.beside = T]
    BY <1>16 DEF Prune, ListedHere, Listed
  <2>3. op' \in Process
    BY <2>1, <2>2, GoFits DEF Going
  <2>4. op'.pc = "remove" /\ op'.kind = op.kind /\ op'.pushed = op.pushed /\ op'.id = op.id
    BY <2>1, <2>2 DEF Process
  <2>5. QED
    BY <2>1, <2>3, <2>4 DEF OpTyped
<1>17. CASE Remove \/ RemoveRemote
  <2>1. op # None /\ op \in Process /\ op.go \subseteq Backups /\ taken' = taken
    BY <1>17, <1>a, OpShape DEF Remove, RemoveRemote, At
  <2>2. UNCHANGED op \/ \E S \in SUBSET Backups : op' = [op EXCEPT !.go = S]
    BY <1>17, <2>1 DEF Remove, RemoveRemote
  <2>3. CASE \E S \in SUBSET Backups : op' = [op EXCEPT !.go = S]
    <3>1. op' \in Process
      BY <2>1, <2>3, GoFits
    <3>2. op'.pc = op.pc /\ op'.id = op.id /\ op'.at = op.at
          /\ op'.kind = op.kind /\ op'.pushed = op.pushed
      BY <2>1, <2>3 DEF Process
    <3>3. op.pc \in {"remove", "remove-remote"}
      BY <1>17 DEF Remove, RemoveRemote, At
    <3>4. QED
      BY <2>1, <3>1, <3>2, <3>3 DEF OpTyped
  <2>4. QED
    BY <2>1, <2>2, <2>3, <1>2
<1>18. CASE RemoveDone \/ RemoveFails
  <2>1. op # None /\ op \in Process /\ op.kind # "restore"
    BY <1>18, <1>a DEF RemoveDone, RemoveFails, At, OpTyped
  <2>2. \/ op' = [op EXCEPT !.pc = "prune-remote", !.at = 1]
        \/ op' = [op EXCEPT !.pc = "prune-remote", !.at = 1, !.go = {}]
    BY <1>18 DEF RemoveDone, RemoveFails
  <2>3. op' \in Process
    <3>1. {} \in SUBSET Backups /\ "prune-remote" \in Going
      BY DEF Going
    <3>2. [op EXCEPT !.pc = "prune-remote", !.at = 1] \in Process
      BY <2>1, <3>1, GotoFits
    <3>3. [op EXCEPT !.pc = "prune-remote", !.at = 1, !.go = {}] \in Process
      BY <2>1, <3>1, GoFits
    <3>4. QED
      BY <2>2, <3>2, <3>3
  <2>4. /\ op'.pc = "prune-remote" /\ op'.kind = op.kind
        /\ op'.pushed = op.pushed /\ op'.id = op.id
    BY <2>1, <2>2 DEF Process
  <2>5. QED
    BY <2>1, <2>3, <2>4 DEF OpTyped
<1>19. CASE PruneRemote
  <2>1. op # None /\ op \in Process /\ op.pc = "prune-remote" /\ taken' = taken
    BY <1>19, <1>a DEF PruneRemote, At, stores
  <2>2. CASE ~HasTarget
    BY <1>19, <2>2, <1>1 DEF PruneRemote, End
  <2>3. CASE HasTarget /\ op.at \notin op.pushed
    <3>1. op' = [op EXCEPT !.at = op.at + 1] /\ op.at \in Targets
      BY <1>19, <2>3 DEF PruneRemote, HasTarget
    <3>2. op' \in Process
      BY <2>1, <3>1, AtFits
    <3>3. /\ op'.pc = "prune-remote" /\ op'.kind = op.kind
          /\ op'.pushed = op.pushed /\ op'.id = op.id
      BY <2>1, <3>1 DEF Process
    <3>4. QED
      BY <2>1, <3>2, <3>3 DEF OpTyped
  <2>4. CASE HasTarget /\ op.at \in op.pushed
    <3>1. PICK S \in SUBSET Backups : op' = [op EXCEPT !.pc = "remove-remote", !.go = S]
      BY <1>19, <2>4 DEF PruneRemote, Listed
    <3>2. op' \in Process
      BY <2>1, <3>1, GoFits DEF Going
    <3>3. op'.pc = "remove-remote" /\ op'.at = op.at /\ op'.id = op.id /\ op'.kind = op.kind
      BY <2>1, <3>1 DEF Process
    <3>4. op.at \in Targets /\ op.id \in Backups
      BY <2>4, <2>1 DEF HasTarget, OpTyped
    <3>5. QED
      BY <2>1, <3>2, <3>3, <3>4 DEF OpTyped
  <2>5. QED
    BY <2>2, <2>3, <2>4
<1>20. CASE RemoveRemoteDone \/ RemoveRemoteFails
  <2>1. op # None /\ op \in Process /\ op.at \in Targets /\ op.kind # "restore"
    BY <1>20, <1>a DEF RemoveRemoteDone, RemoveRemoteFails, At, OpTyped
  <2>2. op' = [op EXCEPT !.pc = "prune-remote", !.at = op.at + 1, !.go = {}]
    BY <1>20 DEF RemoveRemoteDone, RemoveRemoteFails, NextTarget
  <2>3. op' \in Process
    BY <2>1, <2>2, AtFits DEF Going
  <2>4. /\ op'.pc = "prune-remote" /\ op'.kind = op.kind
        /\ op'.pushed = op.pushed /\ op'.id = op.id
    BY <2>1, <2>2 DEF Process
  <2>5. QED
    BY <2>1, <2>3, <2>4 DEF OpTyped
\* A restore.
<1>21. CASE SkipStep
  <2>1. op # None /\ op \in Process /\ op.pc = "step" /\ taken' = taken
    BY <1>21, <1>a DEF SkipStep, At, stores
  <2>2. op.step \in Index
    BY <1>21, <2>1, OpShape DEF SkipStep, Last, Index, Position
  <2>3. op' = [op EXCEPT !.step = op.step + 1]
    BY <1>21 DEF SkipStep
  <2>4. op' \in Process /\ op'.pc = op.pc /\ op'.id = op.id
        /\ op'.kind = op.kind /\ op'.pushed = op.pushed
    BY <2>1, <2>2, <2>3, NextStepFits DEF Process
  <2>5. QED
    BY <2>1, <2>4, <1>b DEF OpTyped
<1>22. CASE \/ BeginStep
            \/ (WipeVolumes \/ BeginHook) /\ Goto("write")
            \/ StepFails /\ Goto("undo")
  <2>1. op # None /\ op \in Process /\ op.pc \in {"step", "work", "write"} /\ taken' = taken
    BY <1>22, <1>a DEF BeginStep, WipeVolumes, BeginHook, StepFails, At, AtStep, stores
  <2>2. op.step \in Index
    <3>1. CASE BeginStep
      BY <2>1, <3>1, OpShape DEF BeginStep, Last, Index, Position
    <3>2. CASE ~BeginStep
      BY <1>22, <2>1, <3>2 DEF WipeVolumes, BeginHook, StepFails, AtStep, At, OpTyped
    <3>3. QED
      BY <3>1, <3>2
  <2>3. PICK pc \in {"work", "write", "undo"} : op' = [op EXCEPT !.pc = pc]
    BY <1>22 DEF BeginStep, Goto
  <2>4. op' \in Process
    BY <2>1, <2>3, GotoFits DEF Going
  <2>5. op'.pc = pc /\ op'.id = op.id /\ op'.step = op.step
        /\ op'.kind = op.kind /\ op'.pushed = op.pushed
    BY <2>1, <2>3 DEF Process
  <2>6. QED
    BY <2>1, <2>2, <2>4, <2>5, <1>b DEF OpTyped
<1>23. CASE StepDone /\ op # None /\ op.pc \in {"work", "write"} /\ UNCHANGED stores
  <2>1. op \in Process /\ op.step \in Index /\ taken' = taken
    BY <1>23, <1>a DEF OpTyped, stores
  <2>2. op' = [op EXCEPT !.pc = "step", !.step = op.step + 1]
    BY <1>23 DEF StepDone
  <2>3. op' \in Process
    BY <2>1, <2>2, NextStepFits DEF Going
  <2>4. op'.pc = "step" /\ op'.id = op.id /\ op'.kind = op.kind /\ op'.pushed = op.pushed
    BY <2>1, <2>2 DEF Process
  <2>5. QED
    BY <1>23, <2>1, <2>3, <2>4, <1>b DEF OpTyped
<1>24. QED
  BY <1>1, <1>2, <1>3, <1>4, <1>5, <1>7, <1>8, <1>9, <1>10, <1>11, <1>12, <1>13, <1>14, <1>15,
     <1>16, <1>17, <1>18, <1>19, <1>20, <1>21, <1>22, <1>23
     DEF Next, TakeBackup, PushBackup, Update, Retention, Restore, Fetch, stores, End, At, AtStep,
         CreateFails, UnpushFails, ConvergeFails, Ask, GiveUp, Inspect, StopServices,
         WipeVolumes, ExtractVolumes, BeginHook, HookDone, Reapply, StepFails, Undo, UndoFails,
         Interrupt, Restored, BeginFetch, FetchClears, FetchCopies,
         FetchVerifies, FetchPlaces, FetchDrops, FetchFails, Converges, Stop, Clear, Crash

LEMMA TypeStep == TypeInv /\ [Next]_vars => TypeInv'
<1>1. ASSUME TypeInv, Next PROVE TypeInv'
  BY <1>1, StoresStep, ProductStep, RestoreStep, ReadersStep, OpStep DEF TypeInv
<1>2. ASSUME TypeInv, UNCHANGED vars PROVE TypeInv'
  BY <1>2 DEF TypeInv, vars, StoresTyped, ProductTyped, RestoreTyped, ReadersTyped, OpTyped
<1>3. QED
  BY <1>1, <1>2

\* Every variable keeps its type (Backup, TypeOK).
THEOREM TypeCorrect == Spec => []TypeOK
  BY TypeInit, TypeStep, TypeInvOK, PTL DEF Spec

-----------------------------------------------------------------------------
(* What a target lists *)

\* The manifest is written over components that are there.
WholeInv ==
  /\ ListedIsWhole
  /\ op # None /\ op.pc = "manifest" => "data" \in remote[op.at][op.id]

LEMMA WholeInit == Init => WholeInv
  BY DEF Init, WholeInv, ListedIsWhole, Listed

LEMMA WholeStep ==
  ASSUME TypeInv, WholeInv, Next
  PROVE  WholeInv'
<1>a. /\ op \in Process \cup {None}
      /\ \A t \in Targets : remote[t] \in [Backups -> SUBSET Files]
      /\ remote \in [Targets -> [Backups -> SUBSET Files]]
  BY DEF TypeInv, OpTyped, StoresTyped
<1>b. ASSUME UNCHANGED remote, op' # None => op'.pc # "manifest"
      PROVE  WholeInv'
  BY <1>b DEF WholeInv, ListedIsWhole, Listed
<1>1. CASE PutComponents
  <2>1. op # None /\ op \in Process /\ op.at \in Targets /\ op.id \in Backups
    BY <1>1, <1>a DEF PutComponents, At, HasTarget, TypeInv, OpTyped
  <2>2. op'.at = op.at /\ op'.id = op.id
    BY <1>1, <2>1 DEF PutComponents, Goto, Process
  <2>3. remote' = [remote EXCEPT ![op.at][op.id] = remote[op.at][op.id] \cup {"data"}]
    BY <1>1 DEF PutComponents, Holds
  <2>4. remote'[op.at][op.id] = remote[op.at][op.id] \cup {"data"}
    BY <1>a, <2>1, <2>3
  <2>5. \A t \in Targets, b \in Backups : remote'[t][b] \in {remote[t][b], remote[t][b] \cup {"data"}}
    BY <1>a, <2>3
  <2>6. \A t \in Targets : \A b \in Backups : "manifest" \in remote'[t][b] => remote'[t][b] = Files
    BY <1>a, <2>5 DEF WholeInv, ListedIsWhole, Listed, Files
  <2>7. QED
    BY <2>2, <2>4, <2>6 DEF WholeInv, ListedIsWhole, Listed
<1>2. CASE PutManifest
  <2>1. op # None /\ op \in Process /\ op.at \in Targets /\ op.id \in Backups
    BY <1>2, <1>a DEF PutManifest, At, TypeInv, OpTyped
  <2>2. op'.pc = "push"
    BY <1>2, <2>1 DEF PutManifest, Process
  <2>3. remote' = [remote EXCEPT ![op.at][op.id] = Files]
    BY <1>2 DEF PutManifest, Holds
  <2>4. \A t \in Targets, b \in Backups : remote'[t][b] \in {remote[t][b], Files}
    BY <1>a, <2>3
  <2>5. QED
    BY <2>2, <2>4 DEF WholeInv, ListedIsWhole, Listed
<1>3. CASE Unpush \/ RemoveRemote
  <2>1. op # None /\ op \in Process /\ op.at \in Targets /\ op.pc # "manifest"
    BY <1>3, <1>a DEF Unpush, RemoveRemote, At, TypeInv, OpTyped
  <2>2. op' # None => op'.pc # "manifest"
    BY <1>3, <2>1 DEF Unpush, RemoveRemote, End, Process
  <2>3. UNCHANGED remote \/ \E b \in Backups : RemoveRemotely(op.at, b)
    BY <1>3, <2>1 DEF Unpush, RemoveRemote, NewestToGo, Process, At, TypeInv, OpTyped
  <2>4. CASE \E b \in Backups : RemoveRemotely(op.at, b)
    <3>1. \A t \in Targets, b \in Backups :
            remote'[t][b] = remote[t][b] \/ "manifest" \notin remote'[t][b]
      BY <1>a, <2>4, <2>1 DEF RemoveRemotely, Holds
    <3>2. QED
      BY <2>2, <3>1 DEF WholeInv, ListedIsWhole, Listed
  <2>5. QED
    BY <2>2, <2>3, <2>4, <1>b
<1>4. CASE UNCHANGED <<remote, op>>
  BY <1>4 DEF WholeInv, ListedIsWhole, Listed
<1>5. CASE op' = None /\ UNCHANGED remote
  BY <1>5, <1>b
<1>6. CASE BeginBackup \/ BeginUpdate \/ BeginPush \/ Take
  BY <1>6, <1>b, <1>4 DEF BeginBackup, BeginUpdate, BeginPush, Take, Begin, BeginOn, stores
<1>7. CASE Create \/ Quiesce \/ CopyVolumes \/ Seal \/ Verify \/ VerifyFails \/ Discard
  BY <1>7, <1>a, <1>b, <1>4
     DEF Create, Quiesce, CopyVolumes, Seal, Verify, VerifyFails, Discard, End, Goto, At, stores, Process
<1>8. CASE PushFails \/ PushDone \/ Converge
  BY <1>8, <1>a, <1>b, <1>4 DEF PushFails, PushDone, Converge, Goto, End, At, stores, Process, TypeInv, OpTyped, Kinds
<1>9. CASE Prune \/ Remove \/ RemoveDone \/ RemoveFails \/ PruneRemote \/ RemoveRemoteDone \/ RemoveRemoteFails
  BY <1>9, <1>a, <1>b, <1>4
     DEF Prune, Remove, RemoveDone, RemoveFails, PruneRemote, RemoveRemoteDone, RemoveRemoteFails,
         NextTarget, End, At, stores, Process
<1>10. CASE SkipStep \/ BeginStep \/ WipeVolumes \/ BeginHook \/ StepFails
  BY <1>10, <1>a, <1>b, <1>4
     DEF SkipStep, BeginStep, WipeVolumes, BeginHook, StepFails, AtStep, Goto, End, At, stores, Process
<1>11. CASE StepDone /\ op # None /\ UNCHANGED stores
  BY <1>11, <1>a, <1>b DEF StepDone, stores, Process
<1>12. QED
  BY <1>1, <1>2, <1>3, <1>4, <1>5, <1>6, <1>7, <1>8, <1>9, <1>10, <1>11
     DEF Next, TakeBackup, PushBackup, Update, Retention, Restore, Fetch, stores, End, At, AtStep,
         CreateFails, UnpushFails, ConvergeFails, Ask, GiveUp, Inspect, StopServices,
         ExtractVolumes, HookDone, Reapply, Undo, UndoFails, Interrupt, Restored,
         BeginFetch, FetchClears, FetchCopies,
         FetchVerifies, FetchPlaces, FetchDrops, FetchFails, Converges, Stop, Clear, Crash

\* A target lists no backup that is not whole (Backup, ListedIsWhole).
THEOREM WholeOnTargets == Spec => []ListedIsWhole
<1>1. WholeInv /\ UNCHANGED vars => WholeInv'
  BY DEF WholeInv, ListedIsWhole, Listed, vars
<1>2. QED
  BY <1>1, TypeInit, TypeStep, WholeInit, WholeStep, PTL DEF Spec, WholeInv

-----------------------------------------------------------------------------
(* The numbers of backups *)

\* No backup is later than the last one taken, wherever it is named.
TakenInv ==
  /\ \A b \in Backups : local[b] # {} \/ staged[b] # {} => b <= taken
  /\ \A t \in Targets : \A b \in Backups : remote[t][b] # {} => b <= taken
  /\ \A b \in preUpdate : b <= taken
  /\ \A t \in Targets : landed[t] <= taken
  /\ restore.id <= taken
  /\ asked # None => asked.id <= taken
  /\ fetch # None => fetch.id <= taken
  /\ op # None => op.id <= taken

LEMMA TakenInit == Init => TakenInv
  BY NumberTypes DEF Init, TakenInv, NoRestore, Backups

LEMMA RestoredIDStep ==
  ASSUME TypeInv, TakenInv, Next
  PROVE  restore'.id <= taken
<1>a. restore \in Record /\ restore.id <= taken
  BY DEF TypeInv, RestoreTyped, TakenInv
<1>1. CASE Take
  <2>1. asked.id <= taken
    BY <1>1 DEF Take, TakenInv
  <2>2. QED
    BY <1>1, <1>a, <2>1 DEF Take, NoRestore, Record
<1>2. CASE BeginUpdate \/ Converges \/ Stop
  BY <1>2, <1>a DEF BeginUpdate, Converges, Stop, BuiltOn, Record
<1>3. CASE BeginStep \/ StepDone
  BY <1>3, <1>a DEF BeginStep, StepDone, Record
<1>4. CASE StepFails \/ Interrupt \/ Restored \/ Clear
  BY <1>4, <1>a DEF StepFails, Interrupt, Restored, Clear, Record
<1>5. CASE Undo \/ UndoFails \/ Crash
  BY <1>5, <1>a DEF Undo, UndoFails, Crash, Record
<1>6. CASE UNCHANGED restore
  BY <1>6, <1>a
<1>7. QED
  BY <1>1, <1>2, <1>3, <1>4, <1>5, <1>6
     DEF Next, TakeBackup, PushBackup, Update, Retention, Restore, Fetch,
         BeginBackup, Create, Quiesce, CopyVolumes, Seal, CreateFails, Verify, VerifyFails,
         Discard, BeginPush, PutComponents, PutManifest, PushFails, Unpush, UnpushFails,
         PushDone, Converge, ConvergeFails, Prune, Remove, RemoveDone, RemoveFails,
         PruneRemote, RemoveRemote, RemoveRemoteDone, RemoveRemoteFails, Ask, GiveUp, SkipStep,
         Inspect, StopServices, WipeVolumes, ExtractVolumes, BeginHook, HookDone, Reapply,
         BeginFetch, FetchClears, FetchCopies,
         FetchVerifies, FetchPlaces, FetchDrops, FetchFails

\* A command keeps its backup once it has one.
LEMMA SameBackup ==
  ASSUME TypeInv, Next, op # None, op' # None, ~Create
  PROVE  op'.id = op.id /\ op'.kind = op.kind
<1>a. op \in Process
  BY DEF TypeInv, OpTyped
<1>1. CASE UNCHANGED op
  BY <1>1
<1>2. CASE \E pc \in Going : Goto(pc)
  BY <1>2, <1>a DEF Goto, Process
<1>3. CASE Quiesce \/ PutManifest \/ PushFails
  BY <1>3, <1>a DEF Quiesce, PutManifest, PushFails, Goto, Process
<1>4. CASE Prune \/ Remove \/ RemoveDone \/ RemoveFails \/ PruneRemote
  BY <1>4, <1>a DEF Prune, Remove, RemoveDone, RemoveFails, PruneRemote, End, Process
<1>5. CASE RemoveRemote \/ RemoveRemoteDone \/ RemoveRemoteFails
  BY <1>5, <1>a DEF RemoveRemote, RemoveRemoteDone, RemoveRemoteFails, NextTarget, Process
<1>6. CASE SkipStep \/ StepDone
  BY <1>6, <1>a DEF SkipStep, StepDone, Process
<1>7. CASE PushDone
  BY <1>7, <1>a DEF PushDone, Goto, End, At, Process, TypeInv, OpTyped, Kinds
<1>8. QED
  BY <1>1, <1>2, <1>3, <1>4, <1>5, <1>6, <1>7
     DEF Next, TakeBackup, PushBackup, Update, Retention, Restore, Fetch, End, Going,
         BeginBackup, CopyVolumes, Seal, CreateFails, Verify, VerifyFails,
         Discard, BeginPush, PutComponents, Unpush, UnpushFails, BeginUpdate,
         Converge, ConvergeFails, Ask, Take, GiveUp, BeginStep, StepFails, Undo, UndoFails,
         Interrupt, Restored, Crash, Converges, Stop, Clear,
         Inspect, StopServices, WipeVolumes, ExtractVolumes, BeginHook, HookDone, Reapply,
         BeginFetch, FetchClears, FetchCopies,
         FetchVerifies, FetchPlaces, FetchDrops, FetchFails

LEMMA TakenStep ==
  ASSUME TypeInv, TakenInv, Next
  PROVE  TakenInv'
<1>a. /\ taken \in Nat /\ restore.id \in Nat /\ \A b \in Backups : b \in Nat
      /\ \A t \in Targets : landed[t] \in Nat
      /\ op # None => op \in Process /\ op.id \in Nat
  BY CountAssumption DEF TypeInv, StoresTyped, RestoreTyped, Record, OpTyped, Process, Backups
<1>b. restore'.id <= taken /\ restore'.id \in Nat
  BY RestoredIDStep, RestoreStep DEF RestoreTyped, Record
<1>c. asked # None => asked \in Asked /\ asked.id \in Nat
  BY <1>a DEF TypeInv, ReadersTyped, Asked
<1>d. fetch # None => fetch \in FetchProcess /\ fetch.id \in Backups /\ fetch.id \in Nat
  BY <1>a DEF TypeInv, ReadersTyped, FetchProcess
<1>1. taken' \in Nat /\ taken <= taken'
  <2>1. CASE Create
    BY <2>1, <1>a DEF Create
  <2>2. CASE UNCHANGED taken
    BY <2>2, <1>a
  <2>3. QED
    BY <2>1, <2>2
     DEF Next, TakeBackup, PushBackup, Update, Retention, Restore, Fetch, stores,
         BeginBackup, BeginUpdate, Quiesce, CopyVolumes, Seal, CreateFails, Verify, VerifyFails,
         Discard, BeginPush, PutComponents, PutManifest, PushFails, Unpush, UnpushFails,
         PushDone, Converge, ConvergeFails, Prune, Remove, RemoveDone, RemoveFails,
         PruneRemote, RemoveRemote, RemoveRemoteDone, RemoveRemoteFails, Ask, Take, GiveUp,
         SkipStep, BeginStep, StepFails, Undo, UndoFails, Interrupt, Restored, Crash,
         Converges, Stop, Clear,
         Inspect, StopServices, WipeVolumes, ExtractVolumes, BeginHook, HookDone, Reapply,
         BeginFetch, FetchClears, FetchCopies,
         FetchVerifies, FetchPlaces, FetchDrops, FetchFails
<1>2. op' # None => op'.id <= taken'
  <2>1. CASE Create
    BY <2>1, <1>a DEF Create, At, Process
  <2>2. CASE op # None /\ ~Create
    BY <2>2, <1>1, <1>a, SameBackup DEF TakenInv
  <2>3. CASE BeginBackup \/ BeginUpdate
    BY <2>3, <1>1 DEF BeginBackup, BeginUpdate, Begin, BeginOn
  <2>4. CASE BeginPush
    BY <2>4, <1>1, <1>a DEF BeginPush, BeginOn, ListedHere, Listed, TakenInv, stores
  <2>5. CASE Take
    BY <2>5, <1>1, <1>a, <1>c DEF Take, Begin, BeginOn, TakenInv, stores
  <2>6. CASE UNCHANGED op
    BY <2>6, <1>1, <1>a DEF TakenInv
  <2>7. QED
    BY <2>1, <2>2, <2>3, <2>4, <2>5, <2>6
     DEF Next, TakeBackup, PushBackup, Update, Retention, Restore, Fetch,
         Quiesce, CopyVolumes, Seal, CreateFails, Verify, VerifyFails,
         Discard, PutComponents, PutManifest, PushFails, Unpush, UnpushFails,
         PushDone, Converge, ConvergeFails, Prune, Remove, RemoveDone, RemoveFails,
         PruneRemote, RemoveRemote, RemoveRemoteDone, RemoveRemoteFails, Ask, GiveUp,
         SkipStep, BeginStep, StepFails, Undo, UndoFails, Interrupt, Restored, Crash,
         Converges, Stop, Clear, At, AtStep,
         Inspect, StopServices, WipeVolumes, ExtractVolumes, BeginHook, HookDone, Reapply,
         BeginFetch, FetchClears, FetchCopies,
         FetchVerifies, FetchPlaces, FetchDrops, FetchFails
<1>3. \A b \in Backups : local'[b] # {} => b <= taken'
  <2>a. local \in [Backups -> SUBSET Files]
    BY DEF TypeInv, StoresTyped
  <2>1. CASE Create
    <3>1. \A b \in Backups : local'[b] # {} => b = taken + 1 \/ local[b] # {}
      BY <2>1 DEF Create
    <3>2. QED
      BY <2>1, <3>1, <1>a, <1>1 DEF Create, TakenInv
  <2>2. CASE Seal \/ CreateFails
    <3>1. \A b \in Backups : local'[b] # {} => b = op.id \/ local[b] # {}
      BY <2>2, <2>a DEF Seal, CreateFails
    <3>2. op.id <= taken /\ taken' = taken
      BY <2>2 DEF Seal, CreateFails, At, TakenInv
    <3>3. QED
      BY <3>1, <3>2, <1>a DEF TakenInv
  <2>3. CASE Discard \/ Remove
    <3>1. \A b \in Backups : local'[b] # {} => local[b] # {}
      BY <2>3, <2>a DEF Discard, Remove, RemoveFile
    <3>2. QED
      BY <3>1, <1>1, <1>a DEF TakenInv
  <2>4. CASE FetchPlaces
    <3>1. \A b \in Backups : local'[b] # {} => b = fetch.id \/ local[b] # {}
      BY <2>4, <2>a DEF FetchPlaces
    <3>2. fetch.id <= taken /\ taken' = taken
      BY <2>4 DEF FetchPlaces, Fetching, TakenInv
    <3>3. QED
      BY <3>1, <3>2, <1>a DEF TakenInv
  <2>5. CASE UNCHANGED local
    BY <2>5, <1>1, <1>a DEF TakenInv
  <2>6. QED
    BY <2>1, <2>2, <2>3, <2>4, <2>5
     DEF Next, TakeBackup, PushBackup, Update, Retention, Restore, Fetch, stores,
         BeginBackup, BeginUpdate, Quiesce, CopyVolumes, Verify, VerifyFails,
         BeginPush, PutComponents, PutManifest, PushFails, Unpush, UnpushFails,
         PushDone, Converge, ConvergeFails, Prune, RemoveDone, RemoveFails,
         PruneRemote, RemoveRemote, RemoveRemoteDone, RemoveRemoteFails, Ask, Take, GiveUp,
         SkipStep, BeginStep, StepFails, Undo, UndoFails, Interrupt, Restored, Crash,
         Converges, Stop, Clear,
         Inspect, StopServices, WipeVolumes, ExtractVolumes, BeginHook, HookDone, Reapply,
         BeginFetch, FetchClears, FetchCopies, FetchVerifies, FetchDrops, FetchFails
<1>4. \A t \in Targets : \A b \in Backups : remote'[t][b] # {} => b <= taken'
  <2>a. remote \in [Targets -> [Backups -> SUBSET Files]]
    BY DEF TypeInv, StoresTyped
  <2>1. CASE PutComponents \/ PutManifest
    <3>1. \A t \in Targets : \A b \in Backups : remote'[t][b] # {} => b = op.id \/ remote[t][b] # {}
      BY <2>1, <2>a DEF PutComponents, PutManifest, Holds
    <3>2. op.id <= taken /\ taken' = taken
      BY <2>1 DEF PutComponents, PutManifest, At, TakenInv
    <3>3. QED
      BY <3>1, <3>2, <1>a DEF TakenInv
  <2>2. CASE Unpush \/ RemoveRemote
    <3>1. UNCHANGED remote \/ \E b \in Backups : RemoveRemotely(op.at, b)
      BY <2>2 DEF Unpush, RemoveRemote, NewestToGo, Process, At, TypeInv, OpTyped
    <3>2. \A t \in Targets : \A b \in Backups : remote'[t][b] # {} => remote[t][b] # {}
      <4>1. ASSUME NEW c \in Backups, RemoveRemotely(op.at, c)
            PROVE  \A t \in Targets : \A b \in Backups : remote'[t][b] # {} => remote[t][b] # {}
        <5>1. CASE "manifest" \in remote[op.at][c]
          BY <4>1, <5>1, <2>a DEF RemoveRemotely, Holds
        <5>2. CASE "manifest" \notin remote[op.at][c]
          BY <4>1, <5>2, <2>a DEF RemoveRemotely, Holds
        <5>3. QED
          BY <5>1, <5>2
      <4>2. QED
        BY <3>1, <4>1
    <3>3. QED
      BY <3>2, <1>1, <1>a DEF TakenInv
  <2>3. CASE UNCHANGED remote
    BY <2>3, <1>1, <1>a DEF TakenInv
  <2>4. QED
    BY <2>1, <2>2, <2>3
     DEF Next, TakeBackup, PushBackup, Update, Retention, Restore, Fetch, stores,
         BeginBackup, BeginUpdate, Create, Quiesce, CopyVolumes, Seal, CreateFails, Verify,
         VerifyFails, Discard, BeginPush, PushFails, UnpushFails,
         PushDone, Converge, ConvergeFails, Prune, Remove, RemoveDone, RemoveFails,
         PruneRemote, RemoveRemoteDone, RemoveRemoteFails, Ask, Take, GiveUp,
         SkipStep, BeginStep, StepFails, Undo, UndoFails, Interrupt, Restored, Crash,
         Converges, Stop, Clear,
         Inspect, StopServices, WipeVolumes, ExtractVolumes, BeginHook, HookDone, Reapply,
         BeginFetch, FetchClears, FetchCopies,
         FetchVerifies, FetchPlaces, FetchDrops, FetchFails
<1>5. (\A b \in preUpdate' : b <= taken') /\ (\A t \in Targets : landed'[t] <= taken')
  <2>a. landed \in [Targets -> 0..MaxBackups] /\ preUpdate \subseteq Backups
    BY DEF TypeInv, StoresTyped
  <2>1. CASE Seal
    <3>1. op.id <= taken /\ taken' = taken /\ preUpdate' \subseteq preUpdate \cup {op.id}
      BY <2>1 DEF Seal, At, TakenInv
    <3>2. QED
      BY <2>1, <3>1, <1>a DEF Seal, TakenInv
  <2>2. CASE PutManifest \/ Unpush
    <3>1. op.id <= taken /\ taken' = taken /\ UNCHANGED preUpdate /\ op # None
      BY <2>2 DEF PutManifest, Unpush, At, TakenInv
    <3>2. \A t \in Targets : landed'[t] \in {landed[t], op.id, 0}
      BY <2>2, <2>a DEF PutManifest, Unpush, Max2
    <3>3. QED
      BY <3>1, <3>2, <1>a DEF TakenInv
  <2>3. CASE UNCHANGED <<preUpdate, landed>>
    BY <2>3, <2>a, <1>1, <1>a DEF TakenInv
  <2>4. QED
    BY <2>1, <2>2, <2>3
     DEF Next, TakeBackup, PushBackup, Update, Retention, Restore, Fetch, stores,
         BeginBackup, BeginUpdate, Create, Quiesce, CopyVolumes, CreateFails, Verify,
         VerifyFails, Discard, BeginPush, PutComponents, PushFails, UnpushFails,
         PushDone, Converge, ConvergeFails, Prune, Remove, RemoveDone, RemoveFails,
         PruneRemote, RemoveRemote, RemoveRemoteDone, RemoveRemoteFails, Ask, Take, GiveUp,
         SkipStep, BeginStep, StepFails, Undo, UndoFails, Interrupt, Restored, Crash,
         Converges, Stop, Clear,
         Inspect, StopServices, WipeVolumes, ExtractVolumes, BeginHook, HookDone, Reapply,
         BeginFetch, FetchClears, FetchCopies,
         FetchVerifies, FetchPlaces, FetchDrops, FetchFails
<1>6. (asked' # None => asked'.id <= taken') /\ (fetch' # None => fetch'.id <= taken')
  <2>1. CASE Ask
    <3>1. asked'.id = restore.id \/ asked'.id \in ListedHere
      BY <2>1 DEF Ask
    <3>2. \A b \in ListedHere : b <= taken
      BY DEF ListedHere, Listed, TakenInv
    <3>3. UNCHANGED <<fetch, taken>>
      BY <2>1 DEF Ask, stores
    <3>4. QED
      BY <3>1, <3>2, <3>3 DEF TakenInv
  <2>2. CASE BeginFetch
    BY <2>2, <1>1, <1>a, <1>c DEF BeginFetch, Listed, TakenInv
  <2>3. CASE FetchClears \/ FetchCopies \/ FetchVerifies \/ FetchPlaces \/ FetchDrops \/ FetchFails
    <3>1. UNCHANGED <<asked, taken>> /\ fetch # None
      BY <2>3 DEF FetchClears, FetchCopies, FetchVerifies, FetchPlaces, FetchDrops, FetchFails,
         Fetching, stores
    <3>2. fetch' = None \/ fetch'.id = fetch.id
      BY <2>3, <1>d, <3>1 DEF FetchClears, FetchCopies, FetchVerifies, FetchPlaces, FetchDrops,
         FetchFails, FetchGoto, FetchProcess
    <3>3. QED
      BY <3>1, <3>2 DEF TakenInv
  <2>4. CASE Take \/ GiveUp
    BY <2>4, <1>1, <1>a, <1>d DEF Take, GiveUp, TakenInv
  <2>5. CASE UNCHANGED <<asked, fetch>>
    BY <2>5, <1>1, <1>a, <1>c, <1>d DEF TakenInv
  <2>6. QED
    BY <2>1, <2>2, <2>3, <2>4, <2>5
     DEF Next, TakeBackup, PushBackup, Update, Retention, Restore, Fetch,
         BeginBackup, BeginUpdate, Create, Quiesce, CopyVolumes, Seal, CreateFails, Verify,
         VerifyFails, Discard, BeginPush, PutComponents, PutManifest, PushFails, Unpush,
         UnpushFails, PushDone, Converge, ConvergeFails, Prune, Remove, RemoveDone, RemoveFails,
         PruneRemote, RemoveRemote, RemoveRemoteDone, RemoveRemoteFails,
         SkipStep, BeginStep, StepFails, Undo, UndoFails, Interrupt, Restored, Crash,
         Converges, Stop, Clear,
         Inspect, StopServices, WipeVolumes, ExtractVolumes, BeginHook, HookDone, Reapply
<1>7. restore'.id <= taken'
  BY <1>a, <1>b, <1>1
<1>8. \A b \in Backups : staged'[b] # {} => b <= taken'
  <2>a. staged \in [Backups -> SUBSET Files]
    BY DEF TypeInv, StoresTyped
  <2>1. CASE \A b \in Backups : staged'[b] # {} => staged[b] # {}
    BY <2>1, <1>1, <1>a DEF TakenInv
  <2>2. CASE Remove \/ FetchClears \/ FetchDrops \/ FetchPlaces
    BY <2>2, <2>1, <2>a DEF Remove, FetchClears, FetchDrops, FetchPlaces, RemoveStaged
  <2>3. CASE FetchCopies
    <3>1. \A b \in Backups : staged'[b] # {} => b = fetch.id \/ staged[b] # {}
      BY <2>3, <2>a DEF FetchCopies
    <3>2. fetch.id <= taken /\ taken' = taken
      BY <2>3 DEF FetchCopies, TakenInv
    <3>3. QED
      BY <3>1, <3>2 DEF TakenInv
  <2>4. CASE UNCHANGED staged
    BY <2>4, <2>1
  <2>5. QED
    BY <2>2, <2>3, <2>4
     DEF Next, TakeBackup, PushBackup, Update, Retention, Restore, Fetch, stores,
         BeginBackup, BeginUpdate, Create, Quiesce, CopyVolumes, Seal, CreateFails, Verify,
         VerifyFails, Discard, BeginPush, PutComponents, PutManifest, PushFails, Unpush,
         UnpushFails, PushDone, Converge, ConvergeFails, Prune, RemoveDone, RemoveFails,
         PruneRemote, RemoveRemote, RemoveRemoteDone, RemoveRemoteFails, Ask, Take, GiveUp,
         SkipStep, BeginStep, StepFails, Undo, UndoFails, Interrupt, Restored, Crash,
         Converges, Stop, Clear, Inspect, StopServices, WipeVolumes, ExtractVolumes, BeginHook,
         HookDone, Reapply, BeginFetch, FetchVerifies, FetchFails
<1>9. QED
  BY <1>2, <1>3, <1>4, <1>5, <1>6, <1>7, <1>8 DEF TakenInv

\* The backup that a run takes is the newest there is, no restore is of it, and
\* it guards nothing until it is sealed.
RunInv ==
  op # None =>
    /\ op.kind \in {"backup", "update"} /\ op.id # 0 => op.id = taken
    /\ op.pc \in {"quiesce", "copy", "seal", "verify", "discard"}
         => /\ op.kind \in {"backup", "update"}
            /\ restore.id < op.id
            /\ op.id \notin preUpdate
    /\ op.pc \in {"verify", "discard"} => op.kind = "backup"
    /\ op.kind = "push" => op.pc \in {"push", "manifest", "unpush"}

LEMMA RunInit == Init => RunInv
  BY DEF Init, RunInv

LEMMA RunStep ==
  ASSUME TypeInv, TakenInv, RunInv, Next
  PROVE  RunInv'
<1>a. /\ op \in Process \cup {None} /\ taken \in Nat /\ restore.id \in Nat
      /\ op # None => op.kind \in Kinds
  BY CountAssumption DEF TypeInv, StoresTyped, RestoreTyped, Record, OpTyped, Process
<1>1. CASE op' = None
  BY <1>1 DEF RunInv
<1>2. CASE UNCHANGED <<op, taken, preUpdate>> /\ (restore'.id = restore.id \/ op = None)
  BY <1>2 DEF RunInv
<1>3. CASE BeginBackup \/ BeginUpdate \/ BeginPush \/ Take
  BY <1>3, <1>1 DEF BeginBackup, BeginUpdate, BeginPush, Take, Begin, BeginOn, RunInv
<1>4. CASE Create
  <2>1. op \in Process /\ op # None /\ op.kind \in {"backup", "update"} /\ restore.id <= taken
    BY <1>4, <1>a DEF Create, At, TypeInv, OpTyped, TakenInv
  <2>2. op'.kind = op.kind /\ op'.id = taken + 1 /\ op'.pc = "quiesce"
    BY <1>4, <2>1 DEF Create, Process
  <2>3. taken + 1 \notin preUpdate
    BY <1>a DEF TakenInv
  <2>4. QED
    BY <1>4, <1>a, <2>1, <2>2, <2>3 DEF Create, RunInv
<1>5. CASE Quiesce \/ CopyVolumes \/ Verify \/ VerifyFails
  <2>1. CASE Quiesce
    BY <2>1, <1>a DEF Quiesce, At, Goto, stores, Process, RunInv
  <2>2. CASE CopyVolumes
    BY <2>2, <1>a DEF CopyVolumes, At, Goto, stores, Process, RunInv
  <2>3. CASE Verify
    BY <2>3, <1>a DEF Verify, At, Goto, stores, Process, RunInv
  <2>4. CASE VerifyFails
    BY <2>4, <1>1, <1>a DEF VerifyFails, At, Goto, End, stores, Process, RunInv
  <2>5. QED
    BY <1>5, <2>1, <2>2, <2>3, <2>4
<1>6. CASE Seal
  BY <1>6, <1>a DEF Seal, At, Goto, Process, RunInv
<1>7. CASE PutComponents \/ PutManifest \/ PushFails \/ PushDone \/ Converge
  <2>1. CASE PutComponents
    BY <2>1, <1>a DEF PutComponents, At, Goto, Process, RunInv
  <2>2. CASE PutManifest
    BY <2>2, <1>a DEF PutManifest, At, Process, RunInv
  <2>3. CASE PushFails
    BY <2>3, <1>a DEF PushFails, stores, Process, RunInv
  <2>4. CASE PushDone
    <3>1. /\ op # None /\ op.pc = "push" /\ op.kind \in {"push", "backup", "update"}
          /\ UNCHANGED stores
      BY <2>4, <1>a DEF PushDone, At, TypeInv, OpTyped, Kinds
    <3>2. op' # None => /\ op'.pc \in {"prune", "converge"} /\ op.kind \in {"backup", "update"}
                        /\ op'.kind = op.kind /\ op'.id = op.id
      BY <2>4, <3>1, <1>a DEF PushDone, Goto, End, Process
    <3>3. QED
      BY <3>1, <3>2 DEF RunInv, stores
  <2>5. CASE Converge
    BY <2>5, <1>a DEF Converge, At, Goto, stores, Process, RunInv
  <2>6. QED
    BY <1>7, <2>1, <2>2, <2>3, <2>4, <2>5
<1>8. CASE Prune \/ Remove \/ RemoveDone \/ RemoveFails
  <2>1. CASE Prune
    BY <2>1, <1>1, <1>a DEF Prune, At, stores, Process, RunInv
  <2>2. CASE Remove
    BY <2>2, <1>1, <1>a DEF Remove, At, stores, Process, RunInv
  <2>3. CASE RemoveDone
    BY <2>3, <1>1, <1>a DEF RemoveDone, At, stores, Process, RunInv
  <2>4. CASE RemoveFails
    BY <2>4, <1>1, <1>a DEF RemoveFails, At, stores, Process, RunInv
  <2>5. QED
    BY <1>8, <2>1, <2>2, <2>3, <2>4
<1>9. CASE PruneRemote \/ RemoveRemote \/ RemoveRemoteDone \/ RemoveRemoteFails
  <2>1. CASE PruneRemote
    BY <2>1, <1>1, <1>a DEF PruneRemote, NextTarget, At, End, stores, Process, RunInv
  <2>2. CASE RemoveRemote
    BY <2>2, <1>1, <1>a DEF RemoveRemote, NextTarget, At, End, stores, Process, RunInv
  <2>3. CASE RemoveRemoteDone
    BY <2>3, <1>1, <1>a DEF RemoveRemoteDone, NextTarget, At, End, stores, Process, RunInv
  <2>4. CASE RemoveRemoteFails
    BY <2>4, <1>1, <1>a DEF RemoveRemoteFails, NextTarget, At, End, stores, Process, RunInv
  <2>5. QED
    BY <1>9, <2>1, <2>2, <2>3, <2>4
<1>10. CASE \/ SkipStep \/ BeginStep \/ WipeVolumes \/ BeginHook
            \/ StepFails /\ Goto("undo")
            \/ StepDone /\ op # None /\ op.pc \in {"work", "write"} /\ UNCHANGED stores
  <2>1. op # None /\ op.pc \in {"step", "work", "write"} /\ op.kind = "restore"
    BY <1>10 DEF SkipStep, BeginStep, WipeVolumes, BeginHook, StepFails, AtStep, At, TypeInv, OpTyped
  <2>2. op'.kind = op.kind /\ op'.pc \in {"step", "work", "write", "undo"}
    BY <1>10, <1>a, <2>1
       DEF SkipStep, BeginStep, WipeVolumes, BeginHook, StepDone, Goto, Process
  <2>3. QED
    BY <2>1, <2>2 DEF RunInv
<1>11. CASE Discard \/ Unpush
  BY <1>11, <1>1, <1>2 DEF Discard, Unpush, End
<1>12. CASE op = None /\ op' = None
  BY <1>12 DEF RunInv
<1>13. QED
  BY <1>1, <1>2, <1>3, <1>4, <1>5, <1>6, <1>7, <1>8, <1>9, <1>10, <1>11, <1>12
     DEF Next, TakeBackup, PushBackup, Update, Retention, Restore, Fetch, stores, End, At, AtStep,
         CreateFails, UnpushFails, ConvergeFails, Ask, GiveUp, Inspect, StopServices,
         WipeVolumes, ExtractVolumes, BeginHook, HookDone, Reapply, StepFails, Undo, UndoFails,
         Interrupt, Restored, BeginFetch, FetchClears, FetchCopies,
         FetchVerifies, FetchPlaces, FetchDrops, FetchFails, Converges, Stop, Clear, Crash

-----------------------------------------------------------------------------
(* What retention keeps *)

\* What is about to be removed as one of the oldest leaves a later one.
GuardInv ==
  /\ GuardStays
  /\ op # None /\ op.pc = "remove" =>
       \A b \in op.go : b \in preUpdate => \E c \in preUpdate : c > b

LEMMA PrunedGuard ==
  ASSUME TypeInv, NEW S \in SUBSET Backups, NEW b \in S, Prunes(S, b), b \in preUpdate
  PROVE  \E c \in S \cap preUpdate : c > b
<1>1. NewerIn(S \cap preUpdate, b) >= KeepPreUpdate
  BY DEF Prunes
<1>2. CASE {c \in S \cap preUpdate : c > b} = {}
  <2>1. NewerIn(S \cap preUpdate, b) = 0
    BY <1>2, FS_EmptySet DEF NewerIn
  <2>2. QED
    BY <1>1, <2>1, RetentionAssumption
<1>3. QED
  BY <1>2

LEMMA PrunedNewer ==
  ASSUME NEW S \in SUBSET Backups, NEW b \in S, Prunes(S, b)
  PROVE  \E c \in S : c > b
<1>1. NewerIn(S, b) >= Keep
  BY DEF Prunes
<1>2. CASE {c \in S : c > b} = {}
  <2>1. NewerIn(S, b) = 0
    BY <1>2, FS_EmptySet DEF NewerIn
  <2>2. QED
    BY <1>1, <2>1, RetentionAssumption
<1>3. QED
  BY <1>2

LEMMA GuardInit == Init => GuardInv
  BY DEF Init, GuardInv, GuardStays

\* The newest guard is left alone by whoever changes a directory.
LEMMA GuardStep ==
  ASSUME TypeInv, TakenInv, RunInv, GuardInv, Next
  PROVE  GuardInv'
<1>a. /\ op \in Process \cup {None} /\ taken \in Nat /\ preUpdate \subseteq Backups
      /\ local \in [Backups -> SUBSET Files] /\ \A b \in Backups : b \in Nat
  BY CountAssumption DEF TypeInv, StoresTyped, OpTyped, Backups
<1>b. ASSUME UNCHANGED preUpdate, op' # None => op'.pc # "remove",
             \A b \in preUpdate : local[b] = Files => local'[b] = Files
      PROVE  GuardInv'
  BY <1>b DEF GuardInv, GuardStays
<1>1. CASE Create
  <2>1. op' # None => op'.pc # "remove"
    BY <1>1, <1>a DEF Create, At, Process
  <2>2. \A b \in preUpdate : b # taken + 1
    BY <1>a DEF TakenInv
  <2>3. \A b \in preUpdate : local[b] = Files => local'[b] = Files
    BY <1>1, <1>a, <2>2 DEF Create, Files
  <2>4. QED
    BY <1>1, <2>1, <2>3, <1>b DEF Create
<1>2. CASE Seal
  <2>1. op # None /\ op.id \in Backups /\ op.id \notin preUpdate
    BY <1>2 DEF Seal, At, TypeInv, OpTyped, RunInv
  <2>2. op' # None => op'.pc # "remove"
    BY <1>2, <1>a DEF Seal, At, Goto, Process
  <2>3. op.id = taken
    BY <1>2, <2>1, <1>a DEF Seal, At, RunInv, Backups
  <2>4. \A b \in Backups : local'[b] = IF b = op.id THEN Files ELSE local[b]
    BY <1>2, <1>a DEF Seal
  <2>5. CASE preUpdate' = preUpdate
    BY <2>2, <2>4, <2>5, <1>a, <1>b
  <2>6. CASE preUpdate' = preUpdate \cup {op.id}
    <3>1. \A b \in preUpdate' : (\A c \in preUpdate' : c <= b) => b = op.id
      BY <2>6, <2>3, <1>a DEF TakenInv
    <3>2. QED
      BY <2>1, <2>2, <2>4, <3>1 DEF GuardInv, GuardStays
  <2>7. QED
    BY <1>2, <2>5, <2>6 DEF Seal
<1>3. CASE CreateFails
  <2>1. op.id \notin preUpdate
    BY <1>3 DEF CreateFails, RunInv
  <2>2. \A b \in preUpdate : local'[b] = local[b]
    BY <1>3, <1>a, <2>1 DEF CreateFails
  <2>3. QED
    BY <1>3, <2>2, <1>b DEF CreateFails, End
<1>4. CASE Discard
  <2>1. op # None /\ op.id \notin preUpdate /\ op.pc = "discard"
    BY <1>4 DEF Discard, At, RunInv
  <2>2. \A b \in preUpdate : local'[b] = local[b]
    BY <1>4, <1>a, <2>1 DEF Discard, RemoveFile
  <2>3. op' # None => op'.pc # "remove"
    BY <1>4, <2>1 DEF Discard, End
  <2>4. QED
    BY <1>4, <2>2, <2>3, <1>b DEF Discard
<1>5. CASE Prune
  <2>1. op' # None => op'.go \subseteq {b \in ListedHere : Prunes(ListedHere, b)}
    BY <1>5, <1>a DEF Prune, At, Process
  <2>2. \A b \in ListedHere : Prunes(ListedHere, b) /\ b \in preUpdate
          => \E c \in preUpdate : c > b
    BY PrunedGuard DEF ListedHere, Listed
  <2>3. UNCHANGED <<local, preUpdate>>
    BY <1>5 DEF Prune, stores
  <2>4. op' # None /\ op'.pc = "remove" =>
          \A b \in op'.go : b \in preUpdate' => \E c \in preUpdate' : c > b
    BY <2>1, <2>2, <2>3
  <2>5. QED
    BY <2>3, <2>4 DEF GuardInv, GuardStays
<1>6. CASE Remove
  <2>1. op # None /\ op \in Process /\ op.pc = "remove"
    BY <1>6, <1>a DEF Remove, At
  <2>2. PICK b \in op.go : RemoveFile(b) \/ UNCHANGED local
    BY <1>6 DEF Remove
  <2>3. b \in Backups /\ \A c \in Backups \ {b} : local'[c] = local[c]
    BY <2>1, <2>2, <1>a DEF RemoveFile, Process
  <2>4. \A g \in preUpdate : (\A c \in preUpdate : c <= g) => g # b
    BY <2>1, <2>2, <1>a DEF GuardInv
  <2>5. op' # None => op'.go \subseteq op.go
    BY <1>6, <2>1 DEF Remove, Process
  <2>6. UNCHANGED preUpdate
    BY <1>6 DEF Remove
  <2>7. QED
    BY <1>a, <2>1, <2>3, <2>4, <2>5, <2>6 DEF GuardInv, GuardStays
<1>7. CASE FetchPlaces
  <2>1. \A b \in preUpdate : local[b] = Files => local'[b] = Files
    BY <1>7, <1>a DEF FetchPlaces, Files
  <2>2. UNCHANGED <<preUpdate, op>>
    BY <1>7 DEF FetchPlaces
  <2>3. QED
    BY <2>1, <2>2 DEF GuardInv, GuardStays
<1>8. CASE UNCHANGED <<local, preUpdate, op>>
  BY <1>8 DEF GuardInv, GuardStays
<1>9. CASE op' = None /\ UNCHANGED <<local, preUpdate>>
  BY <1>9, <1>b
<1>10. CASE BeginBackup \/ BeginUpdate \/ BeginPush \/ Take
  BY <1>10, <1>b, <1>8 DEF BeginBackup, BeginUpdate, BeginPush, Take, Begin, BeginOn, stores
<1>11. CASE Quiesce \/ CopyVolumes \/ Verify \/ VerifyFails
  BY <1>11, <1>a, <1>b DEF Quiesce, CopyVolumes, Verify, VerifyFails, End, Goto, At, stores, Process
<1>12. CASE PutComponents \/ PutManifest \/ Unpush \/ PushFails \/ PushDone \/ Converge
  BY <1>12, <1>a, <1>b, <1>8
     DEF PutComponents, PutManifest, Unpush, PushFails, PushDone, Converge, Goto, End, At, stores,
         Process, TypeInv, OpTyped, Kinds
<1>13. CASE RemoveDone \/ RemoveFails \/ PruneRemote \/ RemoveRemote \/ RemoveRemoteDone \/ RemoveRemoteFails
  BY <1>13, <1>a, <1>b, <1>8
     DEF RemoveDone, RemoveFails, PruneRemote, RemoveRemote, RemoveRemoteDone, RemoveRemoteFails,
         NextTarget, End, At, stores, Process
<1>14. CASE SkipStep \/ BeginStep \/ WipeVolumes \/ BeginHook \/ StepFails
  BY <1>14, <1>a, <1>b
     DEF SkipStep, BeginStep, WipeVolumes, BeginHook, StepFails, AtStep, Goto, End, At, stores, Process
<1>15. CASE StepDone /\ op # None /\ UNCHANGED stores
  BY <1>15, <1>a, <1>b DEF StepDone, stores, Process
<1>16. QED
  BY <1>1, <1>2, <1>3, <1>4, <1>5, <1>6, <1>7, <1>8, <1>9, <1>10, <1>11, <1>12, <1>13, <1>14, <1>15
     DEF Next, TakeBackup, PushBackup, Update, Retention, Restore, Fetch, stores, End, At, AtStep,
         UnpushFails, ConvergeFails, Ask, GiveUp, Inspect, StopServices,
         ExtractVolumes, HookDone, Reapply, Undo, UndoFails, Interrupt, Restored,
         BeginFetch, FetchClears, FetchCopies, FetchVerifies, FetchDrops, FetchFails,
         Converges, Stop, Clear, Crash

\* An update's newest guard survives every retention (Backup, GuardStays).
THEOREM GuardIsKept == Spec => []GuardStays
<1>1. TypeInv /\ TakenInv /\ RunInv /\ GuardInv /\ UNCHANGED vars
      => TakenInv' /\ RunInv' /\ GuardInv'
  BY DEF vars, TakenInv, RunInv, GuardInv, GuardStays
<1>2. QED
  BY <1>1, TypeInit, TypeStep, TakenInit, TakenStep, RunInit, RunStep, GuardInit, GuardStep, PTL
     DEF Spec, GuardInv

\* A run prunes only where its own backup has landed, which is the newest.
LandedInv ==
  /\ LandedStays
  /\ op # None /\ op.kind \in {"backup", "update"} /\ op.pc # "unpush"
       => \A t \in op.pushed : landed[t] = op.id
  /\ op # None /\ op.pc = "remove-remote"
       => op.at \in op.pushed /\ \A b \in op.go : b < taken
  /\ op # None /\ op.pc = "create" => op.pushed = {}

LEMMA LandedInit == Init => LandedInv
  BY DEF Init, LandedInv, LandedStays

LEMMA LandedStep ==
  ASSUME TypeInv, TakenInv, RunInv, LandedInv, Next
  PROVE  LandedInv'
<1>a. /\ op \in Process \cup {None} /\ taken \in Nat
      /\ remote \in [Targets -> [Backups -> SUBSET Files]]
      /\ landed \in [Targets -> 0..MaxBackups] /\ \A b \in Backups : b \in Nat
      /\ op # None => op.pushed \subseteq Targets
  BY CountAssumption DEF TypeInv, StoresTyped, OpTyped, Process, Backups
<1>b. ASSUME UNCHANGED <<remote, landed>>,
             op' # None => /\ op'.pc # "remove-remote" /\ (op'.pc = "create" => op'.pushed = {})
                           /\ op'.pushed = {} \/ /\ op # None /\ op.pc # "unpush"
                                                 /\ op'.kind = op.kind
                                                 /\ op'.pushed = op.pushed /\ op'.id = op.id
      PROVE  LandedInv'
  BY <1>b DEF LandedInv, LandedStays
<1>1. CASE PutComponents
  <2>1. op # None /\ op \in Process /\ op.at \in Targets /\ op.id \in Backups /\ op.pc = "push"
    BY <1>1, <1>a DEF PutComponents, At, HasTarget, TypeInv, OpTyped
  <2>2. /\ op'.kind = op.kind /\ op'.pushed = op.pushed /\ op'.id = op.id /\ op'.pc = "manifest"
        /\ UNCHANGED landed
    BY <1>1, <2>1 DEF PutComponents, Goto, Process
  <2>3. \A t \in Targets, b \in Backups : remote[t][b] = Files => remote'[t][b] = Files
    BY <1>1, <1>a, <2>1 DEF PutComponents, Holds, Files
  <2>4. \A t \in Targets : landed[t] # 0 => landed[t] \in Backups
    BY <1>a, CountAssumption DEF Backups
  <2>5. QED
    BY <2>1, <2>2, <2>3, <2>4 DEF LandedInv, LandedStays
<1>2. CASE PutManifest
  <2>1. op # None /\ op \in Process /\ op.at \in Targets /\ op.id \in Backups /\ op.pc = "manifest"
    BY <1>2, <1>a DEF PutManifest, At, TypeInv, OpTyped
  <2>2. /\ op'.kind = op.kind /\ op'.pushed = op.pushed \cup {op.at} /\ op'.id = op.id
        /\ op'.pc = "push"
    BY <1>2, <2>1 DEF PutManifest, Process
  <2>3. /\ \A t \in Targets, b \in Backups :
             remote'[t][b] = IF t = op.at /\ b = op.id THEN Files ELSE remote[t][b]
        /\ \A t \in Targets : landed'[t] = IF t = op.at THEN Max2(landed[t], op.id) ELSE landed[t]
    BY <1>2, <1>a, <2>1 DEF PutManifest, Holds
  <2>4. \A t \in Targets : landed[t] # 0 => landed[t] \in Backups
    BY <1>a, CountAssumption DEF Backups
  <2>5. LandedStays'
    BY <2>1, <2>3, <2>4, <1>a DEF LandedInv, LandedStays, Max2
  <2>6. op.kind \in {"backup", "update"} => landed'[op.at] = op.id
    <3>1. op.kind \in {"backup", "update"} => op.id = taken
      BY <2>1, <1>a DEF RunInv, Backups
    <3>2. landed[op.at] <= taken /\ landed[op.at] \in Nat
      BY <2>1, <1>a DEF TakenInv
    <3>3. QED
      BY <2>1, <2>3, <3>1, <3>2, <1>a DEF Max2
  <2>7. op.kind \in {"backup", "update"} => \A t \in op'.pushed : landed'[t] = op'.id
    BY <1>a, <2>1, <2>2, <2>3, <2>6 DEF LandedInv
  <2>8. QED
    BY <2>2, <2>5, <2>7 DEF LandedInv
<1>3. CASE Unpush
  <2>1. op # None /\ op \in Process /\ op.at \in Targets /\ op.id \in Backups /\ op.pc = "unpush"
    BY <1>3, <1>a DEF Unpush, At, TypeInv, OpTyped
  <2>2. CASE op' = None
    <3>1. UNCHANGED <<remote, landed>> \/ UNCHANGED op
      BY <1>3 DEF Unpush
    <3>2. QED
      BY <2>1, <2>2, <3>1, <1>b
  <2>3. CASE op' = op /\ RemoveRemotely(op.at, op.id)
             /\ landed' = [landed EXCEPT ![op.at] = IF @ = op.id THEN 0 ELSE @]
    <3>1. \A t \in Targets, b \in Backups : (t = op.at /\ b = op.id) \/ remote'[t][b] = remote[t][b]
      BY <2>1, <2>3, <1>a DEF RemoveRemotely, Holds
    <3>2. \A t \in Targets : landed[t] # 0 => landed[t] \in Backups
      BY <1>a, CountAssumption DEF Backups
    <3>3. \A t \in Targets : landed'[t] # 0 => landed'[t] = landed[t] /\ ~(t = op.at /\ landed[t] = op.id)
      BY <2>1, <2>3, <1>a
    <3>4. LandedStays'
      BY <3>1, <3>2, <3>3 DEF LandedInv, LandedStays
    <3>5. QED
      BY <2>1, <2>3, <3>4 DEF LandedInv
  <2>4. QED
    BY <1>3, <2>2, <2>3 DEF Unpush, End
<1>4. CASE PruneRemote
  <2>1. op # None /\ op \in Process /\ op.pc = "prune-remote" /\ UNCHANGED <<remote, landed>>
    BY <1>4, <1>a DEF PruneRemote, At, stores
  <2>2. CASE ~HasTarget \/ op.at \notin op.pushed
    BY <1>4, <2>1, <2>2, <1>b DEF PruneRemote, End, Process
  <2>3. CASE HasTarget /\ op.at \in op.pushed
    <3>1. op' = [op EXCEPT !.pc = "remove-remote", !.go =
                   {b \in Listed(remote[op.at]) : Prunes(Listed(remote[op.at]), b)}]
      BY <1>4, <2>3 DEF PruneRemote
    <3>2. /\ op'.kind = op.kind /\ op'.pushed = op.pushed /\ op'.id = op.id /\ op'.at = op.at
          /\ op'.go = {b \in Listed(remote[op.at]) : Prunes(Listed(remote[op.at]), b)}
          /\ op'.pc = "remove-remote"
      BY <2>1, <3>1 DEF Process
    <3>3. \A b \in Listed(remote[op.at]) : b \in Backups /\ b <= taken
      BY <2>3 DEF Listed, TakenInv, HasTarget
    <3>4. \A b \in op'.go : \E c \in Listed(remote[op.at]) : c > b
      BY <3>2, PrunedNewer DEF Listed
    <3>5. \A b \in op'.go : b < taken
      BY <3>2, <3>3, <3>4, <1>a
    <3>6. taken' = taken
      BY <1>4 DEF PruneRemote, stores
    <3>7. QED
      BY <2>1, <2>3, <3>2, <3>5, <3>6 DEF LandedInv, LandedStays
  <2>4. QED
    BY <2>2, <2>3
<1>5. CASE RemoveRemote
  <2>1. op # None /\ op \in Process /\ op.pc = "remove-remote" /\ op.at \in Targets
    BY <1>5, <1>a DEF RemoveRemote, At, TypeInv, OpTyped
  <2>2. PICK b \in op.go : RemoveRemotely(op.at, b)
    BY <1>5 DEF RemoveRemote
  <2>3. b \in Backups /\ b < taken
    BY <2>1, <2>2 DEF LandedInv, Process
  <2>4. landed[op.at] = taken
    <3>1. op.kind \in {"backup", "update"} /\ op.at \in op.pushed
      BY <2>1 DEF LandedInv, RunInv, TypeInv, OpTyped, Process, Kinds
    <3>2. op.id \in Backups
      BY <2>1 DEF TypeInv, OpTyped
    <3>3. QED
      BY <2>1, <3>1, <3>2, <1>a DEF LandedInv, RunInv, Backups
  <2>5. \A t \in Targets, c \in Backups : (t = op.at /\ c = b) \/ remote'[t][c] = remote[t][c]
    BY <2>1, <2>2, <2>3, <1>a DEF RemoveRemotely, Holds
  <2>6. \A t \in Targets : landed[t] # 0 => landed[t] \in Backups
    BY <1>a, CountAssumption DEF Backups
  <2>7. LandedStays'
    BY <1>5, <2>3, <2>4, <2>5, <2>6, <1>a DEF RemoveRemote, LandedInv, LandedStays
  <2>8. /\ op'.kind = op.kind /\ op'.pushed = op.pushed /\ op'.id = op.id /\ op'.at = op.at
        /\ op'.pc = op.pc /\ op'.go \subseteq op.go
    BY <1>5, <2>1 DEF RemoveRemote, Process
  <2>9. QED
    BY <1>5, <2>1, <2>7, <2>8 DEF RemoveRemote, LandedInv
<1>6. CASE UNCHANGED <<remote, landed, op, taken>>
  BY <1>6 DEF LandedInv, LandedStays
<1>7. CASE op' = None /\ UNCHANGED <<remote, landed>>
  BY <1>7, <1>b
<1>8. CASE BeginBackup \/ BeginUpdate \/ BeginPush \/ Take
  BY <1>8, <1>b, <1>6 DEF BeginBackup, BeginUpdate, BeginPush, Take, Begin, BeginOn, stores
<1>9. CASE Create
  <2>1. op # None /\ op \in Process /\ op'.pc = "quiesce" /\ op'.pushed = op.pushed
    BY <1>9, <1>a DEF Create, At, Process
  <2>2. op.pushed = {}
    BY <1>9 DEF Create, At, LandedInv
  <2>3. QED
    BY <1>9, <2>1, <2>2, <1>b DEF Create
<1>10. CASE Quiesce \/ CopyVolumes \/ Seal \/ Verify \/ VerifyFails \/ Discard
  BY <1>10, <1>a, <1>b, <1>6
     DEF Quiesce, CopyVolumes, Seal, Verify, VerifyFails, Discard, End, Goto, At, stores, Process
<1>11. CASE PushDone \/ Converge
  BY <1>11, <1>a, <1>b DEF PushDone, Converge, Goto, End, At, stores, Process, TypeInv, OpTyped, Kinds
<1>12. CASE PushFails
  <2>1. op # None /\ op \in Process /\ op.pc \in {"push", "manifest"}
    BY <1>12, <1>a DEF PushFails
  <2>2. /\ op'.kind = op.kind /\ op'.pushed = op.pushed /\ op'.id = op.id
        /\ op'.pc \in {"push", "unpush"}
    BY <1>12, <2>1 DEF PushFails, Process
  <2>3. QED
    BY <1>12, <2>1, <2>2, <1>b DEF PushFails, stores
<1>13. CASE Prune \/ Remove \/ RemoveDone \/ RemoveFails \/ RemoveRemoteDone \/ RemoveRemoteFails
  BY <1>13, <1>a, <1>b
     DEF Prune, Remove, RemoveDone, RemoveFails, RemoveRemoteDone, RemoveRemoteFails,
         NextTarget, End, At, stores, Process
<1>14. CASE SkipStep \/ BeginStep \/ WipeVolumes \/ BeginHook \/ StepFails
  BY <1>14, <1>a, <1>b
     DEF SkipStep, BeginStep, WipeVolumes, BeginHook, StepFails, AtStep, Goto, End, At, stores, Process
<1>15. CASE StepDone /\ op # None /\ op.pc \in {"work", "write"} /\ UNCHANGED stores
  BY <1>15, <1>a, <1>b DEF StepDone, stores, Process
<1>16. QED
  BY <1>1, <1>2, <1>3, <1>4, <1>5, <1>6, <1>7, <1>8, <1>9, <1>10, <1>11, <1>12, <1>13, <1>14, <1>15
     DEF Next, TakeBackup, PushBackup, Update, Retention, Restore, Fetch, stores, End, At, AtStep,
         CreateFails, UnpushFails, ConvergeFails, Ask, GiveUp, Inspect, StopServices,
         ExtractVolumes, HookDone, Reapply, Undo, UndoFails, Interrupt, Restored,
         BeginFetch, FetchClears, FetchCopies,
         FetchVerifies, FetchPlaces, FetchDrops, FetchFails, Converges, Stop, Clear, Crash

\* A target never loses its newest backup to retention (Backup, LandedStays).
THEOREM LandedIsKept == Spec => []LandedStays
<1>1. TypeInv /\ TakenInv /\ RunInv /\ LandedInv /\ UNCHANGED vars
      => TakenInv' /\ RunInv' /\ LandedInv'
  BY DEF vars, TakenInv, RunInv, LandedInv, LandedStays
<1>2. QED
  BY <1>1, TypeInit, TypeStep, TakenInit, TakenStep, RunInit, RunStep, LandedInit, LandedStep, PTL
     DEF Spec, LandedInv

-----------------------------------------------------------------------------
(* What a restore finds *)

KeptStatuses == {"running", "interrupted", "failed", "requires-manual-intervention"}

\* A restore that is not over has the backup it verified in the backup's own
\* directory, and what retention is removing is not that one.
FoundInv ==
  /\ restore.status \in KeptStatuses /\ 1 \in restore.done /\ ~restore.staging
       => local[restore.id] = Files
  /\ op # None /\ op.kind = "restore" => op.id = restore.id /\ restore.status = "running"
  /\ asked # None /\ asked.resume => asked.id = restore.id
  /\ op # None /\ op.pc = "remove" /\ restore.status \in KeptStatuses => restore.id \notin op.go

LEMMA FoundInit == Init => FoundInv
  BY DEF Init, FoundInv, NoRestore, KeptStatuses

\* Nobody takes a file of the backup: a new backup is another, and retention
\* spares it.
LEMMA FilesStay ==
  ASSUME TypeInv, TakenInv, RunInv, FoundInv, Next,
         restore.status \in KeptStatuses, local[restore.id] = Files
  PROVE  local'[restore.id] = Files
<1>a. /\ op \in Process \cup {None} /\ taken \in Nat /\ local \in [Backups -> SUBSET Files]
      /\ restore.id \in Backups /\ restore.id <= taken
      /\ \A b \in Backups : b \in Nat
      /\ op # None => op.go \subseteq Backups
  BY CountAssumption
     DEF TypeInv, StoresTyped, RestoreTyped, OpTyped, TakenInv, KeptStatuses, Backups, Process
<1>1. CASE Create
  <2>1. restore.id # taken + 1
    BY <1>a
  <2>2. QED
    BY <1>1, <1>a, <2>1 DEF Create, Files
<1>2. CASE Seal \/ CreateFails \/ Discard
  <2>1. op # None /\ op.id \in Backups /\ restore.id < op.id
    BY <1>2, <1>a DEF Seal, CreateFails, Discard, At, RunInv, TypeInv, OpTyped
  <2>2. restore.id # op.id
    BY <1>a, <2>1
  <2>3. QED
    BY <1>2, <1>a, <2>2 DEF Seal, CreateFails, Discard, RemoveFile
<1>3. CASE Remove
  <2>1. op # None /\ op.pc = "remove"
    BY <1>3 DEF Remove, At
  <2>2. PICK b \in op.go : RemoveFile(b) \/ UNCHANGED local
    BY <1>3 DEF Remove
  <2>3. b \in Backups /\ b # restore.id
    BY <1>a, <2>1, <2>2 DEF FoundInv
  <2>4. QED
    BY <1>a, <2>2, <2>3 DEF RemoveFile
<1>4. CASE FetchPlaces
  BY <1>4, <1>a DEF FetchPlaces, Files
<1>5. CASE UNCHANGED local
  BY <1>5
<1>6. QED
  BY <1>1, <1>2, <1>3, <1>4, <1>5
     DEF Next, TakeBackup, PushBackup, Update, Retention, Restore, Fetch, stores,
         BeginBackup, BeginUpdate, Quiesce, CopyVolumes, Verify, VerifyFails,
         BeginPush, PutComponents, PutManifest, PushFails, Unpush, UnpushFails, PushDone,
         Converge, ConvergeFails, Prune, RemoveDone, RemoveFails, PruneRemote, RemoveRemote,
         RemoveRemoteDone, RemoveRemoteFails, Ask, Take, GiveUp, SkipStep, BeginStep, Inspect,
         StopServices, WipeVolumes, ExtractVolumes, BeginHook, HookDone, Reapply, StepFails,
         Undo, UndoFails, Interrupt, Restored, BeginFetch, FetchClears, FetchCopies,
         FetchVerifies, FetchDrops, FetchFails, Converges, Stop, Clear, Crash

LEMMA FoundStep ==
  ASSUME TypeInv, TakenInv, RunInv, FoundInv, Next
  PROVE  FoundInv'
<1>a. /\ op \in Process \cup {None} /\ restore \in Record /\ asked \in Asked \cup {None}
      /\ restore.status \in KeptStatuses => restore.id \in Backups
      /\ op # None => (op.kind = "restore" <=> op.pc \in {"step", "work", "write", "undo"})
      /\ op # None /\ op.kind = "restore" => op.id = restore.id /\ restore.status = "running"
  BY DEF TypeInv, RestoreTyped, ReadersTyped, OpTyped, KeptStatuses, FoundInv
<1>b. ASSUME restore'.id = restore.id,
             restore'.status \in KeptStatuses => restore.status \in KeptStatuses,
             1 \in restore'.done => 1 \in restore.done, restore'.staging = restore.staging,
             asked' = None \/ asked' = asked,
             op' # None => /\ op'.pc # "remove"
                           /\ op'.kind = "restore" =>
                                op'.id = restore.id /\ restore'.status = "running"
      PROVE  FoundInv'
  BY <1>b, FilesStay DEF FoundInv
<1>1. CASE Ask
  <2>1. asked' # None /\ asked'.resume => asked'.id = restore.id
    BY <1>1 DEF Ask
  <2>2. UNCHANGED <<restore, op, local>>
    BY <1>1 DEF Ask, stores
  <2>3. QED
    BY <2>1, <2>2 DEF FoundInv
<1>2. CASE Take
  <2>1. CASE UNCHANGED <<op, restore>>
    BY <1>2, <1>a, <1>b, <2>1 DEF Take
  <2>2. CASE op' = BeginOn("restore", asked.id, asked.staging, "step") /\ asked.resume
             /\ restore' = [restore EXCEPT !.status = "running", !.begun = 0] /\ StillSo
    <3>1. /\ restore'.id = restore.id /\ restore'.status = "running"
          /\ restore'.done = restore.done /\ restore.status \in KeptStatuses
          /\ restore'.staging = restore.staging
      BY <1>a, <2>2 DEF Record, StillSo, CanContinue, Resumable, KeptStatuses
    <3>2. op'.id = restore.id /\ op'.pc = "step"
      BY <1>2, <2>2 DEF Take, Begin, BeginOn, FoundInv
    <3>3. QED
      BY <1>2, <1>b, <3>1, <3>2 DEF Take
  <2>3. CASE op' = BeginOn("restore", asked.id, asked.staging, "step")
             /\ restore' = [NoRestore EXCEPT !.id = asked.id, !.status = "running", !.made = ops]
    BY <1>2, <2>3 DEF Take, Begin, BeginOn, NoRestore, FoundInv
  <2>4. QED
    BY <1>2, <2>1, <2>2, <2>3 DEF Take
<1>3. CASE Inspect
  <2>1. op # None /\ op \in Process /\ op.kind = "restore" /\ op.step \in {1, 2, 7}
    BY <1>3, <1>a DEF Inspect, At
  <2>2. /\ restore'.id = restore.id /\ restore'.status = restore.status
        /\ restore'.done = restore.done \cup {op.step}
        /\ restore'.staging = IF op.step = 1 THEN op.staging ELSE restore.staging
    BY <1>3, <1>a DEF Inspect, StepDone, Record
  <2>3. op'.kind = op.kind /\ op'.id = op.id /\ op'.pc = "step"
    BY <1>3, <2>1 DEF Inspect, StepDone, Process
  <2>4. op.step = 1 /\ ~op.staging => local[op.id] = Files
    <3>1. op.id \in Backups /\ local \in [Backups -> SUBSET Files]
      BY <2>1, <1>3 DEF Inspect, At, TypeInv, OpTyped, StoresTyped
    <3>2. op.step = 1 => ReadBy(op.step) = Files
      BY DEF ReadBy
    <3>3. ReadBy(op.step) \subseteq Source
      BY <1>3 DEF Inspect
    <3>4. QED
      BY <3>1, <3>2, <3>3 DEF Source
  <2>5. UNCHANGED <<local, asked>>
    BY <1>3 DEF Inspect, stores
  <2>6. QED
    BY <1>a, <2>1, <2>2, <2>3, <2>4, <2>5 DEF FoundInv
<1>4. CASE Prune
  <2>1. op # None /\ op.kind # "restore" /\ op \in Process /\ UNCHANGED <<restore, asked, local>>
    BY <1>4, <1>a DEF Prune, At, stores
  <2>2. op'.kind = op.kind
        /\ op'.go = IF op.id = 0 THEN {}
                    ELSE {b \in ListedHere : Prunes(ListedHere, b) /\ b # KeepID}
    BY <1>4, <2>1 DEF Prune, Process
  <2>3. restore.status \in KeptStatuses => KeepID = restore.id
    BY DEF KeepID, KeptStatuses
  <2>4. QED
    BY <2>1, <2>2, <2>3 DEF FoundInv
<1>5. CASE Remove
  <2>1. /\ op # None /\ op \in Process /\ op.pc = "remove" /\ op.kind # "restore"
        /\ UNCHANGED <<restore, asked>>
    BY <1>5, <1>a DEF Remove, At
  <2>2. op'.kind = op.kind /\ op'.go \subseteq op.go
    BY <1>5, <2>1 DEF Remove, Process
  <2>3. QED
    BY <2>1, <2>2, FilesStay DEF FoundInv
<1>6. CASE UNCHANGED <<op, restore>> /\ (asked' = None \/ asked' = asked)
  BY <1>6, FilesStay DEF FoundInv
<1>7. CASE \/ BeginBackup \/ BeginUpdate \/ BeginPush
           \/ Create \/ Quiesce \/ CopyVolumes \/ Seal \/ Verify \/ VerifyFails
  <2>1. CASE BeginBackup \/ BeginPush
    BY <2>1, <1>a, <1>b DEF BeginBackup, BeginPush, Begin, BeginOn
  <2>2. CASE BeginUpdate
    <3>1. /\ restore'.id = restore.id /\ restore'.status = restore.status
          /\ restore'.done = restore.done /\ restore'.staging = restore.staging
      BY <2>2, <1>a DEF BeginUpdate, BuiltOn, Record
    <3>2. asked' = asked /\ (op' # None => op'.pc # "remove" /\ op'.kind # "restore")
      BY <2>2 DEF BeginUpdate, Begin, BeginOn
    <3>3. QED
      BY <1>b, <3>1, <3>2
  <2>3. CASE Create \/ Quiesce \/ CopyVolumes \/ Seal \/ Verify \/ VerifyFails
    BY <2>3, <1>a, <1>b
       DEF Create, Quiesce, CopyVolumes, Seal, Verify, VerifyFails, Goto, End, At, stores, Process
  <2>4. QED
    BY <1>7, <2>1, <2>2, <2>3
<1>8. CASE CreateFails \/ Discard \/ PutComponents \/ PutManifest \/ PushFails \/ Unpush
           \/ UnpushFails \/ PushDone \/ Converge \/ ConvergeFails
  BY <1>8, <1>a, <1>b, <1>6
     DEF CreateFails, Discard, PutComponents, PutManifest, PushFails, Unpush, UnpushFails, PushDone,
         Converge, ConvergeFails, Goto, End, At, stores, Process, TypeInv, OpTyped, Kinds
<1>9. CASE RemoveDone \/ RemoveFails \/ PruneRemote \/ RemoveRemote \/ RemoveRemoteDone
           \/ RemoveRemoteFails
  BY <1>9, <1>a, <1>b, <1>6
     DEF RemoveDone, RemoveFails, PruneRemote, RemoveRemote, RemoveRemoteDone, RemoveRemoteFails,
         NextTarget, End, At, stores, Process
<1>10. CASE SkipStep \/ BeginStep \/ WipeVolumes \/ BeginHook
  <2>1. op # None /\ op \in Process /\ op.kind = "restore" /\ UNCHANGED asked
    BY <1>10, <1>a DEF SkipStep, BeginStep, WipeVolumes, BeginHook, AtStep, At
  <2>2. op'.kind = op.kind /\ op'.id = op.id /\ op'.pc \in {"step", "work", "write"}
    BY <1>10, <2>1 DEF SkipStep, BeginStep, WipeVolumes, BeginHook, AtStep, At, Goto, Process
  <2>3. /\ restore'.id = restore.id /\ restore'.status = restore.status
        /\ restore'.done \subseteq restore.done /\ restore'.staging = restore.staging
    <3>1. CASE BeginStep
      BY <3>1, <1>a DEF BeginStep, Record
    <3>2. CASE UNCHANGED restore
      BY <3>2
    <3>3. QED
      BY <1>10, <3>1, <3>2 DEF SkipStep, WipeVolumes, BeginHook
  <2>4. QED
    BY <1>a, <1>b, <2>1, <2>2, <2>3
<1>11. CASE StepDone /\ op # None /\ op.kind = "restore" /\ op.step # 1 /\ UNCHANGED asked
  <2>1. /\ restore'.id = restore.id /\ restore'.status = restore.status
        /\ restore'.done = restore.done \cup {op.step}
        /\ restore'.staging = restore.staging
    BY <1>11, <1>a DEF StepDone, Record
  <2>2. op'.kind = op.kind /\ op'.id = op.id /\ op'.pc = "step"
    BY <1>11, <1>a DEF StepDone, Process
  <2>3. QED
    BY <1>a, <1>b, <1>11, <2>1, <2>2
<1>12. CASE StopServices \/ ExtractVolumes \/ HookDone \/ Reapply
  BY <1>12, <1>11, <1>a DEF StopServices, ExtractVolumes, HookDone, Reapply, AtStep, At
<1>13. CASE StepFails
  <2>1. op # None /\ op \in Process /\ op.kind = "restore" /\ UNCHANGED asked
    BY <1>13, <1>a DEF StepFails
  <2>2. CASE op.step \in {1, 2, 7}
    BY <1>13, <1>a, <1>b, <2>1, <2>2 DEF StepFails, End, Record, KeptStatuses
  <2>3. CASE op.step \notin {1, 2, 7}
    BY <1>13, <1>a, <1>b, <2>1, <2>3 DEF StepFails, Goto, Process
  <2>4. QED
    BY <2>2, <2>3
<1>14. CASE Undo \/ UndoFails \/ Interrupt \/ Restored
  <2>1. op # None /\ op.kind = "restore" /\ UNCHANGED asked /\ op' = None
    BY <1>14, <1>a DEF Undo, UndoFails, Interrupt, Restored, At, End
  <2>2. /\ restore'.id = restore.id /\ (1 \in restore'.done => 1 \in restore.done)
        /\ restore'.staging = restore.staging
    <3>1. CASE Undo
      BY <3>1, <1>a DEF Undo, Record
    <3>2. CASE UndoFails
      BY <3>2, <1>a DEF UndoFails, Record
    <3>3. CASE Interrupt
      BY <3>3, <1>a DEF Interrupt, Record
    <3>4. CASE Restored
      BY <3>4, <1>a DEF Restored, Record
    <3>5. QED
      BY <1>14, <3>1, <3>2, <3>3, <3>4
  <2>3. QED
    BY <1>a, <1>b, <2>1, <2>2 DEF KeptStatuses
<1>15. CASE Converges \/ Stop \/ Clear \/ Crash
  <2>1. /\ UNCHANGED asked /\ op' = None /\ restore'.id = restore.id /\ restore'.done = restore.done
        /\ restore'.status = restore.status \/ restore.status \in KeptStatuses
        /\ restore'.staging = restore.staging
    BY <1>15, <1>a DEF Converges, Stop, Clear, Crash, BuiltOn, GateOpen, End, Record, KeptStatuses
  <2>2. QED
    BY <1>b, <2>1
<1>16. QED
  BY <1>1, <1>2, <1>3, <1>4, <1>5, <1>6, <1>7, <1>8, <1>9, <1>10, <1>12, <1>13, <1>14, <1>15
     DEF Next, TakeBackup, PushBackup, Update, Retention, Restore, Fetch, GiveUp, BeginFetch,
         FetchClears, FetchCopies,
         FetchVerifies, FetchPlaces, FetchDrops, FetchFails

\* A restore that may be resumed has its backup, whatever retention removed
\* meanwhile, unless it was verified in a fetch's staging directory (Backup,
\* ResumeFindsItsBackup).
THEOREM ResumeAlwaysFindsItsBackup == Spec => []ResumeFindsItsBackup
<1>1. TypeInv /\ TakenInv /\ RunInv /\ FoundInv /\ UNCHANGED vars
      => TakenInv' /\ RunInv' /\ FoundInv'
  BY DEF vars, TakenInv, RunInv, FoundInv
<1>2. FoundInv => ResumeFindsItsBackup
  BY DEF FoundInv, ResumeFindsItsBackup, CanContinue, Resumable, KeptStatuses
<1>3. QED
  BY <1>1, <1>2, TypeInit, TypeStep, TakenInit, TakenStep, RunInit, RunStep, FoundInit, FoundStep, PTL
     DEF Spec

-----------------------------------------------------------------------------
(* What a restore puts back *)

\* An update makes the restore before it history.
StaleInv ==
  op # None => /\ op.pc = "converge" => op.kind = "update"
               /\ op.kind = "update" => restore.stale

\* A restore has done every step before the one it is at, and the services are
\* down where it writes: every run of it stops them anew.
StepsInv ==
  op # None /\ op.pc \in {"step", "work", "write"} =>
    /\ ~restore.undone /\ ~restore.stale
    /\ 1..(op.step - 1) \subseteq restore.done
    /\ op.pc # "step" => op.step \notin restore.done
    /\ op.pc = "write" => op.step \in {4, 5}
    /\ op.step \in {4, 5} => services = "down"

\* The volumes that one run put back are still there when another goes on.
VolumesInv ==
  4 \in restore.done /\ 5 \notin restore.done
  /\ ~restore.undone /\ ~restore.stale /\ ~restore.overrun
    => data.volumes = restore.id

LEMMA MomentInit == Init => StaleInv /\ StepsInv /\ VolumesInv
<1>1. Init => StaleInv /\ StepsInv
  BY DEF Init, StaleInv, StepsInv
<1>2. Init => VolumesInv
  BY DEF Init, VolumesInv, NoRestore
<1>3. QED
  BY <1>1, <1>2

LEMMA StaleStep ==
  ASSUME TypeInv, StaleInv, Next
  PROVE  StaleInv'
<1>a. /\ op \in Process \cup {None} /\ restore \in Record
      /\ op # None => /\ op.kind \in Kinds
                      /\ op.kind = "restore" <=> op.pc \in {"step", "work", "write", "undo"}
                      /\ op.pc = "create" => op.kind \in {"backup", "update"}
  BY DEF TypeInv, RestoreTyped, OpTyped, Process
<1>1. CASE op' = None
  BY <1>1 DEF StaleInv
<1>2. CASE UNCHANGED <<op, restore>>
  BY <1>2 DEF StaleInv
<1>3. CASE BeginUpdate
  <2>1. restore'.stale
    BY <1>3, <1>a DEF BeginUpdate, BuiltOn, Record
  <2>2. op'.kind = "update"
    BY <1>3 DEF BeginUpdate, Begin, BeginOn
  <2>3. QED
    BY <2>1, <2>2 DEF StaleInv
<1>4. CASE BeginBackup \/ BeginPush \/ Take
  BY <1>4, <1>2 DEF BeginBackup, BeginPush, Take, Begin, BeginOn, StaleInv
<1>5. CASE op # None /\ op' # None /\ op'.kind = op.kind /\ op'.pc # "converge"
           /\ (restore' = restore \/ op.kind # "update")
  BY <1>5 DEF StaleInv
<1>6. CASE PushDone
  <2>1. op # None /\ op \in Process /\ op.kind \in {"backup", "push", "update"} /\ restore' = restore
    BY <1>6, <1>a DEF PushDone, At, Kinds
  <2>2. CASE op.kind = "push"
    BY <1>6, <1>1, <2>2 DEF PushDone, End
  <2>3. CASE op.kind = "backup"
    <3>1. op' = [op EXCEPT !.pc = "prune"]
      BY <1>6, <2>3 DEF PushDone, Goto
    <3>2. op'.kind = op.kind /\ op'.pc = "prune"
      BY <2>1, <3>1 DEF Process
    <3>3. QED
      BY <1>1, <1>5, <2>1, <3>2
  <2>4. CASE op.kind = "update"
    <3>1. op' = [op EXCEPT !.pc = "converge"]
      BY <1>6, <2>4 DEF PushDone, Goto
    <3>2. op'.kind = "update"
      BY <2>1, <2>4, <3>1 DEF Process
    <3>3. QED
      BY <2>1, <2>4, <3>2 DEF StaleInv
  <2>5. QED
    BY <2>1, <2>2, <2>3, <2>4
<1>7. CASE Create \/ Quiesce \/ CopyVolumes \/ Seal \/ Verify \/ VerifyFails \/ Discard
  BY <1>7, <1>1, <1>2, <1>5, <1>a
     DEF Create, Quiesce, CopyVolumes, Seal, Verify, VerifyFails, Discard, Goto, End, At, Process
<1>8. CASE PutComponents \/ PutManifest \/ PushFails \/ Unpush \/ Converge
  BY <1>8, <1>1, <1>2, <1>5, <1>a
     DEF PutComponents, PutManifest, PushFails, Unpush, Converge, Goto, End, At, Process
<1>9. CASE \/ Prune \/ Remove \/ RemoveDone \/ RemoveFails
           \/ PruneRemote \/ RemoveRemote \/ RemoveRemoteDone \/ RemoveRemoteFails
  BY <1>9, <1>1, <1>2, <1>5, <1>a
     DEF Prune, Remove, RemoveDone, RemoveFails, PruneRemote, RemoveRemote, RemoveRemoteDone,
         RemoveRemoteFails, NextTarget, End, At, Process
<1>10. CASE SkipStep \/ BeginStep \/ WipeVolumes \/ BeginHook \/ StepFails
            \/ (StepDone /\ op # None /\ op.kind = "restore")
  <2>1. op # None /\ op \in Process /\ op.kind = "restore"
    BY <1>10, <1>a DEF SkipStep, BeginStep, WipeVolumes, BeginHook, StepFails, AtStep, At
  <2>2. op' = None \/ (op'.kind = op.kind /\ op'.pc # "converge")
    <3>1. CASE SkipStep \/ StepDone
      BY <3>1, <2>1 DEF SkipStep, At, StepDone, Process
    <3>2. CASE BeginStep \/ WipeVolumes \/ BeginHook
      BY <3>2, <2>1 DEF BeginStep, WipeVolumes, BeginHook, Goto, Process
    <3>3. CASE StepFails
      BY <3>3, <2>1 DEF StepFails, Goto, End, Process
    <3>4. QED
      BY <1>10, <3>1, <3>2, <3>3
  <2>3. QED
    BY <2>1, <2>2, <1>1, <1>5
<1>11. CASE Inspect \/ StopServices \/ ExtractVolumes \/ HookDone \/ Reapply
  BY <1>11, <1>10, <1>a DEF Inspect, StopServices, ExtractVolumes, HookDone, Reapply, AtStep, At
<1>12. QED
  BY <1>1, <1>2, <1>3, <1>4, <1>6, <1>7, <1>8, <1>9, <1>10, <1>11
     DEF Next, TakeBackup, PushBackup, Update, Retention, Restore, Fetch, End, CreateFails,
         UnpushFails, ConvergeFails, Ask, GiveUp, Undo, UndoFails, Interrupt, Restored,
         BeginFetch, FetchClears, FetchCopies,
         FetchVerifies, FetchPlaces, FetchDrops, FetchFails, Converges, Stop, Clear, Crash

LEMMA StepsStep ==
  ASSUME TypeInv, StepsInv, Next
  PROVE  StepsInv'
<1>a. /\ op \in Process \cup {None} /\ restore \in Record
      /\ op # None => op.step \in Position
      /\ op # None => (op.kind = "restore" <=> op.pc \in {"step", "work", "write", "undo"})
      /\ restore.done \subseteq Index
  BY DEF TypeInv, RestoreTyped, OpTyped, Process, Record
<1>1. CASE op' # None => op'.pc \notin {"step", "work", "write"}
  BY <1>1 DEF StepsInv
<1>2. CASE UNCHANGED <<op, restore, services>>
  BY <1>2 DEF StepsInv
<1>3. CASE Take
  <2>1. CASE UNCHANGED <<op, restore>>
    BY <1>3, <2>1, <1>2 DEF Take, product
  <2>2. CASE op' = BeginOn("restore", asked.id, asked.staging, "step") /\ asked.resume /\ StillSo
             /\ restore' = [restore EXCEPT !.status = "running", !.begun = 0]
    <3>1. ~restore'.undone /\ ~restore'.stale
      BY <1>a, <2>2 DEF Record, StillSo, CanContinue
    <3>2. op'.pc = "step" /\ op'.step = 1
      BY <2>2 DEF Begin, BeginOn
    <3>3. QED
      BY <3>1, <3>2 DEF StepsInv
  <2>3. CASE op' = BeginOn("restore", asked.id, asked.staging, "step")
             /\ restore' = [NoRestore EXCEPT !.id = asked.id, !.status = "running", !.made = ops]
    <3>1. ~restore'.undone /\ ~restore'.stale
      BY <2>3 DEF NoRestore
    <3>2. op'.pc = "step" /\ op'.step = 1
      BY <2>3 DEF Begin, BeginOn
    <3>3. QED
      BY <3>1, <3>2 DEF StepsInv
  <2>4. QED
    BY <1>3, <2>1, <2>2, <2>3 DEF Take
<1>4. CASE SkipStep
  <2>1. /\ op # None /\ op \in Process /\ op.pc = "step" /\ op.step \in restore.done
        /\ op.step # 3 /\ UNCHANGED <<restore, services>>
    BY <1>4, <1>a DEF SkipStep, At, Idempotent, product
  <2>2. op'.step = op.step + 1 /\ op'.pc = "step"
    BY <1>4, <2>1 DEF SkipStep, Process
  <2>3. 1..(op'.step - 1) \subseteq restore.done
    BY <1>a, <2>1, <2>2 DEF StepsInv, Position
  <2>4. op'.step \in {4, 5} => op.step = 4
    BY <1>a, <2>1, <2>2 DEF Position
  <2>5. QED
    BY <2>1, <2>2, <2>3, <2>4 DEF StepsInv
<1>5. CASE BeginStep
  <2>1. op # None /\ op \in Process /\ op.pc = "step" /\ UNCHANGED services
    BY <1>5, <1>a DEF BeginStep, At, product
  <2>2. op'.step = op.step /\ op'.pc = "work"
    BY <1>5, <2>1 DEF BeginStep, Goto, Process
  <2>3. /\ restore'.undone = restore.undone /\ restore'.stale = restore.stale
        /\ restore'.done = restore.done \ {op.step}
    BY <1>5, <1>a DEF BeginStep, Record
  <2>4. 1..(op.step - 1) \subseteq restore'.done
    BY <1>a, <2>1, <2>3 DEF StepsInv, Position
  <2>5. QED
    BY <2>1, <2>2, <2>3, <2>4 DEF StepsInv
<1>6. CASE WipeVolumes \/ BeginHook
  <2>1. /\ op # None /\ op \in Process /\ op.pc = "work" /\ op.step \in {4, 5}
        /\ UNCHANGED <<restore, services>>
    BY <1>6, <1>a DEF WipeVolumes, BeginHook, AtStep, At
  <2>2. op'.step = op.step /\ op'.pc = "write"
    BY <1>6, <2>1 DEF WipeVolumes, BeginHook, Goto, Process
  <2>3. QED
    BY <2>1, <2>2 DEF StepsInv
<1>7. CASE Inspect \/ StopServices \/ ExtractVolumes \/ HookDone \/ Reapply
  <2>1. op # None /\ op \in Process /\ op.pc \in {"work", "write"} /\ StepDone
    BY <1>7, <1>a DEF Inspect, StopServices, ExtractVolumes, HookDone, Reapply, AtStep, At
  <2>2. op'.step = op.step + 1 /\ op'.pc = "step"
    BY <2>1 DEF StepDone, Process
  <2>3. /\ restore'.undone = restore.undone /\ restore'.stale = restore.stale
        /\ restore'.done = restore.done \cup {op.step}
    BY <2>1, <1>a DEF StepDone, Record
  <2>4. 1..(op'.step - 1) \subseteq restore'.done
    BY <1>a, <2>1, <2>2, <2>3 DEF StepsInv, Position
  <2>5. op'.step \in {4, 5} => services' = "down"
    <3>1. CASE StopServices
      BY <3>1 DEF StopServices
    <3>2. CASE ExtractVolumes
      BY <3>2, <2>1 DEF ExtractVolumes, AtStep, StepsInv
    <3>3. CASE Inspect \/ HookDone \/ Reapply
      BY <3>3, <2>2 DEF Inspect, HookDone, Reapply, AtStep
    <3>4. QED
      BY <1>7, <3>1, <3>2, <3>3
  <2>6. QED
    BY <2>1, <2>2, <2>3, <2>4, <2>5 DEF StepsInv
<1>8. CASE BeginBackup \/ BeginUpdate \/ BeginPush
  BY <1>8, <1>1 DEF BeginBackup, BeginUpdate, BeginPush, Begin, BeginOn
<1>9. CASE \/ Create \/ Quiesce \/ CopyVolumes \/ Seal \/ Verify \/ VerifyFails \/ Discard
           \/ PutComponents \/ PutManifest \/ PushFails \/ Unpush \/ PushDone \/ Converge
  <2>1. CASE Create \/ Quiesce \/ CopyVolumes \/ Seal \/ Verify
    BY <2>1, <1>1, <1>a DEF Create, Quiesce, CopyVolumes, Seal, Verify, Goto, At, Process
  <2>2. CASE VerifyFails \/ Discard
    BY <2>2, <1>1, <1>a DEF VerifyFails, Discard, Goto, End, At, Process
  <2>3. CASE PutComponents \/ PutManifest \/ PushFails \/ Unpush
    BY <2>3, <1>1, <1>a DEF PutComponents, PutManifest, PushFails, Unpush, Goto, End, At, Process
  <2>4. CASE PushDone
    <3>1. op # None /\ op.pc = "push" /\ op.kind \in {"push", "backup", "update"}
      BY <2>4 DEF PushDone, At, TypeInv, OpTyped, Process, Kinds
    <3>2. op' # None => op'.pc \in {"prune", "converge"}
      BY <2>4, <3>1, <1>a DEF PushDone, Goto, End, Process
    <3>3. QED
      BY <1>1, <3>2
  <2>5. CASE Converge
    BY <2>5, <1>1, <1>a DEF Converge, Goto, At, Process
  <2>6. QED
    BY <1>9, <2>1, <2>2, <2>3, <2>4, <2>5
<1>10. CASE \/ Prune \/ Remove \/ RemoveDone \/ RemoveFails
            \/ PruneRemote \/ RemoveRemote \/ RemoveRemoteDone \/ RemoveRemoteFails
  <2>1. CASE Prune \/ Remove \/ RemoveDone \/ RemoveFails
    BY <2>1, <1>1, <1>a DEF Prune, Remove, RemoveDone, RemoveFails, At, Process
  <2>2. CASE PruneRemote \/ RemoveRemote \/ RemoveRemoteDone \/ RemoveRemoteFails
    BY <2>2, <1>1, <1>a DEF PruneRemote, RemoveRemote, RemoveRemoteDone, RemoveRemoteFails, NextTarget,
                            End, At, Process
  <2>3. QED
    BY <1>10, <2>1, <2>2
<1>11. CASE StepFails
  BY <1>11, <1>1, <1>a DEF StepFails, Goto, End, Process
<1>12. CASE op' = None
  BY <1>12, <1>1
<1>13. QED
  BY <1>2, <1>3, <1>4, <1>5, <1>6, <1>7, <1>8, <1>9, <1>10, <1>11, <1>12
     DEF Next, TakeBackup, PushBackup, Update, Retention, Restore, Fetch, End, CreateFails, product,
         UnpushFails, ConvergeFails, Ask, GiveUp, Undo, UndoFails, Interrupt, Restored,
         BeginFetch, FetchClears, FetchCopies,
         FetchVerifies, FetchPlaces, FetchDrops, FetchFails, Converges, Stop, Clear, Crash

LEMMA VolumesStep ==
  ASSUME TypeInv, FoundInv, StaleInv, StepsInv, VolumesInv, Next
  PROVE  VolumesInv'
<1>a. /\ op \in Process \cup {None} /\ restore \in Record
      /\ op # None => op.step \in Position
      /\ op # None => (op.kind = "restore" <=> op.pc \in {"step", "work", "write", "undo"})
      /\ op # None /\ op.kind = "restore" => op.id = restore.id
      /\ data \in Contents /\ restore.done \subseteq Index
  BY DEF TypeInv, ProductTyped, RestoreTyped, OpTyped, Process, Record, FoundInv, Contents
<1>b. ASSUME \/ data'.volumes = data.volumes
             \/ restore.stale \/ restore.undone \/ restore.overrun \/ 5 \in restore.done,
             restore'.id = restore.id,
             4 \in restore'.done => 4 \in restore.done,
             5 \in restore.done => 5 \in restore'.done,
             restore.undone => restore'.undone, restore.stale => restore'.stale,
             restore.overrun => restore'.overrun
      PROVE  VolumesInv'
  BY <1>b DEF VolumesInv
<1>c. op # None /\ op.pc \in {"work", "write"} /\ op.step = 6 => 5 \in restore.done
  <2>1. op # None /\ op.step = 6 => 5 \in 1..(op.step - 1)
    OBVIOUS
  <2>2. QED
    BY <2>1 DEF StepsInv
<1>d. op # None /\ op.pc \in {"work", "write"} /\ LeftBy(op.step)
        => data'.volumes = data.volumes \/ 5 \in restore.done
  BY <1>c DEF LeftBy
<1>1. CASE Take
  <2>1. data' = data
    BY <1>1 DEF Take, product
  <2>2. CASE restore' = restore
    BY <2>1, <2>2, <1>b
  <2>3. CASE restore' = [restore EXCEPT !.status = "running", !.begun = 0]
    <3>1. /\ restore'.id = restore.id /\ restore'.done = restore.done
          /\ restore'.undone = restore.undone /\ restore'.stale = restore.stale
          /\ restore'.overrun = restore.overrun
      BY <2>3, <1>a DEF Record
    <3>2. QED
      BY <2>1, <3>1, <1>b
  <2>4. CASE restore' = [NoRestore EXCEPT !.id = asked.id, !.status = "running", !.made = ops]
    BY <2>4 DEF NoRestore, VolumesInv
  <2>5. QED
    BY <1>1, <2>2, <2>3, <2>4 DEF Take
<1>2. CASE BeginStep
  <2>1. op # None /\ data' = data
    BY <1>2 DEF BeginStep, At, product
  <2>2. /\ restore'.id = restore.id /\ restore'.done = restore.done \ {op.step}
        /\ restore'.undone = restore.undone /\ restore'.stale = restore.stale
        /\ restore'.overrun = restore.overrun
    BY <1>2, <1>a DEF BeginStep, Record
  <2>3. 5 \in restore.done => op.step # 5
    BY <1>2 DEF BeginStep, Idempotent
  <2>4. QED
    BY <2>1, <2>2, <2>3, <1>b
<1>3. CASE Inspect \/ StopServices
  <2>1. op.step \in {1, 2, 3, 7} /\ data' = data /\ StepDone
    BY <1>3 DEF Inspect, StopServices, AtStep, product
  <2>2. /\ restore'.id = restore.id /\ restore'.done = restore.done \cup {op.step}
        /\ restore'.undone = restore.undone /\ restore'.stale = restore.stale
    BY <2>1, <1>a DEF StepDone, Record
  <2>3. restore'.overrun = restore.overrun
    <3>1. op.step # 4
      BY <2>1
    <3>2. restore'.overrun = IF op.step = 4 THEN FALSE ELSE restore.overrun
      BY <2>1, <1>a DEF StepDone, Record
    <3>3. QED
      BY <3>1, <3>2
  <2>4. QED
    BY <2>1, <2>2, <2>3, <1>b
<1>4. CASE WipeVolumes
  <2>1. op # None /\ op.step = 4 /\ op.pc = "work" /\ restore' = restore
    BY <1>4 DEF WipeVolumes, AtStep, At
  <2>2. 4 \notin restore.done
    BY <2>1 DEF StepsInv
  <2>3. QED
    BY <2>1, <2>2 DEF VolumesInv
<1>5. CASE ExtractVolumes
  <2>1. op # None /\ op.kind = "restore"
    BY <1>5, <1>a DEF ExtractVolumes, AtStep, At
  <2>2. data'.volumes = restore.id
    BY <1>5, <1>a, <2>1 DEF ExtractVolumes, Contents
  <2>3. restore'.id = restore.id
    BY <1>5, <1>a DEF ExtractVolumes, StepDone, Record
  <2>4. QED
    BY <2>2, <2>3 DEF VolumesInv
<1>6. CASE BeginHook
  <2>1. restore' = restore /\ data'.volumes = data.volumes
    BY <1>6, <1>a DEF BeginHook, Contents
  <2>2. QED
    BY <2>1, <1>b
<1>7. CASE HookDone \/ Reapply
  <2>1. op # None /\ op.pc \in {"work", "write"} /\ op.step \in {5, 6}
        /\ restore'.done = restore.done \cup {op.step}
    BY <1>7, <1>a DEF HookDone, Reapply, StepDone, AtStep, At, Record
  <2>2. 5 \in restore'.done
    BY <2>1, <1>c
  <2>3. QED
    BY <2>2 DEF VolumesInv
<1>8. CASE StepFails
  <2>1. data'.volumes = data.volumes \/ 5 \in restore.done
    BY <1>8, <1>d DEF StepFails
  <2>2. /\ restore'.id = restore.id /\ restore'.done = restore.done
        /\ restore'.undone = restore.undone /\ restore'.stale = restore.stale
        /\ restore'.overrun = restore.overrun
    BY <1>8, <1>a DEF StepFails, Record
  <2>3. QED
    BY <2>1, <2>2, <1>b
<1>9. CASE Undo \/ UndoFails
  <2>1. restore'.undone \/ restore'.overrun
    BY <1>9, <1>a DEF Undo, UndoFails, Record
  <2>2. QED
    BY <2>1 DEF VolumesInv
<1>10. CASE Interrupt
  <2>1. /\ op # None /\ op.pc \in {"step", "work", "write"}
        /\ op.pc = "step" => op.step \notin restore.done \ Idempotent
    BY <1>10 DEF Interrupt
  <2>2. data'.volumes = data.volumes \/ 5 \in restore.done
    BY <1>10, <2>1, <1>d DEF Interrupt
  <2>3. /\ restore'.id = restore.id /\ restore'.done = restore.done \ {op.step}
        /\ restore'.undone = restore.undone /\ restore'.stale = restore.stale
        /\ restore'.overrun = restore.overrun
    BY <1>10, <1>a DEF Interrupt, Record
  <2>4. 5 \in restore.done => op.step # 5
    BY <2>1 DEF StepsInv, Idempotent
  <2>5. QED
    BY <2>2, <2>3, <2>4, <1>b
<1>11. CASE BeginUpdate \/ Converges \/ Stop
  <2>1. restore'.stale
    BY <1>11, <1>a DEF BeginUpdate, Converges, Stop, BuiltOn, Record
  <2>2. QED
    BY <2>1 DEF VolumesInv
<1>12. CASE Converge \/ ConvergeFails
  <2>1. restore.stale /\ restore' = restore
    BY <1>12 DEF Converge, ConvergeFails, At, StaleInv
  <2>2. QED
    BY <2>1, <1>b
<1>13. CASE Restored \/ Clear
  <2>1. /\ restore'.id = restore.id /\ restore'.done = restore.done
        /\ restore'.undone = restore.undone /\ restore'.stale = restore.stale
        /\ restore'.overrun = restore.overrun
    BY <1>13, <1>a DEF Restored, Clear, Record
  <2>2. QED
    BY <1>13, <2>1, <1>b DEF Restored, Clear, product
<1>14. CASE Crash
  <2>1. CASE op.pc = "undo" /\ ~stopped
    <3>1. restore'.overrun
      BY <1>14, <1>a, <2>1 DEF Crash, Record
    <3>2. QED
      BY <3>1 DEF VolumesInv
  <2>2. CASE op.pc = "converge"
    <3>1. restore' = restore /\ restore.stale
      BY <1>14, <2>2 DEF Crash, StaleInv
    <3>2. QED
      BY <3>1, <1>b
  <2>3. CASE op.pc = "work"
    <3>1. restore' = restore /\ (data'.volumes = data.volumes \/ 5 \in restore.done)
      BY <1>14, <2>3, <1>d DEF Crash
    <3>2. QED
      BY <3>1, <1>b
  <2>4. CASE op.pc \notin {"work", "converge"} /\ ~(op.pc = "undo" /\ ~stopped)
    <3>1. restore' = restore /\ data' = data
      BY <1>14, <2>4 DEF Crash, LeftBy
    <3>2. QED
      BY <3>1, <1>b
  <2>5. QED
    BY <2>1, <2>2, <2>3, <2>4
<1>15. CASE UNCHANGED <<data, restore>>
  BY <1>15, <1>b
<1>16. QED
  BY <1>1, <1>2, <1>3, <1>4, <1>5, <1>6, <1>7, <1>8, <1>9, <1>10, <1>11, <1>12, <1>13, <1>14, <1>15
     DEF Next, TakeBackup, PushBackup, Update, Retention, Restore, Fetch, product,
         BeginBackup, Create, Quiesce, CopyVolumes, Seal, CreateFails, Verify, VerifyFails, Discard,
         BeginPush, PutComponents, PutManifest, PushFails, Unpush, UnpushFails, PushDone,
         Prune, Remove, RemoveDone, RemoveFails, PruneRemote, RemoveRemote, RemoveRemoteDone,
         RemoveRemoteFails, Ask, GiveUp, SkipStep, BeginFetch, FetchClears, FetchCopies,
         FetchVerifies, FetchPlaces, FetchDrops, FetchFails

\* The hook is the one step that finishes a restore's data, and it finds the
\* volumes of its own backup, and nothing running on them.
LEMMA HookCompletes ==
  ASSUME TypeInv, FoundInv, StepsInv, VolumesInv, Next,
         5 \in restore'.done, 5 \notin restore.done, ~restore.overrun
  PROVE  /\ data' = [volumes |-> restore'.id, database |-> restore'.id]
         /\ services' = "down"
<1>a. /\ op \in Process \cup {None} /\ restore \in Record
      /\ op # None => (op.kind = "restore" <=> op.pc \in {"step", "work", "write", "undo"})
      /\ op # None /\ op.kind = "restore" => op.id = restore.id
      /\ data \in Contents
  BY DEF TypeInv, ProductTyped, RestoreTyped, OpTyped, FoundInv, Contents
<1>1. CASE HookDone
  <2>1. /\ op # None /\ op.pc = "write" /\ op.step = 5 /\ op.id = restore.id
        /\ UNCHANGED services
    BY <1>1, <1>a DEF HookDone, AtStep, At
  <2>2. services = "down" /\ ~restore.undone /\ ~restore.stale /\ 1..(op.step - 1) \subseteq restore.done
    BY <2>1 DEF StepsInv
  <2>3. 4 \in 1..(op.step - 1)
    BY <2>1
  <2>4. data.volumes = restore.id
    BY <2>2, <2>3 DEF VolumesInv
  <2>5. restore'.id = restore.id
    BY <1>1, <1>a DEF HookDone, StepDone, Record
  <2>6. data' = [data EXCEPT !.database = restore.id]
    BY <1>1, <2>1 DEF HookDone
  <2>7. data' = [volumes |-> restore.id, database |-> restore.id]
    BY <1>a, <2>4, <2>6 DEF Contents
  <2>8. QED
    BY <2>1, <2>2, <2>5, <2>7
<1>2. CASE Inspect \/ StopServices \/ ExtractVolumes \/ Reapply
  <2>1. StepDone /\ op.step \in {1, 2, 3, 4, 6, 7}
    BY <1>2 DEF Inspect, StopServices, ExtractVolumes, Reapply, AtStep
  <2>2. restore'.done = restore.done \cup {op.step}
    BY <2>1, <1>a DEF StepDone, Record
  <2>3. QED
    BY <2>1, <2>2
<1>3. CASE Take
  <2>1. restore'.done \subseteq restore.done
    BY <1>3, <1>a DEF Take, NoRestore, Record
  <2>2. QED
    BY <2>1
<1>4. CASE BeginUpdate \/ Converges \/ Stop \/ Clear \/ Crash
  <2>1. restore'.done = restore.done
    BY <1>4, <1>a DEF BeginUpdate, Converges, Stop, Clear, Crash, BuiltOn, Record
  <2>2. QED
    BY <2>1
<1>5. CASE BeginStep \/ StepFails \/ Undo \/ UndoFails \/ Interrupt \/ Restored
  <2>1. restore'.done \subseteq restore.done
    <3>1. CASE BeginStep \/ Interrupt
      BY <3>1, <1>a DEF BeginStep, Interrupt, Record
    <3>2. CASE StepFails
      BY <3>2, <1>a DEF StepFails, Record
    <3>3. CASE Undo
      BY <3>3, <1>a DEF Undo, Record
    <3>4. CASE UndoFails \/ Restored
      BY <3>4, <1>a DEF UndoFails, Restored, Record
    <3>5. QED
      BY <1>5, <3>1, <3>2, <3>3, <3>4
  <2>2. QED
    BY <2>1
<1>6. CASE UNCHANGED restore
  BY <1>6
<1>7. QED
  BY <1>1, <1>2, <1>3, <1>4, <1>5, <1>6
     DEF Next, TakeBackup, PushBackup, Update, Retention, Restore, Fetch,
         BeginBackup, Create, Quiesce, CopyVolumes, Seal, CreateFails, Verify, VerifyFails, Discard,
         BeginPush, PutComponents, PutManifest, PushFails, Unpush, UnpushFails, PushDone,
         Converge, ConvergeFails,
         Prune, Remove, RemoveDone, RemoveFails, PruneRemote, RemoveRemote, RemoveRemoteDone,
         RemoveRemoteFails, Ask, GiveUp, SkipStep, WipeVolumes, BeginHook,
         BeginFetch, FetchClears, FetchCopies,
         FetchVerifies, FetchPlaces, FetchDrops, FetchFails

\* However many runs a restore takes, its volumes and its database are of one
\* backup when its hook is done (Backup, OneMoment).
THEOREM RestoresOneMoment == Spec => OneMoment
<1> DEFINE Inv == TypeInv /\ TakenInv /\ RunInv /\ FoundInv /\ StaleInv /\ StepsInv /\ VolumesInv
<1>1. Init => Inv
  BY TypeInit, TakenInit, RunInit, FoundInit, MomentInit
<1>2. Inv /\ [Next]_vars => Inv'
  <2>1. Inv /\ UNCHANGED vars => TakenInv' /\ RunInv' /\ FoundInv' /\ StaleInv' /\ StepsInv' /\ VolumesInv'
    BY DEF vars, stores, product, spent, TakenInv, RunInv, FoundInv, StaleInv, StepsInv, VolumesInv
  <2>2. Inv /\ Next => TakenInv' /\ RunInv' /\ FoundInv' /\ StaleInv' /\ StepsInv' /\ VolumesInv'
    BY TakenStep, RunStep, FoundStep, StaleStep, StepsStep, VolumesStep
  <2>3. QED
    BY <2>1, <2>2, TypeStep
<1>3. Inv /\ [Next]_vars
      => [5 \in restore'.done \ restore.done /\ ~restore.overrun
            => /\ data' = [volumes |-> restore'.id, database |-> restore'.id]
               /\ services' = "down"]_vars
  BY HookCompletes
<1>4. QED
  BY <1>1, <1>2, <1>3, PTL DEF Spec, OneMoment
=============================================================================
