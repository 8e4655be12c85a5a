-------------------------- MODULE StepEngineProofs --------------------------
(***************************************************************************)
(* Theorems of StepEngine, for every step list, set of builds and bound.   *)
(***************************************************************************)
EXTENDS StepEngine, TLAPS

USE BoundAssumption, PlanAssumption, NoBuildAssumption

-----------------------------------------------------------------------------
(* Records *)

\* A step of a build's plan is a step: its fields have the types Step gives them.
LEMMA PlanType ==
  ASSUME NEW b \in Builds, NEW i \in Index
  PROVE  Plan[b][i] \in Step
  OBVIOUS

\* The record of an operation never journaled is told apart from every record.
LEMMA NoRecordIsNone == NoRecord \notin Record
  BY DEF NoRecord, Record, OpStatus

\* The record Run begins with is a record.
LEMMA FreshRecordType ==
  ASSUME NEW b \in Builds
  PROVE  FreshRecord(b) \in Record
  BY PlanType DEF FreshRecord, Record, OpStatus, StepRecord, StepStatus, Step

\* So is the one a resume carries the earlier run's credit into.
LEMMA ResumedRecordType ==
  ASSUME NEW b \in Builds, NEW prior \in Record
  PROVE  ResumedRecord(b, prior) \in Record
  BY FreshRecordType DEF ResumedRecord, Record

\* WithStatus changes one step's status and nothing else.
LEMMA WithStatusType ==
  ASSUME NEW r \in Record, NEW i \in Index, NEW s \in StepStatus
  PROVE  /\ WithStatus(r, i, s) \in Record
         /\ WithStatus(r, i, s).status = r.status /\ WithStatus(r, i, s).build = r.build
         /\ WithStatus(r, i, s).steps[i].status = s
         /\ WithStatus(r, i, s).steps[i].idempotent = r.steps[i].idempotent
         /\ \A j \in Index : j # i => WithStatus(r, i, s).steps[j] = r.steps[j]
<1>1. r.steps[i] \in StepRecord
  BY DEF Record
<1>2. [r.steps[i] EXCEPT !.status = s] \in StepRecord
  BY <1>1 DEF StepRecord
<1>3. [r.steps EXCEPT ![i] = [r.steps[i] EXCEPT !.status = s]] \in [Index -> StepRecord]
  BY <1>2 DEF Record
<1>4. WithStatus(r, i, s) =
        [r EXCEPT !.steps = [r.steps EXCEPT ![i] = [r.steps[i] EXCEPT !.status = s]]]
  BY DEF WithStatus
<1>5. /\ WithStatus(r, i, s) \in Record
      /\ WithStatus(r, i, s).status = r.status /\ WithStatus(r, i, s).build = r.build
      /\ WithStatus(r, i, s).steps = [r.steps EXCEPT ![i] = [r.steps[i] EXCEPT !.status = s]]
  BY <1>3, <1>4 DEF Record
<1>6. WithStatus(r, i, s).steps[i] = [r.steps[i] EXCEPT !.status = s]
  BY <1>5 DEF Record
<1>7. QED
  BY <1>1, <1>5, <1>6 DEF Record, StepRecord

\* What Engine.journal leaves in the journal is a record, written or not.
LEMMA JournaledType ==
  ASSUME TypeOK, NEW r \in Record, Journaled(r)
  PROVE  journal' \in Record \cup {NoRecord} /\ lost' \in Nat
  BY DEF Journaled, TypeOK

-----------------------------------------------------------------------------
(* Type correctness *)

\* A process that begins its loop, and one that is gone, is well typed.
LEMMA MemoryType ==
  ASSUME NEW b \in Builds \cup {NoBuild}, NEW pc \in {"idle", "loop"}
  PROVE  Memory(pc, b) \in RunMemory /\ Memory(pc, b).pc = pc
         /\ Memory(pc, b).build = b /\ Memory(pc, b).at = 1
         /\ Memory(pc, b).noReturnIdx = 0 /\ Memory(pc, b).todo = {}
  BY DEF Memory, RunMemory, Index

\* No process is a well-typed memory too.
LEMMA IdleType == Idle \in RunMemory /\ Idle.pc = "idle"
  BY MemoryType DEF Idle

\* A process at a step of its list reads a step.
LEMMA CurrentType ==
  ASSUME TypeOK, run.pc # "idle", run.at \in Index
  PROVE  Current \in Step
  BY PlanType DEF TypeOK, Current

\* A step that completes leaves process, record and journal well typed.
LEMMA StepCompletesType ==
  ASSUME TypeOK, run.pc \notin {"idle", "loop"}, NEW s \in StepStatus, StepCompletes(s)
  PROVE  /\ rec' \in Record
         /\ journal' \in Record \cup {NoRecord} /\ lost' \in Nat
         /\ run' \in RunMemory /\ run'.pc = "loop" /\ run'.build = run.build
<1>1. run \in RunMemory /\ rec \in Record /\ run.at \in Index
  BY DEF TypeOK
<1>2. rec' \in Record
  BY <1>1, WithStatusType DEF StepCompletes
<1>3. journal' \in Record \cup {NoRecord} /\ lost' \in Nat
  BY <1>2, JournaledType DEF StepCompletes
<1>4. run' \in RunMemory /\ run'.pc = "loop" /\ run'.build = run.build
  <2> DEFINE k == IF run.noReturnIdx = 0 /\ run.noReturn THEN run.at ELSE run.noReturnIdx
  <2>1. /\ run.at + 1 \in 1..(N + 1) /\ run.completed \cup {run.at} \in SUBSET Index
        /\ k \in 0..N
    BY <1>1 DEF RunMemory, Index
  <2>2. run' = [run EXCEPT !.pc = "loop", !.at = run.at + 1,
                  !.completed = run.completed \cup {run.at}, !.noReturnIdx = k]
    BY DEF StepCompletes
  <2>3. QED
    BY <1>1, <2>1, <2>2 DEF RunMemory
<1>5. QED
  BY <1>2, <1>3, <1>4

\* So does one that fails, whatever its policy.
LEMMA StepFailsType ==
  ASSUME TypeOK, run.pc \notin {"idle", "loop"}, StepFails
  PROVE  TypeOK'
<1>1. run \in RunMemory /\ rec \in Record /\ run.at \in Index
  BY DEF TypeOK
<1>2. rec' \in Record
  BY <1>1, WithStatusType DEF StepFails, StepStatus
<1>3. journal' \in Record \cup {NoRecord} /\ lost' \in Nat
  BY <1>2, JournaledType DEF StepFails
<1>4. /\ run' \in RunMemory /\ run'.build = run.build
      /\ \/ run'.pc = "loop"
         \/ run'.pc = "settle" /\ run'.at = run.at
  <2>1. run.at + 1 \in 1..(N + 1)
    BY <1>1 DEF Index
  <2>2. CASE run' = [run EXCEPT !.pc = "loop", !.at = @ + 1]
    BY <1>1, <2>1, <2>2 DEF RunMemory
  <2>3. CASE \E f \in {"error", "interrupted"} :
               run' = [run EXCEPT !.pc = "settle", !.failure = f]
    <3>1. PICK f \in {"error", "interrupted"} :
            run' = [run EXCEPT !.pc = "settle", !.failure = f]
      BY <2>3
    <3>2. run' \in RunMemory
      BY <1>1, <3>1 DEF RunMemory
    <3>3. run'.build = run.build /\ run'.pc = "settle" /\ run'.at = run.at
      BY <1>1, <3>1 DEF RunMemory
    <3>4. QED
      BY <3>2, <3>3
  <2>4. QED
    BY <2>2, <2>3 DEF StepFails
<1>5. QED
  BY <1>1, <1>2, <1>3, <1>4 DEF TypeOK, StepFails

\* So does the final record, and the end of the process.
LEMMA EndsType ==
  ASSUME TypeOK, run.pc # "idle", NEW s \in OpStatus, EndsAs(s)
  PROVE  TypeOK'
<1>1. [rec EXCEPT !.status = s] \in Record
  BY DEF TypeOK, Record
<1>2. journal' \in Record \cup {NoRecord} /\ lost' \in Nat
  BY <1>1, JournaledType DEF EndsAs
<1>3. QED
  BY <1>2, IdleType DEF EndsAs, TypeOK

\* Every action of the engine keeps the types.
LEMMA TypeStep == TypeOK /\ [Next]_vars => TypeOK'
<1> SUFFICES ASSUME TypeOK, [Next]_vars PROVE TypeOK'
  OBVIOUS
<1>1. ASSUME NEW b \in Builds, Start(b) PROVE TypeOK'
  BY <1>1, FreshRecordType, JournaledType, MemoryType DEF Start, Begin, TypeOK
<1>2. ASSUME NEW b \in Builds, Resume(b) PROVE TypeOK'
  BY <1>2, ResumedRecordType, JournaledType, MemoryType DEF Resume, Begin, TypeOK
<1>3. CASE SkipCredited
  BY <1>3 DEF SkipCredited, InLoop, TypeOK, RunMemory
<1>4. CASE StopBetweenSteps
  <2>1. run.at \in Index /\ rec \in Record
    BY <1>4 DEF StopBetweenSteps, InLoop, TypeOK, RunMemory, Index
  <2>2. rec' \in Record
    BY <1>4, <2>1, WithStatusType DEF StopBetweenSteps, StepStatus
  <2>3. run' \in RunMemory /\ run'.build = run.build /\ run'.at = run.at
    BY <1>4 DEF StopBetweenSteps, TypeOK, RunMemory
  <2>4. QED
    BY <1>4, <2>1, <2>2, <2>3 DEF StopBetweenSteps, InLoop, TypeOK
<1>5. CASE BeginStep
  <2>1. run.at \in Index /\ rec \in Record
    BY <1>5 DEF BeginStep, InLoop, TypeOK, RunMemory, Index
  <2>2. rec' \in Record
    BY <1>5, <2>1, WithStatusType DEF BeginStep, StepStatus
  <2>3. run' \in RunMemory /\ run'.build = run.build /\ run'.at = run.at
    BY <1>5 DEF BeginStep, TypeOK, RunMemory
  <2>4. QED
    BY <1>5, <2>1, <2>2, <2>3, JournaledType DEF BeginStep, InLoop, TypeOK
<1>6. CASE CheckSatisfied
  BY <1>6, StepCompletesType DEF CheckSatisfied, TypeOK, StepStatus
<1>7. CASE CheckFails
  BY <1>7, StepFailsType DEF CheckFails
<1>8. CASE BeginExecute
  <2>1. run' \in RunMemory /\ run'.build = run.build /\ run'.at = run.at
    BY <1>8 DEF BeginExecute, TypeOK, RunMemory
  <2>2. Current \in Step
    BY <1>8, CurrentType DEF BeginExecute, TypeOK
  <2>3. effect' \in [StepIDs -> Effects] /\ ranSafe' \in [StepIDs -> BOOLEAN]
    BY <1>8, <2>2 DEF BeginExecute, TypeOK, Effects, SafeAgain, Step
  <2>4. QED
    BY <1>8, <2>1, <2>3 DEF BeginExecute, TypeOK
<1>9. CASE ExecuteFails
  BY <1>9, StepFailsType DEF ExecuteFails
<1>10. CASE ExecuteSucceeds
  <2>1. Current \in Step
    BY <1>10, CurrentType DEF ExecuteSucceeds, TypeOK
  <2>2. run' \in RunMemory /\ run'.build = run.build /\ run'.at = run.at
    BY <1>10, <2>1 DEF ExecuteSucceeds, TypeOK, RunMemory, Step
  <2>3. effect' \in [StepIDs -> Effects] /\ passed' \in BOOLEAN
    BY <1>10, <2>1 DEF ExecuteSucceeds, TypeOK, Effects, Step
  <2>4. QED
    BY <1>10, <2>2, <2>3 DEF ExecuteSucceeds, TypeOK
<1>11. CASE VerifyFails
  BY <1>11, StepFailsType DEF VerifyFails
<1>12. CASE VerifySucceeds
  BY <1>12, StepCompletesType DEF VerifySucceeds, TypeOK, StepStatus
<1>13. CASE Succeed
  BY <1>13, EndsType DEF Succeed, OpStatus
<1>14. CASE SettleInterrupted
  BY <1>14, EndsType DEF SettleInterrupted, OpStatus
<1>15. CASE SettleAbort
  BY <1>15, EndsType DEF SettleAbort, OpStatus
<1>16. CASE BeginCompensation
  <2>1. ToCompensate \subseteq Index
    BY <1>16 DEF BeginCompensation, ToCompensate, TypeOK, RunMemory
  <2>2. run' \in RunMemory /\ run'.build = run.build /\ run'.at = run.at
    BY <1>16, <2>1 DEF BeginCompensation, TypeOK, RunMemory
  <2>3. QED
    BY <1>16, <2>2 DEF BeginCompensation, TypeOK
<1>17. CASE CompensateNext
  <2>1. PICK i \in run.todo :
          /\ run' = [run EXCEPT !.todo = @ \ {i}] \/
             run' = [run EXCEPT !.todo = @ \ {i}, !.allUndone = FALSE]
          /\ rec' = rec \/ rec' = WithStatus(rec, i, "compensated")
          /\ \/ effect' = effect
             \/ \E e \in {"none", "torn"} :
                  effect' = [effect EXCEPT ![Plan[run.build][i].id] = e]
    BY <1>17 DEF CompensateNext
  <2>2. i \in Index /\ rec \in Record /\ run.build \in Builds
    BY <1>17, <2>1 DEF CompensateNext, TypeOK, RunMemory
  <2>3. rec' \in Record
    <3>1. WithStatus(rec, i, "compensated") \in Record
      BY <2>2, WithStatusType DEF StepStatus
    <3>2. QED
      BY <2>1, <2>2, <3>1
  <2>4. run' \in RunMemory /\ run'.build = run.build /\ run'.at = run.at
    <3>1. run \in RunMemory /\ run.todo \ {i} \in SUBSET Index
      BY DEF TypeOK, RunMemory
    <3>2. CASE run' = [run EXCEPT !.todo = @ \ {i}]
      BY <3>1, <3>2 DEF RunMemory
    <3>3. CASE run' = [run EXCEPT !.todo = @ \ {i}, !.allUndone = FALSE]
      BY <3>1, <3>3 DEF RunMemory
    <3>4. QED
      BY <2>1, <3>2, <3>3
  <2>5. effect' \in [StepIDs -> Effects]
    BY <2>1, <2>2, PlanType DEF TypeOK, Effects, Step
  <2>6. run.at \in Index
    BY <1>17 DEF CompensateNext, TypeOK
  <2>7. QED
    BY <1>17, <2>2, <2>3, <2>4, <2>5, <2>6 DEF CompensateNext, TypeOK
<1>18. CASE SettleCompensated
  BY <1>18, EndsType DEF SettleCompensated, OpStatus
<1>19. CASE Cancel
  BY <1>19 DEF Cancel, TypeOK, RunMemory
<1>20. CASE Crash
  BY <1>20, IdleType DEF Crash, TypeOK
<1>21. CASE ClearIntervention
  <2>1. journal \in Record
    BY <1>21 DEF ClearIntervention, TypeOK, NoRecord
  <2>2. journal' \in Record
    BY <1>21, <2>1 DEF ClearIntervention, Record, OpStatus
  <2>3. QED
    BY <1>21, <2>2 DEF ClearIntervention, TypeOK
<1>22. CASE UNCHANGED vars
  BY <1>22 DEF vars, TypeOK
<1>23. QED
  BY <1>1, <1>2, <1>3, <1>4, <1>5, <1>6, <1>7, <1>8, <1>9, <1>10, <1>11, <1>12,
     <1>13, <1>14, <1>15, <1>16, <1>17, <1>18, <1>19, <1>20, <1>21, <1>22
  DEF Next, RunStep, Settle

\* Before the first operation the types hold.
LEMMA InitType == Init => TypeOK
<1> SUFFICES ASSUME Init PROVE TypeOK
  OBVIOUS
<1>1. run \in RunMemory /\ run.pc = "idle"
  BY IdleType DEF Init
<1>2. effect \in [StepIDs -> Effects] /\ ranSafe \in [StepIDs -> BOOLEAN]
  BY DEF Init, Effects
<1>3. QED
  BY <1>1, <1>2 DEF Init, TypeOK

\* Every reachable state of the engine is well typed: a live process has a build
\* and a record, and outside its loop it is at a step of the list.
THEOREM TypeCorrect == Spec => []TypeOK
  BY InitType, TypeStep, PTL DEF Spec

-----------------------------------------------------------------------------
(* The inductive invariant *)

\* A live process holds a running record of its own build, and the journal a record
\* it may write over: none yet, or one that may be resumed.
LiveRecord ==
  run.pc # "idle" =>
    /\ rec.status = "running" /\ rec.build = run.build
    /\ journal.status \in {"none", "running", "interrupted", "failed"}

\* The step under way is on the record as running.
AtStep == run.pc \in {"check", "execute", "verify"} => rec.steps[run.at].status = "running"

\* What this process has worked on, or may yet, carries this build's flags.
OwnFlags ==
  run.pc # "idle" =>
    \A i \in Index : ~Finished(rec.steps[i]) \/ i \in run.completed \/ i \in run.todo
      => rec.steps[i].idempotent = Plan[run.build][i].idempotent

\* A step credited for good, where build b works: finished, and not to be repeated.
Kept(r, i, b) ==
  /\ Finished(r.steps[i])
  /\ \/ ~r.steps[i].idempotent
     \/ b \in Builds /\ ~Plan[b][i].idempotent

\* The process holds every credit the journal gives its build.
CreditHeld ==
  run.pc # "idle" /\ journal # NoRecord =>
    \A i \in Index : Kept(journal, i, run.build) => rec.steps[i] = journal.steps[i]

\* Nothing is undone before compensation, and compensation stays past the point.
UndoneOnlyPast ==
  /\ run.pc \notin {"idle", "compensate"} =>
       \A i \in Index : rec.steps[i].status # "compensated"
  /\ run.pc = "compensate" /\ run.noReturnIdx > 0 =>
       \A i \in run.todo : i > run.noReturnIdx

EngineInv == TypeOK /\ LiveRecord /\ AtStep /\ OwnFlags /\ CreditHeld
             /\ UndoneOnlyPast /\ PointHolds

-----------------------------------------------------------------------------
(* The shape of a step: a process begins, ends, works, or there is none *)

Begins == \E b \in Builds :
  /\ run.pc = "idle"
  /\ run' = Memory("loop", b)
  /\ Journaled(rec')
  /\ \/ journal = NoRecord /\ rec' = FreshRecord(b)
     \/ /\ journal \in Record
        /\ journal.status \in {"running", "interrupted", "failed"}
        /\ \A i \in Index : journal.steps[i].status # "compensated"
        /\ rec' = ResumedRecord(b, journal)

Ends == /\ run.pc # "idle"
        /\ run' = Idle
        /\ \/ journal' = journal
           \/ \E s \in OpStatus : journal' = [rec EXCEPT !.status = s]

NoProcess == /\ run.pc = "idle" /\ run' = run /\ rec' = rec
             /\ \/ journal' = journal
                \/ /\ journal \in Record
                   /\ journal.status \in {"running", "requires-manual-intervention"}
                   /\ journal' = [journal EXCEPT !.status = "failed"]

\* The record is as it was, or one step of it has changed: the one under way, or
\* one about to start that is not credited, or one being compensated.
Changes(k, s) == /\ k \in Index /\ s \in StepStatus
                 /\ rec' = WithStatus(rec, k, s)
                 /\ journal' = journal \/ journal' = rec'

AtWork == {"check", "execute", "verify"}

\* Memory only: the loop moves on, Execute begins or returns, compensation begins
\* with what lies past the point, or passes over a step.
WorksInMemory ==
  /\ rec' = rec /\ journal' = journal
  /\ run'.completed = run.completed
  /\ run'.pc \in AtWork => run.pc \in AtWork /\ run'.at = run.at
  /\ run'.todo \subseteq run.todo \cup run.completed
       \cup {i \in {run.at} : rec.steps[i].status = "failed"}
  /\ run.pc = "compensate" => run'.pc = "compensate"
  /\ run'.pc = "compensate" =>
       \/ /\ run.pc = "compensate" /\ run'.noReturnIdx = run.noReturnIdx
          /\ run'.todo \subseteq run.todo
       \/ /\ run.pc = "settle"
          /\ run'.noReturnIdx > 0 => \A i \in run'.todo : i > run'.noReturnIdx

\* The step the loop is at, which no credit covers, is put on record.
WorksOnStep ==
  \E s \in StepStatus \ {"compensated"} :
    /\ Changes(run.at, s)
    /\ ~Credited
    /\ run.pc # "compensate" /\ run'.pc # "compensate"
    /\ run'.pc \in AtWork => run'.at = run.at /\ s = "running"
    /\ run'.completed \subseteq run.completed \cup {run.at}
    /\ run'.todo = run.todo

\* A step that can be undone has been.
WorksBack ==
  \E k \in run.todo :
    /\ Changes(k, "compensated")
    /\ run.pc = "compensate" /\ run'.pc = "compensate"
    /\ Plan[run.build][k].compensates
    /\ run'.completed = run.completed /\ run'.todo \subseteq run.todo
    /\ run'.noReturnIdx = run.noReturnIdx

Works == /\ run.pc # "idle" /\ run'.pc # "idle" /\ run'.build = run.build
         /\ WorksInMemory \/ WorksOnStep \/ WorksBack

\* The engine's actions, by what they do to the process: one begins, ends, works on,
\* or there is none.  The invariants below are proved over these four.
LEMMA StepShape ==
  ASSUME TypeOK, AtStep, [Next]_vars
  PROVE  Begins \/ Ends \/ NoProcess \/ Works
<1>1. ASSUME NEW b \in Builds, Start(b) PROVE Begins
  BY <1>1 DEF Start, Begin, Begins
<1>2. ASSUME NEW b \in Builds, Resume(b) PROVE Begins
  <2>1. journal \in Record
    BY <1>2 DEF Resume, TypeOK
  <2>2. QED
    BY <1>2, <2>1 DEF Resume, Begin, Begins, ResumePoint, FirstIncomplete
<1>3. CASE SkipCredited
  BY <1>3 DEF SkipCredited, InLoop, TypeOK, RunMemory, Works, WorksInMemory, AtWork
<1>4. CASE StopBetweenSteps
  <2>1. run.at \in Index
    BY <1>4 DEF StopBetweenSteps, InLoop, TypeOK, RunMemory, Index
  <2>2. /\ run.pc = "loop" /\ run'.pc = "settle" /\ run'.build = run.build
        /\ run'.completed = run.completed /\ run'.todo = run.todo
    BY <1>4 DEF StopBetweenSteps, InLoop, TypeOK, RunMemory
  <2>3. Changes(run.at, "interrupted")
    BY <1>4, <2>1 DEF StopBetweenSteps, Changes, StepStatus
  <2>4. QED
    BY <1>4, <2>2, <2>3 DEF StopBetweenSteps, Works, WorksOnStep, AtWork, StepStatus
<1>5. CASE BeginStep
  <2>1. run.at \in Index
    BY <1>5 DEF BeginStep, InLoop, TypeOK, RunMemory, Index
  <2>2. /\ run.pc = "loop" /\ run'.pc = "check" /\ run'.build = run.build
        /\ run'.at = run.at
        /\ run'.completed = run.completed /\ run'.todo = run.todo
    BY <1>5 DEF BeginStep, InLoop, TypeOK, RunMemory
  <2>3. Changes(run.at, "running")
    BY <1>5, <2>1 DEF BeginStep, Changes, StepStatus, Journaled
  <2>4. QED
    BY <1>5, <2>2, <2>3 DEF BeginStep, Works, WorksOnStep, AtWork, StepStatus
<1>6. ASSUME NEW s \in StepStatus \ {"compensated"}, StepCompletes(s),
             run.pc \in {"check", "verify"}
      PROVE  Works
  <2>1. run.at \in Index /\ rec.steps[run.at].status = "running"
    BY <1>6 DEF TypeOK, AtStep
  <2>2. /\ run'.pc = "loop" /\ run'.build = run.build
        /\ run'.completed = run.completed \cup {run.at} /\ run'.todo = run.todo
    BY <1>6 DEF StepCompletes, TypeOK, RunMemory
  <2>3. Changes(run.at, s) /\ ~Credited
    BY <1>6, <2>1 DEF StepCompletes, Changes, Journaled, Credited, Finished
  <2>4. QED
    BY <1>6, <2>2, <2>3 DEF Works, WorksOnStep, AtWork
<1>7. ASSUME StepFails, run.pc \in {"check", "execute", "verify"}
      PROVE  Works
  <2>1. run.at \in Index /\ rec.steps[run.at].status = "running"
    BY <1>7 DEF TypeOK, AtStep
  <2>2. /\ run'.pc \in {"loop", "settle"} /\ run'.build = run.build
        /\ run'.completed = run.completed /\ run'.todo = run.todo
    <3>1. CASE run' = [run EXCEPT !.pc = "loop", !.at = @ + 1]
      BY <3>1 DEF TypeOK, RunMemory
    <3>2. CASE \E f \in {"error", "interrupted"} :
                 run' = [run EXCEPT !.pc = "settle", !.failure = f]
      BY <3>2 DEF TypeOK, RunMemory
    <3>3. QED
      BY <1>7, <3>1, <3>2 DEF StepFails
  <2>3. Changes(run.at, "failed") /\ ~Credited
    BY <1>7, <2>1 DEF StepFails, Changes, Journaled, Credited, Finished, StepStatus
  <2>4. QED
    BY <1>7, <2>2, <2>3 DEF Works, WorksOnStep, AtWork, StepStatus
<1>8. CASE CheckSatisfied
  BY <1>6, <1>8 DEF CheckSatisfied, StepStatus
<1>9. CASE VerifySucceeds
  BY <1>6, <1>9 DEF VerifySucceeds, StepStatus
<1>10. CASE CheckFails \/ ExecuteFails \/ VerifyFails
  BY <1>7, <1>10 DEF CheckFails, ExecuteFails, VerifyFails
<1>11. CASE BeginExecute
  BY <1>11 DEF BeginExecute, TypeOK, RunMemory, Works, WorksInMemory, AtWork
<1>12. CASE ExecuteSucceeds
  BY <1>12 DEF ExecuteSucceeds, TypeOK, RunMemory, Works, WorksInMemory, AtWork
<1>13. ASSUME NEW s \in OpStatus, EndsAs(s), run.pc # "idle"
       PROVE  Ends
  BY <1>13 DEF EndsAs, Ends, Journaled
<1>14. CASE Succeed
  BY <1>13, <1>14 DEF Succeed, OpStatus
<1>15. CASE SettleInterrupted
  BY <1>13, <1>15 DEF SettleInterrupted, OpStatus
<1>16. CASE SettleAbort
  BY <1>13, <1>16 DEF SettleAbort, OpStatus
<1>17. CASE SettleCompensated
  BY <1>13, <1>17 DEF SettleCompensated, OpStatus
<1>18. CASE BeginCompensation
  <2>1. /\ ToCompensate \subseteq run.completed \cup {i \in {run.at} : rec.steps[i].status = "failed"}
        /\ run.noReturnIdx > 0 => \A i \in ToCompensate : i > run.noReturnIdx
    BY DEF ToCompensate
  <2>2. /\ run.pc = "settle" /\ run'.pc = "compensate" /\ run'.build = run.build
        /\ run'.noReturnIdx = run.noReturnIdx /\ run'.completed = run.completed /\ run'.todo = ToCompensate
    BY <1>18 DEF BeginCompensation, TypeOK, RunMemory
  <2>3. QED
    <3>1. rec' = rec /\ journal' = journal
      BY <1>18 DEF BeginCompensation
    <3>2. /\ run'.todo \subseteq run.todo \cup run.completed
               \cup {i \in {run.at} : rec.steps[i].status = "failed"}
          /\ run'.noReturnIdx > 0 => \A i \in run'.todo : i > run'.noReturnIdx
      BY <2>1, <2>2
    <3>3. WorksInMemory
      BY <2>2, <3>1, <3>2 DEF WorksInMemory, AtWork
    <3>4. QED
      BY <2>2, <3>3 DEF Works
<1>19. CASE CompensateNext
  <2>1. PICK i \in run.todo :
          /\ \/ run' = [run EXCEPT !.todo = @ \ {i}]
             \/ run' = [run EXCEPT !.todo = @ \ {i}, !.allUndone = FALSE]
          /\ \/ rec' = rec
             \/ rec' = WithStatus(rec, i, "compensated") /\ Undoable(i)
    BY <1>19 DEF CompensateNext
  <2>2. /\ run.pc = "compensate" /\ run'.pc = "compensate" /\ run'.build = run.build
        /\ run'.completed = run.completed /\ run'.todo \subseteq run.todo
        /\ run'.noReturnIdx = run.noReturnIdx
    <3>1. CASE run' = [run EXCEPT !.todo = @ \ {i}]
      BY <1>19, <3>1 DEF CompensateNext, TypeOK, RunMemory
    <3>2. CASE run' = [run EXCEPT !.todo = @ \ {i}, !.allUndone = FALSE]
      BY <1>19, <3>2 DEF CompensateNext, TypeOK, RunMemory
    <3>3. QED
      BY <2>1, <3>1, <3>2
  <2>3. journal' = journal /\ i \in Index
    BY <1>19, <2>1 DEF CompensateNext, TypeOK, RunMemory
  <2>4. CASE rec' = rec
    BY <2>2, <2>3, <2>4 DEF Works, WorksInMemory, AtWork
  <2>5. CASE rec' = WithStatus(rec, i, "compensated") /\ Undoable(i)
    BY <2>2, <2>3, <2>5 DEF Works, WorksBack, Changes, StepStatus, Undoable
  <2>6. QED
    BY <2>1, <2>4, <2>5
<1>20. CASE Cancel
  BY <1>20 DEF Cancel, TypeOK, RunMemory, Works, WorksInMemory, AtWork
<1>21. CASE Crash
  BY <1>21 DEF Crash, Ends
<1>22. CASE ClearIntervention
  <2>1. journal \in Record
    BY <1>22 DEF ClearIntervention, TypeOK, NoRecord
  <2>2. QED
    BY <1>22, <2>1 DEF ClearIntervention, NoProcess
<1>23. CASE UNCHANGED vars
  <2>1. CASE run.pc = "idle"
    BY <1>23, <2>1 DEF vars, NoProcess
  <2>2. CASE run.pc # "idle"
    BY <1>23, <2>2 DEF vars, Works, WorksInMemory, AtWork
  <2>3. QED
    BY <2>1, <2>2
<1>24. QED
  BY <1>1, <1>2, <1>3, <1>4, <1>5, <1>8, <1>9, <1>10, <1>11, <1>12, <1>14, <1>15,
     <1>16, <1>17, <1>18, <1>19, <1>20, <1>21, <1>22, <1>23
  DEF Next, RunStep, Settle

-----------------------------------------------------------------------------
(* The invariant is inductive *)

\* A change of one step's status leaves every other step's record as it was.
LEMMA ChangesOne ==
  ASSUME rec \in Record, NEW k, NEW s, Changes(k, s)
  PROVE  /\ rec' \in Record /\ rec'.status = rec.status /\ rec'.build = rec.build
         /\ rec'.steps[k].status = s
         /\ rec'.steps[k].idempotent = rec.steps[k].idempotent
         /\ \A j \in Index : j # k => rec'.steps[j] = rec.steps[j]
<1>1. k \in Index /\ s \in StepStatus /\ rec' = WithStatus(rec, k, s)
  BY DEF Changes
<1>2. QED
  BY <1>1, WithStatusType

\* A credit the journal gives for good survives the step: the loop does not touch
\* a credited step, and compensation only one that may be repeated.
LEMMA KeptStays ==
  ASSUME EngineInv, Works, NEW i \in Index, journal # NoRecord,
         Kept(journal, i, run.build)
  PROVE  rec'.steps[i] = journal.steps[i]
<1> USE DEF EngineInv
<1>1. /\ rec \in Record /\ run \in RunMemory /\ run.build \in Builds
      /\ rec.steps[i] = journal.steps[i] /\ Kept(rec, i, run.build)
  BY DEF Works, TypeOK, CreditHeld, Kept, Finished
<1>2. CASE WorksInMemory
  BY <1>1, <1>2 DEF WorksInMemory
<1>3. CASE WorksOnStep
  <2>1. PICK s \in StepStatus : Changes(run.at, s) /\ ~Credited
    BY <1>3 DEF WorksOnStep
  <2>2. i # run.at
    BY <1>1, <2>1 DEF Credited, Repeatable, Current, Kept
  <2>3. QED
    BY <1>1, <2>1, <2>2, ChangesOne
<1>4. CASE WorksBack
  <2>1. PICK k \in run.todo :
          Changes(k, "compensated") /\ Plan[run.build][k].compensates
    BY <1>4 DEF WorksBack
  <2>2. k \in Index /\ rec.steps[k].idempotent /\ Plan[run.build][k].idempotent
    BY <1>1, <2>1, CompensableAssumption DEF Changes, OwnFlags, Works
  <2>3. i # k
    BY <1>1, <2>2 DEF Kept
  <2>4. QED
    BY <1>1, <2>1, <2>3, ChangesOne
<1>5. QED
  BY <1>2, <1>3, <1>4 DEF Works

\* LiveRecord is kept: only the final record changes an operation's status.
LEMMA LiveRecordStep == EngineInv /\ [Next]_vars => LiveRecord'
<1> SUFFICES ASSUME EngineInv, [Next]_vars, run'.pc # "idle" PROVE
      /\ rec'.status = "running" /\ rec'.build = run'.build
      /\ journal'.status \in {"none", "running", "interrupted", "failed"}
  BY DEF LiveRecord
<1>1. TypeOK /\ LiveRecord /\ AtStep
  BY DEF EngineInv
<1>2. CASE Begins
  <2>1. PICK b \in Builds : /\ Journaled(rec') /\ run' = Memory("loop", b)
                            /\ \/ journal = NoRecord /\ rec' = FreshRecord(b)
                               \/ /\ journal.status \in {"running", "interrupted", "failed"}
                                  /\ rec' = ResumedRecord(b, journal)
    BY <1>2 DEF Begins
  <2>2. rec'.status = "running" /\ rec'.build = run'.build
    <3>1. FreshRecord(b).status = "running" /\ FreshRecord(b).build = b /\ FreshRecord(b) \in Record
      BY FreshRecordType DEF FreshRecord
    <3>2. /\ ResumedRecord(b, journal).status = FreshRecord(b).status
          /\ ResumedRecord(b, journal).build = FreshRecord(b).build
      BY <3>1 DEF ResumedRecord, Record
    <3>3. QED
      BY <2>1, <3>1, <3>2, MemoryType
  <2>3. QED
    BY <2>1, <2>2 DEF Journaled, NoRecord
<1>3. CASE Ends
  BY <1>3, IdleType DEF Ends
<1>4. CASE NoProcess
  BY <1>4 DEF NoProcess
<1>5. CASE Works
  <2>1. rec \in Record /\ rec.status = "running" /\ rec.build = run'.build
    BY <1>1, <1>5 DEF Works, TypeOK, LiveRecord
  <2>2. CASE WorksInMemory
    BY <1>1, <1>5, <2>1, <2>2 DEF Works, WorksInMemory, LiveRecord
  <2>3. ASSUME NEW k, NEW s, Changes(k, s)
        PROVE  /\ rec'.status = "running" /\ rec'.build = run'.build
               /\ journal' = journal \/ journal' = rec'
    BY <2>1, <2>3, ChangesOne DEF Changes
  <2>4. QED
    BY <1>1, <1>5, <2>2, <2>3 DEF Works, WorksOnStep, WorksBack, LiveRecord
<1>6. QED
  BY <1>1, <1>2, <1>3, <1>4, <1>5, StepShape

\* AtStep is kept: a step is recorded running from its start to its end.
LEMMA AtStepStep == EngineInv /\ [Next]_vars => AtStep'
<1> SUFFICES ASSUME EngineInv, [Next]_vars, run'.pc \in AtWork
             PROVE  rec'.steps[run'.at].status = "running"
  BY DEF AtStep, AtWork
<1>1. TypeOK /\ AtStep
  BY DEF EngineInv
<1>2. CASE Begins
  BY <1>2, MemoryType DEF Begins, AtWork
<1>3. CASE Ends
  BY <1>3, IdleType DEF Ends, AtWork
<1>4. CASE NoProcess
  BY <1>4 DEF NoProcess, AtWork
<1>5. CASE Works
  <2>1. CASE WorksInMemory
    BY <1>1, <2>1 DEF WorksInMemory, AtStep, AtWork
  <2>2. CASE WorksOnStep
    <3>1. /\ Changes(run.at, "running") /\ run'.at = run.at
      BY <2>2 DEF WorksOnStep
    <3>2. rec \in Record /\ run.at \in Index
      BY <1>1, <1>5, <3>1 DEF Works, TypeOK, Changes
    <3>3. QED
      BY <3>1, <3>2, ChangesOne
  <2>3. CASE WorksBack
    BY <2>3 DEF WorksBack, AtWork
  <2>4. QED
    BY <1>5, <2>1, <2>2, <2>3 DEF Works
<1>6. QED
  BY <1>1, <1>2, <1>3, <1>4, <1>5, StepShape

\* What a beginning process holds: the journal's credits, and its own flags for
\* every other step, which is pending.
LEMMA BeginsWith ==
  ASSUME TypeOK, NEW b \in Builds,
         \/ journal = NoRecord /\ rec' = FreshRecord(b)
         \/ /\ journal \in Record
            /\ \A i \in Index : journal.steps[i].status # "compensated"
            /\ rec' = ResumedRecord(b, journal),
         NEW i \in Index
  PROVE  /\ rec'.steps[i].status # "compensated"
         /\ ~Finished(rec'.steps[i]) =>
              rec'.steps[i].idempotent = Plan[b][i].idempotent
         /\ journal \in Record /\ Finished(journal.steps[i]) =>
              rec'.steps[i] = journal.steps[i]
<1>1. /\ FreshRecord(b).steps[i].status = "pending"
      /\ FreshRecord(b).steps[i].idempotent = Plan[b][i].idempotent
  BY DEF FreshRecord
<1>2. CASE rec' = FreshRecord(b) /\ journal = NoRecord
  BY <1>1, <1>2, NoRecordIsNone
<1>3. CASE /\ journal \in Record /\ rec' = ResumedRecord(b, journal)
           /\ journal.steps[i].status # "compensated"
  <2>1. rec'.steps[i] = IF Finished(journal.steps[i]) THEN journal.steps[i]
                                                     ELSE FreshRecord(b).steps[i]
    BY <1>3, FreshRecordType DEF ResumedRecord, Record
  <2>2. QED
    BY <1>1, <1>3, <2>1
<1>4. QED
  BY <1>2, <1>3

\* CreditHeld is kept: a process starts from the journal's credit and keeps it.
LEMMA CreditHeldStep == EngineInv /\ [Next]_vars => CreditHeld'
<1> SUFFICES ASSUME EngineInv, [Next]_vars, run'.pc # "idle", journal' # NoRecord,
                    NEW i \in Index, Kept(journal', i, run'.build)
             PROVE  rec'.steps[i] = journal'.steps[i]
  BY DEF CreditHeld, Kept
<1>1. TypeOK /\ AtStep /\ CreditHeld
  BY DEF EngineInv
<1>2. CASE Begins
  <2>1. PICK b \in Builds :
          /\ Journaled(rec')
          /\ \/ journal = NoRecord /\ rec' = FreshRecord(b)
             \/ /\ journal \in Record
                /\ \A j \in Index : journal.steps[j].status # "compensated"
                /\ rec' = ResumedRecord(b, journal)
    BY <1>2 DEF Begins
  <2>2. CASE journal' = rec'
    BY <2>2
  <2>3. CASE journal' = journal
    BY <1>1, <2>1, <2>3, BeginsWith DEF Kept
  <2>4. QED
    BY <2>1, <2>2, <2>3 DEF Journaled
<1>3. CASE Ends
  BY <1>3, IdleType DEF Ends
<1>4. CASE NoProcess
  BY <1>4 DEF NoProcess
<1>5. CASE Works
  <2>1. journal' = journal \/ journal' = rec'
    BY <1>5 DEF Works, WorksInMemory, WorksOnStep, WorksBack, Changes
  <2>2. CASE journal' = journal
    BY <1>5, <2>2, KeptStays DEF Works
  <2>3. QED
    BY <2>1, <2>2
<1>6. QED
  BY <1>1, <1>2, <1>3, <1>4, <1>5, StepShape

\* OwnFlags is kept: a repeated step carries the flags it started with.
LEMMA OwnFlagsStep == EngineInv /\ [Next]_vars => OwnFlags'
<1> SUFFICES ASSUME EngineInv, [Next]_vars, run'.pc # "idle", NEW i \in Index,
                    ~Finished(rec'.steps[i]) \/ i \in run'.completed \/ i \in run'.todo
             PROVE  rec'.steps[i].idempotent = Plan[run'.build][i].idempotent
  BY DEF OwnFlags, Finished
<1>1. TypeOK /\ AtStep /\ OwnFlags
  BY DEF EngineInv
<1>2. CASE Begins
  <2>1. PICK b \in Builds :
          /\ run' = Memory("loop", b)
          /\ \/ journal = NoRecord /\ rec' = FreshRecord(b)
             \/ /\ journal \in Record
                /\ \A j \in Index : journal.steps[j].status # "compensated"
                /\ rec' = ResumedRecord(b, journal)
    BY <1>2 DEF Begins
  <2>2. run'.completed = {} /\ run'.todo = {} /\ run'.build = b
    BY <2>1 DEF Memory
  <2>3. QED
    BY <1>1, <2>1, <2>2, BeginsWith
<1>3. CASE Ends
  BY <1>3, IdleType DEF Ends
<1>4. CASE NoProcess
  BY <1>4 DEF NoProcess
<1>5. CASE Works
  <2>1. rec \in Record /\ run.pc # "idle" /\ run'.build = run.build
    BY <1>1, <1>5 DEF Works, TypeOK
  <2>2. CASE WorksInMemory
    BY <1>1, <2>1, <2>2 DEF WorksInMemory, OwnFlags, Finished
  <2>3. CASE WorksOnStep
    <3>1. PICK s \in StepStatus :
            /\ Changes(run.at, s) /\ ~Credited
            /\ run'.completed \subseteq run.completed \cup {run.at}
            /\ run'.todo = run.todo
      BY <2>3 DEF WorksOnStep
    <3>2. CASE i = run.at
      <4>1. rec.steps[i].idempotent = Plan[run.build][i].idempotent
        <5>1. CASE ~Finished(rec.steps[i])
          BY <1>1, <2>1, <5>1 DEF OwnFlags
        <5>2. CASE Repeatable
          <6>1. rec.steps[i] \in StepRecord /\ Plan[run.build][i] \in Step
            BY <1>1, <2>1, PlanType DEF Record, TypeOK
          <6>2. QED
            BY <3>2, <5>2, <6>1 DEF Repeatable, Current, StepRecord, Step
        <5>3. QED
          BY <3>1, <3>2, <5>1, <5>2 DEF Credited
      <4>2. QED
        BY <2>1, <3>1, <3>2, <4>1, ChangesOne
    <3>3. CASE i # run.at
      <4>1. rec'.steps[i] = rec.steps[i]
        BY <2>1, <3>1, <3>3, ChangesOne
      <4>2. QED
        BY <1>1, <2>1, <3>1, <3>3, <4>1 DEF OwnFlags
    <3>4. QED
      BY <3>2, <3>3
  <2>4. CASE WorksBack
    <3>1. PICK k \in run.todo : Changes(k, "compensated")
      BY <2>4 DEF WorksBack
    <3>2. run'.completed = run.completed /\ run'.todo \subseteq run.todo
      BY <2>4 DEF WorksBack
    <3>3. CASE i = k
      BY <1>1, <2>1, <3>1, <3>3, ChangesOne DEF OwnFlags
    <3>4. CASE i # k
      <4>1. rec'.steps[i] = rec.steps[i]
        BY <2>1, <3>1, <3>4, ChangesOne
      <4>2. QED
        BY <1>1, <2>1, <3>2, <4>1 DEF OwnFlags
    <3>5. QED
      BY <3>3, <3>4
  <2>5. QED
    BY <1>5, <2>2, <2>3, <2>4 DEF Works
<1>6. QED
  BY <1>1, <1>2, <1>3, <1>4, <1>5, StepShape

\* UndoneOnlyPast is kept: what is chosen to be undone lies past the point.
LEMMA UndoneOnlyPastStep == EngineInv /\ [Next]_vars => UndoneOnlyPast'
<1> SUFFICES ASSUME EngineInv, [Next]_vars PROVE UndoneOnlyPast'
  OBVIOUS
<1>1. TypeOK /\ AtStep /\ UndoneOnlyPast
  BY DEF EngineInv
<1>2. CASE Begins
  <2>1. PICK b \in Builds :
          /\ run' = Memory("loop", b)
          /\ \/ journal = NoRecord /\ rec' = FreshRecord(b)
             \/ /\ journal \in Record
                /\ \A j \in Index : journal.steps[j].status # "compensated"
                /\ rec' = ResumedRecord(b, journal)
    BY <1>2 DEF Begins
  <2>2. \A i \in Index : rec'.steps[i].status # "compensated"
    BY <1>1, <2>1, BeginsWith
  <2>3. run'.pc = "loop"
    BY <2>1 DEF Memory
  <2>4. QED
    BY <2>2, <2>3 DEF UndoneOnlyPast
<1>3. CASE Ends
  BY <1>3, IdleType DEF Ends, UndoneOnlyPast
<1>4. CASE NoProcess
  BY <1>4 DEF NoProcess, UndoneOnlyPast
<1>5. CASE Works
  <2>1. rec \in Record /\ run.pc # "idle"
    BY <1>1, <1>5 DEF Works, TypeOK
  <2>2. CASE WorksInMemory
    BY <1>1, <2>1, <2>2 DEF WorksInMemory, UndoneOnlyPast
  <2>3. CASE WorksOnStep
    <3>1. PICK s \in StepStatus \ {"compensated"} : Changes(run.at, s)
      BY <2>3 DEF WorksOnStep
    <3>2. run.pc # "compensate" /\ run'.pc # "compensate"
      BY <2>3 DEF WorksOnStep
    <3>3. \A i \in Index : rec'.steps[i].status # "compensated"
      BY <1>1, <2>1, <3>1, <3>2, ChangesOne DEF UndoneOnlyPast
    <3>4. QED
      BY <3>2, <3>3 DEF UndoneOnlyPast
  <2>4. CASE WorksBack
    BY <1>1, <2>4 DEF WorksBack, UndoneOnlyPast
  <2>5. QED
    BY <1>5, <2>2, <2>3, <2>4 DEF Works
<1>6. QED
  BY <1>1, <1>2, <1>3, <1>4, <1>5, StepShape

\* PointHolds is kept, by UndoneOnlyPast: the next step undone lies past the point.
LEMMA PointHoldsStep == EngineInv /\ [Next]_vars => PointHolds'
<1> SUFFICES ASSUME EngineInv, [Next]_vars, run'.pc # "idle", run'.noReturnIdx > 0,
                    NEW i \in 1..run'.noReturnIdx
             PROVE  rec'.steps[i].status # "compensated"
  BY DEF PointHolds
<1>1. TypeOK /\ AtStep /\ UndoneOnlyPast /\ PointHolds
  BY DEF EngineInv
<1>2. TypeOK' /\ UndoneOnlyPast'
  BY TypeStep, UndoneOnlyPastStep DEF EngineInv
<1>3. i \in Index
  BY <1>2 DEF TypeOK, RunMemory, Index
<1>4. CASE run'.pc # "compensate"
  BY <1>2, <1>3, <1>4 DEF UndoneOnlyPast
<1>5. CASE run'.pc = "compensate"
  <2>1. Works
    <3>1. CASE Begins
      BY <1>5, <3>1, MemoryType DEF Begins
    <3>2. CASE Ends
      BY <3>2, IdleType DEF Ends
    <3>3. CASE NoProcess
      BY <3>3 DEF NoProcess
    <3>4. QED
      BY <1>1, <3>1, <3>2, <3>3, StepShape
  <2>2. rec \in Record /\ run.pc # "idle"
    BY <1>1, <2>1 DEF Works, TypeOK
  <2>3. CASE WorksInMemory
    BY <1>1, <1>3, <1>5, <2>2, <2>3 DEF WorksInMemory, UndoneOnlyPast, PointHolds
  <2>4. CASE WorksOnStep
    BY <1>5, <2>4 DEF WorksOnStep
  <2>5. CASE WorksBack
    <3>1. PICK k \in run.todo : /\ Changes(k, "compensated") /\ run.pc = "compensate"
                                /\ run'.noReturnIdx = run.noReturnIdx
      BY <2>5 DEF WorksBack
    <3>2. run.noReturnIdx \in 0..N /\ k \in Index /\ k > run.noReturnIdx
      BY <1>1, <3>1 DEF UndoneOnlyPast, TypeOK, RunMemory
    <3>3. i # k
      BY <3>1, <3>2 DEF Index
    <3>4. rec'.steps[i] = rec.steps[i]
      BY <1>3, <2>2, <3>1, <3>3, ChangesOne
    <3>5. QED
      BY <1>1, <2>2, <3>1, <3>4 DEF PointHolds
  <2>6. QED
    BY <2>1, <2>3, <2>4, <2>5 DEF Works
<1>6. QED
  BY <1>4, <1>5

-----------------------------------------------------------------------------
(* Theorems *)

\* Every step of the engine keeps every part of the invariant.
LEMMA EngineStep == EngineInv /\ [Next]_vars => EngineInv'
  BY TypeStep, LiveRecordStep, AtStepStep, OwnFlagsStep, CreditHeldStep,
     UndoneOnlyPastStep, PointHoldsStep DEF EngineInv

\* The strengthening the theorems below rest on holds always: a live process
\* holds a running record, every credit the journal gives and its own build's
\* flags, and undoes only what lies past the point of no return (Run, compensate).
THEOREM EngineInvHolds == Spec => []EngineInv
<1>1. Init => EngineInv
  <2> SUFFICES ASSUME Init PROVE EngineInv
    OBVIOUS
  <2>1. run.pc = "idle" /\ journal = NoRecord
    BY IdleType DEF Init
  <2>2. TypeOK
    BY InitType
  <2>3. QED
    BY <2>1, <2>2 DEF EngineInv, LiveRecord, AtStep, OwnFlags, CreditHeld,
       UndoneOnlyPast, PointHolds
<1>2. QED
  BY <1>1, EngineStep, PTL DEF Spec

\* Compensation never reaches the point of no return the process has passed, for
\* any number of steps, any mix of policies, any interleaving of failures,
\* cancellation and lost journal writes (handleFailure).
THEOREM PointAlwaysHolds == Spec => []PointHolds
<1>1. EngineInv => PointHolds
  BY DEF EngineInv
<1>2. QED
  BY <1>1, EngineInvHolds, PTL

\* No process, however it goes on, ends or crashes, touches the record of an
\* operation that needs a person; only the acknowledgement does.
THEOREM InterventionAlwaysSticks == Spec => InterventionSticks
<1>1. EngineInv /\ [Next]_vars =>
        [journal.status = "requires-manual-intervention" =>
           \/ journal' = journal
           \/ run.pc = "idle" /\ journal' = [journal EXCEPT !.status = "failed"]]_vars
  <2> SUFFICES ASSUME EngineInv, [Next]_vars,
                      journal.status = "requires-manual-intervention"
               PROVE  \/ journal' = journal
                      \/ run.pc = "idle" /\ journal' = [journal EXCEPT !.status = "failed"]
    OBVIOUS
  <2>1. TypeOK /\ AtStep /\ run.pc = "idle"
    BY DEF EngineInv, LiveRecord
  <2>2. CASE Begins
    BY <2>2 DEF Begins, NoRecord
  <2>3. CASE NoProcess
    BY <2>1, <2>3 DEF NoProcess
  <2>4. QED
    BY <2>1, <2>2, <2>3, StepShape DEF Ends, Works
<1>2. QED
  BY <1>1, EngineInvHolds, PTL DEF Spec, InterventionSticks

\* Every step keeps what the journal credits for good, exactly as it is written:
\* where the build that works, or the one that begins to, would not repeat it.
LEMMA CreditStep ==
  ASSUME EngineInv, [Next]_vars, journal # NoRecord, journal' # NoRecord,
         NEW i \in Index, NEW b \in {run.build, run'.build}, Kept(journal, i, b)
  PROVE  journal'.steps[i] = journal.steps[i]
<1>1. TypeOK /\ AtStep /\ CreditHeld /\ journal \in Record
  BY DEF EngineInv, TypeOK
<1>2. CASE Begins
  <2>1. PICK c \in Builds :
          /\ Journaled(rec')
          /\ \A j \in Index : journal.steps[j].status # "compensated"
          /\ rec' = ResumedRecord(c, journal)
    BY <1>2 DEF Begins
  <2>2. rec'.steps[i] = journal.steps[i]
    BY <1>1, <2>1, BeginsWith DEF Kept
  <2>3. QED
    BY <2>1, <2>2 DEF Journaled
<1>3. CASE Ends
  <2>1. Kept(journal, i, run.build)
    BY <1>3, IdleType, NoBuildAssumption DEF Ends, Idle, Memory, Kept
  <2>2. rec \in Record /\ rec.steps[i] = journal.steps[i]
    BY <1>1, <1>3, <2>1 DEF Ends, TypeOK, CreditHeld
  <2>3. QED
    BY <1>3, <2>2 DEF Ends, Record
<1>4. CASE NoProcess
  BY <1>1, <1>4 DEF NoProcess, Record
<1>5. CASE Works
  BY <1>5, KeptStays DEF Works, WorksInMemory, WorksOnStep, WorksBack, Changes
<1>6. QED
  BY <1>1, <1>2, <1>3, <1>4, <1>5, StepShape

\* A step the journal credits, and that its record or the build at work calls
\* unsafe to repeat, is never executed again and never loses its credit, however
\* often the operation is resumed, by whatever builds, and whatever the journal
\* failed to write in between (Run, resumePoint).
THEOREM CreditAlwaysKept == Spec => CreditIsKept
<1>1. EngineInv /\ [Next]_vars =>
        [\A i \in Index, b \in {run.build, run'.build} :
           /\ journal # NoRecord /\ journal' # NoRecord
           /\ Finished(journal.steps[i]) /\ UnsafeToRepeat(i, b)
           => journal'.steps[i] = journal.steps[i] /\ ~Executes(i)]_vars
  <2> SUFFICES ASSUME EngineInv, [Next]_vars, NEW i \in Index,
                      NEW b \in {run.build, run'.build},
                      journal # NoRecord, journal' # NoRecord, Kept(journal, i, b)
               PROVE  journal'.steps[i] = journal.steps[i] /\ ~Executes(i)
    BY DEF Kept, UnsafeToRepeat
  <2>1. ~Executes(i)
    <3> SUFFICES ASSUME run.pc = "check", run'.pc = "execute", run.at = i PROVE FALSE
      BY DEF Executes
    <3>0. TypeOK /\ AtStep
      BY DEF EngineInv
    <3>1. run'.build = run.build
      BY <3>0, StepShape, IdleType DEF Begins, Ends, NoProcess, Works
    <3>2. rec.steps[i].status = "running" /\ rec.steps[i] = journal.steps[i]
      BY <3>1 DEF EngineInv, AtStep, CreditHeld
    <3>3. QED
      BY <3>2 DEF Kept, Finished
  <2>2. QED
    BY <2>1, CreditStep
<1>2. QED
  BY <1>1, EngineInvHolds, PTL DEF Spec, CreditIsKept

\* The engine implements the lifecycle the journal promises of an operation: each
\* step of it writes a record the lifecycle allows next, or none.
THEOREM EngineImplementsLifecycle == Spec => ImplementsLifecycle
<1> DEFINE credit(j) == IF j = NoRecord THEN {}
                        ELSE {j.steps[i].id : i \in {k \in Index :
                                Finished(j.steps[k]) /\ ~j.steps[k].idempotent}}
<1>1. Init => Lifecycle!LifecycleInit
  BY DEF Init, Lifecycle!LifecycleInit, NoRecord
<1>2. EngineInv /\ [Next]_vars => [Lifecycle!LifecycleNext]_(Lifecycle!lifecycleVars)
  <2> SUFFICES ASSUME EngineInv, [Next]_vars
               PROVE  [Lifecycle!LifecycleNext]_(Lifecycle!lifecycleVars)
    OBVIOUS
  <2>1. TypeOK /\ AtStep
    BY DEF EngineInv
  <2>2. CASE journal' = journal
    BY <2>2 DEF Lifecycle!lifecycleVars
  <2>3. CASE journal = NoRecord /\ journal' # NoRecord
    <3>1. journal' \in Record
      BY <2>1, <2>3, TypeStep DEF TypeOK
    <3>2. journal'.status \in OpStatus /\ credit(journal') \subseteq StepIDs
      BY <3>1 DEF Record, StepRecord
    <3>3. QED
      BY <2>3, <3>1, <3>2 DEF Lifecycle!LifecycleNext, Lifecycle!Begin, Lifecycle!OpStatus,
         OpStatus, NoRecord
  <2>4. CASE journal # NoRecord /\ journal' # journal
    <3>1. journal \in Record
      BY <2>1, <2>4 DEF TypeOK
    <3>2. CASE NoProcess
      <4>1. journal' = [journal EXCEPT !.status = "failed"]
            /\ journal.status \in {"running", "requires-manual-intervention"}
        BY <2>4, <3>2 DEF NoProcess
      <4>2. journal'.status = "failed" /\ journal'.steps = journal.steps
            /\ journal' \in Record
        BY <3>1, <4>1 DEF Record, OpStatus
      <4>3. credit(journal') = credit(journal)
        BY <3>1, <4>2, NoRecordIsNone
      <4>4. QED
        BY <4>1, <4>2, <4>3 DEF Lifecycle!LifecycleNext, Lifecycle!Acknowledge
    <3>3. CASE ~NoProcess
      <4>1. journal.status \in {"running", "interrupted", "failed"}
        BY <2>1, <2>4, <3>1, <3>3, StepShape
        DEF EngineInv, LiveRecord, Begins, Ends, Works, Record, OpStatus
      <4>2. journal' \in Record
        <5>1. TypeOK'
          BY <2>1, TypeStep
        <5>2. CASE Begins
          BY <2>4, <5>1, <5>2, MemoryType DEF Begins, Journaled, TypeOK
        <5>3. CASE Ends
          BY <2>1, <2>4, <5>3 DEF Ends, TypeOK, Record
        <5>4. CASE Works
          BY <2>4, <5>1, <5>4
          DEF Works, WorksInMemory, WorksOnStep, WorksBack, Changes, TypeOK
        <5>5. QED
          BY <2>1, <3>3, <5>2, <5>3, <5>4, StepShape
      <4>3. ASSUME NEW k \in Index, Kept(journal, k, run.build)
            PROVE  journal'.steps[k] = journal.steps[k]
        BY <2>4, <4>2, <4>3, CreditStep, NoRecordIsNone
      <4>4. credit(journal) \subseteq credit(journal')
        BY <3>1, <4>2, <4>3, NoRecordIsNone DEF Kept
      <4>5. journal'.status \in OpStatus /\ credit(journal') \subseteq StepIDs
        BY <4>2 DEF Record, StepRecord
      <4>6. QED
        BY <4>1, <4>4, <4>5 DEF Lifecycle!LifecycleNext, Lifecycle!Advance,
           Lifecycle!Reopenable, Lifecycle!OpStatus, OpStatus
    <3>4. QED
      BY <3>2, <3>3
  <2>5. QED
    BY <2>2, <2>3, <2>4
<1>3. QED
  BY <1>1, <1>2, EngineInvHolds, PTL DEF Spec, ImplementsLifecycle, Lifecycle!LifecycleSpec
-----------------------------------------------------------------------------
(* What the journal says of the machine, while no write of it was lost *)

\* What step i of the operation has left on the machine.
Left(i) == effect[journal.steps[i].id]

\* A record of a finished step that is true of the machine.
TrueOf(s, e) == \/ s = "succeeded" /\ e = "done"
                \/ s = "skipped" /\ e \in {"none", "done"}

\* Some build undoes step i, so every build repeats it.
Undone(i) == \E b \in Builds : /\ Plan[b][i].id = journal.steps[i].id
                               /\ Plan[b][i].compensates

\* Work left by a step that the build that did it calls unsafe to start again.
Unsafe(i) == Left(i) \in {"partial", "done"} /\ ~ranSafe[journal.steps[i].id]

\* The journal's word on one step: a finished one is true of the machine unless a
\* compensation nobody recorded may have undone it, a half done one is not
\* finished, and an unsafe one is neither pending nor called safe.
Word(i) ==
  /\ Finished(journal.steps[i]) =>
       \/ TrueOf(journal.steps[i].status, Left(i))
       \/ journal.steps[i].idempotent /\ Undone(i)
  /\ Left(i) = "partial" =>
       ~Finished(journal.steps[i]) /\ journal.steps[i].status # "compensated"
  /\ Unsafe(i) => journal.steps[i].status # "pending" /\ ~SafeAgain(journal.steps[i])

Over(s) == Finished(s) \/ s.status = "compensated"

\* An unsafe step that did not finish has only finished steps before it, and the
\* live process is past its beginning: a resume stops in front of it.
Alone(i) ==
  Unsafe(i) /\ ~Finished(journal.steps[i]) =>
    /\ \A j \in 1..(i - 1) : Over(journal.steps[j])
    /\ \/ run.pc = "idle"
       \/ i < run.at
       \/ i = run.at /\ run.pc \notin {"loop", "check"}

\* The process's record of step i is the journal's, but for a stop between steps
\* and for what it has undone, which it writes when it ends.
SameWork(r, s) == r.id = s.id /\ r.idempotent = s.idempotent /\ r.restartable = s.restartable

Agreed(i) ==
  \/ rec.steps[i] = journal.steps[i]
  \/ /\ run.pc = "settle" /\ run.failure = "interrupted" /\ i = run.at
     /\ rec.steps[i].status = "interrupted"
     /\ SameWork(rec.steps[i], journal.steps[i])
  \/ /\ run.pc = "compensate" /\ Left(i) \in {"none", "torn"}
     /\ rec.steps[i].status = "compensated"
     /\ SameWork(rec.steps[i], journal.steps[i])

\* Steps carry one build's names, and nothing is on the machine before the first record.
Named ==
  /\ journal = NoRecord => run.pc = "idle" /\ \A s \in StepIDs : effect[s] = "none"
  /\ journal # NoRecord => \E b \in Builds : SameSteps(b, journal)
  /\ run.pc # "idle" => SameSteps(run.build, journal)

\* A step this process has not finished is as safe as its own build calls it.
OwnWord ==
  run.pc # "idle" =>
    \A i \in Index : ~Finished(rec.steps[i]) =>
      SafeAgain(rec.steps[i]) = SafeAgain(Plan[run.build][i])

\* Where the process stands: Execute has left its work partial, or done, and
\* every step before it has finished or was allowed to fail.
Behind(i) == \/ TrueOf(journal.steps[i].status, Left(i))
             \/ journal.steps[i].status = "failed" /\ Plan[run.build][i].policy = "continue"

Stands ==
  /\ run.pc = "execute" => Left(run.at) = "partial"
  /\ run.pc = "verify" => Left(run.at) = "done"
  /\ run.pc \in AtWork \cup {"loop"} => \A i \in 1..(run.at - 1) : Behind(i)

Success(i) ==
  \/ TrueOf(journal.steps[i].status, Left(i))
  \/ /\ journal.steps[i].status = "failed"
     /\ Plan[journal.build][i].policy = "continue"

Disk == /\ Named /\ OwnWord /\ Stands
        /\ run.pc # "idle" => \A i \in Index : Agreed(i)
        /\ journal # NoRecord => \A i \in Index : Word(i) /\ Alone(i)
        /\ journal.status = "succeeded" => \A i \in Index : Success(i)

DiskInv == lost = 0 => Disk

-----------------------------------------------------------------------------
(* The shape of a step on the disk and on the machine, while no write is lost *)

Still == effect' = effect /\ ranSafe' = ranSafe

DiskFirst == \E b \in Builds :
  /\ run.pc = "idle" /\ run' = Memory("loop", b)
  /\ journal = NoRecord /\ rec' = FreshRecord(b) /\ journal' = rec'
  /\ Still

DiskResumes == \E b \in Builds :
  /\ run.pc = "idle" /\ run' = Memory("loop", b)
  /\ journal \in Record /\ \E i \in Index : ResumePoint(b, journal, i)
  /\ rec' = ResumedRecord(b, journal) /\ journal' = rec'
  /\ Still

\* Memory only: nothing, or the loop passes a credited step, or compensation begins.
DiskSame ==
  /\ run.pc # "idle" /\ run'.pc # "idle" /\ run'.build = run.build
  /\ rec' = rec /\ journal' = journal /\ Still
  /\ \/ run'.pc = run.pc /\ run'.at = run.at /\ run'.failure = run.failure
     \/ InLoop /\ Credited /\ run'.pc = "loop" /\ run'.at = run.at + 1
     \/ /\ run.pc = "settle" /\ run.failure = "error"
        /\ run'.pc = "compensate" /\ run'.at = run.at

DiskStops ==
  /\ InLoop /\ ~Credited /\ run'.pc = "settle" /\ run'.failure = "interrupted"
  /\ run'.build = run.build /\ run'.at = run.at
  /\ rec' = WithStatus(rec, run.at, "interrupted") /\ journal' = journal /\ Still

\* A step is put on record: begun, skipped, succeeded or failed.
DiskRecords == \E s \in StepStatus :
  /\ run'.build = run.build
  /\ rec' = WithStatus(rec, run.at, s) /\ journal' = rec' /\ Still
  /\ \/ InLoop /\ ~Credited /\ s = "running" /\ run'.pc = "check" /\ run'.at = run.at
     \/ /\ run.pc = "check" /\ s = "skipped" /\ effect[Current.id] \in {"none", "done"}
        /\ run'.pc = "loop" /\ run'.at = run.at + 1
     \/ /\ run.pc = "verify" /\ s = "succeeded"
        /\ run'.pc = "loop" /\ run'.at = run.at + 1
     \/ /\ run.pc \in AtWork /\ s = "failed"
        /\ \/ /\ Current.policy = "continue"
              /\ run'.pc = "loop" /\ run'.at = run.at + 1
           \/ run'.pc = "settle" /\ run'.at = run.at

DiskExecutes ==
  /\ run.pc = "check" /\ run'.pc = "execute" /\ run'.build = run.build /\ run'.at = run.at
  /\ rec' = rec /\ journal' = journal
  /\ effect' = [effect EXCEPT ![Current.id] = "partial"]
  /\ ranSafe' = [ranSafe EXCEPT ![Current.id] = SafeAgain(Current)]

DiskReturns ==
  /\ run.pc = "execute" /\ run'.pc = "verify" /\ run'.build = run.build /\ run'.at = run.at
  /\ rec' = rec /\ journal' = journal
  /\ effect' = [effect EXCEPT ![Current.id] = "done"] /\ ranSafe' = ranSafe

DiskUndoes == \E k \in run.todo :
  /\ run.pc = "compensate" /\ run'.pc = "compensate"
  /\ run'.build = run.build /\ run'.at = run.at
  /\ Undoable(k) /\ journal' = journal /\ ranSafe' = ranSafe
  /\ rec' = rec \/ rec' = WithStatus(rec, k, "compensated")
  /\ \E e \in {"none", "torn"} :
       effect' = [effect EXCEPT ![Plan[run.build][k].id] = e]

DiskEnds ==
  /\ run.pc # "idle" /\ run' = Idle /\ rec' = NoRecord /\ Still
  /\ \/ journal' = journal
     \/ \E s \in OpStatus : /\ journal' = [rec EXCEPT !.status = s]
                            /\ s = "succeeded" => run.pc = "loop" /\ run.at > N

DiskIdle ==
  /\ run.pc = "idle" /\ run' = run /\ rec' = rec /\ Still
  /\ \/ journal' = journal
     \/ journal \in Record /\ journal' = [journal EXCEPT !.status = "failed"]

\* A write that is lost is counted, so one that leaves the count at zero is on disk.
LEMMA NothingLost ==
  ASSUME TypeOK, NEW r, Journaled(r), lost' = 0
  PROVE  lost = 0 /\ journal' = r
  BY DEF Journaled, TypeOK

\* The engine's actions, by what they leave on the disk and on the machine.
LEMMA DiskShape ==
  ASSUME TypeOK, AtStep, [Next]_vars, lost' = 0
  PROVE  /\ lost = 0
         /\ \/ DiskFirst \/ DiskResumes \/ DiskSame \/ DiskStops \/ DiskRecords
            \/ DiskExecutes \/ DiskReturns \/ DiskUndoes \/ DiskEnds \/ DiskIdle
<1> USE DEF Still
<1>1. ASSUME NEW b \in Builds, Start(b) PROVE lost = 0 /\ DiskFirst
  BY <1>1, NothingLost DEF Start, Begin, DiskFirst
<1>2. ASSUME NEW b \in Builds, Resume(b) PROVE lost = 0 /\ DiskResumes
  BY <1>2, NothingLost DEF Resume, Begin, DiskResumes, TypeOK
<1>3. CASE SkipCredited
  BY <1>3 DEF SkipCredited, InLoop, TypeOK, RunMemory, DiskSame
<1>4. CASE StopBetweenSteps
  BY <1>4 DEF StopBetweenSteps, InLoop, TypeOK, RunMemory, DiskStops
<1>5. CASE BeginStep
  <2>1. lost = 0 /\ journal' = rec'
    BY <1>5, NothingLost DEF BeginStep
  <2>2. run'.pc = "check" /\ run'.build = run.build /\ run'.at = run.at
    BY <1>5 DEF BeginStep, TypeOK, RunMemory
  <2>3. DiskRecords
    BY <1>5, <2>1, <2>2 DEF BeginStep, DiskRecords, StepStatus
  <2>4. QED
    BY <2>1, <2>3
<1>6. ASSUME NEW s \in StepStatus, StepCompletes(s)
      PROVE  /\ lost = 0 /\ journal' = rec' /\ rec' = WithStatus(rec, run.at, s)
             /\ run'.pc = "loop" /\ run'.build = run.build /\ run'.at = run.at + 1
  <2>1. lost = 0 /\ journal' = rec'
    BY <1>6, NothingLost DEF StepCompletes
  <2>2. QED
    BY <1>6, <2>1 DEF StepCompletes, TypeOK, RunMemory
<1>7. CASE CheckSatisfied
  BY <1>6, <1>7 DEF CheckSatisfied, DiskRecords, StepStatus
<1>8. CASE VerifySucceeds
  BY <1>6, <1>8 DEF VerifySucceeds, DiskRecords, StepStatus
<1>9. CASE CheckFails \/ ExecuteFails \/ VerifyFails
  <2>1. StepFails /\ run.pc \in AtWork
    BY <1>9 DEF CheckFails, ExecuteFails, VerifyFails, AtWork
  <2>2. lost = 0 /\ journal' = rec'
    BY <2>1, NothingLost DEF StepFails
  <2>3. /\ run'.build = run.build
        /\ \/ /\ Current.policy = "continue"
              /\ run'.pc = "loop" /\ run'.at = run.at + 1
           \/ run'.pc = "settle" /\ run'.at = run.at
    <3>1. CASE Current.policy = "continue"
      BY <2>1, <3>1 DEF StepFails, TypeOK, RunMemory
    <3>2. CASE Current.policy # "continue"
      <4>1. PICK f \in {"error", "interrupted"} :
              run' = [run EXCEPT !.pc = "settle", !.failure = f]
        BY <2>1, <3>2 DEF StepFails
      <4>2. QED
        BY <4>1 DEF TypeOK, RunMemory
    <3>3. QED
      BY <3>1, <3>2
  <2>4. DiskRecords
    BY <2>1, <2>2, <2>3 DEF DiskRecords, StepFails, StepStatus
  <2>5. QED
    BY <2>2, <2>4
<1>10. CASE BeginExecute
  BY <1>10 DEF BeginExecute, TypeOK, RunMemory, DiskExecutes
<1>11. CASE ExecuteSucceeds
  BY <1>11 DEF ExecuteSucceeds, TypeOK, RunMemory, DiskReturns
<1>12. ASSUME NEW s \in OpStatus, EndsAs(s), run.pc # "idle",
              s = "succeeded" => run.pc = "loop" /\ run.at > N
       PROVE  lost = 0 /\ DiskEnds
  BY <1>12, NothingLost DEF EndsAs, DiskEnds
<1>13. CASE Succeed
  BY <1>12, <1>13 DEF Succeed, OpStatus
<1>14. CASE SettleInterrupted
  BY <1>12, <1>14 DEF SettleInterrupted, OpStatus
<1>15. CASE SettleAbort
  BY <1>12, <1>15 DEF SettleAbort, OpStatus
<1>16. CASE SettleCompensated
  BY <1>12, <1>16 DEF SettleCompensated, OpStatus
<1>17. CASE BeginCompensation
  BY <1>17 DEF BeginCompensation, TypeOK, RunMemory, DiskSame
<1>18. CASE CompensateNext
  <2>1. PICK k \in run.todo :
          \/ /\ run' = [run EXCEPT !.todo = @ \ {k}]
             /\ rec' = rec /\ effect' = effect
          \/ /\ Undoable(k)
             /\ run' = [run EXCEPT !.todo = @ \ {k}]
             /\ rec' = WithStatus(rec, k, "compensated")
             /\ effect' = [effect EXCEPT ![Plan[run.build][k].id] = "none"]
          \/ /\ Undoable(k)
             /\ run' = [run EXCEPT !.todo = @ \ {k}, !.allUndone = FALSE]
             /\ effect' = [effect EXCEPT ![Plan[run.build][k].id] = "torn"]
             /\ rec' = rec
    BY <1>18 DEF CompensateNext
  <2>2. /\ run.pc = "compensate" /\ lost' = lost
        /\ journal' = journal /\ ranSafe' = ranSafe
    BY <1>18 DEF CompensateNext
  <2>3. /\ run'.pc = run.pc /\ run'.build = run.build /\ run'.at = run.at
        /\ run'.failure = run.failure
    BY <2>1 DEF TypeOK, RunMemory
  <2>4. QED
    BY <2>1, <2>2, <2>3 DEF DiskSame, DiskUndoes
<1>19. CASE Cancel
  BY <1>19 DEF Cancel, TypeOK, RunMemory, DiskSame
<1>20. CASE Crash
  BY <1>20 DEF Crash, DiskEnds
<1>21. CASE ClearIntervention
  BY <1>21 DEF ClearIntervention, TypeOK, NoRecord, DiskIdle
<1>22. CASE UNCHANGED vars
  BY <1>22 DEF vars, DiskSame, DiskIdle
<1>23. QED
  BY <1>1, <1>2, <1>3, <1>4, <1>5, <1>7, <1>8, <1>9, <1>10, <1>11, <1>13, <1>14,
     <1>15, <1>16, <1>17, <1>18, <1>19, <1>20, <1>21, <1>22
  DEF Next, RunStep, Settle, SkipCredited, StopBetweenSteps, CheckSatisfied, BeginExecute,
      ExecuteSucceeds, BeginCompensation, Cancel, Crash, ClearIntervention, vars

-----------------------------------------------------------------------------
(* The journal's word is kept, shape by shape *)

\* Recording a status keeps what a step is.
LEMMA SameWorkKept ==
  ASSUME NEW r \in Record, NEW i \in Index, NEW s \in StepStatus
  PROVE  SameWork(WithStatus(r, i, s).steps[i], r.steps[i])
<1>1. r.steps[i] \in StepRecord
  BY DEF Record
<1>2. [r.steps EXCEPT ![i] = [r.steps[i] EXCEPT !.status = s]] \in [Index -> StepRecord]
  BY <1>1 DEF Record, StepRecord
<1>3. WithStatus(r, i, s).steps = [r.steps EXCEPT ![i] = [r.steps[i] EXCEPT !.status = s]]
  BY <1>2 DEF WithStatus, Record
<1>4. WithStatus(r, i, s).steps[i] = [r.steps[i] EXCEPT !.status = s]
  BY <1>2, <1>3 DEF Record
<1>5. QED
  BY <1>1, <1>4 DEF SameWork, StepRecord

\* Two steps of one list leave their work apart.
LEMMA OtherNames ==
  ASSUME NEW b \in Builds, SameSteps(b, journal),
         NEW i \in Index, NEW j \in Index, i # j
  PROVE  journal.steps[i].id # journal.steps[j].id
  BY DistinctAssumption DEF SameSteps

\* The step under way is the journal's, by name, and its name is a step's.
LEMMA AtName ==
  ASSUME TypeOK, Named, run.pc # "idle", NEW i \in Index
  PROVE  /\ journal \in Record /\ journal # NoRecord
         /\ Plan[run.build][i].id = journal.steps[i].id
         /\ journal.steps[i].id \in StepIDs
  BY PlanType DEF TypeOK, Named, SameSteps, Step

\* A step whose record and whose work a step of the engine leaves alone keeps the
\* journal's word.
LEMMA WordCarried ==
  ASSUME NEW i \in Index, Word(i), journal'.steps[i] = journal.steps[i],
         effect'[journal.steps[i].id] = effect[journal.steps[i].id],
         ranSafe'[journal.steps[i].id] = ranSafe[journal.steps[i].id]
  PROVE  Word(i)' /\ (Unsafe(i)' <=> Unsafe(i))
  BY DEF Word, Undone, Unsafe, Left

\* A first run writes a record of pending steps over an untouched machine.
LEMMA FirstKeeps ==
  ASSUME EngineInv, Disk, DiskFirst
  PROVE  Disk'
<1>1. PICK b \in Builds :
        /\ run' = Memory("loop", b) /\ journal = NoRecord
        /\ rec' = FreshRecord(b) /\ journal' = rec' /\ Still
  BY DEF DiskFirst
<1>2. run'.pc = "loop" /\ run'.build = b /\ run'.at = 1
  BY <1>1, MemoryType
<1>3. journal' \in Record /\ journal' # NoRecord /\ journal'.status = "running"
  BY <1>1, FreshRecordType, NoRecordIsNone DEF FreshRecord
<1>4. ASSUME NEW i \in Index
      PROVE  /\ journal'.steps[i].id = Plan[b][i].id /\ journal'.steps[i].id \in StepIDs
             /\ journal'.steps[i].status = "pending"
             /\ SafeAgain(journal'.steps[i]) = SafeAgain(Plan[b][i])
  BY <1>1, PlanType DEF FreshRecord, SafeAgain, Step
<1>5. \A s \in StepIDs : effect'[s] = "none"
  BY <1>1 DEF Disk, Named, Still
<1>6. Named'
  BY <1>2, <1>3, <1>4 DEF Named, SameSteps
<1>7. OwnWord'
  BY <1>1, <1>2, <1>4 DEF OwnWord
<1>8. Stands'
  BY <1>2 DEF Stands, AtWork
<1>9. \A i \in Index : Agreed(i)'
  BY <1>1 DEF Agreed
<1>10. \A i \in Index : Word(i)' /\ Alone(i)'
  BY <1>4, <1>5 DEF Word, Alone, Unsafe, Left, Finished
<1>11. QED
  BY <1>3, <1>6, <1>7, <1>8, <1>9, <1>10 DEF Disk

\* A resume begins only where no unsafe work lies ahead: each unsafe step has
\* finished, and keeps its record; the rest are pending and safe.
LEMMA ResumeKeeps ==
  ASSUME EngineInv, Disk, DiskResumes
  PROVE  Disk'
<1>1. PICK b \in Builds :
        /\ run' = Memory("loop", b) /\ journal \in Record
        /\ \E i \in Index : ResumePoint(b, journal, i)
        /\ rec' = ResumedRecord(b, journal) /\ journal' = rec' /\ Still
  BY DEF DiskResumes
<1>2. PICK n \in Index : ResumePoint(b, journal, n)
  BY <1>1
<1>3. journal # NoRecord /\ \A i \in Index : Word(i) /\ Alone(i)
  BY <1>1, NoRecordIsNone DEF Disk
<1>4. run'.pc = "loop" /\ run'.build = b /\ run'.at = 1
  BY <1>1, MemoryType
<1>5. journal' \in Record /\ journal' # NoRecord /\ journal'.status = "running"
  BY <1>1, ResumedRecordType, NoRecordIsNone DEF ResumedRecord, FreshRecord
<1>6. ASSUME NEW i \in Index
      PROVE  /\ journal'.steps[i].id = journal.steps[i].id
             /\ journal'.steps[i].id = Plan[b][i].id
             /\ Finished(journal.steps[i]) => journal'.steps[i] = journal.steps[i]
             /\ ~Finished(journal.steps[i]) =>
                  /\ journal'.steps[i].status = "pending"
                  /\ SafeAgain(journal'.steps[i]) = SafeAgain(Plan[b][i])
  <2>1. journal.steps[i].id = Plan[b][i].id
    BY <1>2 DEF ResumePoint, SameSteps
  <2>2. FreshRecord(b).steps[i] =
          [id |-> Plan[b][i].id, status |-> "pending",
           idempotent |-> Plan[b][i].idempotent, restartable |-> Plan[b][i].restartable]
    BY DEF FreshRecord
  <2>3. journal'.steps[i] = IF Finished(journal.steps[i]) THEN journal.steps[i]
                                                          ELSE FreshRecord(b).steps[i]
    BY <1>1 DEF ResumedRecord, FreshRecord
  <2>4. QED
    BY <2>1, <2>2, <2>3 DEF SafeAgain
<1>7. ASSUME NEW i \in Index, Unsafe(i) PROVE Finished(journal.steps[i])
  <2> SUFFICES ASSUME ~Finished(journal.steps[i]) PROVE FALSE
    OBVIOUS
  <2>1. /\ journal.steps[i].status # "pending" /\ ~SafeAgain(journal.steps[i])
        /\ \A j \in 1..(i - 1) : Over(journal.steps[j])
    BY <1>3, <1>7 DEF Word, Alone
  <2>2. \A j \in 1..(i - 1) : Finished(journal.steps[j])
    BY <1>2, <2>1 DEF ResumePoint, FirstIncomplete, Over, Index
  <2>3. ~Finished(journal.steps[n]) /\ \A j \in 1..(n - 1) : Finished(journal.steps[j])
    BY <1>2 DEF ResumePoint, FirstIncomplete
  <2>4. i = n
    BY <2>2, <2>3 DEF Index
  <2>5. QED
    BY <1>2, <2>1, <2>4 DEF ResumePoint
<1>8. ASSUME NEW i \in Index PROVE Word(i)' /\ Alone(i)'
  <2>1. Left(i)' = Left(i) /\ (Unsafe(i)' <=> Unsafe(i))
    BY <1>1, <1>6 DEF Left, Unsafe, Still
  <2>2. CASE Finished(journal.steps[i])
    BY <1>1, <1>3, <1>6, <2>1, <2>2, WordCarried DEF Still, Alone
  <2>3. CASE ~Finished(journal.steps[i])
    BY <1>6, <1>7, <2>1, <2>3 DEF Word, Alone, Finished
  <2>4. QED
    BY <2>2, <2>3
<1>9. Named'
  BY <1>4, <1>5, <1>6 DEF Named, SameSteps
<1>10. OwnWord'
  BY <1>1, <1>4, <1>6 DEF OwnWord
<1>11. Stands'
  BY <1>4 DEF Stands, AtWork
<1>12. \A i \in Index : Agreed(i)'
  BY <1>1 DEF Agreed
<1>13. QED
  BY <1>5, <1>8, <1>9, <1>10, <1>11, <1>12 DEF Disk

\* What the loop passes over is true of the machine: a step a compensation may
\* have undone is one every build repeats, and so is not credited.
LEMMA CreditedIsTrue ==
  ASSUME EngineInv, Disk, InLoop, Credited
  PROVE  Behind(run.at)
<1>1. TypeOK /\ Named /\ run.pc = "loop" /\ run.at \in Index /\ run.build \in Builds
  BY DEF EngineInv, Disk, InLoop, TypeOK, RunMemory, Index
<1>2. /\ rec.steps[run.at] = journal.steps[run.at]
      /\ Plan[run.build][run.at].id = journal.steps[run.at].id
  BY <1>1, AtName DEF Disk, Agreed
<1>3. Finished(journal.steps[run.at]) /\ Word(run.at)
  BY <1>1, <1>2, AtName DEF Disk, Credited
<1>4. ~(journal.steps[run.at].idempotent /\ Undone(run.at))
  <2> SUFFICES ASSUME journal.steps[run.at].idempotent, Undone(run.at) PROVE FALSE
    OBVIOUS
  <2>1. Plan[run.build][run.at].idempotent
    BY <1>1, <1>2, CompensableAssumption DEF Undone
  <2>2. QED
    BY <1>2, <2>1 DEF Credited, Repeatable, Current
<1>5. QED
  BY <1>3, <1>4 DEF Word, Behind

\* A step of memory alone keeps it.
LEMMA SameKeeps ==
  ASSUME EngineInv, Disk, DiskSame
  PROVE  Disk'
<1>1. /\ run.pc # "idle" /\ run'.pc # "idle" /\ run'.build = run.build
      /\ rec' = rec /\ journal' = journal /\ effect' = effect /\ ranSafe' = ranSafe
  BY DEF DiskSame, Still
<1>2. \A i \in Index : Word(i)' <=> Word(i)
  BY <1>1 DEF Word, Undone, Unsafe, Left
<1>3. Named' /\ OwnWord'
  BY <1>1 DEF Disk, Named, OwnWord
<1>4. \A i \in Index : Behind(i) => Behind(i)'
  BY <1>1 DEF Behind, Left
<1>5. CASE run'.pc = run.pc /\ run'.at = run.at /\ run'.failure = run.failure
  <2>1. \A i \in Index : Agreed(i)' /\ (Alone(i)' <=> Alone(i))
    BY <1>1, <1>5 DEF Disk, Agreed, Alone, Unsafe, Left
  <2>2. Stands'
    BY <1>1, <1>5 DEF Disk, Stands, Behind, Left
  <2>3. QED
    BY <1>1, <1>2, <1>3, <2>1, <2>2 DEF Disk, Success, Left
<1>6. CASE InLoop /\ Credited /\ run'.pc = "loop" /\ run'.at = run.at + 1
  <2>1. run.at \in Index
    BY <1>6 DEF EngineInv, InLoop, TypeOK, RunMemory, Index
  <2>2. ASSUME NEW i \in Index, Alone(i) PROVE Alone(i)'
    BY <1>1, <1>6, <2>1, <2>2 DEF Alone, Unsafe, Left, InLoop, Index
  <2>3. \A i \in Index : Agreed(i)'
    BY <1>1, <1>6 DEF Disk, Agreed, InLoop
  <2>4. Behind(run.at)
    BY <1>6, CreditedIsTrue
  <2>5. Stands'
    BY <1>4, <1>6, <2>1, <2>4 DEF Disk, Stands, InLoop, AtWork, Index
  <2>6. QED
    BY <1>1, <1>2, <1>3, <2>2, <2>3, <2>5 DEF Disk, Success, Left
<1>7. CASE /\ run.pc = "settle" /\ run.failure = "error"
           /\ run'.pc = "compensate" /\ run'.at = run.at
  <2>1. \A i \in Index : Agreed(i)' /\ (Alone(i)' <=> Alone(i))
    BY <1>1, <1>7 DEF Disk, Agreed, Alone, Unsafe, Left
  <2>2. Stands'
    BY <1>7 DEF Stands, AtWork
  <2>3. QED
    BY <1>1, <1>2, <1>3, <2>1, <2>2 DEF Disk, Success, Left
<1>8. QED
  BY <1>5, <1>6, <1>7 DEF DiskSame

\* A step at hand that no credit covers is as safe by its record as by its build.
LEMMA AtHand ==
  ASSUME EngineInv, Disk, run.pc # "idle", run.at \in Index,
         ~Finished(rec.steps[run.at]) \/ Repeatable
  PROVE  SafeAgain(rec.steps[run.at]) = SafeAgain(Current)
<1>1. CASE ~Finished(rec.steps[run.at])
  BY <1>1 DEF Disk, OwnWord, Current
<1>2. CASE Repeatable
  BY <1>2 DEF Repeatable, SafeAgain
<1>3. QED
  BY <1>1, <1>2

\* A stop between two steps changes the process's record only.
LEMMA StopKeeps ==
  ASSUME EngineInv, Disk, DiskStops
  PROVE  Disk'
<1>1. /\ InLoop /\ ~Credited /\ run'.pc = "settle" /\ run'.failure = "interrupted"
      /\ run'.build = run.build /\ run'.at = run.at /\ journal' = journal
      /\ effect' = effect /\ ranSafe' = ranSafe
      /\ rec' = WithStatus(rec, run.at, "interrupted")
  BY DEF DiskStops, Still
<1>2. /\ TypeOK /\ Named /\ run.pc = "loop" /\ run.at \in Index /\ rec \in Record
      /\ run.build \in Builds
  BY <1>1 DEF EngineInv, Disk, InLoop, TypeOK, RunMemory, Index
<1>3. /\ rec'.steps[run.at].status = "interrupted"
      /\ SameWork(rec'.steps[run.at], rec.steps[run.at])
      /\ \A j \in Index : j # run.at => rec'.steps[j] = rec.steps[j]
  <2>1. "interrupted" \in StepStatus
    BY DEF StepStatus
  <2>2. QED
    BY <1>1, <1>2, <2>1, WithStatusType, SameWorkKept
<1>4. \A i \in Index : rec.steps[i] = journal.steps[i]
  BY <1>2 DEF Disk, Agreed
<1>5. \A i \in Index : Agreed(i)'
  BY <1>1, <1>3, <1>4 DEF Agreed
<1>6. SafeAgain(rec.steps[run.at]) = SafeAgain(Current)
  BY <1>1, <1>2, AtHand DEF Credited
<1>7. OwnWord'
  BY <1>1, <1>2, <1>3, <1>6 DEF Disk, OwnWord, SafeAgain, SameWork, Current
<1>8. \A i \in Index : Word(i)' <=> Word(i)
  BY <1>1 DEF Word, Undone, Unsafe, Left
<1>9. ASSUME NEW i \in Index, Alone(i) PROVE Alone(i)'
  BY <1>1, <1>2, <1>9 DEF Alone, Unsafe, Left
<1>10. Named' /\ Stands'
  BY <1>1, <1>2 DEF Disk, Named, Stands, AtWork
<1>11. QED
  BY <1>1, <1>2, <1>5, <1>7, <1>8, <1>9, <1>10 DEF Disk, Success, Left

\* A step at its beginning has left no unsafe work, unless it is credited.
LEMMA NoneAhead ==
  ASSUME EngineInv, Disk, (InLoop /\ ~Credited) \/ run.pc = "check"
  PROVE  ~Unsafe(run.at)
<1> SUFFICES ASSUME Unsafe(run.at) PROVE FALSE
  OBVIOUS
<1>1. /\ TypeOK /\ Named /\ run.pc \in {"loop", "check"} /\ run.at \in Index
  BY DEF EngineInv, Disk, InLoop, TypeOK, RunMemory, Index
<1>2. rec.steps[run.at] = journal.steps[run.at] /\ Word(run.at) /\ Alone(run.at)
  BY <1>1, AtName DEF Disk, Agreed
<1>3. Finished(journal.steps[run.at]) /\ ~SafeAgain(journal.steps[run.at])
  BY <1>1, <1>2 DEF Word, Alone, Index
<1>4. CASE InLoop /\ ~Credited
  BY <1>2, <1>3, <1>4 DEF Credited, Repeatable, SafeAgain
<1>5. CASE run.pc = "check"
  BY <1>2, <1>3, <1>5 DEF EngineInv, AtStep, Finished
<1>6. QED
  BY <1>4, <1>5

\* A status put on record is true of the machine: a step begun has left no unsafe
\* work, one that finished has left what it says.
LEMMA RecordKeeps ==
  ASSUME EngineInv, Disk, DiskRecords
  PROVE  Disk'
<1>1. PICK s \in StepStatus :
        /\ run'.build = run.build
        /\ rec' = WithStatus(rec, run.at, s) /\ journal' = rec'
        /\ effect' = effect /\ ranSafe' = ranSafe
        /\ \/ InLoop /\ ~Credited /\ s = "running" /\ run'.pc = "check" /\ run'.at = run.at
           \/ /\ run.pc = "check" /\ s = "skipped" /\ effect[Current.id] \in {"none", "done"}
              /\ run'.pc = "loop" /\ run'.at = run.at + 1
           \/ /\ run.pc = "verify" /\ s = "succeeded"
              /\ run'.pc = "loop" /\ run'.at = run.at + 1
           \/ /\ run.pc \in AtWork /\ s = "failed"
              /\ \/ /\ Current.policy = "continue"
                    /\ run'.pc = "loop" /\ run'.at = run.at + 1
                 \/ run'.pc = "settle" /\ run'.at = run.at
  BY DEF DiskRecords, Still
<1>2. /\ TypeOK /\ Named /\ run.pc \in AtWork \cup {"loop"} /\ run.at \in Index
      /\ rec \in Record /\ run.build \in Builds
  BY <1>1 DEF EngineInv, Disk, InLoop, TypeOK, RunMemory, Index, AtWork
<1>3. /\ rec' \in Record /\ rec'.status = "running"
      /\ rec'.steps[run.at].status = s
      /\ SameWork(rec'.steps[run.at], rec.steps[run.at])
      /\ \A j \in Index : j # run.at => rec'.steps[j] = rec.steps[j]
  BY <1>1, <1>2, WithStatusType, SameWorkKept DEF EngineInv, LiveRecord, AtWork
<1>4. /\ \A i \in Index : rec.steps[i] = journal.steps[i] /\ Word(i) /\ Alone(i)
      /\ Current.id = journal.steps[run.at].id
  BY <1>2, AtName DEF Disk, Agreed, AtWork, Current
<1>5. journal'.steps[run.at].status = s /\ SameWork(journal'.steps[run.at], journal.steps[run.at])
      /\ \A j \in Index : j # run.at => journal'.steps[j] = journal.steps[j]
  BY <1>1, <1>2, <1>3, <1>4
<1>6. run.pc \in AtWork => ~Finished(journal.steps[run.at])
  BY <1>2, <1>4 DEF EngineInv, AtStep, AtWork, Finished
<1>7. \A i \in Index : Left(i)' = Left(i) /\ (Unsafe(i)' <=> Unsafe(i))
  BY <1>1, <1>2, <1>5 DEF Left, Unsafe, SameWork
<1>8. s \in {"running", "skipped"} => ~Unsafe(run.at)
  BY <1>1, NoneAhead DEF AtWork
<1>9. /\ s = "skipped" => Left(run.at) \in {"none", "done"}
      /\ s = "succeeded" => Left(run.at) = "done"
  BY <1>1, <1>4 DEF Disk, Stands, Left
<1>10. ASSUME NEW i \in Index PROVE Word(i)'
  <2>1. CASE i # run.at
    BY <1>1, <1>4, <1>5, <1>7, <2>1, WordCarried
  <2>2. CASE i = run.at
    <3>1. Finished(journal'.steps[i]) => TrueOf(journal'.steps[i].status, Left(i)')
      BY <1>1, <1>5, <1>7, <1>9, <2>2 DEF Finished, TrueOf
    <3>2. Left(i)' = "partial" =>
            ~Finished(journal'.steps[i]) /\ journal'.steps[i].status # "compensated"
      BY <1>1, <1>5, <1>7, <1>9, <2>2 DEF Finished
    <3>3. Unsafe(i)' => journal'.steps[i].status # "pending" /\ ~SafeAgain(journal'.steps[i])
      BY <1>1, <1>4, <1>5, <1>7, <2>2 DEF Word, SafeAgain, SameWork
    <3>4. QED
      BY <3>1, <3>2, <3>3 DEF Word
  <2>3. QED
    BY <2>1, <2>2
<1>11. ASSUME NEW i \in Index PROVE Alone(i)'
  <2> SUFFICES ASSUME Unsafe(i), ~Finished(journal'.steps[i])
               PROVE  /\ \A j \in 1..(i - 1) : Over(journal'.steps[j])
                      /\ \/ i < run'.at
                         \/ i = run'.at /\ run'.pc = "settle"
    BY <1>7 DEF Alone
  <2>1. i # run.at => ~Finished(journal.steps[i])
    BY <1>5
  <2>2. i = run.at => s = "failed" /\ ~Finished(journal.steps[i])
    BY <1>1, <1>5, <1>6, <1>8 DEF Finished
  <2>3. /\ \A j \in 1..(i - 1) : Over(journal.steps[j])
        /\ i < run.at \/ i = run.at
    BY <1>2, <1>4, <2>1, <2>2 DEF Alone, AtWork
  <2>4. \A j \in 1..(i - 1) : j \in Index /\ j # run.at
    BY <1>2, <2>3 DEF Index
  <2>5. \A j \in 1..(i - 1) : Over(journal'.steps[j])
    BY <1>5, <2>3, <2>4
  <2>6. i < run'.at \/ (i = run'.at /\ run'.pc = "settle")
    BY <1>1, <1>2, <2>2, <2>3 DEF Index
  <2>7. QED
    BY <2>5, <2>6
<1>12. Named'
  <2>1. journal' # NoRecord
    BY <1>1, <1>3, NoRecordIsNone
  <2>2. SameSteps(run.build, journal)
    BY <1>2 DEF Named, AtWork
  <2>3. \A i \in Index : journal'.steps[i].id = journal.steps[i].id
    BY <1>5 DEF SameWork
  <2>4. SameSteps(run'.build, journal')
    BY <1>1, <2>2, <2>3 DEF SameSteps
  <2>5. QED
    BY <1>1, <1>2, <2>1, <2>4 DEF Named
<1>13. OwnWord'
  <2>1. SafeAgain(rec.steps[run.at]) = SafeAgain(Current)
    BY <1>1, <1>2, <1>4, <1>6, AtHand DEF Credited, AtWork
  <2>2. QED
    BY <1>1, <1>2, <1>3, <2>1 DEF Disk, OwnWord, SafeAgain, SameWork, Current, AtWork
<1>14. Stands'
  <2>1. ASSUME NEW i \in 1..(run.at - 1) PROVE Behind(i)'
    <3>1. i \in Index /\ i # run.at /\ Behind(i)
      BY <1>2 DEF Disk, Stands, Index
    <3>2. QED
      BY <1>1, <1>5, <1>7, <3>1 DEF Behind
  <2>2. ASSUME run'.pc = "loop", NEW i \in Index, i = run.at
        PROVE  run'.at = run.at + 1 /\ Behind(i)'
    <3>1. \/ s = "skipped" /\ Left(i) \in {"none", "done"}
          \/ s = "succeeded" /\ Left(i) = "done"
          \/ s = "failed" /\ Current.policy = "continue"
      BY <1>1, <1>9, <2>2
    <3>2. QED
      BY <1>1, <1>5, <1>7, <2>2, <3>1 DEF Behind, TrueOf, Current
  <2>3. run'.pc = "check" => run'.at = run.at
    BY <1>1
  <2>4. run'.pc \in {"loop", "check", "settle"}
    BY <1>1
  <2>5. ASSUME run'.pc \in AtWork \cup {"loop"}, NEW i \in 1..(run'.at - 1) PROVE Behind(i)'
    <3>1. i \in 1..(run.at - 1) \/ (run'.pc = "loop" /\ i = run.at)
      BY <1>2, <2>2, <2>3, <2>4, <2>5 DEF AtWork, Index
    <3>2. QED
      BY <1>2, <2>1, <2>2, <3>1
  <2>6. QED
    BY <2>4, <2>5 DEF Stands
<1>15. \A i \in Index : Agreed(i)'
  BY <1>1 DEF Agreed
<1>16. journal'.status # "succeeded"
  BY <1>1, <1>3
<1>17. QED
  BY <1>10, <1>11, <1>12, <1>13, <1>14, <1>15, <1>16 DEF Disk

\* Execute leaves its step's work partial; where the build calls that unsafe,
\* no optional step lies before it and the record says so too.
LEMMA ExecuteKeeps ==
  ASSUME EngineInv, Disk, DiskExecutes
  PROVE  Disk'
<1>1. /\ run.pc = "check" /\ run'.pc = "execute" /\ run'.build = run.build
      /\ run'.at = run.at /\ rec' = rec /\ journal' = journal
      /\ effect' = [effect EXCEPT ![Current.id] = "partial"]
      /\ ranSafe' = [ranSafe EXCEPT ![Current.id] = SafeAgain(Current)]
  BY DEF DiskExecutes
<1>2. /\ TypeOK /\ Named /\ run.at \in Index /\ run.build \in Builds
  BY <1>1 DEF EngineInv, Disk, TypeOK
<1>3. /\ \A i \in Index : rec.steps[i] = journal.steps[i] /\ Word(i) /\ Alone(i)
      /\ Current.id = journal.steps[run.at].id /\ Current.id \in StepIDs
      /\ SameSteps(run.build, journal)
  BY <1>1, <1>2, AtName DEF Disk, Agreed, Current, Named
<1>4. journal.steps[run.at].status = "running" /\ SafeAgain(journal.steps[run.at]) = SafeAgain(Current)
  BY <1>1, <1>2, <1>3, AtHand DEF EngineInv, AtStep, Finished
<1>5. ASSUME NEW i \in Index, i # run.at
      PROVE  /\ effect'[journal.steps[i].id] = effect[journal.steps[i].id]
             /\ ranSafe'[journal.steps[i].id] = ranSafe[journal.steps[i].id]
  BY <1>1, <1>2, <1>3, <1>5, OtherNames DEF TypeOK
<1>6. Left(run.at)' = "partial" /\ ranSafe'[journal.steps[run.at].id] = SafeAgain(Current)
  BY <1>1, <1>2, <1>3 DEF TypeOK, Left
<1>7. ASSUME NEW i \in Index PROVE Word(i)'
  <2>1. CASE i # run.at
    BY <1>1, <1>3, <1>5, <2>1, WordCarried
  <2>2. CASE i = run.at
    BY <1>1, <1>4, <1>6, <2>2 DEF Word, Unsafe, Finished
  <2>3. QED
    BY <2>1, <2>2
<1>8. ASSUME NEW i \in Index PROVE Alone(i)'
  <2>1. CASE i # run.at
    <3>1. Unsafe(i)' <=> Unsafe(i)
      BY <1>1, <1>3, <1>5, <2>1, WordCarried
    <3>2. QED
      BY <1>1, <1>3, <2>1, <3>1 DEF Alone
  <2>2. CASE i = run.at
    <3> SUFFICES ASSUME Unsafe(i)' PROVE \A j \in 1..(i - 1) : Over(journal.steps[j])
      BY <1>1, <2>2 DEF Alone
    <3>1. ~SafeAgain(Plan[run.build][run.at])
      BY <1>1, <1>6, <2>2 DEF Unsafe, Current
    <3>2. \A j \in 1..(i - 1) : Plan[run.build][j].policy # "continue"
      BY <1>2, <2>2, <3>1, OptionalAssumption
    <3>3. \A j \in 1..(i - 1) : Behind(j)
      BY <1>1, <2>2 DEF Disk, Stands, AtWork
    <3>4. QED
      BY <3>2, <3>3 DEF Behind, TrueOf, Over, Finished
  <2>3. QED
    BY <2>1, <2>2
<1>9. Named' /\ OwnWord'
  BY <1>1, <1>3 DEF Disk, Named, OwnWord
<1>10. Stands'
  <2>1. ASSUME NEW i \in 1..(run.at - 1) PROVE Behind(i)'
    <3>1. i \in Index /\ i # run.at /\ Behind(i)
      BY <1>1, <1>2 DEF Disk, Stands, Index, AtWork
    <3>2. QED
      BY <1>1, <1>5, <3>1 DEF Behind, Left
  <2>2. QED
    BY <1>1, <1>6, <2>1 DEF Stands
<1>11. \A i \in Index : Agreed(i)'
  BY <1>1, <1>3 DEF Agreed
<1>12. journal'.status # "succeeded"
  BY <1>1 DEF EngineInv, LiveRecord
<1>13. QED
  BY <1>7, <1>8, <1>9, <1>10, <1>11, <1>12 DEF Disk

\* Execute returns: its work is done, and as safe or unsafe as before.
LEMMA ReturnKeeps ==
  ASSUME EngineInv, Disk, DiskReturns
  PROVE  Disk'
<1>1. /\ run.pc = "execute" /\ run'.pc = "verify" /\ run'.build = run.build
      /\ run'.at = run.at /\ rec' = rec /\ journal' = journal
      /\ effect' = [effect EXCEPT ![Current.id] = "done"] /\ ranSafe' = ranSafe
  BY DEF DiskReturns
<1>2. /\ TypeOK /\ Named /\ run.at \in Index /\ run.build \in Builds
  BY <1>1 DEF EngineInv, Disk, TypeOK
<1>3. /\ \A i \in Index : rec.steps[i] = journal.steps[i] /\ Word(i) /\ Alone(i)
      /\ Current.id = journal.steps[run.at].id /\ Current.id \in StepIDs
      /\ SameSteps(run.build, journal)
  BY <1>1, <1>2, AtName DEF Disk, Agreed, Current, Named
<1>4. journal.steps[run.at].status = "running"
  BY <1>1, <1>3, <1>2 DEF EngineInv, AtStep
<1>5. ASSUME NEW i \in Index, i # run.at
      PROVE  effect'[journal.steps[i].id] = effect[journal.steps[i].id]
  BY <1>1, <1>2, <1>3, <1>5, OtherNames DEF TypeOK
<1>6. Left(run.at)' = "done" /\ Left(run.at) = "partial"
  BY <1>1, <1>2, <1>3 DEF Disk, Stands, TypeOK, Left
<1>7. \A i \in Index : Unsafe(i)' <=> Unsafe(i)
  BY <1>1, <1>5, <1>6 DEF Unsafe, Left
<1>8. ASSUME NEW i \in Index PROVE Word(i)'
  <2>1. CASE i # run.at
    BY <1>1, <1>3, <1>5, <2>1, WordCarried
  <2>2. CASE i = run.at
    BY <1>1, <1>3, <1>4, <1>6, <1>7, <2>2 DEF Word, Finished
  <2>3. QED
    BY <2>1, <2>2
<1>9. \A i \in Index : Alone(i)'
  BY <1>1, <1>3, <1>7 DEF Alone
<1>10. Named' /\ OwnWord'
  BY <1>1, <1>3 DEF Disk, Named, OwnWord
<1>11. Stands'
  <2>1. ASSUME NEW i \in 1..(run.at - 1) PROVE Behind(i)'
    <3>1. i \in Index /\ i # run.at /\ Behind(i)
      BY <1>1, <1>2 DEF Disk, Stands, Index, AtWork
    <3>2. QED
      BY <1>1, <1>5, <3>1 DEF Behind, Left
  <2>2. QED
    BY <1>1, <1>6, <2>1 DEF Stands
<1>12. \A i \in Index : Agreed(i)'
  BY <1>1, <1>3 DEF Agreed
<1>13. journal'.status # "succeeded"
  BY <1>1 DEF EngineInv, LiveRecord
<1>14. QED
  BY <1>8, <1>9, <1>10, <1>11, <1>12, <1>13 DEF Disk

\* Undoing a step takes its work from the machine and leaves the journal alone: it
\* goes on crediting a step that every build will repeat.
LEMMA UndoKeeps ==
  ASSUME EngineInv, Disk, DiskUndoes
  PROVE  Disk'
<1>1. PICK k \in run.todo :
        /\ run.pc = "compensate" /\ run'.pc = "compensate"
        /\ run'.build = run.build /\ run'.at = run.at
        /\ Undoable(k) /\ journal' = journal /\ ranSafe' = ranSafe
        /\ rec' = rec \/ rec' = WithStatus(rec, k, "compensated")
        /\ \E e \in {"none", "torn"} :
             effect' = [effect EXCEPT ![Plan[run.build][k].id] = e]
  BY DEF DiskUndoes
<1>2. /\ TypeOK /\ Named /\ k \in Index /\ run.build \in Builds /\ rec \in Record
  BY <1>1 DEF EngineInv, Disk, TypeOK, RunMemory
<1>3. /\ \A i \in Index : Agreed(i) /\ Word(i) /\ Alone(i)
      /\ Plan[run.build][k].id = journal.steps[k].id /\ journal.steps[k].id \in StepIDs
      /\ SameSteps(run.build, journal)
  BY <1>1, <1>2, AtName DEF Disk, Named
<1>4. ASSUME NEW i \in Index, i # k
      PROVE  effect'[journal.steps[i].id] = effect[journal.steps[i].id]
  BY <1>1, <1>2, <1>3, <1>4, OtherNames DEF TypeOK
<1>5. Left(k)' \in {"none", "torn"}
  BY <1>1, <1>2, <1>3 DEF TypeOK, Left
<1>6. /\ Plan[run.build][k].compensates /\ Plan[run.build][k].idempotent
      /\ rec.steps[k].idempotent
  BY <1>1, <1>2, CompensableAssumption DEF EngineInv, OwnFlags, Undoable
<1>7. journal.steps[k].idempotent
  BY <1>3, <1>2, <1>6 DEF Agreed, SameWork
<1>8. ASSUME NEW i \in Index PROVE Word(i)'
  <2>1. CASE i # k
    BY <1>1, <1>3, <1>4, <2>1, WordCarried
  <2>2. CASE i = k
    <3>1. Undone(i)'
      BY <1>1, <1>2, <1>3, <1>6, <2>2 DEF Undone
    <3>2. QED
      BY <1>1, <1>5, <1>7, <2>2, <3>1 DEF Word, Unsafe
  <2>3. QED
    BY <2>1, <2>2
<1>9. \A i \in Index : Unsafe(i)' => Unsafe(i)
  BY <1>1, <1>4, <1>5 DEF Unsafe, Left
<1>10. \A i \in Index : Alone(i)'
  BY <1>1, <1>3, <1>9 DEF Alone
<1>11. /\ \/ rec'.steps[k] = rec.steps[k]
          \/ /\ rec'.steps[k].status = "compensated"
             /\ SameWork(rec'.steps[k], rec.steps[k])
       /\ \A j \in Index : j # k => rec'.steps[j] = rec.steps[j]
  <2>1. "compensated" \in StepStatus
    BY DEF StepStatus
  <2>2. QED
    BY <1>1, <1>2, <2>1, WithStatusType, SameWorkKept
<1>12. ASSUME NEW i \in Index PROVE Agreed(i)'
  <2>1. CASE i # k
    BY <1>1, <1>3, <1>4, <1>11, <2>1 DEF Agreed, Left
  <2>2. CASE i = k
    BY <1>1, <1>3, <1>5, <1>11, <2>2 DEF Agreed, SameWork
  <2>3. QED
    BY <2>1, <2>2
<1>13. OwnWord'
  <2> SUFFICES ASSUME NEW i \in Index, ~Finished(rec'.steps[i])
               PROVE  SafeAgain(rec'.steps[i]) = SafeAgain(Plan[run.build][i])
    BY <1>1 DEF OwnWord
  <2>1. CASE rec'.steps[i] = rec.steps[i]
    BY <1>1, <2>1 DEF Disk, OwnWord
  <2>2. CASE i = k /\ SameWork(rec'.steps[k], rec.steps[k])
    BY <1>6, <2>2 DEF SafeAgain, SameWork
  <2>3. QED
    BY <1>11, <2>1, <2>2
<1>14. Named' /\ Stands'
  BY <1>1, <1>2, <1>3, AtName DEF Disk, Named, Stands, AtWork
<1>15. journal'.status # "succeeded"
  BY <1>1 DEF EngineInv, LiveRecord
<1>16. QED
  BY <1>8, <1>10, <1>12, <1>13, <1>14, <1>15 DEF Disk

\* A process that ends leaves the journal as it is, or its own record, which says
\* no more of any step than the journal did.
LEMMA EndKeeps ==
  ASSUME EngineInv, Disk, DiskEnds
  PROVE  Disk'
<1>1. /\ run.pc # "idle" /\ run' = Idle /\ run'.pc = "idle"
      /\ effect' = effect /\ ranSafe' = ranSafe
      /\ \/ journal' = journal
         \/ \E s \in OpStatus : /\ journal' = [rec EXCEPT !.status = s]
                                /\ s = "succeeded" => run.pc = "loop" /\ run.at > N
  BY IdleType DEF DiskEnds, Still
<1>2. TypeOK /\ Named /\ rec \in Record /\ journal \in Record /\ journal # NoRecord
      /\ run.build \in Builds /\ SameSteps(run.build, journal)
  BY <1>1 DEF EngineInv, Disk, TypeOK, Named
<1>3. \A i \in Index : Agreed(i) /\ Word(i) /\ Alone(i)
  BY <1>1, <1>2 DEF Disk
<1>4. OwnWord' /\ Stands'
  BY <1>1 DEF OwnWord, Stands, AtWork
<1>5. CASE journal' = journal
  <2>1. \A i \in Index : Word(i)' /\ Alone(i)'
    BY <1>1, <1>3, <1>5 DEF Word, Undone, Unsafe, Left, Alone
  <2>2. journal'.status # "succeeded"
    BY <1>1, <1>5 DEF EngineInv, LiveRecord
  <2>3. Named'
    BY <1>1, <1>5 DEF Disk, Named
  <2>4. QED
    BY <1>1, <1>4, <2>1, <2>2, <2>3 DEF Disk
<1>6. ASSUME NEW s \in OpStatus, journal' = [rec EXCEPT !.status = s],
             s = "succeeded" => run.pc = "loop" /\ run.at > N
      PROVE  Disk'
  <2>1. journal' \in Record /\ journal' # NoRecord /\ journal'.status = s
        /\ journal'.steps = rec.steps /\ journal'.build = run.build
    BY <1>1, <1>2, <1>6, NoRecordIsNone DEF Record, EngineInv, LiveRecord
  <2>2. ASSUME NEW i \in Index
        PROVE  \/ journal'.steps[i] = journal.steps[i]
               \/ /\ i = run.at /\ run.pc = "settle"
                  /\ journal'.steps[i].status = "interrupted"
                  /\ SameWork(journal'.steps[i], journal.steps[i])
               \/ /\ Left(i) \in {"none", "torn"}
                  /\ journal'.steps[i].status = "compensated"
                  /\ SameWork(journal'.steps[i], journal.steps[i])
    BY <1>3, <2>1 DEF Agreed
  <2>3. \A i \in Index : journal'.steps[i].id = journal.steps[i].id
    BY <2>2 DEF SameWork
  <2>4. \A i \in Index : Left(i)' = Left(i) /\ (Unsafe(i)' <=> Unsafe(i))
    BY <1>1, <2>3 DEF Unsafe, Left
  <2>5. ASSUME NEW i \in Index PROVE Word(i)'
    <3>1. CASE journal'.steps[i] = journal.steps[i]
      BY <1>1, <1>3, <3>1, WordCarried
    <3>2. CASE /\ journal'.steps[i].status = "interrupted"
               /\ SameWork(journal'.steps[i], journal.steps[i])
      BY <1>3, <2>4, <3>2 DEF Word, Finished, SafeAgain, SameWork
    <3>3. CASE /\ Left(i) \in {"none", "torn"}
               /\ journal'.steps[i].status = "compensated"
               /\ SameWork(journal'.steps[i], journal.steps[i])
      BY <2>4, <3>3 DEF Word, Finished, Unsafe
    <3>4. QED
      BY <2>2, <3>1, <3>2, <3>3
  <2>6. ASSUME NEW i \in Index, Unsafe(i), ~Finished(journal'.steps[i])
        PROVE  ~Finished(journal.steps[i])
    <3> SUFFICES ASSUME Finished(journal.steps[i]) PROVE FALSE
      OBVIOUS
    <3>1. Kept(journal, i, run.build)
      BY <1>3, <2>6 DEF Word, Kept, SafeAgain
    <3>2. rec.steps[i] = journal.steps[i]
      BY <1>1, <1>2, <3>1 DEF EngineInv, CreditHeld
    <3>3. QED
      BY <2>1, <2>6, <3>2
  <2>7. ASSUME NEW i \in Index PROVE Alone(i)'
    <3> SUFFICES ASSUME Unsafe(i), ~Finished(journal'.steps[i])
                 PROVE  \A j \in 1..(i - 1) : Over(journal'.steps[j])
      BY <1>1, <2>4 DEF Alone
    <3>1. /\ \A j \in 1..(i - 1) : Over(journal.steps[j])
          /\ i < run.at \/ i = run.at
      BY <1>1, <1>3, <2>6 DEF Alone
    <3>2. \A j \in 1..(i - 1) : j \in Index /\ j # run.at
      BY <1>2, <3>1 DEF Index, TypeOK, RunMemory
    <3>3. QED
      BY <2>2, <3>1, <3>2 DEF Over
  <2>8. Named'
    BY <1>1, <1>2, <2>1, <2>3 DEF Named, SameSteps
  <2>9. ASSUME s = "succeeded", NEW i \in Index PROVE Success(i)'
    <3>1. run.pc = "loop" /\ i \in 1..(run.at - 1)
      BY <1>2, <1>6, <2>9 DEF Index, TypeOK, RunMemory
    <3>2. Behind(i) /\ rec.steps[i] = journal.steps[i]
      BY <1>3, <3>1 DEF Disk, Stands, Agreed
    <3>3. QED
      BY <1>2, <2>1, <2>4, <3>2 DEF Behind, Success
  <2>10. QED
    BY <1>1, <1>4, <2>1, <2>5, <2>7, <2>8, <2>9 DEF Disk
<1>7. QED
  BY <1>1, <1>5, <1>6

\* An acknowledgement changes no step's record.
LEMMA IdleKeeps ==
  ASSUME EngineInv, Disk, DiskIdle
  PROVE  Disk'
<1>1. /\ run.pc = "idle" /\ run' = run /\ rec' = rec
      /\ effect' = effect /\ ranSafe' = ranSafe
  BY DEF DiskIdle, Still
<1>2. CASE journal' = journal
  BY <1>1, <1>2 DEF Disk, Named, OwnWord, Stands, Word, Alone, Undone, Unsafe, Left, Success, AtWork
<1>3. CASE journal \in Record /\ journal' = [journal EXCEPT !.status = "failed"]
  <2>1. /\ journal'.steps = journal.steps /\ journal'.status = "failed"
        /\ journal # NoRecord /\ journal' \in Record
    BY <1>3, NoRecordIsNone DEF Record, OpStatus
  <2>2. \A i \in Index : Word(i)' /\ Alone(i)'
    BY <1>1, <2>1 DEF Disk, Word, Alone, Undone, Unsafe, Left
  <2>3. Named' /\ OwnWord' /\ Stands'
    BY <1>1, <2>1, NoRecordIsNone DEF Disk, Named, OwnWord, Stands, AtWork, SameSteps
  <2>4. QED
    BY <1>1, <2>1, <2>2, <2>3 DEF Disk
<1>4. QED
  BY <1>2, <1>3 DEF DiskIdle

\* The journal's word holds before the first run, and every step keeps it while
\* no write of the journal is lost.
THEOREM DiskInvHolds == Spec => []DiskInv
<1>1. Init => DiskInv
  <2> SUFFICES ASSUME Init PROVE Disk
    BY DEF DiskInv
  <2>1. run.pc = "idle" /\ journal = NoRecord /\ journal.status = "none"
    BY IdleType DEF Init, NoRecord
  <2>2. \A s \in StepIDs : effect[s] = "none"
    BY DEF Init
  <2>3. QED
    BY <2>1, <2>2 DEF Disk, Named, OwnWord, Stands, AtWork
<1>2. EngineInv /\ DiskInv /\ [Next]_vars => DiskInv'
  <2> SUFFICES ASSUME EngineInv, DiskInv, [Next]_vars, lost' = 0 PROVE Disk'
    BY DEF DiskInv
  <2>1. /\ lost = 0
        /\ \/ DiskFirst \/ DiskResumes \/ DiskSame \/ DiskStops \/ DiskRecords
           \/ DiskExecutes \/ DiskReturns \/ DiskUndoes \/ DiskEnds \/ DiskIdle
    BY DiskShape DEF EngineInv
  <2>2. Disk
    BY <2>1 DEF DiskInv
  <2>3. QED
    BY <2>1, <2>2, FirstKeeps, ResumeKeeps, SameKeeps, StopKeeps, RecordKeeps,
       ExecuteKeeps, ReturnKeeps, UndoKeeps, EndKeeps, IdleKeeps
<1>3. QED
  BY <1>1, <1>2, EngineInvHolds, PTL DEF Spec

\* A step whose work is half done on the machine is on record as started and not
\* finished, or may be started again, whatever crashed or was resumed, by
\* whatever builds: the journal is ahead of the work (Run, contract 1).
THEOREM HalfDoneAlwaysOnRecord == Spec => []HalfDoneIsOnRecord
<1>1. EngineInv /\ DiskInv => HalfDoneIsOnRecord
  <2> SUFFICES ASSUME EngineInv, DiskInv, lost = 0, journal # NoRecord,
                      NEW i \in Index, effect[journal.steps[i].id] = "partial"
               PROVE  \/ StatusOf(i) \in {"running", "failed", "interrupted"}
                      \/ StatusOf(i) = "pending" /\ ranSafe[journal.steps[i].id]
    BY DEF HalfDoneIsOnRecord
  <2>1. Word(i) /\ journal.steps[i].status \in StepStatus
    BY DEF EngineInv, TypeOK, DiskInv, Disk, Record, StepRecord
  <2>2. /\ ~Finished(journal.steps[i]) /\ journal.steps[i].status # "compensated"
        /\ ~ranSafe[journal.steps[i].id] => journal.steps[i].status # "pending"
    BY <2>1 DEF Word, Unsafe, Left
  <2>3. QED
    BY <2>1, <2>2 DEF StatusOf, Finished, StepStatus
<1>2. QED
  BY <1>1, EngineInvHolds, DiskInvHolds, PTL

\* An operation recorded as succeeded did its work: each step's record is true of
\* the machine, but for one that was allowed to fail (Run, Succeed).
THEOREM SuccessAlwaysMeansDone == Spec => []SuccessMeansDone
<1>1. DiskInv => SuccessMeansDone
  BY DEF DiskInv, Disk, Success, TrueOf, Left, SuccessMeansDone, StatusOf
<1>2. QED
  BY <1>1, DiskInvHolds, PTL

\* Execute never starts again over work the build that did it calls unsafe to
\* repeat, however the operation was resumed (resumePoint).
THEOREM NeverRepeatsUnsafely == Spec => NoUnsafeRepeat
<1>1. EngineInv /\ DiskInv /\ [Next]_vars =>
        [\A i \in Index : ExecutesOverWork(i) => ranSafe[Current.id]]_vars
  <2> SUFFICES ASSUME EngineInv, DiskInv, NEW i \in Index, ExecutesOverWork(i)
               PROVE  ranSafe[Current.id]
    OBVIOUS
  <2>1. /\ run.pc = "check" /\ run.at = i /\ Disk
        /\ effect[Current.id] \in {"partial", "done"}
    BY DEF ExecutesOverWork, Executes, DiskInv
  <2>2. ~Unsafe(run.at)
    BY <2>1, NoneAhead
  <2>3. Current.id = journal.steps[run.at].id
    BY <2>1, AtName DEF EngineInv, Disk, Current
  <2>4. QED
    BY <2>1, <2>2, <2>3 DEF Unsafe, Left
<1>2. QED
  BY <1>1, EngineInvHolds, DiskInvHolds, PTL DEF Spec, NoUnsafeRepeat

-----------------------------------------------------------------------------
(* The order of compensation *)

\* What is to be undone past the point and is no longer on the list has been
\* undone, or has failed to be; a process that settles an error failed a step.
ListInv ==
  /\ run.pc = "settle" /\ run.failure = "error" => rec.steps[run.at].status = "failed"
  /\ run.pc = "compensate" =>
       \A j \in run.completed \cup {run.at} :
         /\ Undoable(j)
         /\ run.noReturnIdx > 0 => j > run.noReturnIdx
         => \/ j \in run.todo
            \/ effect[Plan[run.build][j].id] \in {"none", "torn"}

\* The actions after which a process settles an error or compensates: a step
\* fails, compensation begins or goes on, or a signal changes nothing of it.
LEMMA ListShape ==
  ASSUME TypeOK, [Next]_vars
  PROVE  \/ run'.pc \notin {"settle", "compensate"}
         \/ run'.pc = "settle" /\ run'.failure = "interrupted"
         \/ run.pc \in AtWork /\ StepFails
         \/ BeginCompensation
         \/ CompensateNext
         \/ /\ run'.pc = run.pc /\ run'.build = run.build /\ run'.at = run.at
            /\ run'.failure = run.failure /\ run'.noReturnIdx = run.noReturnIdx
            /\ run'.completed = run.completed /\ run'.todo = run.todo
            /\ rec' = rec /\ effect' = effect
<1>1. ASSUME NEW b \in Builds, Start(b) \/ Resume(b) PROVE run'.pc = "loop"
  BY <1>1, MemoryType DEF Start, Resume, Begin
<1>2. CASE SkipCredited \/ BeginStep \/ BeginExecute \/ ExecuteSucceeds
  BY <1>2 DEF SkipCredited, BeginStep, BeginExecute, ExecuteSucceeds, InLoop, TypeOK, RunMemory
<1>3. CASE CheckSatisfied \/ VerifySucceeds
  BY <1>3 DEF CheckSatisfied, VerifySucceeds, StepCompletes, TypeOK, RunMemory
<1>4. CASE StopBetweenSteps
  BY <1>4 DEF StopBetweenSteps, TypeOK, RunMemory
<1>5. CASE CheckFails \/ ExecuteFails \/ VerifyFails
  BY <1>5 DEF CheckFails, ExecuteFails, VerifyFails, AtWork
<1>6. CASE Succeed \/ SettleInterrupted \/ SettleAbort \/ SettleCompensated \/ Crash
  BY <1>6, IdleType DEF Succeed, SettleInterrupted, SettleAbort, SettleCompensated, EndsAs, Crash
<1>7. CASE Cancel
  BY <1>7 DEF Cancel, TypeOK, RunMemory
<1>8. CASE ClearIntervention \/ UNCHANGED vars
  BY <1>8 DEF ClearIntervention, vars
<1>9. QED
  BY <1>1, <1>2, <1>3, <1>4, <1>5, <1>6, <1>7, <1>8 DEF Next, RunStep, Settle

\* ListInv is kept: compensation begins with everything it may undo past the
\* point, and a step leaves the list undone, failed to be, or with nothing to undo.
LEMMA ListStep == EngineInv /\ ListInv /\ [Next]_vars => ListInv'
<1> SUFFICES ASSUME EngineInv, ListInv, [Next]_vars PROVE ListInv'
  OBVIOUS
<1>1. TypeOK /\ run \in RunMemory
  BY DEF EngineInv, TypeOK
<1>2. CASE run'.pc \notin {"settle", "compensate"}
  BY <1>2 DEF ListInv
<1>3. CASE run'.pc = "settle" /\ run'.failure = "interrupted"
  BY <1>3 DEF ListInv
<1>4. CASE run.pc \in AtWork /\ StepFails
  <2>1. run.at \in Index /\ rec \in Record
    BY <1>1, <1>4 DEF TypeOK, AtWork
  <2>2. rec'.steps[run.at].status = "failed"
    <3>1. "failed" \in StepStatus /\ rec' = WithStatus(rec, run.at, "failed")
      BY <1>4 DEF StepFails, StepStatus
    <3>2. QED
      BY <2>1, <3>1, WithStatusType
  <2>3. run'.pc = "loop" \/ (run'.pc = "settle" /\ run'.at = run.at)
    <3>1. CASE run' = [run EXCEPT !.pc = "loop", !.at = @ + 1]
      BY <1>1, <3>1 DEF RunMemory
    <3>2. CASE \E f \in {"error", "interrupted"} :
                 run' = [run EXCEPT !.pc = "settle", !.failure = f]
      BY <1>1, <3>2 DEF RunMemory
    <3>3. QED
      BY <1>4, <3>1, <3>2 DEF StepFails
  <2>4. QED
    BY <2>2, <2>3 DEF ListInv
<1>5. CASE BeginCompensation
  <2>1. /\ run'.pc = "compensate" /\ run'.todo = ToCompensate /\ run'.at = run.at
        /\ run'.completed = run.completed /\ run'.noReturnIdx = run.noReturnIdx
        /\ run'.build = run.build
        /\ rec' = rec /\ rec.steps[run.at].status = "failed"
    BY <1>1, <1>5 DEF BeginCompensation, ListInv, RunMemory
  <2>2. ASSUME NEW j \in run.completed \cup {run.at}, Undoable(j),
               run.noReturnIdx > 0 => j > run.noReturnIdx
        PROVE  j \in ToCompensate
    BY <2>1, <2>2 DEF ToCompensate, Undoable, Current
  <2>3. QED
    BY <2>1, <2>2 DEF ListInv, Undoable
<1>6. CASE CompensateNext
  <2>1. PICK k \in run.todo :
          \/ /\ ~Undoable(k)
             /\ run' = [run EXCEPT !.todo = @ \ {k}]
             /\ rec' = rec /\ effect' = effect
          \/ /\ Undoable(k)
             /\ run' = [run EXCEPT !.todo = @ \ {k}]
             /\ rec' = WithStatus(rec, k, "compensated")
             /\ effect' = [effect EXCEPT ![Plan[run.build][k].id] = "none"]
          \/ /\ Undoable(k)
             /\ run' = [run EXCEPT !.todo = @ \ {k}, !.allUndone = FALSE]
             /\ effect' = [effect EXCEPT ![Plan[run.build][k].id] = "torn"]
             /\ rec' = rec
    BY <1>6 DEF CompensateNext
  <2>2. /\ run.pc = "compensate" /\ run'.pc = "compensate" /\ run'.todo = run.todo \ {k}
        /\ run'.build = run.build /\ run'.at = run.at
        /\ run'.completed = run.completed /\ run'.noReturnIdx = run.noReturnIdx
    BY <1>1, <1>6, <2>1 DEF CompensateNext, RunMemory
  <2>3. k \in Index /\ rec \in Record /\ run.build \in Builds /\ run.at \in Index
    BY <1>1, <2>2 DEF TypeOK, RunMemory
  <2>4. ASSUME NEW j \in Index, j # k
        PROVE  /\ rec'.steps[j] = rec.steps[j]
               /\ effect'[Plan[run.build][j].id] = effect[Plan[run.build][j].id]
    <3>1. Plan[run.build][j].id # Plan[run.build][k].id
      BY <2>3, <2>4, DistinctAssumption
    <3>2. rec'.steps[j] = rec.steps[j]
      <4>1. "compensated" \in StepStatus
        BY DEF StepStatus
      <4>2. QED
        BY <2>1, <2>3, <2>4, <4>1, WithStatusType
    <3>3. QED
      BY <1>1, <2>1, <2>3, <3>1, <3>2, PlanType DEF TypeOK, Step
  <2>5. ASSUME NEW j \in run.completed \cup {run.at}, Undoable(j)',
               run.noReturnIdx > 0 => j > run.noReturnIdx
        PROVE  \/ j \in run'.todo
               \/ effect'[Plan[run.build][j].id] \in {"none", "torn"}
    <3>1. j \in Index
      BY <1>1, <2>3 DEF RunMemory
    <3>2. CASE j # k
      <4>1. Undoable(j)
        BY <2>2, <2>4, <2>5, <3>1, <3>2 DEF Undoable
      <4>2. QED
        BY <2>2, <2>4, <2>5, <3>1, <3>2, <4>1 DEF ListInv
    <3>3. CASE j = k
      <4>1. Undoable(k)
        BY <2>1, <2>2, <2>5, <3>3 DEF Undoable
      <4>2. QED
        BY <1>1, <2>1, <2>3, <3>3, <4>1, PlanType DEF TypeOK, Step
    <3>4. QED
      BY <3>2, <3>3
  <2>6. QED
    BY <2>2, <2>5 DEF ListInv
<1>7. CASE /\ run'.pc = run.pc /\ run'.build = run.build /\ run'.at = run.at
           /\ run'.failure = run.failure /\ run'.noReturnIdx = run.noReturnIdx
           /\ run'.completed = run.completed /\ run'.todo = run.todo
           /\ rec' = rec /\ effect' = effect
  BY <1>7 DEF ListInv, Undoable
<1>8. QED
  BY <1>1, <1>2, <1>3, <1>4, <1>5, <1>6, <1>7, ListShape

\* Compensation is newest-first over any list of steps: when one is undone, all
\* that came after it and can be undone has been, or has failed to be (compensate).
THEOREM NewestAlwaysFirst == Spec => NewestFirst
<1>1. Init => ListInv
  BY IdleType DEF Init, ListInv
<1>2. EngineInv /\ ListInv /\ [Next]_vars =>
        [\A i \in Index :
           /\ run.pc = "compensate" /\ run'.pc = "compensate"
           /\ rec.steps[i].status # "compensated" /\ rec'.steps[i].status = "compensated"
           => \A j \in (i + 1)..N :
                j \in run.completed \cup {run.at} /\ Undoable(j) =>
                  effect[Plan[run.build][j].id] \in {"none", "torn"}]_vars
  <2> SUFFICES ASSUME EngineInv, ListInv, [Next]_vars, NEW i \in Index,
                      run.pc = "compensate", run'.pc = "compensate",
                      rec.steps[i].status # "compensated",
                      rec'.steps[i].status = "compensated",
                      NEW j \in (i + 1)..N, j \in run.completed \cup {run.at}, Undoable(j)
               PROVE  effect[Plan[run.build][j].id] \in {"none", "torn"}
    OBVIOUS
  <2>1. TypeOK /\ run \in RunMemory /\ rec \in Record
    BY DEF EngineInv, TypeOK
  <2>2. CompensateNext
    BY <2>1, ListShape DEF AtWork, BeginCompensation
  <2>3. PICK k \in run.todo : /\ Newest(run.todo, k)
                              /\ rec' = rec \/ rec' = WithStatus(rec, k, "compensated")
    BY <2>2 DEF CompensateNext
  <2>4. k \in Index /\ i = k
    <3>1. k \in Index /\ "compensated" \in StepStatus
      BY <2>1 DEF RunMemory, StepStatus
    <3>2. \A m \in Index : m # k => rec'.steps[m] = rec.steps[m]
      BY <2>1, <2>3, <3>1, WithStatusType
    <3>3. QED
      BY <3>1, <3>2
  <2>5. j \notin run.todo
    <3>1. \A m \in run.todo : m <= k
      BY <2>3 DEF Newest
    <3>2. QED
      BY <2>4, <3>1 DEF Index
  <2>6. run.noReturnIdx > 0 => j > run.noReturnIdx
    <3>1. run.noReturnIdx > 0 => k > run.noReturnIdx
      BY <2>3 DEF EngineInv, UndoneOnlyPast
    <3>2. run.noReturnIdx \in 0..N
      BY <2>1 DEF RunMemory
    <3>3. QED
      BY <2>4, <3>1, <3>2 DEF Index
  <2>7. QED
    BY <2>5, <2>6 DEF ListInv
<1>3. QED
  BY <1>1, <1>2, ListStep, EngineInvHolds, PTL DEF Spec, NewestFirst

-----------------------------------------------------------------------------
(* The first process of an operation, and what it says it undid *)

\* What step i of the live process's list has left on the machine.
Leaves(i) == effect[Plan[run.build][i].id]

\* The loop has yet to execute step i.
Ahead(i) == i > run.at \/ (i = run.at /\ run.pc \in {"loop", "check"})

\* The way back is closed by a step this process completed.
ClosedHere == /\ passed => run.noReturn
              /\ run.noReturn => run.noReturnIdx > 0 \/ (run.pc = "verify" /\ Current.passes)

\* What lies behind is completed or was allowed to fail, and what was completed
\* is whole; a skipped step left nothing, for nobody worked before this process.
FirstBehind ==
  /\ run.completed \subseteq 1..(run.at - 1)
  /\ \A i \in 1..(run.at - 1) : Plan[run.build][i].policy # "continue" => i \in run.completed
  /\ \A i \in run.completed : /\ Leaves(i) # "partial"
                              /\ rec.steps[i].status = "skipped" => Leaves(i) = "none"

\* Compensation is for the failed step and those before it; that step is on
\* record as failed unless it was undone.
FirstBack ==
  run.pc = "compensate" =>
    /\ Current.policy = "compensate"
    /\ run.todo \subseteq run.completed \cup {run.at}
    /\ rec.steps[run.at].status \in {"failed", "compensated"}
    /\ Leaves(run.at) = "partial" => rec.steps[run.at].status = "failed"

\* The process nobody worked before: what lies ahead of it is untouched, and
\* what compensation could not take back it knows of.
FirstRun ==
  /\ ClosedHere /\ FirstBehind /\ FirstBack
  /\ \A i \in Index : Ahead(i) => Leaves(i) = "none" /\ ~Finished(rec.steps[i])
  /\ \A i \in Index : Leaves(i) = "torn" => ~run.allUndone
  /\ run.pc = "verify" => Leaves(run.at) = "done"

\* Before the operation's first process nothing has been done or written.
Untouched ==
  /\ run.pc = "idle" /\ journal = NoRecord /\ ~passed
  /\ \A s \in StepIDs : effect[s] = "none"

FirstInv ==
  /\ runs = 0 => Untouched
  /\ runs = 1 /\ run.pc # "idle" => FirstRun
  /\ CompensatedByOneRun

\* What a process at work has in hand.
LEMMA FirstTypes ==
  ASSUME EngineInv, run.pc # "idle"
  PROVE  /\ TypeOK /\ run \in RunMemory /\ rec \in Record /\ run.build \in Builds
         /\ effect \in [StepIDs -> Effects]
         /\ \A i \in Index : Plan[run.build][i] \in Step /\ Plan[run.build][i].id \in StepIDs
         /\ run.pc # "loop" => run.at \in Index /\ Current = Plan[run.build][run.at]
  BY PlanType DEF EngineInv, TypeOK, Current, Step

\* Work on one step of a list touches what no other step has left.
LEMMA Apart ==
  ASSUME EngineInv, run.pc # "idle", run'.build = run.build, NEW k \in Index, NEW e,
         effect' = [effect EXCEPT ![Plan[run.build][k].id] = e]
  PROVE  /\ Leaves(k)' = e
         /\ \A j \in Index : j # k => Leaves(j)' = Leaves(j)
<1>1. \A j \in Index : Plan[run.build][j].id = Plan[run.build][k].id => j = k
  BY FirstTypes, DistinctAssumption
<1>2. effect \in [StepIDs -> Effects] /\ \A j \in Index : Plan[run.build][j].id \in StepIDs
  BY FirstTypes
<1>3. QED
  BY <1>1, <1>2 DEF Leaves

\* The operation's first process begins with nothing done and nothing credited.
LEMMA FirstBegins ==
  ASSUME EngineInv, Untouched, NEW b \in Builds, Start(b)
  PROVE  FirstRun'
<1>1. /\ run' = Memory("loop", b) /\ rec' = FreshRecord(b)
      /\ effect' = effect /\ passed' = passed
  BY DEF Start, Begin
<1>2. /\ run'.pc = "loop" /\ run'.build = b /\ run'.at = 1 /\ run'.completed = {}
      /\ ~run'.noReturn /\ run'.allUndone
  BY <1>1 DEF Memory
<1>3. \A i \in Index : Leaves(i)' = "none"
  BY <1>1, <1>2, PlanType DEF Leaves, Untouched, Step
<1>4. \A i \in Index : rec'.steps[i].status = "pending"
  BY <1>1 DEF FreshRecord
<1>5. ClosedHere' /\ FirstBehind' /\ FirstBack'
  BY <1>1, <1>2 DEF ClosedHere, FirstBehind, FirstBack, Untouched
<1>6. QED
  BY <1>2, <1>3, <1>4, <1>5 DEF FirstRun, Finished

\* The loop stops at a step it has not begun, or begins it.
LEMMA FirstStopsOrBegins ==
  ASSUME EngineInv, FirstRun, StopBetweenSteps \/ BeginStep
  PROVE  FirstRun'
<1>1. run.pc = "loop" /\ run.at \in Index
  <2>1. run.pc = "loop" /\ run.at <= N
    BY DEF StopBetweenSteps, BeginStep, InLoop
  <2>2. QED
    BY <2>1 DEF EngineInv, TypeOK, RunMemory, Index
<1>2. run \in RunMemory /\ rec \in Record
  BY <1>1, FirstTypes
<1>3. PICK s \in {"interrupted", "running"} :
        /\ rec' = WithStatus(rec, run.at, s)
        /\ run'.pc = (IF s = "running" THEN "check" ELSE "settle")
  BY <1>2 DEF StopBetweenSteps, BeginStep, RunMemory
<1>4. /\ run'.build = run.build /\ run'.at = run.at /\ run'.completed = run.completed
      /\ run'.noReturn = run.noReturn /\ run'.noReturnIdx = run.noReturnIdx
      /\ run'.allUndone = run.allUndone /\ effect' = effect /\ passed' = passed
  <2>1. CASE StopBetweenSteps
    BY <1>2, <2>1 DEF StopBetweenSteps, RunMemory
  <2>2. CASE BeginStep
    BY <1>2, <2>2 DEF BeginStep, RunMemory
  <2>3. QED
    BY <2>1, <2>2
<1>5. /\ rec'.steps[run.at].status = s
      /\ \A j \in Index : j # run.at => rec'.steps[j] = rec.steps[j]
  <2>1. s \in StepStatus
    BY DEF StepStatus
  <2>2. QED
    BY <1>1, <1>2, <1>3, <2>1, WithStatusType
<1>6. \A i \in Index : Leaves(i)' = Leaves(i) /\ (Ahead(i)' => Ahead(i))
  BY <1>1, <1>3, <1>4 DEF Leaves, Ahead
<1>7. ClosedHere'
  BY <1>1, <1>3, <1>4 DEF ClosedHere, FirstRun
<1>8. FirstBehind'
  <2>1. \A i \in run.completed : i \in Index /\ i # run.at
    BY <1>1, <1>2 DEF FirstRun, FirstBehind, RunMemory, Index
  <2>2. QED
    BY <1>4, <1>5, <1>6, <2>1 DEF FirstRun, FirstBehind
<1>9. FirstBack' /\ run'.pc # "verify"
  BY <1>3 DEF FirstBack
<1>10. \A i \in Index : Ahead(i)' => Leaves(i)' = "none" /\ ~Finished(rec'.steps[i])
  BY <1>5, <1>6 DEF FirstRun, Finished
<1>11. QED
  BY <1>4, <1>6, <1>7, <1>8, <1>9, <1>10 DEF FirstRun

\* A step completes: whole after Verify, untouched when its Check skips it.
LEMMA FirstCompletes ==
  ASSUME EngineInv, FirstRun, CheckSatisfied \/ VerifySucceeds
  PROVE  FirstRun'
<1>1. /\ run.pc \in {"check", "verify"} /\ run \in RunMemory /\ rec \in Record
      /\ run.at \in Index
  BY FirstTypes DEF CheckSatisfied, VerifySucceeds
<1>2. PICK s \in {"skipped", "succeeded"} :
        /\ StepCompletes(s)
        /\ s = "skipped" => run.pc = "check"
        /\ s = "succeeded" => run.pc = "verify"
  BY DEF CheckSatisfied, VerifySucceeds
<1>3. effect' = effect /\ passed' = passed
  BY DEF CheckSatisfied, VerifySucceeds
<1>4. /\ run'.pc = "loop" /\ run'.build = run.build /\ run'.at = run.at + 1
      /\ run'.completed = run.completed \cup {run.at} /\ run'.noReturn = run.noReturn
      /\ run'.noReturnIdx = IF run.noReturnIdx = 0 /\ run.noReturn THEN run.at ELSE run.noReturnIdx
      /\ run'.allUndone = run.allUndone
  BY <1>1, <1>2 DEF StepCompletes, RunMemory
<1>5. /\ rec'.steps[run.at].status = s
      /\ \A j \in Index : j # run.at => rec'.steps[j] = rec.steps[j]
  <2>1. s \in StepStatus /\ rec' = WithStatus(rec, run.at, s)
    BY <1>2 DEF StepCompletes, StepStatus
  <2>2. QED
    BY <1>1, <2>1, WithStatusType
<1>6. \A i \in Index : Leaves(i)' = Leaves(i)
  BY <1>3, <1>4 DEF Leaves
<1>7. ClosedHere'
  BY <1>1, <1>3, <1>4 DEF ClosedHere, FirstRun, RunMemory, Index
<1>8. FirstBehind'
  <2>1. \A i \in run.completed : i \in Index /\ i # run.at /\ i \in 1..run.at
    BY <1>1 DEF FirstRun, FirstBehind, RunMemory, Index
  <2>2. run'.completed \subseteq 1..(run'.at - 1)
    BY <1>1, <1>4, <2>1 DEF Index
  <2>3. ASSUME NEW i \in 1..(run'.at - 1), Plan[run'.build][i].policy # "continue"
        PROVE  i \in run'.completed
    BY <1>1, <1>4, <2>3 DEF FirstRun, FirstBehind, Index
  <2>4. Leaves(run.at) # "partial" /\ (s = "skipped" => Leaves(run.at) = "none")
    BY <1>1, <1>2 DEF FirstRun, Ahead
  <2>5. ASSUME NEW i \in run'.completed
        PROVE  /\ Leaves(i)' # "partial"
               /\ rec'.steps[i].status = "skipped" => Leaves(i)' = "none"
    <3>1. CASE i = run.at
      BY <1>1, <1>5, <1>6, <2>4, <3>1
    <3>2. CASE i # run.at
      BY <1>4, <1>5, <1>6, <2>1, <2>5, <3>2 DEF FirstRun, FirstBehind
    <3>3. QED
      BY <3>1, <3>2
  <2>6. QED
    BY <2>2, <2>3, <2>5 DEF FirstBehind
<1>9. FirstBack' /\ run'.pc # "verify"
  BY <1>4 DEF FirstBack
<1>10. ASSUME NEW i \in Index, Ahead(i)'
       PROVE  Leaves(i)' = "none" /\ ~Finished(rec'.steps[i])
  <2>1. i # run.at /\ Ahead(i)
    BY <1>1, <1>4, <1>10 DEF Ahead, Index
  <2>2. QED
    BY <1>5, <1>6, <2>1 DEF FirstRun
<1>11. QED
  BY <1>4, <1>6, <1>7, <1>8, <1>9, <1>10 DEF FirstRun

\* A step fails: no step that closes the way back does so after its Execute.
LEMMA FirstFails ==
  ASSUME EngineInv, FirstRun, CheckFails \/ ExecuteFails \/ VerifyFails
  PROVE  FirstRun'
<1>1. /\ run.pc \in AtWork /\ run \in RunMemory /\ rec \in Record /\ run.at \in Index
      /\ StepFails /\ Current = Plan[run.build][run.at] /\ run.build \in Builds
  BY FirstTypes DEF CheckFails, ExecuteFails, VerifyFails, AtWork
<1>2. run.noReturn => run.noReturnIdx > 0
  <2>1. run.pc = "verify" => Current.verifies
    BY DEF CheckFails, ExecuteFails, VerifyFails
  <2>2. run.pc = "verify" => ~Current.passes
    BY <1>1, <2>1, UndoAssumption
  <2>3. QED
    BY <2>2 DEF FirstRun, ClosedHere
<1>3. /\ run'.build = run.build /\ run'.completed = run.completed
      /\ run'.noReturn = run.noReturn /\ run'.noReturnIdx = run.noReturnIdx
      /\ run'.allUndone = run.allUndone /\ effect' = effect /\ passed' = passed
      /\ \/ run'.pc = "loop" /\ run'.at = run.at + 1 /\ Current.policy = "continue"
         \/ run'.pc = "settle" /\ run'.at = run.at
  <2>1. CASE /\ Current.policy = "continue"
             /\ run' = [run EXCEPT !.pc = "loop", !.at = @ + 1]
    BY <1>1, <2>1 DEF RunMemory, StepFails
  <2>2. CASE \E f \in {"error", "interrupted"} :
               run' = [run EXCEPT !.pc = "settle", !.failure = f]
    BY <1>1, <2>2 DEF RunMemory, StepFails
  <2>3. QED
    BY <1>1, <2>1, <2>2 DEF StepFails
<1>4. /\ rec'.steps[run.at].status = "failed"
      /\ \A j \in Index : j # run.at => rec'.steps[j] = rec.steps[j]
  <2>1. "failed" \in StepStatus /\ rec' = WithStatus(rec, run.at, "failed")
    BY <1>1 DEF StepFails, StepStatus
  <2>2. QED
    BY <1>1, <2>1, WithStatusType
<1>5. \A i \in Index : Leaves(i)' = Leaves(i)
  BY <1>3 DEF Leaves
<1>6. ClosedHere'
  BY <1>2, <1>3 DEF ClosedHere, FirstRun
<1>7. FirstBehind'
  <2>1. \A i \in run.completed : i \in Index /\ i # run.at /\ i \in 1..(run.at - 1)
    BY <1>1 DEF FirstRun, FirstBehind, RunMemory, Index
  <2>2. run'.completed \subseteq 1..(run'.at - 1)
    BY <1>1, <1>3, <2>1 DEF Index
  <2>3. ASSUME NEW i \in 1..(run'.at - 1), Plan[run'.build][i].policy # "continue"
        PROVE  i \in run'.completed
    BY <1>1, <1>3, <2>3 DEF FirstRun, FirstBehind, Index
  <2>4. QED
    BY <1>3, <1>4, <1>5, <2>1, <2>2, <2>3 DEF FirstRun, FirstBehind
<1>8. FirstBack' /\ run'.pc # "verify"
  BY <1>3 DEF FirstBack
<1>9. ASSUME NEW i \in Index, Ahead(i)'
      PROVE  Leaves(i)' = "none" /\ ~Finished(rec'.steps[i])
  <2>1. i # run.at /\ Ahead(i)
    BY <1>1, <1>3, <1>9 DEF Ahead, Index
  <2>2. QED
    BY <1>4, <1>5, <2>1 DEF FirstRun
<1>10. QED
  BY <1>3, <1>5, <1>6, <1>7, <1>8, <1>9 DEF FirstRun

\* Execute begins to change the machine, or returns having done its work.
LEMMA FirstExecutes ==
  ASSUME EngineInv, FirstRun, BeginExecute \/ ExecuteSucceeds
  PROVE  FirstRun'
<1>1. /\ run.pc \in {"check", "execute"} /\ run \in RunMemory /\ rec \in Record
      /\ run.at \in Index /\ Current = Plan[run.build][run.at] /\ Current \in Step
  BY FirstTypes DEF BeginExecute, ExecuteSucceeds
<1>2. /\ run'.build = run.build /\ run'.at = run.at /\ run'.completed = run.completed
      /\ run'.noReturnIdx = run.noReturnIdx /\ run'.allUndone = run.allUndone
      /\ rec' = rec
  BY <1>1 DEF BeginExecute, ExecuteSucceeds, RunMemory
<1>3. PICK e \in {"partial", "done"} :
        /\ run'.pc = (IF e = "done" THEN "verify" ELSE "execute")
        /\ effect' = [effect EXCEPT ![Plan[run.build][run.at].id] = e]
  BY <1>1 DEF BeginExecute, ExecuteSucceeds, RunMemory
<1>4. Leaves(run.at)' = e /\ \A j \in Index : j # run.at => Leaves(j)' = Leaves(j)
  BY <1>1, <1>2, <1>3, Apart
<1>5. ClosedHere'
  <2>1. CASE BeginExecute
    BY <1>1, <2>1 DEF BeginExecute, ClosedHere, FirstRun, RunMemory
  <2>2. CASE ExecuteSucceeds
    <3>1. PICK closes \in {FALSE, Current.passes} :
            /\ run' = [run EXCEPT !.pc = "verify", !.noReturn = @ \/ closes]
            /\ passed' = (passed \/ closes)
      BY <2>2 DEF ExecuteSucceeds
    <3>2. /\ run'.noReturn = (run.noReturn \/ closes) /\ run'.pc = "verify"
          /\ closes => Current.passes
      BY <1>1, <3>1 DEF RunMemory
    <3>3. Current' = Current
      BY <1>2 DEF Current
    <3>4. (passed => run.noReturn) /\ (run.noReturn => run.noReturnIdx > 0)
      BY <2>2 DEF ExecuteSucceeds, ClosedHere, FirstRun
    <3>5. QED
      BY <1>2, <3>1, <3>2, <3>3, <3>4 DEF ClosedHere
  <2>3. QED
    BY <2>1, <2>2
<1>6. FirstBehind'
  <2>1. \A i \in run.completed : i \in Index /\ i # run.at
    BY <1>1 DEF FirstRun, FirstBehind, RunMemory, Index
  <2>2. QED
    BY <1>2, <1>4, <2>1 DEF FirstRun, FirstBehind
<1>7. FirstBack' /\ (run.pc = "verify" => Leaves(run.at) = "done")'
  BY <1>2, <1>3, <1>4 DEF FirstBack
<1>8. ASSUME NEW i \in Index, Ahead(i)'
      PROVE  Leaves(i)' = "none" /\ ~Finished(rec'.steps[i])
  <2>1. i # run.at /\ Ahead(i)
    BY <1>1, <1>2, <1>3, <1>8 DEF Ahead, Index
  <2>2. QED
    BY <1>2, <1>4, <2>1 DEF FirstRun
<1>9. QED
  BY <1>2, <1>3, <1>4, <1>5, <1>6, <1>7, <1>8 DEF FirstRun

\* Compensation begins with steps of this process, the failed one on record.
LEMMA FirstTurnsBack ==
  ASSUME EngineInv, ListInv, FirstRun, BeginCompensation
  PROVE  FirstRun'
<1>1. run.pc = "settle" /\ run \in RunMemory /\ run.at \in Index
  BY FirstTypes DEF BeginCompensation
<1>2. /\ run'.pc = "compensate" /\ run'.build = run.build /\ run'.at = run.at
      /\ run'.completed = run.completed /\ run'.noReturn = run.noReturn
      /\ run'.noReturnIdx = run.noReturnIdx /\ run'.allUndone = run.allUndone
      /\ run'.todo = ToCompensate /\ Current.policy = "compensate"
      /\ rec' = rec /\ effect' = effect /\ passed' = passed
  BY <1>1 DEF BeginCompensation, RunMemory
<1>3. Current' = Current /\ \A i : Leaves(i)' = Leaves(i) /\ (Ahead(i)' <=> Ahead(i))
  BY <1>1, <1>2 DEF Current, Leaves, Ahead
<1>4. FirstBack'
  <2>1. rec.steps[run.at].status = "failed"
    BY DEF BeginCompensation, ListInv
  <2>2. ToCompensate \subseteq run.completed \cup {run.at}
    BY DEF ToCompensate
  <2>3. QED
    BY <1>2, <1>3, <2>1, <2>2 DEF FirstBack
<1>5. ClosedHere' /\ FirstBehind'
  BY <1>1, <1>2, <1>3 DEF ClosedHere, FirstBehind, FirstRun
<1>6. QED
  BY <1>2, <1>3, <1>4, <1>5 DEF FirstRun

\* A step is undone, fails to be, or has nothing to undo.
LEMMA FirstUndoes ==
  ASSUME EngineInv, FirstRun, CompensateNext
  PROVE  FirstRun'
<1>1. /\ run.pc = "compensate" /\ run \in RunMemory /\ rec \in Record /\ run.at \in Index
  BY FirstTypes DEF CompensateNext
<1>2. PICK k \in run.todo :
        \/ /\ ~Undoable(k)
           /\ run' = [run EXCEPT !.todo = @ \ {k}]
           /\ rec' = rec /\ effect' = effect
        \/ /\ Undoable(k)
           /\ run' = [run EXCEPT !.todo = @ \ {k}]
           /\ rec' = WithStatus(rec, k, "compensated")
           /\ effect' = [effect EXCEPT ![Plan[run.build][k].id] = "none"]
        \/ /\ Undoable(k)
           /\ run' = [run EXCEPT !.todo = @ \ {k}, !.allUndone = FALSE]
           /\ effect' = [effect EXCEPT ![Plan[run.build][k].id] = "torn"]
           /\ rec' = rec
  BY DEF CompensateNext
<1>3. /\ run'.pc = "compensate" /\ run'.build = run.build /\ run'.at = run.at
      /\ run'.completed = run.completed /\ run'.noReturn = run.noReturn
      /\ run'.noReturnIdx = run.noReturnIdx /\ run'.todo = run.todo \ {k}
      /\ run'.allUndone => run.allUndone
      /\ passed' = passed
  BY <1>1, <1>2 DEF CompensateNext, RunMemory
<1>4. k \in Index /\ k \in run.completed \cup {run.at}
  BY <1>1 DEF FirstRun, FirstBack, RunMemory
<1>5. /\ \A j \in Index : j # k => Leaves(j)' = Leaves(j) /\ rec'.steps[j] = rec.steps[j]
      /\ \/ Leaves(k)' = Leaves(k) /\ rec'.steps[k] = rec.steps[k]
         \/ Leaves(k)' = "none" /\ rec'.steps[k].status = "compensated"
         \/ /\ Leaves(k)' = "torn" /\ ~run'.allUndone
            /\ rec'.steps[k] = rec.steps[k] /\ rec.steps[k].status # "skipped"
  <2>1. CASE rec' = rec /\ effect' = effect
    BY <1>3, <2>1 DEF Leaves
  <2>2. CASE /\ rec' = WithStatus(rec, k, "compensated")
             /\ effect' = [effect EXCEPT ![Plan[run.build][k].id] = "none"]
    <3>1. Leaves(k)' = "none" /\ \A j \in Index : j # k => Leaves(j)' = Leaves(j)
      BY <1>1, <1>3, <1>4, <2>2, Apart
    <3>2. /\ rec'.steps[k].status = "compensated"
          /\ \A j \in Index : j # k => rec'.steps[j] = rec.steps[j]
      <4>1. "compensated" \in StepStatus
        BY DEF StepStatus
      <4>2. QED
        BY <1>1, <1>4, <2>2, <4>1, WithStatusType
    <3>3. QED
      BY <3>1, <3>2
  <2>3. CASE /\ Undoable(k)
             /\ run' = [run EXCEPT !.todo = @ \ {k}, !.allUndone = FALSE]
             /\ effect' = [effect EXCEPT ![Plan[run.build][k].id] = "torn"]
             /\ rec' = rec
    <3>1. Leaves(k)' = "torn" /\ \A j \in Index : j # k => Leaves(j)' = Leaves(j)
      BY <1>1, <1>3, <1>4, <2>3, Apart
    <3>2. ~run'.allUndone
      BY <1>1, <2>3 DEF RunMemory
    <3>3. QED
      BY <2>3, <3>1, <3>2 DEF Undoable
  <2>4. QED
    BY <1>2, <2>1, <2>2, <2>3
<1>6. ClosedHere'
  BY <1>1, <1>3 DEF ClosedHere, FirstRun
<1>7. FirstBehind'
  <2>1. run.completed \subseteq Index
    BY <1>1 DEF RunMemory
  <2>2. ASSUME NEW i \in run.completed
        PROVE  /\ Leaves(i)' # "partial"
               /\ rec'.steps[i].status = "skipped" => Leaves(i)' = "none"
    BY <1>5, <2>1 DEF FirstRun, FirstBehind
  <2>3. QED
    BY <1>3, <2>2 DEF FirstRun, FirstBehind
<1>8. FirstBack'
  <2>1. /\ rec'.steps[run.at].status \in {"failed", "compensated"}
        /\ Leaves(run.at)' = "partial" => rec'.steps[run.at].status = "failed"
    <3>1. /\ Leaves(run.at) = "partial" => rec.steps[run.at].status = "failed"
          /\ rec.steps[run.at].status \in {"failed", "compensated"}
      BY <1>1 DEF FirstRun, FirstBack
    <3>2. \A a \in Index : a = run.at =>
            /\ rec'.steps[a].status \in {"failed", "compensated"}
            /\ Leaves(a)' = "partial" => rec'.steps[a].status = "failed"
      BY <1>5, <3>1
    <3>3. QED
      BY <1>1, <1>3, <3>2
  <2>2. Current' = Current
    BY <1>3 DEF Current
  <2>3. QED
    BY <1>1, <1>3, <2>1, <2>2 DEF FirstRun, FirstBack
<1>9. ASSUME NEW i \in Index, Ahead(i)'
      PROVE  Leaves(i)' = "none" /\ ~Finished(rec'.steps[i])
  <2>1. Ahead(i)
    BY <1>1, <1>3, <1>9 DEF Ahead
  <2>2. i # k
    BY <1>1, <1>4, <2>1 DEF Ahead, FirstRun, FirstBehind, Index
  <2>3. QED
    BY <1>5, <2>1, <2>2 DEF FirstRun
<1>10. ASSUME NEW i \in Index, Leaves(i)' = "torn" PROVE ~run'.allUndone
  BY <1>3, <1>5, <1>10 DEF FirstRun
<1>11. QED
  BY <1>3, <1>6, <1>7, <1>8, <1>9, <1>10 DEF FirstRun

\* Every action of the operation's first process keeps what it knows.
LEMMA FirstRunStep ==
  ASSUME EngineInv, ListInv, FirstRun, [Next]_vars, run.pc # "idle", run'.pc # "idle"
  PROVE  FirstRun'
<1>1. run \in RunMemory
  BY FirstTypes
<1>2. CASE SkipCredited
  <2>1. run.at \in Index /\ Ahead(run.at) /\ Finished(rec.steps[run.at])
    BY <1>1, <1>2 DEF SkipCredited, InLoop, Credited, Ahead, RunMemory, Index
  <2>2. QED
    BY <2>1 DEF FirstRun
<1>3. CASE StopBetweenSteps \/ BeginStep
  BY <1>3, FirstStopsOrBegins
<1>4. CASE CheckSatisfied \/ VerifySucceeds
  BY <1>4, FirstCompletes
<1>5. CASE CheckFails \/ ExecuteFails \/ VerifyFails
  BY <1>5, FirstFails
<1>6. CASE BeginExecute \/ ExecuteSucceeds
  BY <1>6, FirstExecutes
<1>7. CASE BeginCompensation
  BY <1>7, FirstTurnsBack
<1>8. CASE CompensateNext
  BY <1>8, FirstUndoes
<1>9. CASE Cancel \/ UNCHANGED vars
  <2>1. /\ run'.pc = run.pc /\ run'.build = run.build /\ run'.at = run.at
        /\ run'.completed = run.completed /\ run'.noReturn = run.noReturn
        /\ run'.noReturnIdx = run.noReturnIdx /\ run'.allUndone = run.allUndone
        /\ run'.todo = run.todo /\ rec' = rec /\ effect' = effect /\ passed' = passed
    BY <1>1, <1>9 DEF Cancel, vars, RunMemory
  <2>2. Current' = Current /\ \A i : Leaves(i)' = Leaves(i) /\ (Ahead(i)' <=> Ahead(i))
    BY <2>1 DEF Current, Leaves, Ahead
  <2>3. ClosedHere' /\ FirstBehind' /\ FirstBack'
    BY <2>1, <2>2 DEF ClosedHere, FirstBehind, FirstBack, FirstRun
  <2>4. QED
    BY <2>1, <2>2, <2>3 DEF FirstRun
<1>10. CASE Succeed \/ SettleInterrupted \/ SettleAbort \/ SettleCompensated \/ Crash
  BY <1>10, IdleType DEF Succeed, SettleInterrupted, SettleAbort, SettleCompensated,
                         EndsAs, Crash
<1>11. CASE (\E b \in Builds : Start(b) \/ Resume(b)) \/ ClearIntervention
  BY <1>11 DEF Start, Resume, ClearIntervention
<1>12. QED
  BY <1>2, <1>3, <1>4, <1>5, <1>6, <1>7, <1>8, <1>9, <1>10, <1>11 DEF Next, RunStep, Settle

\* When compensation is over and everything was undone, nothing is left that it
\* was for.
LEMMA FirstUndone ==
  ASSUME EngineInv, ListInv, FirstRun, run.pc = "compensate", run.todo = {},
         ~Irreversible, ~(run.noReturnIdx > 0), run.allUndone
  PROVE  /\ ~passed
         /\ \A i \in Index : /\ Plan[run.build][i].compensates => Leaves(i) = "none"
                             /\ Plan[run.build][i].intervenes => Leaves(i) # "partial"
<1>1. ~passed
  BY DEF FirstRun, ClosedHere
<1>2. /\ run.at \in Index /\ run.build \in Builds /\ run \in RunMemory
      /\ Current = Plan[run.build][run.at]
  BY FirstTypes
<1>3. ASSUME NEW j \in run.completed \cup {run.at}, Plan[run.build][j].compensates,
             rec.steps[j].status # "skipped"
      PROVE  Leaves(j) = "none"
  <2>1. j \in Index /\ Undoable(j)
    BY <1>2, <1>3 DEF Undoable, RunMemory
  <2>2. Leaves(j) \in {"none", "torn"}
    BY <1>3, <2>1 DEF ListInv, Leaves
  <2>3. QED
    BY <2>1, <2>2 DEF FirstRun
<1>4. ASSUME NEW i \in Index
      PROVE  /\ Plan[run.build][i].compensates => Leaves(i) = "none"
             /\ Plan[run.build][i].intervenes => Leaves(i) # "partial"
  <2>1. CASE i > run.at
    BY <2>1 DEF FirstRun, Ahead
  <2>2. CASE i = run.at
    <3>1. /\ Current.policy = "compensate"
          /\ rec.steps[i].status \in {"failed", "compensated"}
          /\ Leaves(i) = "partial" => rec.steps[i].status = "failed"
      BY <2>2 DEF FirstRun, FirstBack
    <3>2. QED
      BY <1>2, <1>3, <2>2, <3>1 DEF Irreversible
  <2>3. CASE i < run.at
    <3>1. Plan[run.build][i].policy # "continue" => i \in run.completed
      BY <1>2, <2>3 DEF FirstRun, FirstBehind, Index
    <3>2. CASE Plan[run.build][i].policy = "continue"
      BY <1>2, <3>2, UndoAssumption
    <3>3. CASE i \in run.completed
      BY <1>3, <3>3 DEF FirstRun, FirstBehind
    <3>4. QED
      BY <3>1, <3>2, <3>3
  <2>4. QED
    BY <1>2, <2>1, <2>2, <2>3 DEF Index
<1>5. QED
  BY <1>1, <1>4

\* No step of an operation's first process makes its `compensated' false.
LEMMA CompensatedStep ==
  ASSUME EngineInv, ListInv, FirstInv, [Next]_vars
  PROVE  CompensatedByOneRun'
<1> SUFFICES ASSUME runs' = 1, journal'.status = "compensated"
             PROVE  /\ ~passed'
                    /\ \A i \in Index :
                         LET step == Plan[journal'.build][i]
                         IN /\ step.compensates => effect'[step.id] = "none"
                            /\ step.intervenes => effect'[step.id] # "partial"
  BY DEF CompensatedByOneRun
<1>1. TypeOK /\ EngineInv'
  BY EngineStep DEF EngineInv
<1>2. run'.pc = "idle"
  BY <1>1 DEF EngineInv, LiveRecord
<1>3. CASE \E b \in Builds : Start(b) \/ Resume(b)
  BY <1>2, <1>3, MemoryType DEF Start, Resume, Begin
<1>4. CASE RunStep \/ BeginCompensation \/ CompensateNext \/ Cancel
  <2>1. run \in RunMemory
    BY <1>1 DEF TypeOK
  <2>2. CASE SkipCredited \/ Cancel
    BY <1>2, <2>1, <2>2 DEF SkipCredited, InLoop, Cancel, RunMemory
  <2>3. CASE StopBetweenSteps \/ BeginStep \/ BeginExecute \/ ExecuteSucceeds
    BY <1>2, <2>1, <2>3 DEF StopBetweenSteps, BeginStep, BeginExecute, ExecuteSucceeds, RunMemory
  <2>4. CASE CheckSatisfied \/ VerifySucceeds
    BY <1>2, <2>1, <2>4 DEF CheckSatisfied, VerifySucceeds, StepCompletes, RunMemory
  <2>5. CASE CheckFails \/ ExecuteFails \/ VerifyFails
    <3>1. \/ run' = [run EXCEPT !.pc = "loop", !.at = @ + 1]
          \/ \E f \in {"error", "interrupted"} :
               run' = [run EXCEPT !.pc = "settle", !.failure = f]
      BY <2>5 DEF CheckFails, ExecuteFails, VerifyFails, StepFails
    <3>2. QED
      BY <1>2, <2>1, <3>1 DEF RunMemory
  <2>6. CASE BeginCompensation
    BY <1>2, <2>1, <2>6 DEF BeginCompensation, RunMemory
  <2>7. CASE CompensateNext
    <3>1. \E k \in run.todo : \/ run' = [run EXCEPT !.todo = @ \ {k}]
                             \/ run' = [run EXCEPT !.todo = @ \ {k}, !.allUndone = FALSE]
      BY <2>7 DEF CompensateNext
    <3>2. QED
      BY <1>2, <2>1, <2>7, <3>1 DEF CompensateNext, RunMemory
  <2>8. QED
    BY <1>4, <2>2, <2>3, <2>4, <2>5, <2>6, <2>7 DEF RunStep
<1>5. ASSUME run.pc # "idle", NEW s \in OpStatus \ {"compensated"}, EndsAs(s) PROVE FALSE
  <2>1. journal' = journal \/ journal'.status = s
    BY <1>1, <1>5 DEF EndsAs, Journaled, TypeOK, Record
  <2>2. QED
    BY <1>5, <2>1 DEF EngineInv, LiveRecord
<1>6. CASE Succeed \/ SettleInterrupted \/ SettleAbort
  BY <1>5, <1>6 DEF Succeed, SettleInterrupted, SettleAbort, OpStatus
<1>7. CASE SettleCompensated
  <2>1. /\ run.pc = "compensate" /\ run.todo = {}
        /\ runs = 1 /\ effect' = effect /\ passed' = passed
    BY <1>7 DEF SettleCompensated, EndsAs
  <2>2. ~Irreversible /\ ~(run.noReturnIdx > 0) /\ run.allUndone
    BY <1>5, <1>7, <2>1 DEF SettleCompensated, OpStatus
  <2>3. journal' = [rec EXCEPT !.status = "compensated"]
    <3>1. EndsAs("compensated") /\ journal' # journal
      BY <1>7, <2>1, <2>2 DEF SettleCompensated, EngineInv, LiveRecord
    <3>2. QED
      BY <3>1 DEF EndsAs, Journaled
  <2>4. journal'.build = run.build
    BY <1>1, <2>1, <2>3 DEF EngineInv, LiveRecord, TypeOK, Record
  <2>5. FirstRun
    BY <2>1 DEF FirstInv
  <2>6. QED
    BY <2>1, <2>2, <2>4, <2>5, FirstUndone DEF Leaves
<1>8. CASE Crash
  BY <1>8 DEF Crash, EngineInv, LiveRecord
<1>9. CASE ClearIntervention
  <2>1. journal \in Record
    BY <1>1, <1>9 DEF ClearIntervention, TypeOK, NoRecord
  <2>2. QED
    BY <1>9, <2>1 DEF ClearIntervention, Record
<1>10. CASE UNCHANGED vars
  BY <1>10 DEF FirstInv, CompensatedByOneRun, vars
<1>11. QED
  BY <1>3, <1>4, <1>6, <1>7, <1>8, <1>9, <1>10 DEF Next, Settle

\* The invariant of an operation's first process is kept.
LEMMA FirstStep == EngineInv /\ ListInv /\ FirstInv /\ [Next]_vars => FirstInv'
<1> SUFFICES ASSUME EngineInv, ListInv, FirstInv, [Next]_vars PROVE FirstInv'
  OBVIOUS
<1>1. CompensatedByOneRun'
  BY CompensatedStep
<1>2. CASE \E b \in Builds : Start(b) \/ Resume(b)
  <2>1. PICK b \in Builds : Start(b) \/ Resume(b)
    BY <1>2
  <2>2. runs' = runs + 1 /\ runs \in Nat
    BY <2>1 DEF Start, Resume, Begin, EngineInv, TypeOK
  <2>3. ASSUME runs = 0 PROVE FirstRun'
    <3>1. Untouched
      BY <2>3 DEF FirstInv
    <3>2. Start(b)
      BY <2>1, <3>1 DEF Resume, Untouched
    <3>3. QED
      BY <3>1, <3>2, FirstBegins
  <2>4. QED
    BY <1>1, <2>2, <2>3 DEF FirstInv
<1>3. CASE runs' = runs /\ (run.pc # "idle" \/ ClearIntervention \/ UNCHANGED vars)
  <2>1. ASSUME runs = 0 PROVE Untouched'
    <3>1. Untouched
      BY <2>1 DEF FirstInv
    <3>2. UNCHANGED vars
      BY <1>3, <3>1 DEF Untouched, ClearIntervention, NoRecord
    <3>3. QED
      BY <3>1, <3>2 DEF Untouched, vars
  <2>2. ASSUME runs = 1, run'.pc # "idle" PROVE FirstRun'
    <3>1. run.pc # "idle"
      BY <1>3, <2>2 DEF ClearIntervention, vars
    <3>2. FirstRun
      BY <2>2, <3>1 DEF FirstInv
    <3>3. QED
      BY <2>2, <3>1, <3>2, FirstRunStep
  <2>3. QED
    BY <1>1, <1>3, <2>1, <2>2 DEF FirstInv
<1>4. CASE RunStep \/ Settle \/ Cancel \/ Crash \/ ClearIntervention \/ UNCHANGED vars
  BY <1>3, <1>4 DEF RunStep, Settle, SkipCredited, StopBetweenSteps, InLoop,
     BeginStep, CheckSatisfied, CheckFails, BeginExecute, ExecuteFails, ExecuteSucceeds,
     VerifyFails, VerifySucceeds, StepCompletes, StepFails, Succeed, SettleInterrupted,
     SettleAbort, BeginCompensation, CompensateNext, SettleCompensated, EndsAs, Cancel,
     Crash, ClearIntervention, vars
<1>5. QED
  BY <1>2, <1>4 DEF Next

\* `compensated', told by the process that did the work, is true for every list
\* of steps: what a compensator undoes is gone, nothing beyond repair is half
\* done, and the way back was never closed (handleFailure, OperationStatus).
THEOREM CompensatedAlwaysTrue == Spec => []CompensatedByOneRun
<1>1. Init => ListInv /\ FirstInv
  BY IdleType DEF Init, ListInv, FirstInv, Untouched, CompensatedByOneRun
<1>2. QED
  BY <1>1, ListStep, FirstStep, EngineInvHolds, PTL DEF Spec, FirstInv

=============================================================================
