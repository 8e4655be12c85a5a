----------------------------- MODULE StepEngine -----------------------------
(***************************************************************************)
(* internal/lifecycle/engine: one operation run as a list of steps, with   *)
(* its journal, compensation, cancellation, crashes and --resume.          *)
(*                                                                         *)
(* A step is described by what the engine reads of it.  What its functions *)
(* do to the machine is `effect': Execute leaves the step's work "partial" *)
(* until it returns, Compensate takes it back.  The journal is the only    *)
(* thing, beside the machine itself, that survives a crash.                *)
(***************************************************************************)
EXTENDS Integers, FiniteSets

CONSTANTS
  N,         \* number of steps of the operation
  StepIDs,   \* step names
  Builds,    \* versions of the manager that may run or resume the operation
  Plan,      \* Plan[b][i]: the i-th step of the operation as build b plans it
  NoBuild,   \* no build: nothing has run yet
  MaxRuns,   \* bound: processes that work on the operation
  MaxLost    \* bound: journal writes that fail

Index == 1..N

Policies == {"abort", "compensate", "continue"}

Step == [id : StepIDs, policy : Policies, idempotent : BOOLEAN,
         restartable : BOOLEAN, checks : BOOLEAN, verifies : BOOLEAN,
         compensates : BOOLEAN, intervenes : BOOLEAN, passes : BOOLEAN]

ASSUME BoundAssumption == N \in Nat \ {0} /\ MaxRuns \in Nat /\ MaxLost \in Nat

ASSUME NoBuildAssumption == NoBuild \notin Builds

ASSUME PlanAssumption == Plan \in [Builds -> [Index -> Step]]

\* Steps of one plan have distinct names.
ASSUME DistinctAssumption ==
  \A b \in Builds : \A i, j \in Index : Plan[b][i].id = Plan[b][j].id => i = j

\* In every operation that accepts --resume a step with a Compensate is
\* idempotent (apply.go, update.go, backup.go stepStopServices, rotate.go), in
\* every build that knows the step.
ASSUME CompensableAssumption ==
  \A b, c \in Builds : \A i \in Index :
    Plan[b][i].compensates /\ Plan[c][i].id = Plan[b][i].id => Plan[c][i].idempotent

\* StepRecord and Step alike: an interrupted attempt may be started again.
SafeAgain(s) == s.idempotent \/ s.restartable

\* What follows a step that may fail is safe to start again: the optional steps
\* are the prunes, idempotent and last in their lists (backup.go, update.go).
ASSUME OptionalAssumption ==
  \A b \in Builds : \A i \in Index : \A k \in 1..(i - 1) :
    Plan[b][k].policy = "continue" => SafeAgain(Plan[b][i])

\* They have nothing to undo and leave nothing that needs a person, and the step
\* that closes the way back does it last and has no Verify (apply.go, stepMigrate).
ASSUME UndoAssumption ==
  \A b \in Builds : \A i \in Index :
    /\ Plan[b][i].policy = "continue" => ~Plan[b][i].compensates /\ ~Plan[b][i].intervenes
    /\ Plan[b][i].passes => ~Plan[b][i].verifies

StepStatus == {"pending", "running", "succeeded", "failed", "skipped",
               "compensated", "interrupted"}

OpStatus == {"running", "succeeded", "failed", "compensated", "interrupted",
             "requires-manual-intervention"}

StepRecord == [id : StepIDs, status : StepStatus,
               idempotent : BOOLEAN, restartable : BOOLEAN]

\* A record says which version of the manager wrote it (ManagerVersion).
Record == [status : OpStatus, build : Builds, steps : [Index -> StepRecord]]

NoRecord == [status |-> "none"]

Effects == {"none", "partial", "done", "torn"}

VARIABLES
  run,      \* memory of the engine's Run in the live process
  rec,      \* the record that process holds, ahead of the journal
  journal,  \* the newest durable record of the operation
  effect,   \* what each step has left on the machine
  ranSafe,  \* history: the build that last executed a step calls it safe to start again
  passed,   \* history: a completed step closed the way back, in any process
  runs,     \* processes that worked on the operation so far
  lost      \* journal writes lost so far

vars == <<run, rec, journal, effect, ranSafe, passed, runs, lost>>

Memory(pc, b) == [pc |-> pc, build |-> b, at |-> 1, completed |-> {},
                  noReturn |-> FALSE, noReturnIdx |-> 0, failure |-> "none",
                  todo |-> {}, allUndone |-> TRUE, cancelled |-> FALSE]

Idle == Memory("idle", NoBuild)

Current == Plan[run.build][run.at]

-----------------------------------------------------------------------------
(* Records *)

\* StepRecord.Finished: what the journal credits.
Finished(s) == s.status \in {"succeeded", "skipped"}

FreshRecord(b) ==
  [status |-> "running", build |-> b,
   steps  |-> [i \in Index |-> [id |-> Plan[b][i].id, status |-> "pending",
                                idempotent  |-> Plan[b][i].idempotent,
                                restartable |-> Plan[b][i].restartable]]]

\* FirstIncompleteStep: no step in a state that cannot be continued from, and i
\* the first that did not finish.
FirstIncomplete(r, i) ==
  /\ \A j \in Index : r.steps[j].status # "compensated"
  /\ ~Finished(r.steps[i])
  /\ \A j \in 1..(i - 1) : Finished(r.steps[j])

SameSteps(b, prior) == \A i \in Index : Plan[b][i].id = prior.steps[i].id

ResumePoint_CodeOnly(b, prior, i) ==
  /\ prior.status \in {"running", "interrupted", "failed"}
  /\ FirstIncomplete(prior, i)
  /\ SameSteps(b, prior)
  /\ prior.steps[i].status = "pending" \/ SafeAgain(Plan[b][i])

ResumePoint_AnyStatus(b, prior, i) ==
  /\ FirstIncomplete(prior, i)
  /\ SameSteps(b, prior)
  /\ \/ prior.steps[i].status = "pending"
     \/ SafeAgain(Plan[b][i]) /\ SafeAgain(prior.steps[i])

\* resumePoint, with findResumable's choice of record.
ResumePoint(b, prior, i) ==
  /\ prior.status \in {"running", "interrupted", "failed"}
  /\ FirstIncomplete(prior, i)
  /\ SameSteps(b, prior)
  /\ \/ prior.steps[i].status = "pending"
     \/ SafeAgain(Plan[b][i]) /\ SafeAgain(prior.steps[i])

\* The prior run's finished steps, wherever they sit; the rest start pending.
ResumedRecord(b, prior) ==
  [FreshRecord(b) EXCEPT !.steps =
     [i \in Index |-> IF Finished(prior.steps[i]) THEN prior.steps[i]
                                                  ELSE FreshRecord(b).steps[i]]]

\* Engine.journal: a failed write is reported and otherwise ignored.
Journaled(r) == \/ journal' = r /\ UNCHANGED lost
                \/ lost < MaxLost /\ lost' = lost + 1 /\ UNCHANGED journal

WithStatus(r, i, s) == [r EXCEPT !.steps[i].status = s]

-----------------------------------------------------------------------------
(* Beginning *)

Begin(b, r) == /\ runs < MaxRuns
               /\ runs' = runs + 1
               /\ rec' = r
               /\ Journaled(r)
               /\ run' = Memory("loop", b)
               /\ UNCHANGED <<effect, ranSafe, passed>>

Start(b) == /\ run.pc = "idle"
            /\ journal = NoRecord
            /\ Begin(b, FreshRecord(b))

Resume(b) == /\ run.pc = "idle"
             /\ journal # NoRecord
             /\ \E i \in Index : ResumePoint(b, journal, i)
             /\ Begin(b, ResumedRecord(b, journal))

-----------------------------------------------------------------------------
(* The loop over the steps *)

Repeatable_RecordOnly == rec.steps[run.at].idempotent

Repeatable == Current.idempotent /\ rec.steps[run.at].idempotent

Credited_Any == Finished(rec.steps[run.at])

Credited == ~Repeatable /\ Finished(rec.steps[run.at])

InLoop == run.pc = "loop" /\ run.at <= N

SkipCredited == /\ InLoop
                /\ Credited
                /\ run' = [run EXCEPT !.at = @ + 1]
                /\ UNCHANGED <<rec, journal, effect, ranSafe, passed, runs, lost>>

StopBetweenSteps ==
  /\ InLoop
  /\ ~Credited
  /\ run.cancelled
  /\ rec' = WithStatus(rec, run.at, "interrupted")
  /\ run' = [run EXCEPT !.pc = "settle", !.failure = "interrupted"]
  /\ UNCHANGED <<journal, effect, ranSafe, passed, runs, lost>>

BeginStep_Unjournaled ==
  /\ InLoop
  /\ ~Credited
  /\ ~run.cancelled
  /\ rec' = WithStatus(rec, run.at, "running")
  /\ run' = [run EXCEPT !.pc = "check"]
  /\ UNCHANGED <<journal, effect, ranSafe, passed, runs, lost>>

BeginStep == /\ InLoop
             /\ ~Credited
             /\ ~run.cancelled
             /\ rec' = WithStatus(rec, run.at, "running")
             /\ Journaled(rec')
             /\ run' = [run EXCEPT !.pc = "check"]
             /\ UNCHANGED <<effect, ranSafe, passed, runs>>

\* The step is over and its record written: succeeded or skipped.  Its index
\* becomes the point of no return when the operation has just passed one.
StepCompletes(s) ==
  /\ rec' = WithStatus(rec, run.at, s)
  /\ Journaled(rec')
  /\ run' = [run EXCEPT !.pc = "loop", !.at = @ + 1,
               !.completed = @ \cup {run.at},
               !.noReturnIdx = IF @ = 0 /\ run.noReturn THEN run.at ELSE @]

StepFails_Retries ==
  /\ rec' = WithStatus(rec, run.at, "failed")
  /\ Journaled(rec')
  /\ IF Current.policy = "continue"
     THEN run' = [run EXCEPT !.pc = "loop"]
     ELSE \E f \in {"error"} \cup (IF run.cancelled THEN {"interrupted"} ELSE {}) :
            run' = [run EXCEPT !.pc = "settle", !.failure = f]
  /\ UNCHANGED <<effect, ranSafe, passed, runs>>

\* An error that is a cancelled context's is an interruption, any other is not;
\* the step is recorded failed either way, and Continue carries on past both.
StepFails ==
  /\ rec' = WithStatus(rec, run.at, "failed")
  /\ Journaled(rec')
  /\ IF Current.policy = "continue"
     THEN run' = [run EXCEPT !.pc = "loop", !.at = @ + 1]
     ELSE \E f \in {"error"} \cup (IF run.cancelled THEN {"interrupted"} ELSE {}) :
            run' = [run EXCEPT !.pc = "settle", !.failure = f]
  /\ UNCHANGED <<effect, ranSafe, passed, runs>>

\* Check sees the work done: by an earlier run, or before the operation began.
CheckSatisfied == /\ run.pc = "check"
                  /\ Current.checks
                  /\ effect[Current.id] \in {"none", "done"}
                  /\ StepCompletes("skipped")
                  /\ UNCHANGED <<effect, ranSafe, passed, runs>>

CheckFails == run.pc = "check" /\ Current.checks /\ StepFails

\* No Check, or one that finds work to do: Execute begins to change the machine.
BeginExecute == /\ run.pc = "check"
                /\ run' = [run EXCEPT !.pc = "execute"]
                /\ effect' = [effect EXCEPT ![Current.id] = "partial"]
                /\ ranSafe' = [ranSafe EXCEPT ![Current.id] = SafeAgain(Current)]
                /\ UNCHANGED <<rec, journal, passed, runs, lost>>

ExecuteFails == run.pc = "execute" /\ StepFails

ExecuteSucceeds ==
  /\ run.pc = "execute"
  /\ effect' = [effect EXCEPT ![Current.id] = "done"]
  /\ \E closes \in {FALSE, Current.passes} :
       /\ run' = [run EXCEPT !.pc = "verify", !.noReturn = @ \/ closes]
       /\ passed' = (passed \/ closes)
  /\ UNCHANGED <<rec, journal, ranSafe, runs, lost>>

VerifyFails == run.pc = "verify" /\ Current.verifies /\ StepFails

VerifySucceeds == /\ run.pc = "verify"
                  /\ StepCompletes("succeeded")
                  /\ UNCHANGED <<effect, ranSafe, passed, runs>>

-----------------------------------------------------------------------------
(* Settling *)

\* The final record is written and the process ends.
EndsAs(s) == /\ Journaled([rec EXCEPT !.status = s])
             /\ rec' = NoRecord
             /\ run' = Idle
             /\ UNCHANGED <<effect, ranSafe, passed, runs>>

Succeed == run.pc = "loop" /\ run.at > N /\ EndsAs("succeeded")

\* The failed step declared it may leave what nothing can repair.
Irreversible == /\ Current.intervenes
                /\ rec.steps[run.at].status = "failed"
                /\ Current.policy = "compensate"

ToCompensate_CompletedOnly ==
  {i \in run.completed : run.noReturnIdx > 0 => i > run.noReturnIdx}

ToCompensate_Everything ==
  run.completed \cup
    (IF Current.compensates /\ rec.steps[run.at].status = "failed" THEN {run.at} ELSE {})

\* What this run completed, and the failed step itself when it can undo its
\* work, but nothing at or before the point of no return.
ToCompensate ==
  LET mine == run.completed \cup
        (IF Current.compensates /\ rec.steps[run.at].status = "failed"
         THEN {run.at} ELSE {})
  IN  {i \in mine : run.noReturnIdx > 0 => i > run.noReturnIdx}

SettleInterrupted == /\ run.pc = "settle"
                     /\ run.failure = "interrupted"
                     /\ EndsAs("interrupted")

SettleAbort ==
  /\ run.pc = "settle"
  /\ run.failure = "error"
  /\ Current.policy = "abort"
  /\ EndsAs(IF run.noReturnIdx > 0 THEN "requires-manual-intervention" ELSE "failed")

BeginCompensation == /\ run.pc = "settle"
                     /\ run.failure = "error"
                     /\ Current.policy = "compensate"
                     /\ run' = [run EXCEPT !.pc = "compensate", !.todo = ToCompensate]
                     /\ UNCHANGED <<rec, journal, effect, ranSafe, passed, runs, lost>>

Newest_Oldest(S, i) == i \in S /\ \A j \in S : j >= i

Newest(S, i) == i \in S /\ \A j \in S : j <= i

\* Nothing to undo: no Compensate, or the step was skipped.
Undoable(i) == /\ Plan[run.build][i].compensates
               /\ rec.steps[i].status # "skipped"

\* Compensation writes nothing to the journal until it is over.
CompensateNext ==
  /\ run.pc = "compensate"
  /\ \E i \in run.todo :
       /\ Newest(run.todo, i)
       /\ \/ /\ ~Undoable(i)
             /\ run' = [run EXCEPT !.todo = @ \ {i}]
             /\ UNCHANGED <<rec, effect>>
          \/ /\ Undoable(i)
             /\ run' = [run EXCEPT !.todo = @ \ {i}]
             /\ rec' = WithStatus(rec, i, "compensated")
             /\ effect' = [effect EXCEPT ![Plan[run.build][i].id] = "none"]
          \/ /\ Undoable(i)
             /\ run' = [run EXCEPT !.todo = @ \ {i}, !.allUndone = FALSE]
             /\ effect' = [effect EXCEPT ![Plan[run.build][i].id] = "torn"]
             /\ UNCHANGED rec
  /\ UNCHANGED <<journal, ranSafe, passed, runs, lost>>

SettleCompensated ==
  /\ run.pc = "compensate"
  /\ run.todo = {}
  /\ EndsAs(IF Irreversible \/ run.noReturnIdx > 0 \/ ~run.allUndone
            THEN "requires-manual-intervention" ELSE "compensated")

-----------------------------------------------------------------------------
(* The environment *)

\* The operator's signal, or the operation's --timeout.
Cancel == /\ run.pc # "idle"
          /\ ~run.cancelled
          /\ run' = [run EXCEPT !.cancelled = TRUE]
          /\ UNCHANGED <<rec, journal, effect, ranSafe, passed, runs, lost>>

\* SIGKILL or a power cut: memory is gone, the machine and the journal stay.
Crash == /\ run.pc # "idle"
         /\ run' = Idle
         /\ rec' = NoRecord
         /\ UNCHANGED <<journal, effect, ranSafe, passed, runs, lost>>

ClearIntervention_Any ==
  /\ run.pc = "idle"
  /\ journal # NoRecord
  /\ journal' = [journal EXCEPT !.status = "failed"]
  /\ UNCHANGED <<run, rec, effect, ranSafe, passed, runs, lost>>

\* `morzer status --clear-intervention', under the deployment lock.
ClearIntervention ==
  /\ run.pc = "idle"
  /\ journal.status \in {"running", "requires-manual-intervention"}
  /\ journal' = [journal EXCEPT !.status = "failed"]
  /\ UNCHANGED <<run, rec, effect, ranSafe, passed, runs, lost>>

-----------------------------------------------------------------------------

Init == /\ run = Idle
        /\ rec = NoRecord
        /\ journal = NoRecord
        /\ effect = [s \in StepIDs |-> "none"]
        /\ ranSafe = [s \in StepIDs |-> TRUE]
        /\ passed = FALSE
        /\ runs = 0
        /\ lost = 0

RunStep == SkipCredited \/ StopBetweenSteps \/ BeginStep
           \/ CheckSatisfied \/ CheckFails \/ BeginExecute
           \/ ExecuteFails \/ ExecuteSucceeds \/ VerifyFails \/ VerifySucceeds

Settle == Succeed \/ SettleInterrupted \/ SettleAbort
          \/ BeginCompensation \/ CompensateNext \/ SettleCompensated

Next == \/ \E b \in Builds : Start(b) \/ Resume(b)
        \/ RunStep \/ Settle
        \/ Cancel \/ Crash \/ ClearIntervention

\* A live process goes on: every call a step makes is bounded by a timeout.
Fairness == WF_vars(RunStep \/ Settle)

Spec == Init /\ [][Next]_vars /\ Fairness

-----------------------------------------------------------------------------
(* Properties *)

RunMemory == [pc : {"idle", "loop", "check", "execute", "verify", "settle", "compensate"},
              build : Builds \cup {NoBuild}, at : 1..(N + 1),
              completed : SUBSET Index, noReturn : BOOLEAN, noReturnIdx : 0..N,
              failure : {"none", "error", "interrupted"}, todo : SUBSET Index,
              allUndone : BOOLEAN, cancelled : BOOLEAN]

\* Types; a live process has a build, holds a record, and is at a step except
\* at the end of the loop.
TypeOK ==
  /\ run \in RunMemory
  /\ rec \in Record \cup {NoRecord}
  /\ journal \in Record \cup {NoRecord}
  /\ effect \in [StepIDs -> Effects]
  /\ ranSafe \in [StepIDs -> BOOLEAN]
  /\ passed \in BOOLEAN
  /\ runs \in Nat /\ lost \in Nat
  /\ run.pc # "idle" => run.build \in Builds /\ rec \in Record
  /\ run.pc \notin {"idle", "loop"} => run.at \in Index

StatusOf(i) == journal.steps[i].status

\* The journal is ahead of the work: while no write was lost, a step whose work
\* is half done on the machine is recorded as started and not as finished, in
\* the record a crash now would leave (engine.go Run, contract 1).  Only a step
\* its own build called safe to start again may have gone back to pending, by a
\* resume that began again before it.
HalfDoneIsOnRecord ==
  lost = 0 /\ journal # NoRecord =>
    \A i \in Index :
      effect[journal.steps[i].id] = "partial" =>
        \/ StatusOf(i) \in {"running", "failed", "interrupted"}
        \/ StatusOf(i) = "pending" /\ ranSafe[journal.steps[i].id]

\* A `succeeded' operation did its work: whatever crashes, failed rollbacks and
\* resumes it went through, every step recorded as succeeded has its effect on
\* the machine, and only a step allowed to fail did not finish.
SuccessMeansDone ==
  lost = 0 /\ journal.status = "succeeded" =>
    \A i \in Index :
      \/ StatusOf(i) = "succeeded" /\ effect[journal.steps[i].id] = "done"
      \/ StatusOf(i) = "skipped" /\ effect[journal.steps[i].id] \in {"none", "done"}
      \/ /\ StatusOf(i) = "failed"
         /\ Plan[journal.build][i].policy = "continue"

\* `compensated', told by the process that did the work, is true: nothing a
\* compensator undoes is left, no step that declares it may leave what nothing
\* repairs is half done, and the way back was never closed (operation.go,
\* OperationStatus).  A resumed run does not undo what its Check finds done.
CompensatedByOneRun ==
  runs = 1 /\ journal.status = "compensated" =>
    /\ ~passed
    /\ \A i \in Index :
         LET step == Plan[journal.build][i]
         IN /\ step.compensates => effect[step.id] = "none"
            /\ step.intervenes => effect[step.id] # "partial"

\* Compensation never reaches the step that closed the way back, nor one before
\* it: they are the state that step's work was built on (handleFailure).
PointHolds ==
  run.pc # "idle" /\ run.noReturnIdx > 0 =>
    \A i \in 1..run.noReturnIdx : rec.steps[i].status # "compensated"

Executes(i) == run.pc = "check" /\ run'.pc = "execute" /\ run.at = i

ExecutesOverWork(i) ==
  Executes(i) /\ effect[Current.id] \in {"partial", "done"} /\ lost = 0

\* Execute starts again over work it left half done or done only when the build
\* that did that work calls it safe: an upgrade that reclassifies a step never
\* blesses what the old build half applied (resumePoint).
NoUnsafeRepeat ==
  [][\A i \in Index : ExecutesOverWork(i) => ranSafe[Current.id]]_vars

\* The record on disk, or the build b that works on the operation, calls the
\* step unsafe to repeat.
UnsafeToRepeat(i, b) == \/ ~journal.steps[i].idempotent
                        \/ b \in Builds /\ ~Plan[b][i].idempotent

\* A step the journal credits, and that either side calls unsafe to repeat, is
\* never executed again and keeps its record, however many times the operation
\* is resumed: not by the build that begins, nor by the one that goes on, ends,
\* undoes or crashes (Run, resumePoint).
CreditIsKept ==
  [][\A i \in Index, b \in {run.build, run'.build} :
       /\ journal # NoRecord /\ journal' # NoRecord
       /\ Finished(journal.steps[i]) /\ UnsafeToRepeat(i, b)
       => journal'.steps[i] = journal.steps[i] /\ ~Executes(i)]_vars

\* Compensation is newest-first: when a step is undone, every later step that
\* this run completed, or failed in, and that can be undone, has been undone or
\* has failed to be (compensate).
NewestFirst ==
  [][\A i \in Index :
       /\ run.pc = "compensate" /\ run'.pc = "compensate"
       /\ rec.steps[i].status # "compensated" /\ rec'.steps[i].status = "compensated"
       => \A j \in (i + 1)..N :
            j \in run.completed \cup {run.at} /\ Undoable(j) =>
              effect[Plan[run.build][j].id] \in {"none", "torn"}]_vars

\* An operation that needs a person keeps saying so: no run, resume or crash
\* changes the record, only an operator's acknowledgement, which makes it failed.
InterventionSticks ==
  [][journal.status = "requires-manual-intervention" =>
       \/ journal' = journal
       \/ run.pc = "idle" /\ journal' = [journal EXCEPT !.status = "failed"]]_vars

\* A run always comes to an end by itself: a failing compensator, an optional
\* step that fails and an interruption all lead to a final record.
RunEnds == (run.pc # "idle") ~> (run.pc = "idle")

\* The journal's promise (OperationLifecycle).
Lifecycle ==
  INSTANCE OperationLifecycle WITH
    status <- journal.status,
    credit <- IF journal = NoRecord THEN {}
              ELSE {journal.steps[i].id :
                      i \in {j \in Index : Finished(journal.steps[j])
                                           /\ ~journal.steps[j].idempotent}}

ImplementsLifecycle == Lifecycle!LifecycleSpec

\* Compensation never crosses a step that closed the way back, in whichever run
\* of the operation it completed (rfcs/0001 decision 18; PassPointOfNoReturn).
NeverCompensatedAcross == passed => journal.status # "compensated"

=============================================================================
