-------------------------- MODULE ConvergenceProofs --------------------------
(***************************************************************************)
(* Theorems of Convergence: what its run checks on three releases, for any *)
(* releases, schemas and declarations and any number of operations, cuts   *)
(* and acknowledgements.                                                   *)
(***************************************************************************)
EXTENDS Convergence, TLAPS

-----------------------------------------------------------------------------
(* Types *)

LEMMA AfterTyped == \A k \in Kinds, s \in Steps : After(k, s) \in Steps \cup {"end"}
  BY DEF After, Steps, Kinds

LEMMA ProducesTyped ==
  0 \in Schemas /\ \A r \in Releases : Leaves[r] \in Schemas /\ Produces[r] \in Schemas
  BY DEF Schemas

LEMMA LargerTyped == \A a, b \in Schemas : Larger(a, b) \in Schemas
  BY DEF Larger

LEMMA SchemasAreNaturals == Schemas \subseteq Nat
  BY SchemaAssumption DEF Schemas

\* The machine as a promotion leaves it, and as a fault may.
LEMMA PointTyped ==
  ASSUME NEW m \in Machine, NEW rec \in ReleaseRecord
  PROVE  Point(m, rec) \in Machine /\ PartOfPoint(m, rec) \subseteq Machine
<1>1. Promote(m, rec) \in Machine
  BY DEF Promote, Machine, ReleaseRecord
<1>2. Point(m, rec) \in Machine
  BY <1>1 DEF Point, Machine, ReleaseRecord
<1>3. [m EXCEPT !.previous = Promote(m, rec).previous] \in Machine
  BY <1>1 DEF Machine
<1>4. QED
  BY <1>1, <1>2, <1>3 DEF PartOfPoint

LEMMA UpTyped ==
  ASSUME NEW m \in Machine, NEW r \in Releases
  PROVE  PartOfUp(m, r) \subseteq Machine
<1>1. \A S \in SUBSET Releases : [m EXCEPT !.running = S] \in Machine
  BY DEF Machine
<1>2. m.running \in SUBSET Releases
  BY DEF Machine
<1>3. QED
  BY <1>1, <1>2 DEF PartOfUp

Journals == [Kinds -> [status : Statuses, at : Steps \cup {"end"}]]

\* An operation begins.
LEMMA BeginFits ==
  ASSUME TypeOK, NEW kind \in Kinds, NEW to \in Releases, NEW step \in Steps, Begin(kind, to, step)
  PROVE  TypeOK'
<1>1. op' \in Process
  BY ProducesTyped DEF Begin, TypeOK, Process, Machine
<1>2. journal' \in Journals
  BY DEF Begin, TypeOK, Statuses, Journals
<1>3. ops' \in 0..MaxOps
  BY BoundAssumption DEF Begin, TypeOK
<1>4. QED
  BY <1>1, <1>2, <1>3 DEF Begin, TypeOK, Journals

\* A step completes,
LEMMA CompletesFits ==
  ASSUME TypeOK, op # None, op.pc \in Steps, NEW m \in Machine, NEW p \in Process, Completes(m, p)
  PROVE  TypeOK'
<1>1. After(op.kind, op.pc) \in Steps \cup {"end"}
  BY AfterTyped DEF TypeOK, Process
<1>2. op' \in Process
  BY <1>1 DEF Completes, Process
<1>3. op.kind \in Kinds
  BY DEF TypeOK, Process
<1>4. journal' \in Journals
  BY <1>1, <1>3 DEF Completes, Journal, TypeOK, Statuses, Journals
<1>5. QED
  BY <1>2, <1>4 DEF Completes, TypeOK, Journals

\* or ends the operation, with or without a compensation,
LEMMA EndsFits ==
  ASSUME TypeOK, op # None, NEW s \in Statuses, NEW at \in Steps \cup {"end"}, EndsAs(s, at),
         machine' \in Machine, breaks' \in 0..MaxBreaks
  PROVE  TypeOK'
<1>1. op.kind \in Kinds
  BY DEF TypeOK, Process
<1>2. journal' \in Journals
  BY <1>1 DEF EndsAs, Journal, TypeOK, Journals
<1>3. QED
  BY <1>2 DEF EndsAs, TypeOK, Journals

LEMMA BreaksFits ==
  ASSUME TypeOK, op # None, op.pc \in Steps, NEW m \in Machine, NEW p \in Process, Breaks(m, p)
  PROVE  TypeOK'
<1>1. machine' \in Machine
  BY DEF Breaks
<1>2. CASE CutOff
  <2>1. breaks' \in 0..MaxBreaks
    BY <1>2, BoundAssumption DEF CutOff, TypeOK
  <2>2. QED
    BY <1>1, <1>2, <2>1, EndsFits DEF CutOff, Statuses
<1>3. CASE Fails(p)
  <2>1. UNCHANGED breaks
    BY <1>3 DEF Fails
  <2>2. CASE EndsAs("requires-manual-intervention", op.pc) \/ EndsAs("failed", op.pc)
    BY <1>1, <2>1, <2>2, EndsFits DEF Statuses, TypeOK
  <2>3. CASE /\ op' = [p EXCEPT !.pc = "undo", !.todo = p.done, !.broken = (op.pc = "migrate")]
             /\ UNCHANGED <<journal, ops, acks>>
    <3>1. op' \in Process
      BY <2>3 DEF Process
    <3>2. QED
      BY <1>1, <2>1, <2>3, <3>1 DEF TypeOK
  <2>4. QED
    BY <1>3, <2>2, <2>3 DEF Fails
<1>4. QED
  BY <1>2, <1>3 DEF Breaks

\* or is undone.
LEMMA UndoneFits ==
  ASSUME TypeOK, NEW c, NEW m \in Machine, NEW p \in Process, Undone(c, m, p) \/ NotUndone(c, m, p)
  PROVE  TypeOK'
<1>1. [p EXCEPT !.allUndone = FALSE] \in Process
  BY DEF Process
<1>2. \A q \in Process : [q EXCEPT !.todo = @ \ {c}] \in Process
  BY DEF Process
<1>3. op' \in Process
  BY <1>1, <1>2 DEF Undone, NotUndone
<1>4. QED
  BY <1>3 DEF Undone, NotUndone, TypeOK

LEMMA TypeInit == Init => TypeOK
<1> SUFFICES ASSUME Init PROVE TypeOK
  OBVIOUS
<1>1. machine \in Machine
  BY ProducesTyped DEF Init, Machine, ReleaseRecord
<1>2. journal \in Journals
  BY DEF Init, NoOperation, Statuses, Journals
<1>3. QED
  BY <1>1, <1>2, BoundAssumption DEF Init, TypeOK, Journals
LEMMA TypeStep == TypeOK /\ [Next]_vars => TypeOK'
<1> SUFFICES ASSUME TypeOK, [Next]_vars PROVE TypeOK'
  OBVIOUS
<1>a. machine \in Machine /\ op \in Process \cup {None}
  BY DEF TypeOK
<1>b. machine.current \in ReleaseRecord /\ machine.current.rel \in Releases
  BY <1>a DEF Machine, ReleaseRecord
<1>c. op # None => op \in Process /\ op.to \in Releases /\ op.from \in ReleaseRecord
                   /\ op.from.rel \in Releases /\ op.from.schema \in Schemas
  BY <1>a DEF Process, ReleaseRecord
<1>1. ASSUME NEW r \in Releases, Update(r) \/ ResumeUpdate(r) \/ Rollback(r) PROVE TypeOK'
  <2>1. \E kind \in Kinds, step \in Steps : Begin(kind, r, step)
    BY <1>1 DEF Update, ResumeUpdate, Rollback, First, ResumeFrom, Kinds, Steps
  <2>2. QED
    BY <2>1, BeginFits
<1>2. ASSUME Apply \/ ResumeApply PROVE TypeOK'
  <2>1. \E kind \in Kinds, step \in Steps : Begin(kind, machine.current.rel, step)
    BY <1>2 DEF Apply, ResumeApply, First, ResumeFrom, Kinds, Steps
  <2>2. QED
    BY <1>b, <2>1, BeginFits
<1>3. ASSUME CheckCompatibility PROVE TypeOK'
  <2>1. op # None /\ op.pc = "check" /\ "check" \in Steps
    BY <1>3 DEF CheckCompatibility, At, Steps
  <2>2. [op EXCEPT !.done = {"runtime"}] \in Process
    BY <1>c, <2>1 DEF Process, Compensators
  <2>3. QED
    BY <1>3, <1>a, <1>c, <2>1, <2>2, CompletesFits, BreaksFits DEF CheckCompatibility
<1>4. ASSUME StageRelease PROVE TypeOK'
  <2> DEFINE p == [op EXCEPT !.done = @ \cup {"release"}]
             m == [machine EXCEPT !.store = @ \cup {op.to}]
  <2>1. op # None /\ op.pc = "stage" /\ "stage" \in Steps
    BY <1>4 DEF StageRelease, At, Steps
  <2>2. p \in Process
    BY <1>c, <2>1 DEF Process, Compensators
  <2>3. m \in Machine
    BY <1>a, <1>c, <2>1 DEF Machine
  <2>4. Completes(machine, op) \/ Completes(m, p) \/ Breaks(machine, p)
    BY <1>4 DEF StageRelease
  <2>5. QED
    BY <1>a, <1>c, <2>1, <2>2, <2>3, <2>4, CompletesFits, BreaksFits
<1>5. ASSUME ReadOnlyStep PROVE TypeOK'
  <2>1. op # None /\ op.pc \in Steps
    BY <1>5 DEF ReadOnlyStep, Steps
  <2>2. QED
    BY <1>5, <1>a, <1>c, <2>1, CompletesFits, BreaksFits DEF ReadOnlyStep
<1>6. ASSUME PointToPrevious PROVE TypeOK'
  <2> DEFINE rec == [rel |-> op.to, schema |-> op.from.schema]
             p   == [op EXCEPT !.done = @ \cup {"release"}]
  <2>1. op # None /\ op.pc = "point" /\ "point" \in Steps
    BY <1>6 DEF PointToPrevious, At, Steps
  <2>2. p \in Process
    BY <1>c, <2>1 DEF Process, Compensators
  <2>3. rec \in ReleaseRecord
    BY <1>c, <2>1 DEF ReleaseRecord
  <2>4. Completes(Point(machine, rec), p) \/ \E m \in PartOfPoint(machine, rec) : Breaks(m, p)
    BY <1>6 DEF PointToPrevious
  <2> HIDE DEF rec, p
  <2>5. QED
    BY <1>a, <2>1, <2>2, <2>3, <2>4, PointTyped, CompletesFits, BreaksFits
<1>7. ASSUME RenderSecrets PROVE TypeOK'
  <2> DEFINE p == [op EXCEPT !.done = @ \cup {"secrets"}]
  <2>1. op # None /\ op.pc = "secrets" /\ "secrets" \in Steps
    BY <1>7 DEF RenderSecrets, At, Steps
  <2>2. p \in Process
    BY <1>c, <2>1 DEF Process, Compensators
  <2>3. \A t \in {machine.secrets, op.to} : [machine EXCEPT !.secrets = t] \in Machine
    BY <1>a, <1>c, <2>1 DEF Machine
  <2>4. \/ Completes([machine EXCEPT !.secrets = op.to], p)
        \/ \E t \in {machine.secrets, op.to} : Breaks([machine EXCEPT !.secrets = t], p)
    BY <1>7 DEF RenderSecrets
  <2> HIDE DEF p
  <2>5. QED
    BY <2>1, <2>2, <2>3, <2>4, CompletesFits, BreaksFits
<1>8. ASSUME RenderConfiguration PROVE TypeOK'
  <2> DEFINE p == [op EXCEPT !.done = @ \cup {"config"}, !.backup = machine.config]
  <2>1. op # None /\ op.pc = "config" /\ "config" \in Steps
    BY <1>8 DEF RenderConfiguration, At, Steps
  <2>2. machine.config \in SUBSET Releases
    BY <1>a DEF Machine
  <2>3. p \in Process
    BY <1>c, <2>1, <2>2 DEF Process, Compensators
  <2>4. \A c \in SUBSET Releases : [machine EXCEPT !.config = c] \in Machine
    BY <1>a DEF Machine
  <2>5. \/ Completes(machine, op)
        \/ Completes([machine EXCEPT !.config = {op.to}], p)
        \/ \E c \in {machine.config, machine.config \cup {op.to}} :
             Breaks([machine EXCEPT !.config = c], p)
    BY <1>8 DEF RenderConfiguration
  <2> HIDE DEF p
  <2>6. QED
    BY <1>a, <1>c, <2>1, <2>2, <2>3, <2>4, <2>5, CompletesFits, BreaksFits
<1>9. ASSUME Migrate PROVE TypeOK'
  <2> DEFINE service == op.to \in ServiceMigrates
             schema  == Larger(machine.schema, Leaves[op.to])
             p       == [op EXCEPT !.touched = @ \/ service]
  <2>1. op # None /\ op.pc = "migrate" /\ "migrate" \in Steps
    BY <1>9 DEF Migrate, At, Steps
  <2>2. /\ machine.schema \in Schemas /\ schema \in Schemas
        /\ Produces[op.to] \in Schemas /\ 0 \in Schemas
    BY <1>a, <1>c, <2>1, ProducesTyped, LargerTyped DEF Machine
  <2>3. p \in Process
    BY <1>c, <2>1 DEF Process
  <2>4. \A e \in Schemas, b \in BOOLEAN :
          [p EXCEPT !.reported = e, !.noReturn = b] \in Process
    <3>1. \A q \in Process, e \in Schemas : [q EXCEPT !.reported = e] \in Process
      BY DEF Process
    <3>2. \A q \in Process, b \in BOOLEAN : [q EXCEPT !.noReturn = b] \in Process
      BY DEF Process
    <3>3. QED
      BY <2>3, <3>1, <3>2
  <2>5. \A e, b : ClosesTheWayBack(e, b) \in BOOLEAN
    BY DEF ClosesTheWayBack
  <2>6. \A m \in Machine, t \in Schemas : [m EXCEPT !.schema = t] \in Machine
    BY DEF Machine
  <2>7. CASE Leaves[op.to] = 0
    BY <1>9, <1>a, <1>c, <2>1, <2>7, CompletesFits DEF Migrate
  <2>8. CASE Leaves[op.to] # 0
    <3>1. PICK m \in IF service THEN PartOfUp(machine, op.to) ELSE {machine} :
             \/ \E reported \in IF service THEN {Produces[op.to]} ELSE {0, schema},
                   known \in BOOLEAN :
                  Completes([m EXCEPT !.schema = schema],
                            [p EXCEPT !.reported = reported,
                                      !.noReturn = ClosesTheWayBack(reported, known)])
             \/ \E t \in {machine.schema, schema} : Breaks([m EXCEPT !.schema = t], p)
      BY <1>9, <2>8 DEF Migrate
    <3>2. m \in Machine
      BY <1>a, <1>c, <2>1, <3>1, UpTyped
    <3> HIDE DEF p, schema, service
    <3>3. ASSUME NEW reported \in Schemas, NEW known \in BOOLEAN,
                 Completes([m EXCEPT !.schema = schema],
                           [p EXCEPT !.reported = reported,
                                     !.noReturn = ClosesTheWayBack(reported, known)])
          PROVE  TypeOK'
      BY <2>1, <2>2, <2>4, <2>5, <2>6, <3>2, <3>3, CompletesFits
    <3>4. ASSUME NEW t \in Schemas, Breaks([m EXCEPT !.schema = t], p) PROVE TypeOK'
      BY <2>1, <2>3, <2>6, <3>2, <3>4, BreaksFits
    <3>5. QED
      BY <2>2, <3>1, <3>3, <3>4
  <2>9. QED
    BY <2>7, <2>8
<1>10. ASSUME StartServices PROVE TypeOK'
  <2> DEFINE p == [op EXCEPT !.touched = TRUE]
  <2>1. op # None /\ op.pc = "start" /\ "start" \in Steps
    BY <1>10 DEF StartServices, At, Steps
  <2>2. p \in Process
    BY <1>c, <2>1 DEF Process
  <2>3. [machine EXCEPT !.running = {op.to}] \in Machine
    BY <1>a, <1>c, <2>1 DEF Machine
  <2>4. \/ Completes([machine EXCEPT !.running = {op.to}], p)
        \/ \E m \in PartOfUp(machine, op.to) : Breaks(m, p)
    BY <1>10 DEF StartServices
  <2> HIDE DEF p
  <2>5. QED
    BY <1>a, <1>c, <2>1, <2>2, <2>3, <2>4, UpTyped, CompletesFits, BreaksFits
<1>11. ASSUME RecordState PROVE TypeOK'
  <2> DEFINE known == IF machine.current.rel = op.to THEN machine.current.schema ELSE 0
             rec   == [rel |-> op.to, schema |-> IF op.reported > 0 THEN op.reported ELSE known]
  <2>1. op # None /\ op.pc = "record" /\ "record" \in Steps
    BY <1>11 DEF RecordState, At, Steps
  <2>2. rec \in ReleaseRecord
    BY <1>b, <1>c, <2>1, ProducesTyped DEF ReleaseRecord, Process
  <2>3. Completes(Point(machine, rec), op) \/ \E m \in PartOfPoint(machine, rec) : Breaks(m, op)
    BY <1>11 DEF RecordState
  <2> HIDE DEF rec
  <2>4. QED
    BY <1>a, <1>c, <2>1, <2>2, <2>3, PointTyped, CompletesFits, BreaksFits
<1>12. ASSUME Succeed PROVE TypeOK'
  BY <1>12, EndsFits DEF Succeed, At, Statuses, TypeOK
<1>13. ASSUME UndoConfiguration PROVE TypeOK'
  <2> DEFINE p == [op EXCEPT !.notRestored = TRUE]
  <2>1. op \in Process /\ p \in Process /\ op.backup \in SUBSET Releases
    BY <1>13, <1>c DEF UndoConfiguration, Undoing, Process
  <2>2. \A c \in SUBSET Releases : [machine EXCEPT !.config = c] \in Machine
    BY <1>a DEF Machine
  <2>3. machine.config \in SUBSET Releases
    BY <1>a DEF Machine
  <2>4. \/ Undone("config", [machine EXCEPT !.config = op.backup], op)
        \/ \E c \in {machine.config, machine.config \cup op.backup} :
             NotUndone("config", [machine EXCEPT !.config = c], p)
    BY <1>13 DEF UndoConfiguration
  <2> HIDE DEF p
  <2>5. QED
    BY <2>1, <2>2, <2>3, <2>4, UndoneFits
<1>14. ASSUME UndoSecrets PROVE TypeOK'
  <2>1. op \in Process /\ [op EXCEPT !.kept = TRUE] \in Process
    BY <1>14, <1>c DEF UndoSecrets, Undoing, Process
  <2>2. [machine EXCEPT !.secrets = None] \in Machine
    BY <1>a DEF Machine
  <2>3. QED
    BY <1>14, <1>a, <2>1, <2>2, UndoneFits DEF UndoSecrets
<1>15. ASSUME UndoRelease PROVE TypeOK'
  <2>1. op \in Process /\ op.from \in ReleaseRecord
    BY <1>15, <1>c DEF UndoRelease, Undoing
  <2>2. QED
    BY <1>15, <1>a, <2>1, PointTyped, UndoneFits DEF UndoRelease
<1>16. ASSUME RestoreRuntime PROVE TypeOK'
  <2> DEFINE rendered == [machine EXCEPT !.secrets = op.from.rel]
  <2>1. op \in Process /\ op.from.rel \in Releases
    BY <1>16, <1>c DEF RestoreRuntime, Undoing
  <2>2. rendered \in Machine
    BY <1>a, <2>1 DEF Machine
  <2>3. [rendered EXCEPT !.running = {op.from.rel}] \in Machine
    BY <2>1, <2>2 DEF Machine
  <2>4. \E m \in {machine, rendered, [rendered EXCEPT !.running = {op.from.rel}]}
               \cup PartOfUp(rendered, op.from.rel) :
          Undone("runtime", m, op) \/ NotUndone("runtime", m, op)
    BY <1>16 DEF RestoreRuntime
  <2> HIDE DEF rendered
  <2>5. QED
    BY <1>a, <2>1, <2>2, <2>3, <2>4, UpTyped, UndoneFits
<1>17. ASSUME SettleUndone PROVE TypeOK'
  BY <1>17, EndsFits DEF SettleUndone, Statuses, TypeOK
<1>18. ASSUME CrashUndoing PROVE TypeOK'
  BY <1>18, BoundAssumption DEF CrashUndoing, TypeOK
<1>19. ASSUME NEW k \in Kinds, Acknowledge(k) PROVE TypeOK'
  <2>1. journal' \in Journals
    BY <1>19 DEF Acknowledge, TypeOK, Statuses, Journals
  <2>2. acks' \in 0..MaxAcks
    BY <1>19, BoundAssumption DEF Acknowledge, TypeOK
  <2>3. QED
    BY <1>19, <2>1, <2>2 DEF Acknowledge, TypeOK, Journals
<1>20. CASE UNCHANGED vars
  BY <1>20 DEF vars, TypeOK
<1>21. QED
  BY <1>1, <1>2, <1>3, <1>4, <1>5, <1>6, <1>7, <1>8, <1>9, <1>10, <1>11, <1>12, <1>13, <1>14,
     <1>15, <1>16, <1>17, <1>18, <1>19, <1>20 DEF Next, Commands, Forward, Backward

\* Every variable has its type in every state (TypeOK), whatever the bounds.
THEOREM TypeCorrect == Spec => []TypeOK
  BY TypeInit, TypeStep, PTL DEF Spec
-----------------------------------------------------------------------------
(* How an operation goes on and how it ends *)

\* The journal says that the operation at work is running, compensation included.
RunningInv == op # None => journal[op.kind].status = "running"

\* What a step of an operation at work writes: only its end changes the status.
LEMMA Journaled ==
  ASSUME TypeOK, op # None, NEW s, NEW at, Journal(s, at)
  PROVE  journal'[op.kind].status = s
  BY DEF TypeOK, Process, Journal

LEMMA HowItEnds ==
  ASSUME TypeOK, RunningInv, Next, op # None
  PROVE  \/ Succeed /\ journal'[op.kind].status = "succeeded"
         \/ SettleUndone /\ journal'[op.kind].status =
              IF op.broken \/ ~op.allUndone THEN "requires-manual-intervention" ELSE "compensated"
         \/ op' = None /\ journal'[op.kind].status
                            \in {"failed", "interrupted", "requires-manual-intervention"}
         \/ journal'[op.kind].status = "running"
<1>1. \A m, p : Completes(m, p) => journal'[op.kind].status = "running"
  BY Journaled DEF Completes
<1>3. \A c, m, p : Undone(c, m, p) \/ NotUndone(c, m, p) => journal'[op.kind].status = "running"
  BY DEF Undone, NotUndone, RunningInv
<1>4. \A m, p : Breaks(m, p) => \/ op' = None /\ journal'[op.kind].status
                                     \in {"failed", "interrupted", "requires-manual-intervention"}
                                \/ journal'[op.kind].status = "running"
  BY Journaled DEF Breaks, CutOff, Fails, EndsAs, RunningInv
<1>5. ASSUME Forward PROVE \/ Succeed
                           \/ \E m, p : Completes(m, p) \/ Breaks(m, p)
  BY <1>5 DEF Forward, CheckCompatibility, StageRelease, ReadOnlyStep, PointToPrevious, RenderSecrets,
              RenderConfiguration, Migrate, StartServices, RecordState
<1>6. ASSUME Backward PROVE \/ SettleUndone \/ CrashUndoing
                            \/ \E c, m, p : Undone(c, m, p) \/ NotUndone(c, m, p)
  BY <1>6 DEF Backward, UndoConfiguration, UndoSecrets, UndoRelease, RestoreRuntime
<1>7. Forward \/ Backward
  BY DEF Next, Commands, Update, ResumeUpdate, Rollback, Apply, ResumeApply, Begin, Acknowledge
<1>8. CASE Succeed
  BY <1>8, Journaled DEF Succeed, EndsAs
<1>9. CASE SettleUndone
  BY <1>9, Journaled DEF SettleUndone, EndsAs
<1>10. CASE CrashUndoing
  BY <1>10 DEF CrashUndoing, RunningInv
<1>11. QED
  BY <1>1, <1>3, <1>4, <1>5, <1>6, <1>7, <1>8, <1>9, <1>10

\* What a process keeps from its start to its end.
Same(p) == p.kind = op.kind /\ p.to = op.to /\ p.from = op.from /\ p.origin = op.origin

LEMMA SameCompletes ==
  ASSUME NEW m, NEW p \in Process, Same(p), Completes(m, p)
  PROVE  Same(op') /\ op'.pc = After(op.kind, op.pc)
  BY DEF Process, Same, Completes

LEMMA SameBreaks ==
  ASSUME NEW m, NEW p \in Process, Same(p), Breaks(m, p), op' # None
  PROVE  Same(op') /\ op'.pc = "undo"
  BY DEF Process, Same, Breaks, Fails, CutOff, EndsAs

LEMMA SameUndone ==
  ASSUME NEW c, NEW m, NEW p \in Process, Same(p), p.pc = "undo",
         Undone(c, m, p) \/ NotUndone(c, m, p)
  PROVE  Same(op') /\ op'.pc = "undo"
<1>1. CASE Undone(c, m, p)
  BY <1>1 DEF Process, Same, Undone
<1>2. CASE NotUndone(c, m, p)
  <2>1. [p EXCEPT !.allUndone = FALSE] \in Process /\ Same([p EXCEPT !.allUndone = FALSE])
        /\ [p EXCEPT !.allUndone = FALSE].pc = "undo"
    BY DEF Process, Same
  <2>2. QED
    BY <1>2, <2>1 DEF Process, Same, NotUndone, Undone
<1>3. QED
  BY <1>1, <1>2

\* The point to which an operation at work has come next.
LEMMA GoesOn ==
  ASSUME TypeOK, Next, op # None, op' # None
  PROVE  Same(op') /\ \/ op.pc \in Steps /\ op'.pc \in {After(op.kind, op.pc), "undo"}
                      \/ op.pc = "undo" /\ op'.pc = "undo"
<1>1. op \in Process
  BY DEF TypeOK
<1>2. \A p \in Process : \A m : Same(p) /\ op.pc \in Steps /\ (Completes(m, p) \/ Breaks(m, p))
        => Same(op') /\ op'.pc \in {After(op.kind, op.pc), "undo"}
  BY SameCompletes, SameBreaks
<1>3. Same(op)
  BY DEF Same
<1>4. ASSUME CheckCompatibility \/ StageRelease \/ PointToPrevious \/ RenderSecrets
      PROVE  op.pc \in Steps /\ \E d \in SUBSET Compensators : \E m :
               Completes(m, [op EXCEPT !.done = d]) \/ Breaks(m, [op EXCEPT !.done = d])
               \/ Completes(m, op) \/ Breaks(m, op)
  <2>1. op.done \cup {"release"} \in SUBSET Compensators /\ op.done \cup {"secrets"} \in SUBSET Compensators
        /\ {"runtime"} \in SUBSET Compensators
    BY <1>1 DEF Process, Compensators
  <2>2. op.pc \in Steps
    BY <1>4 DEF CheckCompatibility, StageRelease, PointToPrevious, RenderSecrets, At, Steps
  <2>3. CASE CheckCompatibility
    BY <2>1, <2>2, <2>3 DEF CheckCompatibility
  <2>4. CASE StageRelease
    BY <2>1, <2>2, <2>4 DEF StageRelease
  <2>5. CASE PointToPrevious
    BY <2>1, <2>2, <2>5 DEF PointToPrevious
  <2>6. CASE RenderSecrets
    BY <2>1, <2>2, <2>6 DEF RenderSecrets
  <2>7. QED
    BY <1>4, <2>3, <2>4, <2>5, <2>6
<1>5. \A d \in SUBSET Compensators : [op EXCEPT !.done = d] \in Process /\ Same([op EXCEPT !.done = d])
  BY <1>1 DEF Process, Same
<1>6. CASE CheckCompatibility \/ StageRelease \/ PointToPrevious \/ RenderSecrets
  BY <1>1, <1>2, <1>3, <1>4, <1>5, <1>6
<1>7. CASE ReadOnlyStep \/ RecordState
  <2>1. op.pc \in Steps /\ \E m : Completes(m, op) \/ Breaks(m, op)
    BY <1>7 DEF ReadOnlyStep, RecordState, At, Steps
  <2>2. QED
    BY <1>1, <1>2, <1>3, <2>1
<1>8. CASE RenderConfiguration
  <2> DEFINE p == [op EXCEPT !.done = @ \cup {"config"}, !.backup = machine.config]
  <2>1. p \in Process /\ Same(p)
    BY <1>1 DEF Process, Same, Compensators, TypeOK, Machine
  <2>2. op.pc \in Steps /\ \E m : Completes(m, op) \/ Completes(m, p) \/ Breaks(m, p)
    BY <1>8 DEF RenderConfiguration, At, Steps
  <2> HIDE DEF p
  <2>3. QED
    BY <1>1, <1>2, <1>3, <2>1, <2>2
<1>9. CASE Migrate
  <2> DEFINE p == [op EXCEPT !.touched = @ \/ (op.to \in ServiceMigrates)]
  <2>1. p \in Process /\ Same(p)
    BY <1>1 DEF Process, Same
  <2>2. op.pc \in Steps
    BY <1>9 DEF Migrate, At, Steps
  <2>3. \/ Completes(machine, op)
        \/ \E m : \/ Breaks(m, p)
                 \/ \E e \in Schemas, b \in BOOLEAN :
                      Completes(m, [p EXCEPT !.reported = e, !.noReturn = b])
    <3>1. /\ 0 \in Schemas /\ Produces[op.to] \in Schemas
          /\ Larger(machine.schema, Leaves[op.to]) \in Schemas
      BY <1>1, ProducesTyped, LargerTyped DEF Process, TypeOK, Machine
    <3>2. \A e, b : ClosesTheWayBack(e, b) \in BOOLEAN
      BY DEF ClosesTheWayBack
    <3> DEFINE schema == Larger(machine.schema, Leaves[op.to])
    <3>3. CASE Leaves[op.to] = 0
      BY <1>9, <3>3 DEF Migrate
    <3>4. CASE Leaves[op.to] # 0
      <4>1. PICK m :
             \/ \E reported \in {Produces[op.to], 0, schema}, known \in BOOLEAN :
                  Completes([m EXCEPT !.schema = schema],
                            [p EXCEPT !.reported = reported,
                                      !.noReturn = ClosesTheWayBack(reported, known)])
             \/ \E t \in {machine.schema, schema} : Breaks([m EXCEPT !.schema = t], p)
        BY <1>9, <3>4 DEF Migrate
      <4> HIDE DEF p, schema
      <4>2. {Produces[op.to], 0, schema} \subseteq Schemas
        BY <3>1 DEF schema
      <4>3. QED
        BY <3>2, <4>1, <4>2
    <3>5. QED
      BY <3>3, <3>4
  <2> HIDE DEF p
  <2>4. \A e \in Schemas : [p EXCEPT !.reported = e] \in Process /\ Same([p EXCEPT !.reported = e])
    BY <2>1 DEF Process, Same
  <2>5. \A q \in Process, b \in BOOLEAN :
          Same(q) => [q EXCEPT !.noReturn = b] \in Process /\ Same([q EXCEPT !.noReturn = b])
    BY DEF Process, Same
  <2>6. QED
    BY <1>1, <1>2, <1>3, <2>1, <2>2, <2>3, <2>4, <2>5
<1>10. CASE StartServices
  <2>1. [op EXCEPT !.touched = TRUE] \in Process /\ Same([op EXCEPT !.touched = TRUE])
    BY <1>1 DEF Process, Same
  <2>2. op.pc \in Steps /\ \E m : Completes(m, [op EXCEPT !.touched = TRUE])
                                  \/ Breaks(m, [op EXCEPT !.touched = TRUE])
    BY <1>10 DEF StartServices, At, Steps
  <2>3. QED
    BY <1>2, <2>1, <2>2
<1>11. CASE UndoConfiguration \/ UndoSecrets \/ UndoRelease \/ RestoreRuntime
  <2>1. op.pc = "undo" /\ \E p \in {op, [op EXCEPT !.notRestored = TRUE], [op EXCEPT !.kept = TRUE]} :
                            \E c, m : Undone(c, m, p) \/ NotUndone(c, m, p)
    BY <1>11 DEF UndoConfiguration, UndoSecrets, UndoRelease, RestoreRuntime, Undoing
  <2>2. /\ op \in Process /\ Same(op)
        /\ [op EXCEPT !.notRestored = TRUE] \in Process /\ Same([op EXCEPT !.notRestored = TRUE])
    BY <1>1 DEF Process, Same
  <2>3. [op EXCEPT !.kept = TRUE] \in Process /\ Same([op EXCEPT !.kept = TRUE])
    BY <1>1 DEF Process, Same
  <2>4. /\ [op EXCEPT !.notRestored = TRUE].pc = op.pc
        /\ [op EXCEPT !.kept = TRUE].pc = op.pc
    BY <1>1 DEF Process
  <2>5. QED
    BY <2>1, <2>2, <2>3, <2>4, SameUndone
<1>12. CASE Succeed \/ SettleUndone \/ CrashUndoing
  BY <1>12 DEF Succeed, SettleUndone, CrashUndoing, EndsAs
<1>13. QED
  BY <1>6, <1>7, <1>8, <1>9, <1>10, <1>11, <1>12
     DEF Next, Commands, Forward, Backward, Update, ResumeUpdate, Rollback, Apply, ResumeApply,
         Begin, Acknowledge

\* Only a command starts a process.
LEMMA Starts ==
  ASSUME TypeOK, Next, op = None, op' # None
  PROVE  \E kind \in Kinds, to \in Releases : Begin(kind, to, First(kind))
<1>1. Forward \/ Backward => op # None
  BY DEF Forward, Backward, CheckCompatibility, StageRelease, ReadOnlyStep, PointToPrevious,
         RenderSecrets, RenderConfiguration, Migrate, StartServices, RecordState, Succeed, At,
         UndoConfiguration, UndoSecrets, UndoRelease, RestoreRuntime, Undoing, SettleUndone,
         CrashUndoing
<1>2. ~\E k \in Kinds : Acknowledge(k)
  BY DEF Acknowledge
<1>3. Commands
  BY <1>1, <1>2 DEF Next
<1>4. machine.current.rel \in Releases
  BY DEF TypeOK, Machine, ReleaseRecord
<1>5. QED
  BY <1>3, <1>4 DEF Commands, Update, ResumeUpdate, Rollback, Apply, ResumeApply, ResumeFrom, Kinds
LEMMA RunningInvInit == Init => RunningInv
  BY DEF Init, RunningInv

LEMMA RunningInvStep == TypeOK /\ RunningInv /\ [Next]_vars => RunningInv'
<1> SUFFICES ASSUME TypeOK, RunningInv, [Next]_vars, op' # None
             PROVE  journal'[op'.kind].status = "running"
  BY DEF RunningInv
<1>1. CASE Next /\ op = None
  <2>1. PICK kind \in Kinds, to \in Releases : Begin(kind, to, First(kind))
    BY <1>1, Starts
  <2>2. op'.kind = kind
    BY <2>1 DEF Begin
  <2>3. QED
    BY <2>1, <2>2 DEF Begin, TypeOK
<1>2. CASE Next /\ op # None
  <2>1. op'.kind = op.kind
    BY <1>2, GoesOn DEF Same
  <2>2. ~Succeed /\ ~SettleUndone
    BY DEF Succeed, SettleUndone, EndsAs
  <2>3. QED
    BY <1>2, <2>1, <2>2, HowItEnds
<1>3. CASE UNCHANGED vars
  BY <1>3 DEF vars, RunningInv
<1>4. QED
  BY <1>1, <1>2, <1>3

-----------------------------------------------------------------------------
(* Success *)

\* What is in place by the time a step is reached, whatever was there before.
ForwardInv ==
  op # None =>
    /\ op.pc \in {"config", "validate", "migrate", "start", "health", "record", "retire", "end"} =>
         machine.secrets = op.to
    /\ op.pc \in {"validate", "migrate", "start", "health", "record", "retire", "end"} =>
         machine.config = {op.to}
    /\ op.pc \in {"health", "record", "retire", "end"} => machine.running = {op.to}
    /\ op.pc \in {"retire", "end"} => machine.current.rel = op.to /\ machine.link = op.to

LEMMA ForwardInvInit == Init => ForwardInv
  BY DEF Init, ForwardInv

\* A step that did not complete leaves nothing to go forward from.
LEMMA ForwardInvCompletes ==
  ASSUME TypeOK, op # None, NEW m, NEW p \in Process, Same(p), Completes(m, p),
         LET pc == After(op.kind, op.pc) IN
           /\ pc \in {"config", "validate", "migrate", "start", "health", "record", "retire", "end"} =>
                m.secrets = op.to
           /\ pc \in {"validate", "migrate", "start", "health", "record", "retire", "end"} =>
                m.config = {op.to}
           /\ pc \in {"health", "record", "retire", "end"} => m.running = {op.to}
           /\ pc \in {"retire", "end"} => m.current.rel = op.to /\ m.link = op.to
  PROVE  ForwardInv'
<1>1. Same(op') /\ op'.pc = After(op.kind, op.pc) /\ machine' = m
  BY SameCompletes DEF Completes
<1>2. QED
  BY <1>1 DEF ForwardInv, Same

LEMMA ForwardInvBreaks ==
  ASSUME NEW m, NEW p \in Process, Same(p), Breaks(m, p)
  PROVE  ForwardInv'
  BY SameBreaks DEF ForwardInv

LEMMA ForwardInvStep == TypeOK /\ ForwardInv /\ [Next]_vars => ForwardInv'
<1> SUFFICES ASSUME TypeOK, ForwardInv, [Next]_vars PROVE ForwardInv'
  OBVIOUS
<1>0. ASSUME op # None PROVE op \in Process /\ op.kind \in Kinds /\ Same(op) /\ machine \in Machine
  BY <1>0 DEF TypeOK, Process, Same
<1>a. ASSUME op # None, NEW d \in SUBSET Compensators
      PROVE  [op EXCEPT !.done = d] \in Process /\ Same([op EXCEPT !.done = d])
  BY <1>0, <1>a DEF Process, Same
<1>1. CASE CheckCompatibility
  <2>1. op # None /\ op.pc = "check"
    BY <1>1 DEF CheckCompatibility, At
  <2>2. Completes(machine, [op EXCEPT !.done = {"runtime"}]) \/ Breaks(machine, op)
    BY <1>1 DEF CheckCompatibility
  <2>3. {"runtime"} \in SUBSET Compensators
    BY DEF Compensators
  <2>4. After(op.kind, op.pc) = "stage"
    BY <2>1 DEF After
  <2>5. QED
    BY <1>0, <1>a, <2>1, <2>2, <2>3, <2>4, ForwardInvCompletes, ForwardInvBreaks
<1>2. CASE StageRelease
  <2> DEFINE d == op.done \cup {"release"}
  <2>1. op # None /\ op.pc = "stage"
    BY <1>2 DEF StageRelease, At
  <2>2. (\E m : Completes(m, op) \/ Completes(m, [op EXCEPT !.done = d]))
        \/ Breaks(machine, [op EXCEPT !.done = d])
    BY <1>2 DEF StageRelease
  <2>3. d \in SUBSET Compensators
    BY <1>0, <2>1 DEF Process, Compensators
  <2>4. After(op.kind, op.pc) = "preflight"
    BY <2>1 DEF After
  <2> HIDE DEF d
  <2>5. QED
    BY <1>0, <1>a, <2>1, <2>2, <2>3, <2>4, ForwardInvCompletes, ForwardInvBreaks
<1>3. CASE ReadOnlyStep
  <2>1. op # None /\ op.pc \in {"preflight", "load", "validate", "health", "retire"}
        /\ (Completes(machine, op) \/ Breaks(machine, op))
    BY <1>3 DEF ReadOnlyStep
  <2>2. /\ op.pc = "preflight" => After(op.kind, op.pc) \in {"point", "load"}
        /\ op.pc = "load" => After(op.kind, op.pc) = "secrets"
        /\ op.pc = "validate" => After(op.kind, op.pc) = "migrate"
        /\ op.pc = "health" => After(op.kind, op.pc) = "record"
        /\ op.pc = "retire" => After(op.kind, op.pc) = "end"
    BY DEF After
  <2>3. ASSUME Completes(machine, op) PROVE ForwardInv'
    BY <1>0, <2>1, <2>2, <2>3, ForwardInvCompletes DEF ForwardInv
  <2>4. QED
    BY <1>0, <2>1, <2>3, ForwardInvBreaks
<1>4. CASE PointToPrevious
  <2> DEFINE d == op.done \cup {"release"}
  <2>1. op # None /\ op.pc = "point"
    BY <1>4 DEF PointToPrevious, At
  <2>2. \E m : Completes(m, [op EXCEPT !.done = d]) \/ Breaks(m, [op EXCEPT !.done = d])
    BY <1>4 DEF PointToPrevious
  <2>3. d \in SUBSET Compensators
    BY <1>0, <2>1 DEF Process, Compensators
  <2>4. After(op.kind, op.pc) = "load"
    BY <2>1 DEF After
  <2> HIDE DEF d
  <2>5. QED
    BY <1>0, <1>a, <2>1, <2>2, <2>3, <2>4, ForwardInvCompletes, ForwardInvBreaks
<1>5. CASE RenderSecrets
  <2> DEFINE d == op.done \cup {"secrets"}
             m == [machine EXCEPT !.secrets = op.to]
  <2>1. op # None /\ op.pc = "secrets"
    BY <1>5 DEF RenderSecrets, At
  <2>2. Completes(m, [op EXCEPT !.done = d]) \/ \E n : Breaks(n, [op EXCEPT !.done = d])
    BY <1>5 DEF RenderSecrets
  <2>3. d \in SUBSET Compensators
    BY <1>0, <2>1 DEF Process, Compensators
  <2>4. After(op.kind, op.pc) = "config"
    BY <2>1 DEF After
  <2>5. m.secrets = op.to
    BY <1>0, <2>1 DEF Machine
  <2> HIDE DEF d, m
  <2>6. QED
    BY <1>0, <1>a, <2>1, <2>2, <2>3, <2>4, <2>5, ForwardInvCompletes, ForwardInvBreaks
<1>6. CASE RenderConfiguration
  <2> DEFINE p == [op EXCEPT !.done = @ \cup {"config"}, !.backup = machine.config]
             m == [machine EXCEPT !.config = {op.to}]
  <2>1. op # None /\ op.pc = "config"
    BY <1>6 DEF RenderConfiguration, At
  <2>2. \/ machine.config = {op.to} /\ Completes(machine, op)
        \/ Completes(m, p)
        \/ \E n : Breaks(n, p)
    BY <1>6 DEF RenderConfiguration
  <2>3. p \in Process /\ Same(p)
    BY <1>0, <2>1 DEF Process, Same, Compensators, Machine
  <2>4. After(op.kind, op.pc) = "validate"
    BY <2>1 DEF After
  <2>5. m.secrets = machine.secrets /\ m.config = {op.to}
    BY <1>0, <2>1 DEF Machine
  <2>6. machine.secrets = op.to
    BY <2>1 DEF ForwardInv
  <2> HIDE DEF p, m
  <2>7. QED
    BY <1>0, <2>1, <2>2, <2>3, <2>4, <2>5, <2>6, ForwardInvCompletes, ForwardInvBreaks
<1>7. CASE Migrate
  <2> DEFINE p == [op EXCEPT !.touched = @ \/ (op.to \in ServiceMigrates)]
             schema == Larger(machine.schema, Leaves[op.to])
  <2>1. op # None /\ op.pc = "migrate"
    BY <1>7 DEF Migrate, At
  <2>2. p \in Process /\ Same(p)
    BY <1>0, <2>1 DEF Process, Same
  <2>3. \/ Completes(machine, op)
        \/ \E m \in PartOfUp(machine, op.to) \cup {machine} :
             \/ \E e, b : Completes([m EXCEPT !.schema = schema],
                                   [p EXCEPT !.reported = e, !.noReturn = ClosesTheWayBack(e, b)])
             \/ \E n : Breaks(n, p)
    BY <1>7 DEF Migrate
  <2>4. After(op.kind, op.pc) = "start"
    BY <2>1 DEF After
  <2>5. CASE Completes(machine, op)
    BY <1>0, <2>1, <2>4, <2>5, ForwardInvCompletes DEF ForwardInv
  <2>6. ASSUME NEW m \in PartOfUp(machine, op.to) \cup {machine}
        PROVE  /\ [m EXCEPT !.schema = schema].secrets = op.to
               /\ [m EXCEPT !.schema = schema].config = {op.to}
    <3>1. m \in Machine /\ m.secrets = machine.secrets /\ m.config = machine.config
      BY <1>0, <2>1, <2>6, UpTyped DEF PartOfUp, Machine, Process
    <3>2. QED
      BY <2>1, <3>1 DEF Machine, ForwardInv
  <2> HIDE DEF p, schema
  <2>7. ASSUME NEW m \in PartOfUp(machine, op.to) \cup {machine}, NEW e, NEW b,
               Completes([m EXCEPT !.schema = schema],
                         [p EXCEPT !.reported = e, !.noReturn = ClosesTheWayBack(e, b)])
        PROVE  ForwardInv'
    <3>1. op'.pc = "start" /\ op'.to = op.to
      BY <2>2, <2>4, <2>7 DEF Completes, Process, Same
    <3>2. QED
      BY <2>6, <2>7, <3>1 DEF ForwardInv, Completes
  <2>8. QED
    BY <2>2, <2>3, <2>5, <2>7, ForwardInvBreaks
<1>8. CASE StartServices
  <2> DEFINE p == [op EXCEPT !.touched = TRUE]
             m == [machine EXCEPT !.running = {op.to}]
  <2>1. op # None /\ op.pc = "start"
    BY <1>8 DEF StartServices, At
  <2>2. Completes(m, p) \/ \E n : Breaks(n, p)
    BY <1>8 DEF StartServices
  <2>3. p \in Process /\ Same(p)
    BY <1>0, <2>1 DEF Process, Same
  <2>4. m.secrets = op.to /\ m.config = {op.to} /\ m.running = {op.to}
    BY <1>0, <2>1 DEF Machine, ForwardInv
  <2>5. After(op.kind, op.pc) = "health"
    BY <2>1 DEF After
  <2> HIDE DEF p, m
  <2>6. QED
    BY <1>0, <2>1, <2>2, <2>3, <2>4, <2>5, ForwardInvCompletes, ForwardInvBreaks
<1>9. CASE RecordState
  <2>1. op # None /\ op.pc = "record"
    BY <1>9 DEF RecordState, At
  <2>2. PICK rec : rec.rel = op.to /\ (Completes(Point(machine, rec), op) \/ \E n : Breaks(n, op))
    BY <1>9 DEF RecordState
  <2> DEFINE m == Point(machine, rec)
  <2>3. m.current = rec /\ m.link = rec.rel /\ m.secrets = machine.secrets
        /\ m.config = machine.config /\ m.running = machine.running
    BY <1>0, <2>1 DEF Point, Promote, Machine
  <2> HIDE DEF m
  <2>4. m.secrets = op.to /\ m.config = {op.to} /\ m.running = {op.to} /\ m.current.rel = op.to
        /\ m.link = op.to
    BY <2>1, <2>2, <2>3 DEF ForwardInv
  <2>5. QED
    BY <1>0, <2>1, <2>2, <2>4, ForwardInvCompletes, ForwardInvBreaks DEF m
<1>10. CASE Backward
  <2>1. op # None /\ op.pc = "undo"
    BY <1>10 DEF Backward, UndoConfiguration, UndoSecrets, UndoRelease, RestoreRuntime, Undoing,
                 SettleUndone, CrashUndoing
  <2>2. op' = None \/ op'.pc = "undo"
    BY <1>10, <2>1, GoesOn DEF Next, Steps
  <2>3. QED
    BY <2>2 DEF ForwardInv
<1>11. CASE Succeed
  BY <1>11 DEF Succeed, EndsAs, ForwardInv
<1>12. CASE Commands \/ \E k \in Kinds : Acknowledge(k)
  <2>1. op = None
    BY <1>12 DEF Commands, Update, ResumeUpdate, Rollback, Apply, ResumeApply, Begin, Acknowledge
  <2>2. ASSUME op' # None PROVE op'.pc \in {"check", "preflight"}
    <3>1. PICK kind \in Kinds, to \in Releases : Begin(kind, to, First(kind))
      BY <1>12, <2>1, <2>2, Starts DEF Next
    <3>2. QED
      BY <3>1 DEF Begin, First
  <2>3. QED
    BY <2>2 DEF ForwardInv
<1>13. CASE UNCHANGED vars
  BY <1>13 DEF vars, ForwardInv
<1>14. QED
  BY <1>1, <1>2, <1>3, <1>4, <1>5, <1>6, <1>7, <1>8, <1>9, <1>10, <1>11, <1>12, <1>13
     DEF Next, Forward

\* An operation that succeeds has its release on record, linked, configured and
\* running, also when it resumed the work of another process (SucceededIsConverged).
THEOREM SuccessIsConverged == Spec => SucceededIsConverged
<1>1. TypeOK /\ RunningInv /\ ForwardInv /\ [Next]_vars
      => [SettlesAs("succeeded")
            => /\ machine'.current.rel = op.to
               /\ machine'.link = op.to
               /\ machine'.config = {op.to}
               /\ machine'.secrets = op.to
               /\ machine'.running = {op.to}]_vars
  <2> SUFFICES ASSUME TypeOK, RunningInv, ForwardInv, Next, SettlesAs("succeeded")
               PROVE  /\ machine'.current.rel = op.to
                      /\ machine'.link = op.to
                      /\ machine'.config = {op.to}
                      /\ machine'.secrets = op.to
                      /\ machine'.running = {op.to}
    OBVIOUS
  <2>1. op # None /\ journal'[op.kind].status = "succeeded"
    BY DEF SettlesAs
  <2>2. Succeed
    BY <2>1, HowItEnds
  <2>3. QED
    BY <2>2 DEF Succeed, At, ForwardInv
<1>2. QED
  BY <1>1, TypeInit, TypeStep, RunningInvInit, RunningInvStep, ForwardInvInit, ForwardInvStep, PTL
     DEF Spec, SucceededIsConverged
-----------------------------------------------------------------------------
(* A rollback that failed or was compensated *)

\* What a step leaves in the memory of its process; a promotion is there to undo.
Worked(p) == /\ p \in Process
             /\ Same(p)
             /\ op.pc \in Steps
             /\ op.pc # "check" => op.done \subseteq p.done
             /\ op.pc = "point" => "release" \in p.done

LEMMA Works ==
  ASSUME TypeOK, Forward
  PROVE  op # None /\ (Succeed \/ \E m, p : Worked(p) /\ (Completes(m, p) \/ Breaks(m, p)))
<1>1. op # None
  BY DEF Forward, CheckCompatibility, StageRelease, ReadOnlyStep, PointToPrevious, RenderSecrets,
         RenderConfiguration, Migrate, StartServices, RecordState, Succeed, At
<1>2. op \in Process
  BY <1>1 DEF TypeOK
<1>3. CASE CheckCompatibility
  <2>1. Worked(op) /\ Worked([op EXCEPT !.done = {"runtime"}])
    BY <1>2, <1>3 DEF Worked, Process, Same, Compensators, CheckCompatibility, At, Steps
  <2>2. QED
    BY <1>1, <1>3, <2>1 DEF CheckCompatibility
<1>4. CASE StageRelease
  <2>1. Worked(op) /\ Worked([op EXCEPT !.done = @ \cup {"release"}])
    BY <1>2, <1>4 DEF Worked, Process, Same, Compensators, StageRelease, At, Steps
  <2>2. QED
    BY <1>1, <1>4, <2>1 DEF StageRelease
<1>5. CASE ReadOnlyStep
  <2>1. Worked(op)
    BY <1>2, <1>5 DEF Worked, Same, ReadOnlyStep, Steps
  <2>2. QED
    BY <1>1, <1>5, <2>1 DEF ReadOnlyStep
<1>6. CASE PointToPrevious
  <2>1. Worked([op EXCEPT !.done = @ \cup {"release"}])
    BY <1>2, <1>6 DEF Worked, Process, Same, Compensators, PointToPrevious, At, Steps
  <2>2. QED
    BY <1>1, <1>6, <2>1 DEF PointToPrevious
<1>7. CASE RenderSecrets
  <2>1. Worked([op EXCEPT !.done = @ \cup {"secrets"}])
    BY <1>2, <1>7 DEF Worked, Process, Same, Compensators, RenderSecrets, At, Steps
  <2>2. QED
    BY <1>1, <1>7, <2>1 DEF RenderSecrets
<1>8. CASE RenderConfiguration
  <2>1. Worked(op) /\ Worked([op EXCEPT !.done = @ \cup {"config"}, !.backup = machine.config])
    BY <1>2, <1>8 DEF Worked, Process, Same, Compensators, RenderConfiguration, At, Steps, TypeOK, Machine
  <2>2. QED
    BY <1>1, <1>8, <2>1 DEF RenderConfiguration
<1>9. CASE Migrate
  <2> DEFINE p == [op EXCEPT !.touched = @ \/ (op.to \in ServiceMigrates)]
             schema == Larger(machine.schema, Leaves[op.to])
  <2>1. Worked(p) /\ Worked(op)
    BY <1>2, <1>9 DEF Worked, Process, Same, Migrate, At, Steps
  <2>2. {Produces[op.to], 0, schema} \subseteq Schemas
    BY <1>2, ProducesTyped, LargerTyped DEF Process, TypeOK, Machine
  <2>3. \A e, b : ClosesTheWayBack(e, b) \in BOOLEAN
    BY DEF ClosesTheWayBack
  <2>4. \A q, e : Worked(q) /\ e \in Schemas => Worked([q EXCEPT !.reported = e])
    BY DEF Worked, Process, Same
  <2>5. \A q, b : Worked(q) /\ b \in BOOLEAN => Worked([q EXCEPT !.noReturn = b])
    BY DEF Worked, Process, Same
  <2>6. ASSUME NEW e \in Schemas, NEW b
        PROVE  Worked([p EXCEPT !.reported = e, !.noReturn = ClosesTheWayBack(e, b)])
    <3>1. Worked([p EXCEPT !.reported = e])
      BY <2>1, <2>4
    <3>2. QED
      BY <2>3, <2>5, <3>1
  <2>7. \/ Completes(machine, op)
        \/ \E m : Breaks(m, p)
        \/ \E m, b : \E e \in {Produces[op.to], 0, schema} :
             Completes(m, [p EXCEPT !.reported = e, !.noReturn = ClosesTheWayBack(e, b)])
    <3>1. CASE Leaves[op.to] # 0
      <4>1. PICK m :
             \/ \E reported \in {Produces[op.to], 0, schema}, known \in BOOLEAN :
                  Completes([m EXCEPT !.schema = schema],
                            [p EXCEPT !.reported = reported,
                                      !.noReturn = ClosesTheWayBack(reported, known)])
             \/ \E t \in {machine.schema, schema} : Breaks([m EXCEPT !.schema = t], p)
        BY <1>9, <3>1 DEF Migrate
      <4> HIDE DEF p, schema
      <4>2. QED
        BY <4>1
    <3>2. QED
      BY <1>9, <3>1 DEF Migrate
  <2> HIDE DEF p, schema
  <2>8. QED
    BY <1>1, <2>1, <2>2, <2>6, <2>7
<1>10. CASE StartServices
  <2>1. Worked([op EXCEPT !.touched = TRUE])
    BY <1>2, <1>10 DEF Worked, Process, Same, StartServices, At, Steps
  <2>2. QED
    BY <1>1, <1>10, <2>1 DEF StartServices
<1>11. CASE RecordState
  <2>1. Worked(op)
    BY <1>2, <1>11 DEF Worked, Same, RecordState, At, Steps
  <2>2. QED
    BY <1>1, <1>11, <2>1 DEF RecordState
<1>12. QED
  BY <1>1, <1>3, <1>4, <1>5, <1>6, <1>7, <1>8, <1>9, <1>10, <1>11 DEF Forward

\* The first step of a rollback with a compensator is the promotion, so whatever
\* later step is undone, the record and the link are undone too; while it goes
\* forward nothing has changed before that step, and both are moved after it.
RollbackInv ==
  op # None /\ op.kind = "rollback" =>
    /\ op.origin.current = op.from
    /\ op.pc \notin {"check", "stage"}
    /\ op.pc \in {"preflight", "point"} => machine = op.origin
    /\ op.pc = "load" => machine.running = op.origin.running
    /\ op.pc \notin {"preflight", "point", "undo"} =>
         "release" \in op.done /\ machine.current.rel = op.to /\ machine.link = op.to
    /\ op.pc = "undo" => \/ "release" \in op.todo
                         \/ ~op.allUndone
                         \/ machine.current = op.from /\ machine.link = op.from.rel

\* What point-to-previous moved, the steps after it leave moved, also when they fail.
LEMMA StaysMoved ==
  ASSUME TypeOK, Forward, machine.current.rel = op.to, machine.link = op.to
  PROVE  machine'.current.rel = op.to /\ machine'.link = op.to
<1>0. machine \in Machine /\ op # None
  BY Works DEF TypeOK
<1>1. CASE CheckCompatibility \/ ReadOnlyStep \/ Succeed
  BY <1>1 DEF CheckCompatibility, ReadOnlyStep, Succeed, Completes, Breaks
<1>2. CASE StageRelease
  BY <1>0, <1>2 DEF StageRelease, Completes, Breaks, Machine
<1>3. ASSUME NEW rec, rec.rel = op.to,
             machine' = Point(machine, rec) \/ machine' \in PartOfPoint(machine, rec)
      PROVE  machine'.current.rel = op.to /\ machine'.link = op.to
  BY <1>0, <1>3 DEF Point, PartOfPoint, Promote, Machine
<1>4. CASE PointToPrevious \/ RecordState
  <2>1. \E rec : rec.rel = op.to /\ (machine' = Point(machine, rec) \/ machine' \in PartOfPoint(machine, rec))
    BY <1>4 DEF PointToPrevious, RecordState, Completes, Breaks
  <2>2. QED
    BY <1>3, <2>1
<1>5. CASE RenderSecrets \/ RenderConfiguration
  <2>1. \/ machine' = machine
        \/ \E x : machine' = [machine EXCEPT !.secrets = x] \/ machine' = [machine EXCEPT !.config = x]
    BY <1>5 DEF RenderSecrets, RenderConfiguration, Completes, Breaks
  <2>2. QED
    BY <1>0, <2>1 DEF Machine
<1>6. ASSUME NEW m \in {machine} \cup PartOfUp(machine, op.to)
      PROVE  /\ m \in Machine /\ m.current = machine.current /\ m.link = machine.link
  BY <1>0, UpTyped DEF PartOfUp, Machine, TypeOK, Process
<1>7. CASE Migrate \/ StartServices
  <2>1. \/ machine' = [machine EXCEPT !.running = {op.to}]
        \/ \E m \in {machine} \cup PartOfUp(machine, op.to) :
             machine' = m \/ \E t : machine' = [m EXCEPT !.schema = t]
    BY <1>7 DEF Migrate, StartServices, Completes, Breaks
  <2>2. QED
    BY <1>0, <1>6, <2>1 DEF Machine
<1>8. QED
  BY <1>1, <1>2, <1>4, <1>5, <1>7 DEF Forward

LEMMA RollbackInvInit == Init => RollbackInv
  BY DEF Init, RollbackInv

LEMMA RollbackInvStep == TypeOK /\ RollbackInv /\ [Next]_vars => RollbackInv'
<1> SUFFICES ASSUME TypeOK, RollbackInv, [Next]_vars, op' # None, op'.kind = "rollback"
             PROVE  RollbackInv'
  BY DEF RollbackInv
<1>1. CASE Next /\ op = None
  <2>1. PICK kind \in Kinds, to \in Releases : Begin(kind, to, First(kind))
    BY <1>1, Starts
  <2>2. op'.origin.current = op'.from /\ op'.pc = "preflight" /\ machine' = op'.origin
    BY <2>1 DEF Begin, First
  <2>3. QED
    BY <2>2 DEF RollbackInv
<1>2. CASE Forward
  <2>0. /\ op # None /\ op.kind = "rollback" /\ op.origin.current = op.from
        /\ op.pc \notin {"check", "stage"}
        /\ op.pc \notin {"preflight", "point", "undo"} => "release" \in op.done
        /\ Same(op') /\ op'.kind = "rollback"
    BY <1>2, Works, GoesOn DEF Next, Same, RollbackInv
  <2>1. PICK m, p : Worked(p) /\ (Completes(m, p) \/ Breaks(m, p))
    BY <1>2, Works DEF Succeed, EndsAs
  <2>2. op.pc # "preflight" => "release" \in p.done
    BY <2>0, <2>1 DEF Worked, Steps
  <2>3. CASE Completes(m, p)
    <3>1. op'.pc = After("rollback", op.pc) /\ op'.done = p.done
      BY <2>0, <2>1, <2>3 DEF Completes, Worked, Process
    <3>2. /\ op'.pc \notin {"check", "stage", "undo", "preflight"}
          /\ op.pc = "preflight" <=> op'.pc = "point"
          /\ op.pc = "point" <=> op'.pc = "load"
      BY <2>0, <2>1, <3>1 DEF After, Worked, Steps
    <3>3. op.pc = "preflight" => machine' = op.origin
      BY <1>2, <2>0 DEF Forward, CheckCompatibility, StageRelease, ReadOnlyStep, PointToPrevious,
                        RenderSecrets, RenderConfiguration, Migrate, StartServices, RecordState,
                        Succeed, At, Completes, Breaks, RollbackInv
    <3>4. op.pc = "point" => /\ machine'.current.rel = op.to /\ machine'.link = op.to
                             /\ machine'.running = op.origin.running
      <4> SUFFICES ASSUME op.pc = "point"
                   PROVE  /\ machine'.current.rel = op.to /\ machine'.link = op.to
                          /\ machine'.running = op.origin.running
        OBVIOUS
      <4>1. PointToPrevious
        BY <1>2 DEF Forward, CheckCompatibility, StageRelease, ReadOnlyStep, RenderSecrets,
                    RenderConfiguration, Migrate, StartServices, RecordState, Succeed, At
      <4>2. op'.pc # "undo" /\ op' # None
        BY <3>2
      <4>3. \E rec : rec.rel = op.to /\ machine' = Point(machine, rec)
        <5> DEFINE p2 == [op EXCEPT !.done = @ \cup {"release"}]
                   rec == [rel |-> op.to, schema |-> op.from.schema]
        <5>1. Completes(Point(machine, rec), p2) \/ \E n : Breaks(n, p2)
          BY <4>1 DEF PointToPrevious
        <5>2. p2 \in Process
          BY <2>0 DEF TypeOK, Process, Compensators
        <5> HIDE DEF p2
        <5>3. Completes(Point(machine, rec), p2)
          BY <4>2, <5>1, <5>2 DEF Breaks, Fails, CutOff, EndsAs, Process
        <5>4. QED
          BY <5>3 DEF Completes
      <4>4. machine \in Machine /\ machine = op.origin
        BY <2>0 DEF TypeOK, RollbackInv
      <4>5. QED
        BY <4>3, <4>4 DEF Point, Promote, Machine
    <3>5. op.pc \notin {"preflight", "point"} => machine'.current.rel = op.to /\ machine'.link = op.to
      <4>1. op.pc \notin {"preflight", "point"} => machine.current.rel = op.to /\ machine.link = op.to
        BY <2>0, <2>1 DEF RollbackInv, Worked, Steps
      <4>2. QED
        BY <1>2, <4>1, StaysMoved
    <3>6. QED
      BY <2>0, <2>2, <3>1, <3>2, <3>3, <3>4, <3>5 DEF RollbackInv, Same
  <2>4. CASE Breaks(m, p)
    <3>1. op.pc \notin Aborts /\ op' = [p EXCEPT !.pc = "undo", !.todo = p.done, !.broken = (op.pc = "migrate")]
      BY <2>4 DEF Breaks, CutOff, Fails, EndsAs
    <3>2. op'.pc = "undo" /\ op'.todo = p.done /\ op.pc # "preflight"
      BY <2>1, <3>1 DEF Worked, Process, Aborts
    <3>3. QED
      BY <2>0, <2>2, <3>2 DEF RollbackInv, Same
  <2>5. QED
    BY <2>1, <2>3, <2>4
<1>3. CASE Backward
  <2>0. op # None /\ op.pc = "undo" /\ Same(op') /\ op'.pc = "undo" /\ op \in Process /\ machine \in Machine
    BY <1>3, GoesOn DEF Next, Backward, UndoConfiguration, UndoSecrets, UndoRelease, RestoreRuntime,
                        Undoing, SettleUndone, CrashUndoing, Steps, TypeOK
  <2>1. op.kind = "rollback" /\ op.origin.current = op.from
        /\ ("release" \in op.todo \/ ~op.allUndone
            \/ (machine.current = op.from /\ machine.link = op.from.rel))
    BY <2>0 DEF RollbackInv, Same
  <2>2. ASSUME NEW c \in Compensators \ {"release"}, NEW m, NEW p \in Process,
               m.current = machine.current, m.link = machine.link, p.todo = op.todo,
               p.allUndone = op.allUndone, Undone(c, m, p) \/ NotUndone(c, m, p)
        PROVE  RollbackInv'
    <3>1. machine' = m /\ op' \in {[p EXCEPT !.todo = @ \ {c}],
                                   [p EXCEPT !.allUndone = FALSE, !.todo = @ \ {c}]}
      BY <2>2 DEF Undone, NotUndone
    <3>a. /\ "release" \in op.todo => "release" \in op'.todo
          /\ op.allUndone = FALSE => op'.allUndone = FALSE
      BY <2>2, <3>1 DEF Process
    <3>2. op.allUndone \in BOOLEAN
      BY <2>0 DEF Process
    <3>3. QED
      BY <2>0, <2>1, <2>2, <3>1, <3>a, <3>2 DEF RollbackInv, Same
  <2>3. CASE UndoConfiguration
    <3> DEFINE p == [op EXCEPT !.notRestored = TRUE]
    <3>1. p \in Process /\ p.todo = op.todo /\ p.allUndone = op.allUndone
      BY <2>0 DEF Process
    <3>2. \A c : [machine EXCEPT !.config = c].current = machine.current
                 /\ [machine EXCEPT !.config = c].link = machine.link
      BY <2>0 DEF Machine
    <3>3. \E c : \/ Undone("config", [machine EXCEPT !.config = c], op)
                 \/ NotUndone("config", [machine EXCEPT !.config = c], p)
      BY <2>3 DEF UndoConfiguration
    <3> HIDE DEF p
    <3>4. QED
      BY <2>0, <2>2, <3>1, <3>2, <3>3 DEF Compensators
  <2>4. CASE UndoSecrets
    <3> DEFINE p == [op EXCEPT !.kept = TRUE]
               n == [machine EXCEPT !.secrets = None]
    <3>1. p \in Process /\ p.todo = op.todo /\ p.allUndone = op.allUndone
          /\ n.current = machine.current /\ n.link = machine.link
      BY <2>0 DEF Process, Machine
    <3>2. Undone("secrets", machine, p) \/ Undone("secrets", n, op) \/ NotUndone("secrets", machine, op)
      BY <2>4 DEF UndoSecrets
    <3> HIDE DEF p, n
    <3>3. QED
      BY <2>0, <2>2, <3>1, <3>2 DEF Compensators
  <2>5. CASE UndoRelease
    <3>1. ASSUME Undone("release", Point(machine, op.from), op) PROVE RollbackInv'
      <4>1. machine'.current = op.from /\ machine'.link = op.from.rel
        BY <2>0, <3>1 DEF Undone, Point, Promote, Machine
      <4>2. QED
        BY <2>0, <2>1, <4>1 DEF RollbackInv, Same
    <3>2. ASSUME NEW m, NotUndone("release", m, op) PROVE RollbackInv'
      <4>1. op'.allUndone = FALSE
        BY <2>0, <3>2 DEF NotUndone, Undone, Process
      <4>2. QED
        BY <2>0, <2>1, <4>1 DEF RollbackInv, Same
    <3>3. QED
      BY <2>5, <3>1, <3>2 DEF UndoRelease
  <2>6. CASE RestoreRuntime
    <3> DEFINE rendered == [machine EXCEPT !.secrets = op.from.rel]
    <3>1. \A m \in {machine, rendered, [rendered EXCEPT !.running = {op.from.rel}]}
                   \cup PartOfUp(rendered, op.from.rel) :
            m.current = machine.current /\ m.link = machine.link
      BY <2>0 DEF Machine, PartOfUp
    <3>2. \E m \in {machine, rendered, [rendered EXCEPT !.running = {op.from.rel}]}
                   \cup PartOfUp(rendered, op.from.rel) :
            Undone("runtime", m, op) \/ NotUndone("runtime", m, op)
      BY <2>6 DEF RestoreRuntime
    <3> HIDE DEF rendered
    <3>3. QED
      BY <2>0, <2>2, <3>1, <3>2 DEF Compensators
  <2>7. CASE SettleUndone \/ CrashUndoing
    BY <2>7 DEF SettleUndone, CrashUndoing, EndsAs
  <2>8. QED
    BY <1>3, <2>3, <2>4, <2>5, <2>6, <2>7 DEF Backward
<1>4. CASE Next /\ op # None
  BY <1>2, <1>3, <1>4 DEF Next, Commands, Update, ResumeUpdate, Rollback, Apply, ResumeApply, Begin,
                          Acknowledge
<1>5. CASE UNCHANGED vars
  BY <1>5 DEF vars, RollbackInv
<1>6. QED
  BY <1>1, <1>4, <1>5

\* The step that failed, when the status says `failed'.
LEMMA HowItFails ==
  ASSUME TypeOK, RunningInv, Next, SettlesAs("failed")
  PROVE  Forward /\ op.pc \in Aborts
<1>1. op # None /\ op' = None /\ journal'[op.kind].status = "failed"
  BY DEF SettlesAs
<1>2. ~SettleUndone /\ ~Succeed
  <2>1. ASSUME NEW st, NEW at, EndsAs(st, at) PROVE st = "failed"
    BY <1>1, <2>1, Journaled DEF EndsAs
  <2>2. QED
    BY <1>1, <2>1, Journaled DEF SettleUndone, Succeed, EndsAs
<1>3. ~Backward
  <2>1. ~CrashUndoing
    BY <1>1 DEF CrashUndoing, RunningInv
  <2>2. QED
    BY <1>1, <1>2, <2>1 DEF Backward, UndoConfiguration, UndoSecrets, UndoRelease, RestoreRuntime,
                            Undone, NotUndone, RunningInv
<1>4. Forward
  BY <1>1, <1>3 DEF Next, Commands, Update, ResumeUpdate, Rollback, Apply, ResumeApply, Begin,
                    Acknowledge
<1>5. PICK m, p : Worked(p) /\ (Completes(m, p) \/ Breaks(m, p))
  BY <1>2, <1>4, Works
<1>6. ~Completes(m, p)
  BY <1>1, Journaled DEF Completes
<1>7. op.pc \in Aborts
  BY <1>1, <1>5, <1>6, Journaled DEF Breaks, Fails, CutOff, EndsAs, RunningInv
<1>8. QED
  BY <1>4, <1>7

\* A rollback that ends compensated has put the current record and the link back; one
\* that ends failed has changed nothing or moved both, with the containers unless
\* it was load-secrets that failed (RollbackMovesOrPointsBack).
THEOREM RollbackMoves == Spec => RollbackMovesOrPointsBack
<1> DEFINE Claim == op # None /\ op.kind = "rollback" =>
             /\ SettlesAs("compensated") => /\ machine'.current = op.origin.current
                                            /\ machine'.link = op.from.rel
             /\ SettlesAs("failed") =>
                  \/ machine' = op.origin
                  \/ /\ machine'.current.rel = op.to
                     /\ machine'.link = op.to
                     /\ machine'.running = IF op.pc = "load" THEN op.origin.running
                                                             ELSE {op.to}
<1>1. TypeOK /\ RunningInv /\ ForwardInv /\ RollbackInv /\ [Next]_vars => [Claim]_vars
  <2> SUFFICES ASSUME TypeOK, RunningInv, ForwardInv, RollbackInv, Next,
                      op # None, op.kind = "rollback"
               PROVE  /\ SettlesAs("compensated") => /\ machine'.current = op.origin.current
                                                     /\ machine'.link = op.from.rel
                      /\ SettlesAs("failed") =>
                           \/ machine' = op.origin
                           \/ /\ machine'.current.rel = op.to
                              /\ machine'.link = op.to
                              /\ machine'.running = IF op.pc = "load" THEN op.origin.running
                                                                      ELSE {op.to}
    OBVIOUS
  <2>1. ASSUME SettlesAs("compensated")
        PROVE  machine'.current = op.origin.current /\ machine'.link = op.from.rel
    <3>1. journal'[op.kind].status = "compensated"
      BY <2>1 DEF SettlesAs
    <3>2. SettleUndone /\ op.allUndone
      BY <3>1, HowItEnds
    <3>3. QED
      BY <3>2 DEF SettleUndone, RollbackInv
  <2>2. ASSUME SettlesAs("failed")
        PROVE  \/ machine' = op.origin
               \/ /\ machine'.current.rel = op.to
                  /\ machine'.link = op.to
                  /\ machine'.running = IF op.pc = "load" THEN op.origin.running ELSE {op.to}
    <3>1. Forward /\ op.pc \in {"preflight", "load", "record", "retire"}
      BY <2>2, HowItFails DEF Aborts, RollbackInv
    <3>2. CASE op.pc = "record"
      <4>1. RecordState
        BY <3>1, <3>2 DEF Forward, CheckCompatibility, StageRelease, ReadOnlyStep, PointToPrevious,
                          RenderSecrets, RenderConfiguration, Migrate, StartServices, Succeed, At
      <4>2. \E rec : machine' = Point(machine, rec) \/ machine' \in PartOfPoint(machine, rec)
        BY <4>1 DEF RecordState, Completes, Breaks
      <4>3. machine'.running = machine.running
        BY <4>2 DEF Point, PartOfPoint, Promote, TypeOK, Machine
      <4>4. machine'.current.rel = op.to /\ machine'.link = op.to
        BY <3>1, <3>2, StaysMoved DEF RollbackInv
      <4>5. QED
        BY <3>2, <4>3, <4>4 DEF ForwardInv
    <3>3. CASE op.pc # "record"
      <4>1. ReadOnlyStep
        BY <3>1, <3>3 DEF Forward, CheckCompatibility, StageRelease, PointToPrevious, RecordState,
                          RenderSecrets, RenderConfiguration, Migrate, StartServices, Succeed, At
      <4>2. machine' = machine
        BY <4>1 DEF ReadOnlyStep, Completes, Breaks
      <4>3. QED
        BY <3>1, <3>3, <4>2 DEF RollbackInv, ForwardInv
    <3>4. QED
      BY <3>2, <3>3
  <2>3. QED
    BY <2>1, <2>2
<1>2. QED
  BY <1>1, TypeInit, TypeStep, RunningInvInit, RunningInvStep, ForwardInvInit, ForwardInvStep,
     RollbackInvInit, RollbackInvStep, PTL DEF Spec, RollbackMovesOrPointsBack
-----------------------------------------------------------------------------
(* An update that was compensated *)

BeforeTheRender == {"check", "stage", "preflight", "load", "secrets", "config"}

BeforeTheSchema == BeforeTheRender \cup {"validate", "migrate"}

\* The machine m and the process's memory p hold what is needed to go back to
\* the machine p found: what changed is covered by a compensator to come, and
\* while going back is allowed the old release can run against the schema, or
\* whether it can could not be judged.
Recoverable(m, p) ==
  LET f == p.from.rel IN
    /\ m.current = p.origin.current /\ m.previous = p.origin.previous /\ m.link = f
    /\ p.touched \/ m.running = {f}
    /\ "runtime" \in p.done
    /\ m.secrets = f \/ "secrets" \in p.done
    /\ IF "config" \in p.done THEN p.backup = {f} ELSE m.config = {f}
    /\ p.noReturn \/ (Judged(p) => m.schema <= Runs[f])

\* The same on the way back, as long as every compensator did its work.
Returning(m, p) ==
  LET f == p.from.rel IN
    /\ m.current = p.origin.current /\ m.previous = p.origin.previous /\ m.link = f
    /\ p.touched \/ m.running = {f}
    /\ m.secrets = f \/ "secrets" \in p.todo \/ p.kept \/ p.touched
    /\ IF "config" \in p.todo THEN p.backup = {f} ELSE m.config = {f}
    /\ Judged(p) => m.schema <= Runs[f]
    /\ "runtime" \in p.todo \/ (p.todo = {} /\ m.secrets = f /\ m.running = {f})

\* An update the property judges.
Tracked(p) == p.kind = "update" /\ Coherent(p.origin)

UpdateInv ==
  op # None /\ Tracked(op) =>
    /\ op.origin.current = op.from
    /\ op.pc # "point"
    /\ op.pc = "check" => machine = op.origin /\ op.done = {}
    /\ op.pc \in BeforeTheRender => "config" \notin op.done
    /\ op.pc \in BeforeTheSchema => ~op.noReturn /\ machine.schema <= Runs[op.from.rel]
    /\ op.pc \in Steps \ {"check", "retire"} => Recoverable(machine, op)
    /\ op.pc = "undo" /\ ~op.broken /\ op.allUndone => Returning(machine, op)

LEMMA UpdateInvInit == Init => UpdateInv
  BY DEF Init, UpdateInv

\* A step is completed.
LEMMA UpdateInvCompletes ==
  ASSUME TypeOK, UpdateInv, op # None, op.pc \in Steps,
         NEW m \in Machine, NEW p \in Process, Same(p), Completes(m, p),
         Tracked(op) => LET pc == After("update", op.pc) IN
           /\ pc \in BeforeTheRender => "config" \notin p.done
           /\ pc \in BeforeTheSchema => ~p.noReturn /\ m.schema <= Runs[op.from.rel]
           /\ pc \in Steps \ {"check", "retire"} => Recoverable(m, p)
  PROVE  UpdateInv'
<1> DEFINE pc == After(op.kind, op.pc)
           q == [p EXCEPT !.pc = pc]
<1>1. op' = q /\ machine' = m
  BY DEF Completes
<1>2. /\ q.pc = pc /\ q.kind = op.kind /\ q.from = op.from /\ q.origin = op.origin
      /\ q.done = p.done /\ q.noReturn = p.noReturn /\ q.to = p.to /\ q.reported = p.reported
  BY DEF Process, Same
<1>3. Recoverable(m, p) => Recoverable(m, q)
  BY DEF Recoverable, Process, Judged
<1>4. pc \notin {"check", "undo"} /\ After("update", op.pc) # "point"
  BY DEF After, Steps
<1> HIDE DEF pc, q
<1>5. SUFFICES ASSUME Tracked(q) PROVE UpdateInv'
  BY <1>1 DEF UpdateInv
<1>6. Tracked(op) /\ pc = After("update", op.pc)
  BY <1>2, <1>5 DEF Tracked, pc
<1>7. op.origin.current = op.from
  BY <1>6 DEF UpdateInv
<1>8. QED
  BY <1>1, <1>2, <1>3, <1>4, <1>6, <1>7 DEF UpdateInv

\* A step fails or is cut off: what it left can be taken back.
LEMMA UpdateInvBreaks ==
  ASSUME TypeOK, UpdateInv, op # None, op.pc \in Steps,
         NEW m \in Machine, NEW p \in Process, Same(p), Breaks(m, p),
         Tracked(op) /\ op.pc \notin Aborts \cup {"migrate"} => Recoverable(m, p)
  PROVE  UpdateInv'
<1> SUFFICES ASSUME op' # None, Tracked(op') PROVE UpdateInv'
  BY DEF UpdateInv
<1> DEFINE q == [p EXCEPT !.pc = "undo", !.todo = p.done, !.broken = (op.pc = "migrate")]
<1>1. op' = q /\ machine' = m /\ ~p.noReturn /\ op.pc \notin Aborts
  BY DEF Breaks, CutOff, Fails, EndsAs
<1>2. /\ q.pc = "undo" /\ q.kind = op.kind /\ q.from = op.from /\ q.origin = op.origin
      /\ q.todo = p.done /\ q.broken = (op.pc = "migrate")
      /\ q.touched = p.touched /\ q.backup = p.backup /\ q.to = p.to /\ q.reported = p.reported
  BY DEF Process, Same
<1>3. Tracked(op)
  BY <1>1, <1>2 DEF Tracked
<1>4. op.origin.current = op.from
  BY <1>3 DEF UpdateInv
<1>5. ASSUME ~q.broken PROVE Returning(m, q)
  <2>1. Recoverable(m, p) /\ p.from = op.from /\ p.origin = op.origin
    BY <1>1, <1>2, <1>3, <1>5 DEF Same
  <2> HIDE DEF q
  <2>2. QED
    BY <1>1, <1>2, <2>1 DEF Recoverable, Returning, Judged
<1> HIDE DEF q
<1>6. QED
  BY <1>1, <1>2, <1>4, <1>5 DEF UpdateInv, Steps, BeforeTheRender, BeforeTheSchema

\* Going forward.
LEMMA UpdateInvForward ==
  ASSUME TypeOK, UpdateInv, Forward
  PROVE  UpdateInv'
<1>0. op # None /\ op \in Process /\ machine \in Machine /\ Same(op)
  BY Works DEF TypeOK, Same
<1>a. op.to \in Releases /\ op.from.rel \in Releases /\ op.done \in SUBSET Compensators
  BY <1>0 DEF Process, ReleaseRecord
<1>b. Tracked(op) /\ op.pc \in Steps \ {"check", "retire"} => Recoverable(machine, op)
  BY <1>0 DEF UpdateInv
<1>1. CASE CheckCompatibility
  <2> DEFINE p == [op EXCEPT !.done = {"runtime"}]
  <2>1. op.pc = "check" /\ op.pc \in Steps /\ (Completes(machine, p) \/ Breaks(machine, op))
    BY <1>1 DEF CheckCompatibility, At, Steps
  <2>2. p \in Process /\ Same(p) /\ p.done = {"runtime"} /\ p.noReturn = op.noReturn
    BY <1>0 DEF Process, Same, Compensators
  <2>3. Tracked(op) => /\ ~op.noReturn /\ Recoverable(machine, p)
                       /\ machine.schema <= Runs[op.from.rel]
    <3> SUFFICES ASSUME Tracked(op)
                 PROVE  /\ ~op.noReturn /\ Recoverable(machine, p)
                        /\ machine.schema <= Runs[op.from.rel]
      OBVIOUS
    <3>1. op.origin.current = op.from /\ machine = op.origin /\ ~op.noReturn /\ Coherent(op.origin)
      BY <1>0, <2>1 DEF UpdateInv, Tracked, BeforeTheRender, BeforeTheSchema
    <3>2. p.from = op.from /\ p.origin = op.origin
      BY <2>2 DEF Same
    <3> HIDE DEF p
    <3>3. QED
      BY <2>2, <3>1, <3>2 DEF Recoverable, Coherent
  <2>4. op.pc \in Aborts
    BY <2>1 DEF Aborts
  <2> HIDE DEF p
  <2>5. QED
    BY <1>0, <2>1, <2>2, <2>3, <2>4, UpdateInvCompletes, UpdateInvBreaks
<1>2. CASE StageRelease
  <2> DEFINE p == [op EXCEPT !.done = @ \cup {"release"}]
             m == [machine EXCEPT !.store = @ \cup {op.to}]
  <2>1. op.pc = "stage" /\ op.pc \in Steps
        /\ (Completes(machine, op) \/ Completes(m, p) \/ Breaks(machine, p))
    BY <1>2 DEF StageRelease, At, Steps
  <2>2. p \in Process /\ Same(p) /\ ("config" \notin op.done => "config" \notin p.done)
        /\ p.noReturn = op.noReturn
    BY <1>0 DEF Process, Same, Compensators
  <2>3. m \in Machine
    BY <1>0, <1>a DEF Machine
  <2>4. /\ Recoverable(machine, op) => Recoverable(machine, p) /\ Recoverable(m, p)
        /\ m.schema = machine.schema
    BY <1>0 DEF Recoverable, Process, Machine, Judged
  <2>5. After("update", op.pc) = "preflight"
    BY <2>1 DEF After
  <2>6. Tracked(op) => /\ "config" \notin op.done /\ ~op.noReturn /\ Recoverable(machine, op)
                       /\ machine.schema <= Runs[op.from.rel]
    BY <1>0, <2>1 DEF UpdateInv, BeforeTheRender, BeforeTheSchema, Steps
  <2> HIDE DEF p, m
  <2>7. QED
    BY <1>0, <2>1, <2>2, <2>3, <2>4, <2>5, <2>6, UpdateInvCompletes, UpdateInvBreaks
<1>3. CASE ReadOnlyStep
  <2>1. op.pc \in {"preflight", "load", "validate", "health", "retire"} /\ op.pc \in Steps
        /\ (Completes(machine, op) \/ Breaks(machine, op))
    BY <1>3 DEF ReadOnlyStep, Steps
  <2>2. /\ op.pc = "preflight" => After("update", op.pc) = "load"
        /\ op.pc = "load" => After("update", op.pc) = "secrets"
        /\ op.pc = "validate" => After("update", op.pc) = "migrate"
        /\ op.pc = "health" => After("update", op.pc) = "record"
        /\ op.pc = "retire" => After("update", op.pc) = "end"
    BY DEF After
  <2>3. Tracked(op) => /\ op.pc \in {"preflight", "load"} => "config" \notin op.done
                       /\ op.pc \in {"preflight", "load", "validate"} =>
                            ~op.noReturn /\ machine.schema <= Runs[op.from.rel]
                       /\ op.pc # "retire" => Recoverable(machine, op)
    BY <1>0, <2>1 DEF UpdateInv, BeforeTheRender, BeforeTheSchema, Steps
  <2>4. Tracked(op) /\ op.pc \notin Aborts => Recoverable(machine, op)
    BY <2>3 DEF Aborts
  <2>5. ASSUME Completes(machine, op) PROVE UpdateInv'
    BY <1>0, <2>1, <2>2, <2>3, <2>5, UpdateInvCompletes DEF BeforeTheRender, BeforeTheSchema, Steps
  <2>6. QED
    BY <1>0, <2>1, <2>4, <2>5, UpdateInvBreaks
<1>4. CASE PointToPrevious
  <2> DEFINE p == [op EXCEPT !.done = @ \cup {"release"}]
             rec == [rel |-> op.to, schema |-> op.from.schema]
  <2>1. op.pc = "point" /\ op.pc \in Steps
        /\ \E m : (m = Point(machine, rec) \/ m \in PartOfPoint(machine, rec))
                  /\ (Completes(m, p) \/ Breaks(m, p))
    BY <1>4 DEF PointToPrevious, At, Steps
  <2>2. p \in Process /\ Same(p)
    BY <1>0 DEF Process, Same, Compensators
  <2>3. rec \in ReleaseRecord
    BY <1>0, <1>a DEF Process, ReleaseRecord
  <2>4. PICK m \in Machine : Completes(m, p) \/ Breaks(m, p)
    BY <1>0, <2>1, <2>3, PointTyped
  <2>5. op' = None \/ (op'.kind = op.kind /\ op'.pc \in {"load", "undo"} /\ op'.origin = op.origin)
    BY <2>1, <2>2, <2>4, SameCompletes, SameBreaks DEF Same, After
  <2>6. Tracked(op) => FALSE
    BY <1>0, <2>1 DEF UpdateInv
  <2>7. QED
    BY <2>5, <2>6 DEF UpdateInv, Tracked
<1>5. CASE RenderSecrets
  <2> DEFINE p == [op EXCEPT !.done = @ \cup {"secrets"}]
  <2>1. op.pc = "secrets" /\ op.pc \in Steps
        /\ \E s \in {machine.secrets, op.to} : \/ Completes([machine EXCEPT !.secrets = s], p)
                                               \/ Breaks([machine EXCEPT !.secrets = s], p)
    BY <1>5 DEF RenderSecrets, At, Steps
  <2>2. p \in Process /\ Same(p) /\ ("config" \notin op.done => "config" \notin p.done)
        /\ p.noReturn = op.noReturn
    BY <1>0 DEF Process, Same, Compensators
  <2>3. PICK s \in {machine.secrets, op.to} : \/ Completes([machine EXCEPT !.secrets = s], p)
                                              \/ Breaks([machine EXCEPT !.secrets = s], p)
    BY <2>1
  <2> DEFINE m == [machine EXCEPT !.secrets = s]
  <2>4. m \in Machine
    BY <1>0, <1>a DEF Machine
  <2>5. (Recoverable(machine, op) => Recoverable(m, p)) /\ m.schema = machine.schema
    BY <1>0 DEF Recoverable, Process, Machine, Judged
  <2>6. After("update", op.pc) = "config"
    BY <2>1 DEF After
  <2>7. Tracked(op) => /\ "config" \notin op.done /\ ~op.noReturn /\ Recoverable(machine, op)
                       /\ machine.schema <= Runs[op.from.rel]
    BY <1>0, <2>1 DEF UpdateInv, BeforeTheRender, BeforeTheSchema, Steps
  <2>8. Completes(m, p) \/ Breaks(m, p)
    BY <2>3
  <2> HIDE DEF p, m
  <2>9. QED
    BY <1>0, <2>1, <2>2, <2>4, <2>5, <2>6, <2>7, <2>8, UpdateInvCompletes, UpdateInvBreaks
<1>6. CASE RenderConfiguration
  <2> DEFINE p == [op EXCEPT !.done = @ \cup {"config"}, !.backup = machine.config]
  <2>1. op.pc = "config" /\ op.pc \in Steps
        /\ \/ Completes(machine, op)
           \/ \E c \in {{op.to}, machine.config, machine.config \cup {op.to}} :
                \/ Completes([machine EXCEPT !.config = c], p)
                \/ Breaks([machine EXCEPT !.config = c], p)
    BY <1>6 DEF RenderConfiguration, At, Steps
  <2>2. machine.config \in SUBSET Releases
    BY <1>0 DEF Machine
  <2>3. p \in Process /\ Same(p) /\ p.noReturn = op.noReturn
    BY <1>0, <2>2 DEF Process, Same, Compensators
  <2>4. \A c \in SUBSET Releases : [machine EXCEPT !.config = c] \in Machine
    BY <1>0 DEF Machine
  <2>5. Tracked(op) => /\ "config" \notin op.done /\ ~op.noReturn /\ Recoverable(machine, op)
                       /\ machine.schema <= Runs[op.from.rel]
    BY <1>0, <2>1 DEF UpdateInv, BeforeTheRender, BeforeTheSchema, Steps
  <2>6. \A c : "config" \notin op.done /\ Recoverable(machine, op)
               => Recoverable([machine EXCEPT !.config = c], p)
    BY <1>0 DEF Recoverable, Process, Machine, Judged
  <2>7. After("update", op.pc) = "validate"
    BY <2>1 DEF After
  <2>8. "validate" \notin BeforeTheRender
    BY DEF BeforeTheRender
  <2>9. CASE Completes(machine, op)
    BY <1>0, <2>1, <2>5, <2>7, <2>8, <2>9, UpdateInvCompletes
  <2>10. CASE ~Completes(machine, op)
    <3>1. PICK c \in SUBSET Releases : \/ Completes([machine EXCEPT !.config = c], p)
                                       \/ Breaks([machine EXCEPT !.config = c], p)
      BY <1>a, <2>1, <2>2, <2>10
    <3> DEFINE m == [machine EXCEPT !.config = c]
    <3>2. /\ m \in Machine /\ (Tracked(op) => Recoverable(m, p)) /\ (Completes(m, p) \/ Breaks(m, p))
          /\ m.schema = machine.schema
      BY <1>0, <2>4, <2>5, <2>6, <3>1 DEF Machine
    <3> HIDE DEF p, m
    <3>3. QED
      BY <1>0, <2>1, <2>3, <2>5, <2>7, <2>8, <3>2, UpdateInvCompletes, UpdateInvBreaks
  <2>11. QED
    BY <2>9, <2>10
<1>7. CASE Migrate
  <2> DEFINE service == op.to \in ServiceMigrates
             schema  == Larger(machine.schema, Leaves[op.to])
             p       == [op EXCEPT !.touched = @ \/ service]
             f       == op.from.rel
  <2>1. op.pc = "migrate" /\ op.pc \in Steps /\ After("update", op.pc) = "start"
    BY <1>7 DEF Migrate, At, Steps, After
  <2>2. /\ machine.schema \in Nat /\ schema \in Nat /\ schema \in {machine.schema, Leaves[op.to]}
        /\ machine.schema \in Schemas /\ schema \in Schemas
        /\ Produces[op.to] \in Schemas /\ 0 \in Schemas
        /\ Leaves[op.to] \in Nat /\ Produces[op.to] \in Nat /\ Reads[f] \in Nat /\ Runs[f] \in Nat
        /\ Produces[op.to] = 0 \/ Leaves[op.to] <= Produces[op.to]
        /\ Reads[f] <= Runs[f]
    BY <1>0, <1>a, ProducesTyped, LargerTyped, SchemasAreNaturals, SchemaAssumption DEF Machine, Larger
  <2>3. p \in Process /\ Same(p)
    BY <1>0 DEF Process, Same
  <2>4. Tracked(op) => /\ Recoverable(machine, op) /\ ~op.noReturn /\ op.kind = "update"
                       /\ machine.schema <= Runs[f]
    BY <1>0, <2>1 DEF UpdateInv, BeforeTheRender, BeforeTheSchema, Steps, Tracked
  <2>5. CASE Leaves[op.to] = 0
    BY <1>0, <1>7, <2>1, <2>4, <2>5, UpdateInvCompletes DEF Migrate, BeforeTheRender, BeforeTheSchema
  <2>6. CASE Leaves[op.to] # 0
    <3>1. PICK n \in IF service THEN PartOfUp(machine, op.to) ELSE {machine} :
             \/ \E reported \in IF service THEN {Produces[op.to]} ELSE {0, schema},
                   known \in BOOLEAN :
                  Completes([n EXCEPT !.schema = schema],
                            [p EXCEPT !.reported = reported,
                                      !.noReturn = ClosesTheWayBack(reported, known)])
             \/ \E t \in {machine.schema, schema} : Breaks([n EXCEPT !.schema = t], p)
      BY <1>7, <2>6 DEF Migrate
    <3>2. n \in Machine
      BY <1>0, <1>a, <3>1, UpTyped
    <3>3. ASSUME NEW t \in {machine.schema, schema}, Breaks([n EXCEPT !.schema = t], p)
          PROVE  UpdateInv'
      <4>1. [n EXCEPT !.schema = t] \in Machine
        BY <2>2, <3>2 DEF Machine
      <4> HIDE DEF p
      <4>2. QED
        BY <1>0, <2>1, <2>3, <3>3, <4>1, UpdateInvBreaks
    <3>4. ASSUME NEW reported \in IF service THEN {Produces[op.to]} ELSE {0, schema},
                 NEW known \in BOOLEAN,
                 Completes([n EXCEPT !.schema = schema],
                           [p EXCEPT !.reported = reported,
                                     !.noReturn = ClosesTheWayBack(reported, known)])
          PROVE  UpdateInv'
      <4> DEFINE m == [n EXCEPT !.schema = schema]
                 q == [p EXCEPT !.reported = reported, !.noReturn = ClosesTheWayBack(reported, known)]
      <4>1. m \in Machine
        BY <2>2, <3>2 DEF Machine
      <4>2. /\ ClosesTheWayBack(reported, known) \in BOOLEAN
            /\ reported \in {0, Produces[op.to], schema} /\ reported \in Schemas
        BY <2>2 DEF ClosesTheWayBack
      <4>3. q \in Process /\ Same(q)
        BY <1>0, <4>2 DEF Process, Same
      <4>4. ASSUME Tracked(op) PROVE Recoverable(m, q)
        <5>1. /\ m.current = machine.current /\ m.previous = machine.previous /\ m.link = machine.link
              /\ m.config = machine.config /\ m.secrets = machine.secrets
              /\ service \/ m.running = machine.running
              /\ m.schema = schema
          BY <1>0, <3>1 DEF Machine, PartOfUp
        <5>2. /\ q.from = op.from /\ q.origin = op.origin /\ q.done = op.done /\ q.backup = op.backup
              /\ q.touched = (op.touched \/ service) /\ q.to = op.to /\ q.reported = reported
              /\ q.noReturn = ClosesTheWayBack(reported, known)
          BY <1>0, <4>2 DEF Process
        <5>3. ASSUME ~q.noReturn, Judged(q) PROVE schema <= Runs[f]
          <6> DEFINE told == IF reported > 0 THEN reported ELSE Produces[op.to]
          <6>1. Reads[f] > 0 /\ told > 0
            BY <2>6, <5>2, <5>3 DEF Judged
          <6>2. ~CannotRead(f, told)
            BY <2>4, <4>4, <5>2, <5>3 DEF ClosesTheWayBack, RestoreRequired
          <6>3. told <= Runs[f]
            <7>1. told \in Nat
              BY <2>2, <4>2
            <7>2. told <= Reads[f]
              BY <2>2, <6>1, <6>2, <7>1 DEF CannotRead
            <7>3. QED
              BY <2>2, <7>1, <7>2
          <6>4. CASE reported = schema /\ schema > 0
            BY <6>3, <6>4
          <6>5. CASE ~(reported = schema /\ schema > 0)
            <7>1. told = Produces[op.to]
              BY <2>2, <4>2, <6>5
            <7>2. Leaves[op.to] <= Runs[f]
              BY <2>2, <6>1, <6>3, <7>1
            <7>3. QED
              BY <2>2, <2>4, <4>4, <7>2
          <6>6. QED
            BY <6>4, <6>5
        <5> HIDE DEF m, q, service, schema
        <5>4. QED
          BY <2>4, <4>4, <5>1, <5>2, <5>3 DEF Recoverable, f
      <4> HIDE DEF m, q, p, schema
      <4>5. QED
        BY <1>0, <2>1, <3>4, <4>1, <4>3, <4>4, UpdateInvCompletes
           DEF m, q, BeforeTheRender, BeforeTheSchema
    <3> HIDE DEF p, schema
    <3>5. QED
      BY <3>1, <3>3, <3>4
  <2>7. QED
    BY <2>5, <2>6
<1>8. CASE StartServices
  <2> DEFINE p == [op EXCEPT !.touched = TRUE]
  <2>1. op.pc = "start" /\ op.pc \in Steps
        /\ \E m : (m = [machine EXCEPT !.running = {op.to}] \/ m \in PartOfUp(machine, op.to))
                  /\ (Completes(m, p) \/ Breaks(m, p))
    BY <1>8 DEF StartServices, At, Steps
  <2>2. p \in Process /\ Same(p)
    BY <1>0 DEF Process, Same
  <2>3. [machine EXCEPT !.running = {op.to}] \in Machine
    BY <1>0, <1>a DEF Machine
  <2>4. PICK m : /\ m \in Machine
                 /\ \E S : m = [machine EXCEPT !.running = S]
                 /\ Completes(m, p) \/ Breaks(m, p)
    BY <1>0, <1>a, <2>1, <2>3, UpTyped DEF PartOfUp
  <2>5. Recoverable(machine, op) => Recoverable(m, p)
    BY <1>0, <2>4 DEF Recoverable, Process, Machine, Judged
  <2>6. After("update", op.pc) = "health"
    BY <2>1 DEF After
  <2>7. Tracked(op) => Recoverable(machine, op)
    BY <1>b, <2>1
  <2> HIDE DEF p
  <2>8. QED
    BY <1>0, <2>1, <2>2, <2>4, <2>5, <2>6, <2>7, UpdateInvCompletes, UpdateInvBreaks
       DEF BeforeTheRender, BeforeTheSchema
<1>9. CASE RecordState
  <2>1. op.pc = "record" /\ op.pc \in Steps
    BY <1>9 DEF RecordState, At, Steps
  <2> DEFINE known == IF machine.current.rel = op.to THEN machine.current.schema ELSE 0
             rec   == [rel |-> op.to, schema |-> IF op.reported > 0 THEN op.reported ELSE known]
  <2>2. rec \in ReleaseRecord
    BY <1>0, <1>a, ProducesTyped DEF Machine, ReleaseRecord, Process
  <2>3. Completes(Point(machine, rec), op) \/ \E m \in PartOfPoint(machine, rec) : Breaks(m, op)
    BY <1>9 DEF RecordState
  <2> HIDE DEF rec
  <2>4. PICK m \in Machine : Completes(m, op) \/ Breaks(m, op)
    BY <1>0, <2>2, <2>3, PointTyped
  <2>5. After("update", op.pc) = "retire" /\ op.pc \in Aborts
    BY <2>1 DEF After, Aborts
  <2>6. QED
    BY <1>0, <2>1, <2>4, <2>5, UpdateInvCompletes, UpdateInvBreaks DEF BeforeTheRender, BeforeTheSchema
<1>10. CASE Succeed
  BY <1>10 DEF Succeed, EndsAs, UpdateInv
<1>11. QED
  BY <1>1, <1>2, <1>3, <1>4, <1>5, <1>6, <1>7, <1>8, <1>9, <1>10 DEF Forward

\* Going back.
LEMMA UpdateInvUndone ==
  ASSUME TypeOK, UpdateInv, op # None, op.pc = "undo",
         NEW c, NEW m, NEW p \in Process, Same(p), p.pc = "undo", p.broken = op.broken,
         \/ NotUndone(c, m, p)
         \/ /\ Undone(c, m, p) /\ p.allUndone = op.allUndone
            /\ Tracked(op) /\ Returning(machine, op) => Returning(m, [p EXCEPT !.todo = @ \ {c}])
  PROVE  UpdateInv'
<1>1. Same(op') /\ op'.pc = "undo" /\ machine' = m /\ op'.broken = op.broken
  <2>1. \A q \in Process : /\ [q EXCEPT !.todo = @ \ {c}] \in Process
                           /\ [q EXCEPT !.todo = @ \ {c}].broken = q.broken
    BY DEF Process
  <2>2. [p EXCEPT !.allUndone = FALSE] \in Process /\ [p EXCEPT !.allUndone = FALSE].broken = p.broken
    BY DEF Process
  <2>3. QED
    BY <2>1, <2>2, SameUndone DEF Undone, NotUndone
<1>2. SUFFICES ASSUME op' # None, Tracked(op') PROVE UpdateInv'
  BY <1>1 DEF UpdateInv
<1>3. Tracked(op) /\ op.origin.current = op.from
  BY <1>1, <1>2 DEF Tracked, Same, UpdateInv
<1>4. ASSUME ~op'.broken, op'.allUndone PROVE Returning(machine', op')
  <2>1. Undone(c, m, p) /\ ~NotUndone(c, m, p)
    BY <1>4 DEF NotUndone, Undone, Process
  <2>2. op' = [p EXCEPT !.todo = @ \ {c}] /\ op'.allUndone = p.allUndone
    BY <2>1 DEF Undone, Process
  <2>3. Returning(machine, op)
    BY <1>1, <1>3, <1>4, <2>1, <2>2 DEF UpdateInv
  <2>4. QED
    BY <1>1, <1>3, <2>1, <2>2, <2>3
<1>5. QED
  BY <1>1, <1>3, <1>4 DEF UpdateInv, Steps, BeforeTheRender, BeforeTheSchema, Same

LEMMA UpdateInvBackward ==
  ASSUME TypeOK, UpdateInv, Backward
  PROVE  UpdateInv'
<1>0. op # None /\ op.pc = "undo" /\ op \in Process /\ machine \in Machine /\ Same(op)
  BY DEF Backward, UndoConfiguration, UndoSecrets, UndoRelease, RestoreRuntime, Undoing,
         SettleUndone, CrashUndoing, TypeOK, Same
<1>1. CASE UndoConfiguration
  <2> DEFINE p == [op EXCEPT !.notRestored = TRUE]
             m == [machine EXCEPT !.config = op.backup]
  <2>1. "config" \in op.todo /\ (Undone("config", m, op) \/ \E n : NotUndone("config", n, p))
    BY <1>1 DEF UndoConfiguration, Undoing
  <2>2. p \in Process /\ Same(p) /\ p.pc = "undo" /\ p.broken = op.broken
    BY <1>0 DEF Process, Same
  <2>3. Returning(machine, op) => Returning(m, [op EXCEPT !.todo = @ \ {"config"}])
    BY <1>0, <2>1 DEF Returning, Process, Machine, Judged
  <2> HIDE DEF p, m
  <2>4. QED
    BY <1>0, <2>1, <2>2, <2>3, UpdateInvUndone
<1>2. CASE UndoSecrets
  <2> DEFINE p == [op EXCEPT !.kept = TRUE]
             m == [machine EXCEPT !.secrets = None]
  <2>1. /\ "secrets" \in op.todo
        /\ \/ Undone("secrets", machine, p)
           \/ machine.running = {} /\ Undone("secrets", m, op)
           \/ NotUndone("secrets", machine, op)
    BY <1>2 DEF UndoSecrets, Undoing
  <2>2. p \in Process /\ Same(p) /\ p.pc = "undo" /\ p.broken = op.broken /\ p.allUndone = op.allUndone
    BY <1>0 DEF Process, Same
  <2>3. Returning(machine, op) => Returning(machine, [p EXCEPT !.todo = @ \ {"secrets"}])
    BY <1>0, <2>1 DEF Returning, Process, Judged
  <2>4. machine.running = {} /\ Returning(machine, op) => Returning(m, [op EXCEPT !.todo = @ \ {"secrets"}])
    BY <1>0, <2>1 DEF Returning, Process, Machine, Judged
  <2> HIDE DEF p, m
  <2>5. QED
    BY <1>0, <2>1, <2>2, <2>3, <2>4, UpdateInvUndone
<1>3. CASE UndoRelease
  <2> DEFINE m == Point(machine, op.from)
  <2>1. "release" \in op.todo /\ (Undone("release", m, op) \/ \E n : NotUndone("release", n, op))
    BY <1>3 DEF UndoRelease, Undoing
  <2>2. Tracked(op) /\ Returning(machine, op) => Returning(m, [op EXCEPT !.todo = @ \ {"release"}])
    <3> SUFFICES ASSUME Tracked(op), Returning(machine, op)
                 PROVE  Returning(m, [op EXCEPT !.todo = @ \ {"release"}])
      OBVIOUS
    <3>1. machine.current = op.from
      BY <1>0 DEF UpdateInv, Returning
    <3>2. m = [machine EXCEPT !.current = op.from, !.link = op.from.rel]
      BY <1>0, <3>1 DEF Point, Promote, Machine
    <3>3. /\ m.current = machine.current /\ m.previous = machine.previous /\ m.link = op.from.rel
          /\ m.running = machine.running /\ m.secrets = machine.secrets /\ m.config = machine.config
          /\ m.schema = machine.schema
      BY <1>0, <3>1, <3>2 DEF Machine
    <3> HIDE DEF m
    <3>4. QED
      BY <1>0, <2>1, <3>3 DEF Returning, Process, Judged
  <2> HIDE DEF m
  <2>3. QED
    BY <1>0, <2>1, <2>2, UpdateInvUndone
<1>4. CASE RestoreRuntime
  <2> DEFINE f == op.from.rel
             rendered == [machine EXCEPT !.secrets = f]
             restored == [rendered EXCEPT !.running = {f}]
  <2>1. "runtime" \in op.todo /\ op.todo \subseteq {"runtime"}
    BY <1>0, <1>4 DEF RestoreRuntime, Undoing, Process, Compensators
  <2>2. \/ ~op.touched /\ ~op.kept /\ Undone("runtime", machine, op)
        \/ ~op.touched /\ op.kept /\ Undone("runtime", rendered, op)
        \/ op.touched /\ Undone("runtime", restored, op)
        \/ \E n : NotUndone("runtime", n, op)
    BY <1>4 DEF RestoreRuntime
  <2>3. op.todo \ {"runtime"} = {}
    BY <2>1
  <2>4. /\ ~op.touched /\ ~op.kept /\ Returning(machine, op)
             => Returning(machine, [op EXCEPT !.todo = @ \ {"runtime"}])
        /\ ~op.touched /\ op.kept /\ Returning(machine, op)
             => Returning(rendered, [op EXCEPT !.todo = @ \ {"runtime"}])
        /\ op.touched /\ Returning(machine, op)
             => Returning(restored, [op EXCEPT !.todo = @ \ {"runtime"}])
    BY <1>0, <2>1, <2>3 DEF Returning, Process, Machine, Judged
  <2> HIDE DEF rendered, restored
  <2>5. QED
    BY <1>0, <2>2, <2>4, UpdateInvUndone
<1>5. CASE SettleUndone \/ CrashUndoing
  BY <1>5 DEF SettleUndone, CrashUndoing, EndsAs, UpdateInv
<1>6. QED
  BY <1>1, <1>2, <1>3, <1>4, <1>5 DEF Backward

LEMMA UpdateInvStep == TypeOK /\ UpdateInv /\ [Next]_vars => UpdateInv'
<1> SUFFICES ASSUME TypeOK, UpdateInv, [Next]_vars PROVE UpdateInv'
  OBVIOUS
<1>1. CASE Commands
  <2> SUFFICES ASSUME op' # None, Tracked(op') PROVE UpdateInv'
    BY DEF UpdateInv
  <2>1. op = None
    BY <1>1 DEF Commands, Update, ResumeUpdate, Rollback, Apply, ResumeApply, Begin
  <2>2. PICK kind \in Kinds, to \in Releases : Begin(kind, to, First(kind))
    BY <1>1, <2>1, Starts DEF Next
  <2>3. /\ op'.kind = kind /\ op'.origin = machine /\ op'.from = machine.current /\ machine' = machine
        /\ op'.done = {} /\ op'.noReturn = FALSE /\ op'.pc = First(kind)
    BY <2>2 DEF Begin
  <2>4. op'.pc = "check" /\ Coherent(machine)
    BY <2>3 DEF Tracked, First
  <2>5. QED
    BY <2>3, <2>4 DEF UpdateInv, Coherent
<1>2. CASE \E k \in Kinds : Acknowledge(k)
  BY <1>2 DEF Acknowledge, UpdateInv
<1>3. CASE UNCHANGED vars
  BY <1>3 DEF vars, UpdateInv
<1>4. QED
  BY <1>1, <1>2, <1>3, UpdateInvForward, UpdateInvBackward DEF Next

\* An update that found the machine converged and ends compensated leaves it on the
\* release it ran, with its files, secrets and containers, over a schema it can run
\* against whenever that could be judged (CompensatedUpdateIsBack).
THEOREM UpdateIsBack == Spec => CompensatedUpdateIsBack
<1>1. TypeOK /\ RunningInv /\ UpdateInv /\ [Next]_vars
      => [SettlesAs("compensated") /\ op.kind = "update" /\ Coherent(op.origin)
            => /\ \A field \in {"current", "previous", "link", "config", "secrets", "running"} :
                    machine'[field] = op.origin[field]
               /\ Judged(op) => machine'.schema <= Runs[op.from.rel]]_vars
  <2> SUFFICES ASSUME TypeOK, RunningInv, UpdateInv, Next, SettlesAs("compensated"),
                      op.kind = "update", Coherent(op.origin)
               PROVE  /\ \A field \in {"current", "previous", "link", "config", "secrets", "running"} :
                           machine'[field] = op.origin[field]
                      /\ Judged(op) => machine'.schema <= Runs[op.from.rel]
    OBVIOUS
  <2>1. op # None /\ journal'[op.kind].status = "compensated"
    BY DEF SettlesAs
  <2>2. SettleUndone /\ op.allUndone /\ ~op.broken
    BY <2>1, HowItEnds
  <2>3. op.pc = "undo" /\ op.todo = {} /\ machine' = machine
    BY <2>2 DEF SettleUndone
  <2>4. Returning(machine, op) /\ op.origin.current = op.from
    BY <2>1, <2>2, <2>3 DEF UpdateInv, Tracked
  <2>5. /\ machine.current = op.origin.current /\ machine.previous = op.origin.previous
        /\ machine.link = op.origin.link /\ machine.config = op.origin.config
        /\ machine.secrets = op.origin.secrets /\ machine.running = op.origin.running
        /\ Judged(op) => machine.schema <= Runs[op.from.rel]
    BY <2>3, <2>4 DEF Returning, Coherent
  <2>6. QED
    BY <2>3, <2>5
<1>2. QED
  BY <1>1, TypeInit, TypeStep, RunningInvInit, RunningInvStep, UpdateInvInit, UpdateInvStep, PTL
     DEF Spec, CompensatedUpdateIsBack
=============================================================================
