---------------------------- MODULE Convergence ----------------------------
(***************************************************************************)
(* internal/lifecycle/ops apply.go, update.go and rollback.go: what the     *)
(* steps of the three converging operations do to the machine, and what     *)
(* their compensators put back.  StepEngine is how the steps are run; here  *)
(* the engine is only its outcome for each step, and the machine is what    *)
(* the steps change: the release records, the `current' link, the rendered  *)
(* configuration and secrets, the containers and the database's schema.     *)
(*                                                                          *)
(* One operation runs at a time (the deployment lock).                      *)
(***************************************************************************)
EXTENDS Integers

CONSTANTS
  Releases,         \* version numbers of the releases there are
  Leaves,           \* Leaves[r]: the schema r's migrations leave, 0 if it has none
  Runs,             \* Runs[r]: the newest schema r can run against
  Produces,         \* what r's manifest declares it leaves, 0 if undeclared
  Reads,            \* what r's manifest declares it can run against, 0 likewise
  RollbackSafe,     \* the releases that declare their migrations reversible
  ServiceMigrates,  \* the releases that migrate with a runtime service
  None,             \* no record, no secrets, no process
  MaxOps,           \* bound: processes that run an operation
  MaxBreaks,        \* bound: signals and crashes that cut one off
  MaxAcks           \* bound: acknowledgements of a wreck

Schemas == {0} \cup {Leaves[r] : r \in Releases} \cup {Produces[r] : r \in Releases}

ASSUME ReleaseAssumption == Releases \subseteq Nat /\ None \notin Releases

\* A release runs on what its own migrations leave; a manifest may be silent,
\* but neither promises more than is so nor hides what the migrations leave.
ASSUME SchemaAssumption ==
  /\ Leaves \in [Releases -> Nat] /\ Runs \in [Releases -> Nat]
  /\ Produces \in [Releases -> Nat] /\ Reads \in [Releases -> Nat]
  /\ \A r \in Releases : /\ Leaves[r] <= Runs[r]
                         /\ Produces[r] = 0 \/ Leaves[r] <= Produces[r]
                         /\ Reads[r] <= Runs[r]

ASSUME DeclaredAssumption == RollbackSafe \subseteq Releases /\ ServiceMigrates \subseteq Releases

ASSUME BoundAssumption == MaxOps \in Nat /\ MaxBreaks \in Nat /\ MaxAcks \in Nat

VARIABLES
  machine,  \* everything on the machine the steps change
  journal,  \* the newest record of each type of operation
  op,       \* memory of the process that runs one, or None
  ops, breaks, acks  \* what has been spent of the bounds

vars == <<machine, journal, op, ops, breaks, acks>>

Kinds == {"apply", "update", "rollback"}

Statuses == {"none", "running", "succeeded", "failed", "compensated",
             "interrupted", "requires-manual-intervention"}

Steps == {"check", "stage", "preflight", "point", "load", "secrets", "config",
          "validate", "migrate", "start", "health", "record", "retire"}

\* A recorded schema of 0 is one nobody reported.
ReleaseRecord == [rel : Releases, schema : Schemas]

Machine == [current  : ReleaseRecord,
            previous : ReleaseRecord \cup {None},
            link     : Releases,
            store    : SUBSET Releases,   \* releases in the release store
            config   : SUBSET Releases,   \* whose rendered files are in place
            secrets  : Releases \cup {None},
            running  : SUBSET Releases,   \* whose containers are up
            schema   : Schemas]

Compensators == {"config", "secrets", "release", "runtime"}

Process == [kind : Kinds, pc : Steps \cup {"end", "undo"},
            from : ReleaseRecord, to : Releases,
            done : SUBSET Compensators,    \* compensators of the steps completed here
            backup : SUBSET Releases,      \* the configuration the render replaced
            touched : BOOLEAN,             \* keyServicesTouched
            kept : BOOLEAN,                \* keySecretsKept
            notRestored : BOOLEAN,         \* keyConfigNotRestored
            reported : Schemas,           \* KeySchemaVersion
            noReturn : BOOLEAN,            \* past the point of no return
            todo : SUBSET Compensators, broken : BOOLEAN, allUndone : BOOLEAN,
            origin : Machine]              \* history: the machine this process found

-----------------------------------------------------------------------------
(* Operators of the domain *)

Larger(a, b) == IF a > b THEN a ELSE b

\* Two unknowns forbid nothing: a schema nobody reported, and a release that
\* declares no newest schema.
CannotRead(r, schema) == Reads[r] > 0 /\ schema > Reads[r]

\* AssessRollback's RestoreRequired.
RestoreRequired(current, previous, schema) ==
  \/ current \notin RollbackSafe
  \/ CannotRead(previous, schema)

\* Store.SetCurrentRelease: the previous record moves only with the version.
Promote(m, rec) ==
  [m EXCEPT !.previous = IF m.current.rel # rec.rel THEN m.current ELSE @,
            !.current  = rec]

\* The record and then the symlink.
Point(m, rec) == [Promote(m, rec) EXCEPT !.link = rec.rel]

\* What a fault can leave of it: two files are written, then the link.
PartOfPoint(m, rec) ==
  {m, [m EXCEPT !.previous = Promote(m, rec).previous], Promote(m, rec)}

\* What a `compose up' that failed or was cut off can leave running.
PartOfUp(m, r) == {[m EXCEPT !.running = S] : S \in {m.running, m.running \cup {r}, {r}, {}}}

-----------------------------------------------------------------------------
(* The process *)

First(kind) == IF kind = "update" THEN "check" ELSE "preflight"

\* updateSteps, rollbackSteps, applySteps: the order.  A rollback moves the pointers
\* between apply's first step and its second.
After(kind, step) ==
  CASE step = "check"     -> "stage"
    [] step = "stage"     -> "preflight"
    [] step = "preflight" -> IF kind = "rollback" THEN "point" ELSE "load"
    [] step = "point"     -> "load"
    [] step = "load"      -> "secrets"
    [] step = "secrets"   -> "config"
    [] step = "config"    -> "validate"
    [] step = "validate"  -> "migrate"
    [] step = "migrate"   -> "start"
    [] step = "start"     -> "health"
    [] step = "health"    -> "record"
    [] step = "record"    -> IF kind = "apply" THEN "end" ELSE "retire"
    [] step = "retire"    -> "end"

Aborts == {"check", "preflight", "load", "record", "retire"}

\* UnfinishedOperations: what gateUnfinished refuses to drive over.
Unfinished(kind) == journal[kind].status \in {"running", "requires-manual-intervention"}

Resumable(kind) == journal[kind].status \in {"running", "interrupted", "failed"}

ResumeFrom_Journal(kind) == IF journal[kind].at \in Steps THEN journal[kind].at ELSE First(kind)

\* A resumed run's finished steps run again: every one that changes the machine
\* is idempotent, and what they put in memory died with the first process.
ResumeFrom(kind) == First(kind)

Begin(kind, to, step) ==
  /\ op = None
  /\ ops < MaxOps
  /\ ops' = ops + 1
  /\ op' = [kind |-> kind, pc |-> step, from |-> machine.current, to |-> to,
            done |-> {}, backup |-> {}, touched |-> FALSE, kept |-> FALSE,
            notRestored |-> FALSE, reported |-> 0, noReturn |-> FALSE,
            todo |-> {}, broken |-> FALSE, allUndone |-> TRUE, origin |-> machine]
  /\ journal' = [journal EXCEPT ![kind] = [status |-> "running", at |-> step]]
  /\ UNCHANGED <<machine, breaks, acks>>

NothingUnfinished == \A k \in Kinds : ~Unfinished(k)

OthersFinished(kind) == \A k \in Kinds \ {kind} : ~Unfinished(k)

\* --allow-older lets an operator name any release.
Update(to) == NothingUnfinished /\ Begin("update", to, First("update"))

\* The resuming command names its release again.
ResumeUpdate(to) == /\ Resumable("update")
                    /\ OthersFinished("update")
                    /\ Begin("update", to, ResumeFrom("update"))

\* An operator's, or the boot's.
Apply == NothingUnfinished /\ Begin("apply", machine.current.rel, First("apply"))

ResumeApply == /\ Resumable("apply")
               /\ OthersFinished("apply")
               /\ Begin("apply", machine.current.rel, ResumeFrom("apply"))

MayRollBackTo(r) ==
  /\ r # machine.current.rel
  /\ ~RestoreRequired(machine.current.rel, r, machine.current.schema)

\* rollbackEndpoints: the previous release, or with --to an older installed one.
Rollback(r) ==
  /\ NothingUnfinished
  /\ \/ machine.previous # None /\ r = machine.previous.rel
     \/ r \in machine.store /\ r < machine.current.rel
  /\ MayRollBackTo(r)
  /\ Begin("rollback", r, First("rollback"))

-----------------------------------------------------------------------------
(* How a step ends *)

At(step) == op # None /\ op.pc = step

Journal(status, at) ==
  journal' = [journal EXCEPT ![op.kind] = [status |-> status, at |-> at]]

\* The step is over; p is the process with what the step left in its memory.
Completes(m, p) ==
  /\ machine' = m
  /\ op' = [p EXCEPT !.pc = After(op.kind, op.pc)]
  /\ Journal("running", After(op.kind, op.pc))
  /\ UNCHANGED <<ops, breaks, acks>>

EndsAs(status, at) == /\ op' = None
                      /\ Journal(status, at)
                      /\ UNCHANGED <<ops, acks>>

\* handleFailure.  Past the point of no return no step has a compensator.
Fails(p) ==
  /\ \/ /\ p.noReturn
        /\ EndsAs("requires-manual-intervention", op.pc)
     \/ /\ ~p.noReturn
        /\ op.pc \in Aborts
        /\ EndsAs("failed", op.pc)
     \/ /\ ~p.noReturn
        /\ op.pc \notin Aborts
        /\ op' = [p EXCEPT !.pc = "undo", !.todo = p.done, !.broken = (op.pc = "migrate")]
        /\ UNCHANGED <<journal, ops, acks>>
  /\ UNCHANGED breaks

\* A signal or --timeout ends it with nothing undone, a crash with nothing written.
CutOff == /\ breaks < MaxBreaks
          /\ breaks' = breaks + 1
          /\ \/ EndsAs("interrupted", op.pc)
             \/ EndsAs("running", op.pc)

\* The step fails or is cut off having left the machine at m.
Breaks(m, p) == machine' = m /\ (Fails(p) \/ CutOff)

-----------------------------------------------------------------------------
(* The steps *)

\* check-compatibility, and the restore point an update lays down before it stages.
CheckCompatibility ==
  /\ At("check")
  /\ \/ /\ ~CannotRead(op.to, op.from.schema)
        /\ Completes(machine, [op EXCEPT !.done = {"runtime"}])
     \/ Breaks(machine, op)

\* Skipped, and then never undone, when the release is in the store already.
StageRelease ==
  /\ At("stage")
  /\ IF op.to \in machine.store
     THEN Completes(machine, op)
     ELSE LET p == [op EXCEPT !.done = @ \cup {"release"}]
          IN  \/ Completes([machine EXCEPT !.store = @ \cup {op.to}], p)
              \/ Breaks(machine, p)

\* Preflight, load-secrets, validate-runtime (with pull-images), health-checks (with
\* smoke-test) and retire-parameters leave what is modelled alone.
ReadOnlyStep ==
  /\ op # None
  /\ op.pc \in {"preflight", "load", "validate", "health", "retire"}
  /\ \/ Completes(machine, op)
     \/ Breaks(machine, op)

\* The schema is carried: the record has to describe the database.
PointToPrevious ==
  /\ At("point")
  /\ LET rec == [rel |-> op.to, schema |-> op.from.schema]
         p   == [op EXCEPT !.done = @ \cup {"release"}]
     IN  \/ Completes(Point(machine, rec), p)
         \/ \E m \in PartOfPoint(machine, rec) : Breaks(m, p)

RenderSecrets ==
  /\ At("secrets")
  /\ LET p == [op EXCEPT !.done = @ \cup {"secrets"}]
     IN  \/ Completes([machine EXCEPT !.secrets = op.to], p)
         \/ \E s \in {machine.secrets, op.to} :
              Breaks([machine EXCEPT !.secrets = s], p)

\* Skipped when every file is as it would be rendered.
RenderConfiguration ==
  /\ At("config")
  /\ IF machine.config = {op.to}
     THEN Completes(machine, op)
     ELSE LET p == [op EXCEPT !.done = @ \cup {"config"}, !.backup = machine.config]
          IN  \/ Completes([machine EXCEPT !.config = {op.to}], p)
              \/ \E c \in {machine.config, machine.config \cup {op.to}} :
                   Breaks([machine EXCEPT !.config = c], p)

\* passIfFallbackCannotRead: judged by the schema reported, or else declared; a
\* fallback whose manifest cannot be read may not be returned to.
ClosesTheWayBack(reported, known) ==
  /\ op.kind = "update"
  /\ \/ ~known
     \/ RestoreRequired(op.to, op.from.rel,
                        IF reported > 0 THEN reported ELSE Produces[op.to])

\* A service's success is taken for the schema its release declares, if it does; a
\* hook may report the schema or nothing.  A service may replace what it depends
\* on.  A release without migrations skips the step, and nothing is judged.
Migrate ==
  /\ At("migrate")
  /\ IF Leaves[op.to] = 0
     THEN Completes(machine, op)
     ELSE LET service == op.to \in ServiceMigrates
              schema  == Larger(machine.schema, Leaves[op.to])
              p       == [op EXCEPT !.touched = @ \/ service]
          IN  \E m \in IF service THEN PartOfUp(machine, op.to) ELSE {machine} :
                \/ \E reported \in IF service THEN {Produces[op.to]} ELSE {0, schema},
                      known \in BOOLEAN :
                     Completes([m EXCEPT !.schema = schema],
                               [p EXCEPT !.reported = reported,
                                         !.noReturn = ClosesTheWayBack(reported, known)])
                \/ \E s \in {machine.schema, schema} : Breaks([m EXCEPT !.schema = s], p)

StartServices_TouchedAfter ==
  /\ At("start")
  /\ \/ Completes([machine EXCEPT !.running = {op.to}], [op EXCEPT !.touched = TRUE])
     \/ \E m \in PartOfUp(machine, op.to) : Breaks(m, op)

\* The containers count as touched before the first of them is replaced.
StartServices ==
  /\ At("start")
  /\ LET p == [op EXCEPT !.touched = TRUE]
     IN  \/ Completes([machine EXCEPT !.running = {op.to}], p)
         \/ \E m \in PartOfUp(machine, op.to) : Breaks(m, p)

\* The schema reported here, else the one on record for the same release.
RecordState ==
  /\ At("record")
  /\ LET known == IF machine.current.rel = op.to THEN machine.current.schema ELSE 0
         rec   == [rel    |-> op.to,
                   schema |-> IF op.reported > 0 THEN op.reported ELSE known]
     IN  \/ Completes(Point(machine, rec), op)
         \/ \E m \in PartOfPoint(machine, rec) : Breaks(m, op)

Succeed == /\ At("end")
           /\ EndsAs("succeeded", "end")
           /\ UNCHANGED <<machine, breaks>>

-----------------------------------------------------------------------------
(* Compensation, newest first *)

Undoing(c, newer) == /\ op # None
                     /\ op.pc = "undo"
                     /\ c \in op.todo
                     /\ op.todo \cap newer = {}

\* The compensator returned; an error is remembered and the next one runs.
Undone(c, m, p) == /\ machine' = m
                   /\ op' = [p EXCEPT !.todo = @ \ {c}]
                   /\ UNCHANGED <<journal, ops, breaks, acks>>

NotUndone(c, m, p) == Undone(c, m, [p EXCEPT !.allUndone = FALSE])

\* restoreConfigBackups: a file that cannot be put back is remembered.
UndoConfiguration ==
  /\ Undoing("config", {})
  /\ \/ Undone("config", [machine EXCEPT !.config = op.backup], op)
     \/ \E c \in {machine.config, machine.config \cup op.backup} :
          NotUndone("config", [machine EXCEPT !.config = c], [op EXCEPT !.notRestored = TRUE])

\* Removed only while nothing runs; a runtime that does not answer may have
\* containers up.
UndoSecrets ==
  /\ Undoing("secrets", {"config"})
  /\ \/ Undone("secrets", machine, [op EXCEPT !.kept = TRUE])
     \/ /\ machine.running = {}
        /\ \/ Undone("secrets", [machine EXCEPT !.secrets = None], op)
           \/ NotUndone("secrets", machine, op)

UndoRelease_LinkOnly ==
  /\ Undoing("release", {"config", "secrets"})
  /\ \/ Undone("release", [machine EXCEPT !.link = op.from.rel], op)
     \/ NotUndone("release", machine, op)

\* stage-release's and point-to-previous' compensators.
UndoRelease ==
  /\ Undoing("release", {"config", "secrets"})
  /\ \/ Undone("release", Point(machine, op.from), op)
     \/ \E m \in PartOfPoint(machine, op.from) : NotUndone("release", m, op)

\* restorePreviousRuntime: the secrets again, and the containers if any were
\* touched and the configuration they read was put back.
RestoreRuntime ==
  /\ Undoing("runtime", {"config", "secrets", "release"})
  /\ LET rendered == [machine EXCEPT !.secrets = op.from.rel]
     IN  \/ ~op.touched /\ ~op.kept /\ Undone("runtime", machine, op)
         \/ ~op.touched /\ op.kept /\ Undone("runtime", rendered, op)
         \/ /\ op.touched /\ ~op.notRestored
            /\ Undone("runtime", [rendered EXCEPT !.running = {op.from.rel}], op)
         \/ (op.touched \/ op.kept) /\ NotUndone("runtime", machine, op)
         \/ /\ op.touched /\ ~op.notRestored
            /\ \E m \in PartOfUp(rendered, op.from.rel) : NotUndone("runtime", m, op)

SettleUndone ==
  /\ op # None /\ op.pc = "undo"
  /\ op.todo = {}
  /\ EndsAs(IF op.broken \/ ~op.allUndone THEN "requires-manual-intervention"
                                          ELSE "compensated", "end")
  /\ UNCHANGED <<machine, breaks>>

\* Compensation writes nothing until it is over: the journal still says running.
CrashUndoing == /\ op # None /\ op.pc = "undo"
                /\ breaks < MaxBreaks
                /\ breaks' = breaks + 1
                /\ op' = None
                /\ UNCHANGED <<machine, journal, ops, acks>>

-----------------------------------------------------------------------------
\* `morzer status --clear-intervention'.
Acknowledge(kind) ==
  /\ op = None
  /\ Unfinished(kind)
  /\ acks < MaxAcks
  /\ acks' = acks + 1
  /\ journal' = [journal EXCEPT ![kind].status = "failed"]
  /\ UNCHANGED <<machine, op, ops, breaks>>

NoOperation == [status |-> "none", at |-> "end"]

Coherent(m) == /\ m.link = m.current.rel
               /\ m.config = {m.current.rel}
               /\ m.secrets = m.current.rel
               /\ m.running = {m.current.rel}
               /\ m.schema <= Runs[m.current.rel]

\* A converged machine: a release over its database, whose schema is on record or
\* is not, and the release an update or a rollback left behind, whose migrations the
\* database has seen.
Init ==
  /\ \E r \in Releases, s \in Schemas :
       \E left \in {None} \cup {p \in Releases \ {r} : Leaves[p] <= s}, onRecord \in {0, s} :
         /\ Leaves[r] <= s /\ s <= Runs[r]
         /\ machine = [current  |-> [rel |-> r, schema |-> onRecord],
                       previous |-> IF left = None THEN None
                                    ELSE [rel |-> left, schema |-> Leaves[left]],
                       link |-> r, store |-> {r} \cup ({left} \ {None}),
                       config |-> {r}, secrets |-> r, running |-> {r}, schema |-> s]
  /\ journal = [k \in Kinds |-> NoOperation]
  /\ op = None
  /\ ops = 0 /\ breaks = 0 /\ acks = 0

Commands == \/ \E r \in Releases : Update(r) \/ ResumeUpdate(r) \/ Rollback(r)
            \/ Apply
            \/ ResumeApply

Forward == \/ CheckCompatibility \/ StageRelease \/ ReadOnlyStep \/ PointToPrevious
           \/ RenderSecrets \/ RenderConfiguration \/ Migrate \/ StartServices
           \/ RecordState \/ Succeed

Backward == \/ UndoConfiguration \/ UndoSecrets \/ UndoRelease \/ RestoreRuntime
            \/ SettleUndone \/ CrashUndoing

Next == Commands \/ Forward \/ Backward \/ \E k \in Kinds : Acknowledge(k)

Spec == Init /\ [][Next]_vars

-----------------------------------------------------------------------------
(* Properties *)

\* Every variable has its type.
TypeOK ==
  /\ machine \in Machine
  /\ journal \in [Kinds -> [status : Statuses, at : Steps \cup {"end"}]]
  /\ op \in Process \cup {None}
  /\ ops \in 0..MaxOps /\ breaks \in 0..MaxBreaks /\ acks \in 0..MaxAcks

SettlesAs(status) == op # None /\ op' = None /\ journal'[op.kind].status = status

\* Whether the point of no return could be judged: the release has no migrations,
\* or their schema was reported or declared and the fallback declares what it reads.
Judged(p) ==
  \/ Leaves[p.to] = 0
  \/ Reads[p.from.rel] > 0 /\ (p.reported > 0 \/ Produces[p.to] > 0)

\* An update that found the machine converged and says `compensated' leaves it
\* there: the records, the link, the files, the secrets and the containers of the
\* release that was running, and, whenever what the manifests declare and the
\* migrations report lets it be judged, a schema that release can run against.
CompensatedUpdateIsBack ==
  [][SettlesAs("compensated") /\ op.kind = "update" /\ Coherent(op.origin)
     => /\ \A field \in {"current", "previous", "link", "config", "secrets", "running"} :
             machine'[field] = op.origin[field]
        /\ Judged(op) => machine'.schema <= Runs[op.from.rel]]_vars

\* A rollback that says `compensated' leaves the current record and the link as
\* it found them.  One that says `failed' changed nothing, or has moved both with the
\* containers; only when load-secrets fails, which comes after the move and is not
\* compensated, are they moved alone.
RollbackMovesOrPointsBack ==
  [][op # None /\ op.kind = "rollback"
     => /\ SettlesAs("compensated") => /\ machine'.current = op.origin.current
                                       /\ machine'.link = op.from.rel
        /\ SettlesAs("failed") =>
             \/ machine' = op.origin
             \/ /\ machine'.current.rel = op.to
                /\ machine'.link = op.to
                /\ machine'.running = IF op.pc = "load" THEN op.origin.running
                                                        ELSE {op.to}]_vars

\* What succeeded is all there: one release on record, linked, configured and
\* running, even when the process that says so resumed another one's work.
SucceededIsConverged ==
  [][SettlesAs("succeeded")
     => /\ machine'.current.rel = op.to
        /\ machine'.link = op.to
        /\ machine'.config = {op.to}
        /\ machine'.secrets = op.to
        /\ machine'.running = {op.to}]_vars

\* AssessRollback is asked about the schema the database is at, so a release a
\* rollback starts over a schema on record can run against the database.
RolledBackReadsTheDatabase ==
  [][SettlesAs("succeeded") /\ op.kind = "rollback" /\ op.from.schema > 0
     => machine'.schema <= Runs[op.to]]_vars
=============================================================================
