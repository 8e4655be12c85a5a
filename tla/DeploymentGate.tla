--------------------------- MODULE DeploymentGate ---------------------------
(***************************************************************************)
(* internal/lifecycle/ops: commands of several processes on one            *)
(* installation.  A command reads the installation, the release records    *)
(* and the journal and builds its plan without the lock, waits for the     *)
(* deployment lock, checks again what it read, runs, and releases.         *)
(*                                                                         *)
(* A command is one invocation of the manager, named by the operation id   *)
(* it draws before it takes the lock.  Everything durable is written under *)
(* the lock; what happens inside Engine.Run is StepEngine's subject, and   *)
(* only the writes other commands read appear here.                        *)
(***************************************************************************)
EXTENDS Naturals, FiniteSets

CONSTANTS Commands,   \* invocations of the manager
          Kinds,      \* bound: the operations they may ask for
          Releases,   \* installable releases
          NoRelease,  \* no release recorded
          None        \* no command, no operation

ASSUME NamesAssumption == NoRelease \notin Releases /\ None \notin Commands
ASSUME CommandsAssumption == IsFiniteSet(Commands)

\* Other gated commands (restart, rotate-signing-key, task) read and check what
\* an apply does, and other ungated ones (restore, config, prune) what a backup does.
Gated == {"apply", "start", "update", "stop", "rollback"}
Types == Gated \cup {"backup"}
Resumable == {"apply", "start", "update", "stop"}

\* Refused while an operator has the product stopped.
Starts == {"apply", "update", "rollback"}

\* Operations that move the release records.
Moves == {"update", "rollback"}

Final == {"succeeded", "failed", "compensated", "interrupted",
          "requires-manual-intervention"}

ASSUME KindsAssumption == Kinds \subseteq Types

VARIABLES
  installed,  \* the release records and the stop record
  ops,        \* the newest record of each operation
  drawn,      \* when each operation id was drawn: 1 for the first, 0 for not yet
  began,      \* history: when each operation first ran, likewise
  lock,       \* the command that holds the deployment lock
  cmd         \* the memory of each command

vars == <<installed, ops, drawn, began, lock, cmd>>

NoRecord == [type |-> "none", status |-> "none", at |-> 0]

NewCommand == [pc |-> "new", type |-> "none", op |-> None, prior |-> None,
               current |-> NoRelease, previous |-> NoRelease, to |-> NoRelease,
               marked |-> FALSE]

-----------------------------------------------------------------------------
(* What a command reads *)

Unfinished == {o \in Commands : ops[o].status \in {"running", "requires-manual-intervention"}}

\* gateUnfinished, which excludes the record a resume continues.
GateOpen(c, prior) == cmd[c].type \in Gated => Unfinished \subseteq {prior}

\* Operations sorts by the second an operation started in, then by id.
Later(o, p) == \/ ops[o].at > ops[p].at
               \/ ops[o].at = ops[p].at /\ drawn[o] > drawn[p]

Newest(t, o) == /\ ops[o].type = t
                /\ \A p \in Commands \ {o} : ops[p].type = t => Later(o, p)

FindResumable_Any(t, o) == /\ ops[o].type = t
                           /\ ops[o].status \in {"running", "interrupted", "failed"}

\* findResumable: the newest record of the type decides.
FindResumable(t, o) == /\ Newest(t, o)
                       /\ ops[o].status \in {"running", "interrupted", "failed"}

Dated(when, o) ==
  [when EXCEPT ![o] = 1 + Cardinality({p \in Commands : when[p] > 0})]

Goes(c, memory) == cmd' = [cmd EXCEPT ![c] = memory]

At(c, pc) == cmd[c].pc = pc

Leave(c) == /\ Goes(c, [NewCommand EXCEPT !.pc = "done"])
            /\ lock' = IF lock = c THEN None ELSE lock

-----------------------------------------------------------------------------
(* The plan, without the lock *)

\* loadInstallation, and the refusal while stopped.
Invoke(c, t) == /\ At(c, "new")
                /\ t \in Starts => ~installed.stopped
                /\ Goes(c, [NewCommand EXCEPT !.pc = "release", !.type = t, !.op = c])
                /\ UNCHANGED <<installed, ops, drawn, began, lock>>

\* CurrentRelease; an update is for the release its operator names.
ReadCurrent(c) ==
  /\ At(c, "release")
  /\ \E to \in IF cmd[c].type = "update" THEN Releases ELSE {installed.current} :
       Goes(c, [cmd[c] EXCEPT !.current = installed.current, !.to = to,
                  !.pc = IF cmd[c].type = "rollback" THEN "previous" ELSE "journal"])
  /\ UNCHANGED <<installed, ops, drawn, began, lock>>

\* rollbackEndpoints: the previous record names where to go.
ReadPrevious(c) ==
  /\ At(c, "previous")
  /\ installed.previous \notin {NoRelease, cmd[c].current}
  /\ Goes(c, [cmd[c] EXCEPT !.previous = installed.previous, !.to = installed.previous,
                !.pc = "journal"])
  /\ UNCHANGED <<installed, ops, drawn, began, lock>>

\* The journal: with --resume, the record to continue; and the gate.  The
\* command draws its own operation id here.
ReadJournal(c) ==
  /\ At(c, "journal")
  /\ \/ /\ GateOpen(c, None)
        /\ Goes(c, [cmd[c] EXCEPT !.pc = "waiting"])
     \/ /\ cmd[c].type \in Resumable
        /\ \E o \in Commands :
             /\ FindResumable(cmd[c].type, o)
             /\ GateOpen(c, o)
             /\ Goes(c, [cmd[c] EXCEPT !.pc = "waiting", !.op = o, !.prior = o])
  /\ drawn' = Dated(drawn, c)
  /\ UNCHANGED <<installed, ops, began, lock>>

\* Any refusal of the plan, the lock held by another with no --wait, an
\* interrupted wait, and a kill before the lock all end the command here.
GiveUp(c) == /\ cmd[c].pc \in {"release", "previous", "journal", "waiting"}
             /\ Leave(c)
             /\ UNCHANGED <<installed, ops, drawn, began>>

-----------------------------------------------------------------------------
(* Under the lock *)

TakeLock(c) == /\ At(c, "waiting")
               /\ lock = None
               /\ lock' = c
               /\ Goes(c, [cmd[c] EXCEPT !.pc = "locked"])
               /\ UNCHANGED <<installed, ops, drawn, began>>

StillHolds_NoRefresh(c) ==
  /\ cmd[c].type \in Starts => ~installed.stopped
  /\ GateOpen(c, cmd[c].prior)
  /\ cmd[c].type \in Gated => installed.current = cmd[c].current
  /\ cmd[c].type = "rollback" => installed.previous = cmd[c].previous

StillHolds_NoGate(c) ==
  /\ cmd[c].type \in Starts => ~installed.stopped
  /\ cmd[c].prior # None => FindResumable(cmd[c].type, cmd[c].prior)
  /\ cmd[c].type \in Gated => installed.current = cmd[c].current
  /\ cmd[c].type = "rollback" => installed.previous = cmd[c].previous

StillHolds_NoPrevious(c) ==
  /\ cmd[c].type \in Starts => ~installed.stopped
  /\ cmd[c].prior # None => FindResumable(cmd[c].type, cmd[c].prior)
  /\ GateOpen(c, cmd[c].prior)
  /\ cmd[c].type \in Gated => installed.current = cmd[c].current

\* The checks repeated under the lock: refuseIfStoppedNow, refreshResumable,
\* gateUnfinished and refuseMovedRelease.
StillHolds(c) ==
  /\ cmd[c].type \in Starts => ~installed.stopped
  /\ cmd[c].prior # None => FindResumable(cmd[c].type, cmd[c].prior)
  /\ GateOpen(c, cmd[c].prior)
  /\ cmd[c].type \in Gated => installed.current = cmd[c].current
  /\ cmd[c].type = "rollback" => installed.previous = cmd[c].previous

RefuseStale(c) == /\ At(c, "locked")
                  /\ ~StillHolds(c)
                  /\ Leave(c)
                  /\ UNCHANGED <<installed, ops, drawn, began>>

\* The clock, in seconds: an operation starts in the second the last one did, or
\* in a later one.
Seconds == {s \in 1..Cardinality(Commands) :
              /\ \A o \in Commands : ops[o].at <= s
              /\ s > 1 => \E o \in Commands : ops[o].at >= s - 1}

\* Engine.Run journals its first record: a resumed operation keeps its id and
\* its start.
Run(c) ==
  /\ At(c, "locked")
  /\ StillHolds(c)
  /\ \E at \in IF cmd[c].prior = None THEN Seconds ELSE {ops[cmd[c].op].at} :
       ops' = [ops EXCEPT ![cmd[c].op] = [type |-> cmd[c].type, status |-> "running",
                                          at |-> at]]
  /\ began' = IF cmd[c].prior = None THEN Dated(began, c) ELSE began
  /\ Goes(c, [cmd[c] EXCEPT !.pc = "running"])
  /\ UNCHANGED <<installed, drawn, lock>>

\* SetCurrentRelease, first write: what is current is kept as previous.
Demote(c, to) == /\ installed.current # to
                 /\ installed' = [installed EXCEPT !.previous = installed.current]

\* The writes other commands read: the two of SetCurrentRelease, and the stop
\* record, which a stop sets unless one is there and a start clears.
DemoteCurrent(c) == /\ At(c, "running")
                    /\ cmd[c].type \in Moves
                    /\ Demote(c, cmd[c].to)
                    /\ Goes(c, [cmd[c] EXCEPT !.pc = "demoted"])
                    /\ UNCHANGED <<ops, drawn, began, lock>>

PromoteNew(c) == /\ \/ At(c, "demoted")
                    \/ At(c, "running") /\ cmd[c].type \in Moves
                         /\ installed.current = cmd[c].to
                 /\ installed' = [installed EXCEPT !.current = cmd[c].to]
                 /\ Goes(c, [cmd[c] EXCEPT !.pc = "worked"])
                 /\ UNCHANGED <<ops, drawn, began, lock>>

RecordStop(c) == /\ At(c, "running")
                 /\ cmd[c].type = "stop"
                 /\ installed' = [installed EXCEPT !.stopped = TRUE]
                 /\ Goes(c, [cmd[c] EXCEPT !.pc = "worked", !.marked = ~installed.stopped])
                 /\ UNCHANGED <<ops, drawn, began, lock>>

ClearStop(c) == /\ At(c, "running")
                /\ cmd[c].type = "start"
                /\ installed' = [installed EXCEPT !.stopped = FALSE]
                /\ Goes(c, [cmd[c] EXCEPT !.pc = "worked"])
                /\ UNCHANGED <<ops, drawn, began, lock>>

\* Compensation takes back the move of a rollback, and the stop this run set.
UndoMove(c) == /\ At(c, "worked")
               /\ cmd[c].type = "rollback"
               /\ Demote(c, cmd[c].current)
               /\ Goes(c, [cmd[c] EXCEPT !.pc = "undemoted"])
               /\ UNCHANGED <<ops, drawn, began, lock>>

UndoPromotion(c) == /\ At(c, "undemoted")
                    /\ installed' = [installed EXCEPT !.current = cmd[c].current]
                    /\ Goes(c, [cmd[c] EXCEPT !.pc = "undone"])
                    /\ UNCHANGED <<ops, drawn, began, lock>>

UndoStop(c) == /\ At(c, "worked")
               /\ cmd[c].marked
               /\ installed' = [installed EXCEPT !.stopped = FALSE]
               /\ Goes(c, [cmd[c] EXCEPT !.pc = "undone"])
               /\ UNCHANGED <<ops, drawn, began, lock>>

\* An operation succeeds when its writes are made, and is compensated when they
\* are not, or are taken back; it fails, stops or needs a person anywhere.
Outcome(c, s) ==
  /\ s = "succeeded" =>
       \/ cmd[c].pc = "worked"
       \/ cmd[c].pc = "running" /\ cmd[c].type \in {"apply", "backup"}
  /\ s = "compensated" =>
       \/ cmd[c].pc \in {"running", "undone"}
       \/ cmd[c].pc = "demoted" /\ cmd[c].type = "rollback"
       \/ cmd[c].pc = "worked" /\ cmd[c].type = "stop" /\ ~cmd[c].marked

Finish(c, s) ==
  /\ cmd[c].pc \in {"running", "demoted", "worked", "undemoted", "undone"}
  /\ Outcome(c, s)
  /\ ops' = [ops EXCEPT ![cmd[c].op].status = s]
  /\ Leave(c)
  /\ UNCHANGED <<installed, drawn, began>>

\* SIGKILL or a power cut: the kernel drops the lock, the record stays.
Crash(c) == /\ cmd[c].pc \in {"locked", "running", "demoted", "worked", "undemoted", "undone"}
            /\ Leave(c)
            /\ UNCHANGED <<installed, ops, drawn, began>>

ClearIntervention_Unlocked(c) ==
  /\ At(c, "new")
  /\ \E o \in Unfinished : ops' = [ops EXCEPT ![o].status = "failed"]
  /\ Goes(c, [NewCommand EXCEPT !.pc = "done"])
  /\ UNCHANGED <<installed, drawn, began, lock>>

\* The acknowledgement selects its target and writes it off under one lock.
ClearIntervention(c) ==
  /\ At(c, "new")
  /\ lock = None
  /\ \E o \in Unfinished : ops' = [ops EXCEPT ![o].status = "failed"]
  /\ Goes(c, [NewCommand EXCEPT !.pc = "done"])
  /\ UNCHANGED <<installed, drawn, began, lock>>

-----------------------------------------------------------------------------
Init == /\ installed \in [current : Releases, previous : Releases \cup {NoRelease},
                          stopped : {FALSE}]
        /\ installed.previous # installed.current
        /\ ops = [o \in Commands |-> NoRecord]
        /\ drawn = [o \in Commands |-> 0] /\ began = [o \in Commands |-> 0]
        /\ lock = None
        /\ cmd = [c \in Commands |-> NewCommand]

Plan(c) == \/ \E t \in Kinds : Invoke(c, t)
           \/ ReadCurrent(c) \/ ReadPrevious(c) \/ ReadJournal(c)

Work(c) == \/ RefuseStale(c) \/ Run(c)
           \/ DemoteCurrent(c) \/ PromoteNew(c)
           \/ RecordStop(c) \/ ClearStop(c)
           \/ UndoMove(c) \/ UndoPromotion(c) \/ UndoStop(c)
           \/ \E s \in Final : Finish(c, s)

Next == \E c \in Commands :
          Plan(c) \/ GiveUp(c) \/ TakeLock(c) \/ Work(c) \/ Crash(c) \/ ClearIntervention(c)

Spec == Init /\ [][Next]_vars

-----------------------------------------------------------------------------
(* Properties *)

Pcs == {"new", "release", "previous", "journal", "waiting", "locked", "running",
        "demoted", "worked", "undemoted", "undone", "done"}

AtWork == {"running", "demoted", "worked", "undemoted", "undone"}

Command == [pc : Pcs, type : Types \cup {"none"}, op : Commands \cup {None},
            prior : Commands \cup {None}, current : Releases \cup {NoRelease},
            previous : Releases \cup {NoRelease}, to : Releases \cup {NoRelease}, marked : BOOLEAN]

OpRecord == [type : Types \cup {"none"}, status : Final \cup {"none", "running"}, at : Nat]

\* Types; only the holder of the lock is past it, and it names a real operation.
TypeOK == /\ installed \in [current : Releases, previous : Releases \cup {NoRelease},
                            stopped : BOOLEAN]
          /\ ops \in [Commands -> OpRecord]
          /\ lock \in Commands \cup {None}
          /\ cmd \in [Commands -> Command]
          /\ drawn \in [Commands -> Nat] /\ began \in [Commands -> Nat]
          /\ \A c \in Commands : cmd[c].pc \in AtWork \cup {"locked"} <=> lock = c
          /\ \A c \in Commands : cmd[c].pc \in AtWork => ops[cmd[c].op].status = "running"

\* A gated operation never runs over another that is unfinished or needs a
\* person, whatever was journaled while it waited for the lock (gateUnfinished).
NeverOverAWreck ==
  \A c \in Commands : cmd[c].pc \in AtWork /\ cmd[c].type \in Gated =>
    Unfinished = {cmd[c].op}

\* An operation that reached its end is not run again by a resume that found it
\* before it got there (refreshResumable).
NeverRunAgain ==
  [][\A o \in Commands :
       ops[o].status \in {"succeeded", "compensated", "requires-manual-intervention"}
       => ops'[o].status # "running"]_vars

\* The operation at work, as a serial deployment would have it.
Active ==
  IF lock # None /\ cmd[lock].pc \in AtWork
  THEN [op |-> cmd[lock].op,
        on |-> IF cmd[lock].type \in Gated THEN cmd[lock].current ELSE NoRelease,
        to |-> cmd[lock].to]
  ELSE [op |-> None, on |-> NoRelease, to |-> NoRelease]

\* A plan made without the lock and checked again under it is as good as one
\* made under it (SerialDeployment).
Serial ==
  INSTANCE SerialDeployment WITH
    Ops <- Commands,
    current <- installed.current,
    previous <- installed.previous,
    stopped <- installed.stopped,
    type <- [o \in Commands |-> ops[o].type],
    status <- [o \in Commands |-> ops[o].status],
    active <- Active

ImplementsSerial == Serial!SerialSpec

Superseded(o) ==
  \E p \in Commands : /\ ops[p].type = ops[o].type
                      /\ ops[p].status = "succeeded"
                      /\ began[p] > began[o]
                      /\ ops[p].at # ops[o].at

\* A resume never continues an operation from before the last success of its
\* kind, which "would re-apply history" (findResumable), however long either
\* waited for the lock; but for two that began in one second, whose order is
\* their ids', drawn before the wait.
NeverResumesHistory ==
  [][\A c \in Commands :
       /\ cmd[c].pc = "locked" /\ cmd'[c].pc = "running" /\ cmd[c].prior # None
       => ~Superseded(cmd[c].prior)]_vars

=============================================================================
