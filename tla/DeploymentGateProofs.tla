------------------------ MODULE DeploymentGateProofs ------------------------
(***************************************************************************)
(* Theorems of DeploymentGate, for any commands, kinds and releases.       *)
(***************************************************************************)
EXTENDS DeploymentGate, FiniteSetTheorems, TLAPS

-----------------------------------------------------------------------------
(* Types, and what a command remembers *)

Installed == [current : Releases, previous : Releases \cup {NoRelease}, stopped : BOOLEAN]

Typed ==
  /\ installed \in Installed
  /\ ops \in [Commands -> OpRecord]
  /\ lock \in Commands \cup {None}
  /\ cmd \in [Commands -> Command]
  /\ drawn \in [Commands -> Nat] /\ began \in [Commands -> Nat]

Planning == {"release", "previous", "journal"}
UnderWay == {"waiting", "locked"} \cup AtWork

\* A command has an operation of its own or resumes one it found; until it runs
\* its own there is no record of it.
Remembers(c) ==
  /\ cmd[c].pc \in Planning => cmd[c].prior = None /\ cmd[c].op = c
  /\ cmd[c].pc \in UnderWay => \/ cmd[c].prior = None /\ cmd[c].op = c
                               \/ /\ cmd[c].prior \in Commands /\ cmd[c].op = cmd[c].prior
                                  /\ cmd[c].type \in Resumable
  /\ cmd[c].pc \in Planning \cup UnderWay => cmd[c].type \in Types
  /\ cmd[c].pc \in Planning \cup {"new", "waiting", "locked"} => ops[c].status = "none"
  /\ cmd[c].pc \in {"journal", "waiting", "locked"} /\ cmd[c].type = "rollback"
       => cmd[c].to = cmd[c].previous
  /\ cmd[c].pc \in {"previous", "journal"} \cup UnderWay => cmd[c].current \in Releases
  /\ cmd[c].pc \in {"journal"} \cup UnderWay => cmd[c].to \in Releases

\* What runs has the lock and a record that says so.
Running(c) ==
  /\ cmd[c].pc \in AtWork \cup {"locked"} <=> lock = c
  /\ cmd[c].pc \in AtWork => /\ ops[cmd[c].op].status = "running"
                             /\ ops[cmd[c].op].type = cmd[c].type
  /\ cmd[c].pc = "demoted" => cmd[c].type \in Moves
  /\ cmd[c].pc = "undemoted" => cmd[c].type = "rollback"
  /\ cmd[c].pc \in AtWork /\ cmd[c].marked => cmd[c].type = "stop"
  /\ cmd[c].pc \in Planning \cup {"waiting", "locked"} => ~cmd[c].marked

GateInv == Typed /\ \A c \in Commands : Remembers(c) /\ Running(c)

LEMMA InvTyped == GateInv => TypeOK
  BY DEF GateInv, Typed, TypeOK, Installed, Running

LEMMA NewTyped ==
  /\ NewCommand \in Command
  /\ [NewCommand EXCEPT !.pc = "done"] \in Command
  /\ \A t \in Types, c \in Commands :
       [NewCommand EXCEPT !.pc = "release", !.type = t, !.op = c] \in Command
  BY DEF NewCommand, Command, Pcs, Types, Gated

LEMMA InvInit == Init => GateInv
<1> SUFFICES ASSUME Init PROVE GateInv
  OBVIOUS
<1>1. NoRecord \in OpRecord
  BY DEF NoRecord, OpRecord
<1>2. Typed
  BY <1>1, NewTyped DEF Init, Typed, Installed
<1>3. ASSUME NEW c \in Commands PROVE Remembers(c) /\ Running(c)
  BY <1>3, NamesAssumption
     DEF Init, Remembers, Running, NewCommand, NoRecord, Planning, UnderWay, AtWork
<1>4. QED
  BY <1>2, <1>3 DEF GateInv

LEMMA DatedTyped ==
  ASSUME NEW when \in [Commands -> Nat], NEW o \in Commands
  PROVE  Dated(when, o) \in [Commands -> Nat]
<1>1. IsFiniteSet({p \in Commands : when[p] > 0})
  BY CommandsAssumption, FS_Subset
<1>2. Cardinality({p \in Commands : when[p] > 0}) \in Nat
  BY <1>1, FS_CardinalityType
<1>3. QED
  BY <1>2 DEF Dated

LEMMA SecondsTyped == Seconds \subseteq Nat
<1>1. Cardinality(Commands) \in Nat
  BY CommandsAssumption, FS_CardinalityType
<1>2. QED
  BY <1>1 DEF Seconds

\* A step that changes the memory of one command, which is not at work, and
\* nothing that another remembers by.
LEMMA OneMoves ==
  ASSUME GateInv, NEW c \in Commands, NEW m \in Command,
         cmd' = [cmd EXCEPT ![c] = m],
         installed' \in Installed, ops' = ops,
         lock' \in Commands \cup {None},
         \A d \in Commands \ {c} : lock' = d <=> lock = d,
         drawn' \in [Commands -> Nat], began' \in [Commands -> Nat],
         Remembers(c)', Running(c)'
  PROVE  GateInv'
<1>1. Typed'
  BY DEF GateInv, Typed
<1>2. ASSUME NEW d \in Commands \ {c} PROVE Remembers(d)' /\ Running(d)'
  <2>1. cmd'[d] = cmd[d] /\ Remembers(d) /\ Running(d)
    BY DEF GateInv, Typed
  <2>2. QED
    BY <2>1 DEF Remembers, Running
<1>3. QED
  BY <1>1, <1>2 DEF GateInv

LEMMA LeaveKeeps ==
  ASSUME GateInv, NEW c \in Commands, Leave(c), installed' = installed,
         ops' = ops, drawn' = drawn, began' = began
  PROVE  GateInv'
<1>1. [NewCommand EXCEPT !.pc = "done"] \in Command
  BY NewTyped
<1>2. cmd' = [cmd EXCEPT ![c] = [NewCommand EXCEPT !.pc = "done"]]
  BY DEF Leave, Goes
<1>3. cmd'[c].pc = "done" /\ lock' # c /\ lock' \in Commands \cup {None}
      /\ \A d \in Commands \ {c} : lock' = d <=> lock = d
  BY <1>2, NamesAssumption DEF Leave, GateInv, Typed, NewCommand
<1>4. Remembers(c)' /\ Running(c)'
  BY <1>3 DEF Remembers, Running, Planning, UnderWay, AtWork
<1>5. QED
  BY <1>1, <1>2, <1>3, <1>4, OneMoves DEF GateInv, Typed

-----------------------------------------------------------------------------
(* The steps *)

\* A step of the holder's work: it stays at work, as the same operation.
LEMMA WorkKeeps ==
  ASSUME GateInv, NEW c \in Commands, NEW pc \in AtWork, NEW marked \in BOOLEAN,
         cmd[c].pc \in AtWork,
         cmd' = [cmd EXCEPT ![c] = [cmd[c] EXCEPT !.pc = pc, !.marked = marked]],
         pc = "demoted" => cmd[c].type \in Moves,
         pc = "undemoted" => cmd[c].type = "rollback",
         marked => cmd[c].type = "stop",
         installed' \in Installed, UNCHANGED <<ops, lock, drawn, began>>
  PROVE  GateInv'
<1>1. [cmd[c] EXCEPT !.pc = pc, !.marked = marked] \in Command
  <2>1. cmd[c] \in Command /\ pc \in Pcs
    BY DEF GateInv, Typed, AtWork, Pcs
  <2>2. QED
    BY <2>1 DEF Command
<1>2. /\ cmd'[c].pc = pc /\ cmd'[c].marked = marked /\ cmd'[c].type = cmd[c].type
      /\ cmd'[c].op = cmd[c].op /\ cmd'[c].prior = cmd[c].prior
      /\ cmd'[c].current = cmd[c].current /\ cmd'[c].to = cmd[c].to
  BY DEF GateInv, Typed, Command
<1>3. Remembers(c) /\ Running(c)
  BY DEF GateInv
<1>4. Remembers(c)' /\ Running(c)'
  BY <1>2, <1>3 DEF Remembers, Running, Planning, UnderWay, AtWork
<1>5. QED
  BY <1>1, <1>4, OneMoves DEF GateInv, Typed

LEMMA SamePc ==
  ASSUME GateInv, NEW c \in Commands, NEW pc
  PROVE  [cmd[c] EXCEPT !.pc = pc] = [cmd[c] EXCEPT !.pc = pc, !.marked = cmd[c].marked]
  BY DEF GateInv, Typed, Command

LEMMA DemoteTyped ==
  ASSUME installed \in Installed, NEW to, Demote(NoRelease, to)
  PROVE  installed' \in Installed
  BY DEF Demote, Installed

LEMMA PlanKeeps ==
  ASSUME GateInv, NEW c \in Commands, Plan(c)
  PROVE  GateInv'
<1>a. /\ Typed /\ Remembers(c) /\ Running(c) /\ cmd[c] \in Command /\ installed \in Installed
      /\ ops \in [Commands -> OpRecord]
  BY DEF GateInv, Typed
<1>1. CASE \E t \in Kinds : Invoke(c, t)
  <2>1. PICK t \in Types : Invoke(c, t)
    BY <1>1, KindsAssumption
  <2>2. [NewCommand EXCEPT !.pc = "release", !.type = t, !.op = c] \in Command
    BY NewTyped
  <2>3. cmd' = [cmd EXCEPT ![c] = [NewCommand EXCEPT !.pc = "release", !.type = t, !.op = c]]
    BY <2>1 DEF Invoke, Goes
  <2>4. /\ cmd'[c].pc = "release" /\ cmd'[c].type = t /\ cmd'[c].op = c /\ cmd'[c].prior = None
        /\ ~cmd'[c].marked /\ cmd[c].pc = "new" /\ UNCHANGED <<installed, ops, drawn, began, lock>>
    BY <2>1, <2>3, <1>a DEF Invoke, At, Typed, NewCommand
  <2>5. Remembers(c)' /\ Running(c)'
    BY <2>4, <1>a DEF Remembers, Running, Planning, UnderWay, AtWork
  <2>6. QED
    BY <2>2, <2>3, <2>4, <2>5, <1>a, OneMoves DEF Typed
<1>2. CASE ReadCurrent(c)
  <2>1. PICK to \in Releases, pc \in {"previous", "journal"} :
          /\ cmd' = [cmd EXCEPT ![c] =
               [cmd[c] EXCEPT !.current = installed.current, !.to = to, !.pc = pc]]
          /\ pc = "journal" => cmd[c].type # "rollback"
    BY <1>2, <1>a DEF ReadCurrent, Goes, Installed
  <2>2. installed.current \in Releases
    BY <1>a DEF Installed
  <2>3. [cmd[c] EXCEPT !.current = installed.current, !.to = to, !.pc = pc] \in Command
    BY <1>a, <2>2 DEF Command, Pcs
  <2>4. /\ cmd'[c].pc = pc /\ cmd'[c].current \in Releases /\ cmd'[c].to \in Releases
        /\ cmd'[c].type = cmd[c].type /\ cmd'[c].op = cmd[c].op /\ cmd'[c].prior = cmd[c].prior
        /\ cmd'[c].marked = cmd[c].marked
        /\ cmd[c].pc = "release" /\ UNCHANGED <<installed, ops, drawn, began, lock>>
    BY <1>2, <2>1, <2>2, <1>a DEF ReadCurrent, At, Typed, Command
  <2>5. Remembers(c)' /\ Running(c)'
    BY <2>1, <2>4, <1>a DEF Remembers, Running, Planning, UnderWay, AtWork
  <2>6. QED
    BY <2>1, <2>3, <2>4, <2>5, <1>a, OneMoves DEF Typed
<1>3. CASE ReadPrevious(c)
  <2>1. cmd' = [cmd EXCEPT ![c] = [cmd[c] EXCEPT !.previous = installed.previous,
                                     !.to = installed.previous, !.pc = "journal"]]
    BY <1>3 DEF ReadPrevious, Goes
  <2>2. [cmd[c] EXCEPT !.previous = installed.previous, !.to = installed.previous,
                       !.pc = "journal"] \in Command
    BY <1>a DEF Command, Pcs, Installed
  <2>3. /\ cmd'[c].pc = "journal" /\ cmd'[c].to = cmd'[c].previous
        /\ cmd'[c].type = cmd[c].type /\ cmd'[c].op = cmd[c].op /\ cmd'[c].prior = cmd[c].prior
        /\ cmd'[c].marked = cmd[c].marked
        /\ cmd'[c].current = cmd[c].current /\ cmd'[c].to \in Releases
        /\ cmd[c].pc = "previous" /\ UNCHANGED <<installed, ops, drawn, began, lock>>
    BY <1>3, <2>1, <1>a DEF ReadPrevious, At, Typed, Command, Installed
  <2>4. Remembers(c)' /\ Running(c)'
    BY <2>3, <1>a DEF Remembers, Running, Planning, UnderWay, AtWork
  <2>5. QED
    BY <2>1, <2>2, <2>3, <2>4, <1>a, OneMoves DEF Typed
<1>4. CASE ReadJournal(c)
  <2>1. drawn' \in [Commands -> Nat] /\ cmd[c].pc = "journal"
        /\ UNCHANGED <<installed, ops, began, lock>>
    BY <1>4, DatedTyped, <1>a DEF ReadJournal, Typed, At
  <2>2. CASE cmd' = [cmd EXCEPT ![c] = [cmd[c] EXCEPT !.pc = "waiting"]]
    <3>1. [cmd[c] EXCEPT !.pc = "waiting"] \in Command
      BY <1>a DEF Command, Pcs
    <3>2. /\ cmd'[c].pc = "waiting" /\ cmd'[c].to = cmd[c].to /\ cmd'[c].previous = cmd[c].previous
          /\ cmd'[c].current = cmd[c].current
          /\ cmd'[c].type = cmd[c].type /\ cmd'[c].op = cmd[c].op /\ cmd'[c].prior = cmd[c].prior
          /\ cmd'[c].marked = cmd[c].marked
      BY <2>2, <1>a DEF Typed, Command
    <3>3. Remembers(c)' /\ Running(c)'
      BY <2>1, <3>2, <1>a DEF Remembers, Running, Planning, UnderWay, AtWork
    <3>4. QED
      BY <2>1, <2>2, <3>1, <3>3, <1>a, OneMoves DEF Typed
  <2>3. CASE /\ cmd[c].type \in Resumable
             /\ \E o \in Commands :
                  cmd' = [cmd EXCEPT ![c] = [cmd[c] EXCEPT !.pc = "waiting", !.op = o, !.prior = o]]
    <3>1. PICK o \in Commands :
            cmd' = [cmd EXCEPT ![c] = [cmd[c] EXCEPT !.pc = "waiting", !.op = o, !.prior = o]]
      BY <2>3
    <3>2. [cmd[c] EXCEPT !.pc = "waiting", !.op = o, !.prior = o] \in Command
      BY <1>a DEF Command, Pcs
    <3>3. /\ cmd'[c].pc = "waiting" /\ cmd'[c].to = cmd[c].to /\ cmd'[c].previous = cmd[c].previous
          /\ cmd'[c].current = cmd[c].current
          /\ cmd'[c].type = cmd[c].type /\ cmd'[c].op = o /\ cmd'[c].prior = o
          /\ cmd'[c].marked = cmd[c].marked
      BY <3>1, <1>a DEF Typed, Command
    <3>4. Remembers(c)' /\ Running(c)'
      BY <2>1, <2>3, <3>3, <1>a DEF Remembers, Running, Planning, UnderWay, AtWork
    <3>5. QED
      BY <2>1, <3>1, <3>2, <3>4, <1>a, OneMoves DEF Typed
  <2>4. QED
    BY <1>4, <2>2, <2>3 DEF ReadJournal, Goes
<1>5. QED
  BY <1>1, <1>2, <1>3, <1>4 DEF Plan

LEMMA TakeLockKeeps ==
  ASSUME GateInv, NEW c \in Commands, TakeLock(c)
  PROVE  GateInv'
<1>a. /\ Typed /\ Remembers(c) /\ Running(c) /\ cmd[c] \in Command
  BY DEF GateInv, Typed
<1>1. cmd' = [cmd EXCEPT ![c] = [cmd[c] EXCEPT !.pc = "locked"]]
      /\ [cmd[c] EXCEPT !.pc = "locked"] \in Command
  BY <1>a DEF TakeLock, Goes, Command, Pcs
<1>2. /\ cmd'[c].pc = "locked" /\ cmd'[c].to = cmd[c].to /\ cmd'[c].previous = cmd[c].previous
      /\ cmd'[c].current = cmd[c].current
      /\ cmd'[c].type = cmd[c].type /\ cmd'[c].op = cmd[c].op /\ cmd'[c].prior = cmd[c].prior
      /\ cmd'[c].marked = cmd[c].marked /\ cmd[c].pc = "waiting"
  BY <1>1, <1>a DEF TakeLock, At, Typed, Command
<1>3. /\ lock' = c /\ lock = None /\ UNCHANGED <<installed, ops, drawn, began>>
  BY DEF TakeLock
<1>4. Remembers(c)' /\ Running(c)'
  BY <1>2, <1>3, <1>a DEF Remembers, Running, Planning, UnderWay, AtWork
<1>5. \A d \in Commands \ {c} : lock' = d <=> lock = d
  BY <1>3, NamesAssumption
<1>6. QED
  BY <1>1, <1>3, <1>4, <1>5, <1>a, OneMoves DEF Typed

\* What a run finds under the lock.
LEMMA RunFinds ==
  ASSUME GateInv, NEW c \in Commands, Run(c)
  PROVE  /\ lock = c /\ cmd[c].op \in Commands /\ cmd[c].type \in Types
         /\ \/ cmd[c].prior = None /\ cmd[c].op = c /\ ops[c].status = "none"
            \/ /\ cmd[c].prior \in Commands /\ cmd[c].op = cmd[c].prior
               /\ cmd[c].type \in Resumable /\ ops[cmd[c].op].type = cmd[c].type
               /\ ops[cmd[c].op].status \in {"running", "interrupted", "failed"}
<1>1. Remembers(c) /\ Running(c) /\ cmd[c].pc = "locked" /\ StillHolds(c)
  BY DEF GateInv, Run, At
<1>2. QED
  BY <1>1, NamesAssumption
     DEF Remembers, Running, UnderWay, Planning, StillHolds, FindResumable, Newest

LEMMA RunKeeps ==
  ASSUME GateInv, NEW c \in Commands, Run(c)
  PROVE  GateInv'
<1>a. /\ Typed /\ Remembers(c) /\ Running(c) /\ cmd[c] \in Command /\ ops \in [Commands -> OpRecord]
  BY DEF GateInv, Typed
<1> DEFINE o == cmd[c].op
<1>1. PICK at \in Nat :
        ops' = [ops EXCEPT ![o] = [type |-> cmd[c].type, status |-> "running", at |-> at]]
  <2>1. (IF cmd[c].prior = None THEN Seconds ELSE {ops[o].at}) \subseteq Nat
    BY SecondsTyped, RunFinds, <1>a DEF OpRecord
  <2>2. QED
    BY <2>1 DEF Run
<1>2. ops' \in [Commands -> OpRecord]
  BY <1>1, <1>a, RunFinds DEF OpRecord
<1>3. began' \in [Commands -> Nat]
  BY <1>a, DatedTyped DEF Run, Typed
<1>4. cmd' = [cmd EXCEPT ![c] = [cmd[c] EXCEPT !.pc = "running"]]
      /\ [cmd[c] EXCEPT !.pc = "running"] \in Command
  BY <1>a DEF Run, Goes, Command, Pcs
<1>5. UNCHANGED <<installed, drawn, lock>> /\ cmd[c].pc = "locked"
  BY DEF Run, At
<1>6. /\ cmd'[c].pc = "running" /\ cmd'[c].type = cmd[c].type /\ cmd'[c].op = o
      /\ cmd'[c].prior = cmd[c].prior /\ cmd'[c].marked = cmd[c].marked
      /\ cmd'[c].current = cmd[c].current /\ cmd'[c].to = cmd[c].to
  BY <1>4, <1>a DEF Typed, Command
<1>7. ops'[o].status = "running" /\ ops'[o].type = cmd[c].type
  BY <1>1, <1>a, RunFinds
<1>8. Remembers(c)' /\ Running(c)'
  BY <1>5, <1>6, <1>7, <1>a DEF Remembers, Running, Planning, UnderWay, AtWork
<1>9. ASSUME NEW d \in Commands \ {c} PROVE Remembers(d)' /\ Running(d)'
  <2>1. cmd'[d] = cmd[d] /\ Remembers(d) /\ Running(d) /\ lock = c /\ lock' = lock
    BY <1>4, <1>5, RunFinds, <1>a DEF GateInv, Typed
  <2>2. cmd[d].pc \notin AtWork \cup {"locked"}
    BY <2>1, RunFinds DEF Running
  <2>3. ops'[d].status = ops[d].status \/ ops[d].status # "none"
    BY <1>1, <1>a, RunFinds
  <2>4. QED
    BY <2>1, <2>2, <2>3 DEF Remembers, Running, Planning, UnderWay, AtWork
<1>10. QED
  BY <1>2, <1>3, <1>4, <1>5, <1>8, <1>9, <1>a DEF GateInv, Typed

LEMMA WritesKeep ==
  ASSUME GateInv, NEW c \in Commands,
         DemoteCurrent(c) \/ PromoteNew(c) \/ RecordStop(c) \/ ClearStop(c)
           \/ UndoMove(c) \/ UndoPromotion(c) \/ UndoStop(c)
  PROVE  GateInv'
<1>a. /\ installed \in Installed /\ cmd[c] \in Command /\ Running(c)
  BY DEF GateInv, Typed
<1>b. ASSUME NEW pc \in AtWork, cmd[c].pc \in AtWork, cmd' = [cmd EXCEPT ![c] = [cmd[c] EXCEPT !.pc = pc]],
             pc = "demoted" => cmd[c].type \in Moves,
             pc = "undemoted" => cmd[c].type = "rollback",
             installed' \in Installed, UNCHANGED <<ops, lock, drawn, began>>
      PROVE  GateInv'
  <2>1. cmd[c].marked \in BOOLEAN /\ (cmd[c].marked => cmd[c].type = "stop")
    BY <1>a, <1>b DEF Running, Command
  <2>2. [cmd[c] EXCEPT !.pc = pc] = [cmd[c] EXCEPT !.pc = pc, !.marked = cmd[c].marked]
    BY SamePc
  <2>3. QED
    BY <1>b, <2>1, <2>2, WorkKeeps
<1>c. cmd[c].pc \in AtWork => cmd[c].current \in Releases /\ cmd[c].to \in Releases
  BY DEF GateInv, Remembers, UnderWay
<1>1. CASE DemoteCurrent(c)
  BY <1>1, <1>a, <1>b DEF DemoteCurrent, Demote, Goes, At, AtWork, Installed
<1>2. CASE PromoteNew(c)
  BY <1>2, <1>a, <1>b, <1>c DEF PromoteNew, Goes, At, AtWork, Installed
<1>3. CASE RecordStop(c)
  BY <1>3, <1>a, WorkKeeps DEF RecordStop, Goes, At, AtWork, Installed
<1>4. CASE ClearStop(c)
  BY <1>4, <1>a, <1>b DEF ClearStop, Goes, At, AtWork, Installed
<1>5. CASE UndoMove(c)
  BY <1>5, <1>a, <1>b DEF UndoMove, Demote, Goes, At, AtWork, Installed
<1>6. CASE UndoPromotion(c)
  BY <1>6, <1>a, <1>b, <1>c DEF UndoPromotion, Goes, At, AtWork, Installed
<1>7. CASE UndoStop(c)
  BY <1>7, <1>a, <1>b DEF UndoStop, Goes, At, AtWork, Installed
<1>8. QED
  BY <1>1, <1>2, <1>3, <1>4, <1>5, <1>6, <1>7

LEMMA FinishKeeps ==
  ASSUME GateInv, NEW c \in Commands, NEW s \in Final, Finish(c, s)
  PROVE  GateInv'
<1>a. /\ Typed /\ Remembers(c) /\ Running(c) /\ ops \in [Commands -> OpRecord]
      /\ cmd[c].pc \in AtWork /\ cmd[c].op \in Commands
  BY DEF GateInv, Typed, Finish, AtWork, Remembers, UnderWay
<1>1. ops' = [ops EXCEPT ![cmd[c].op].status = s] /\ UNCHANGED <<installed, drawn, began>>
  BY DEF Finish
<1>2. ops' \in [Commands -> OpRecord]
  BY <1>1, <1>a DEF OpRecord
<1>3. cmd' = [cmd EXCEPT ![c] = [NewCommand EXCEPT !.pc = "done"]]
      /\ [NewCommand EXCEPT !.pc = "done"] \in Command /\ lock = c /\ lock' = None
  BY <1>a, NewTyped DEF Finish, Leave, Goes, Running
<1>4. cmd'[c].pc = "done"
  BY <1>3, <1>a DEF Typed, NewCommand
<1>5. Remembers(c)' /\ Running(c)'
  BY <1>3, <1>4, NamesAssumption DEF Remembers, Running, Planning, UnderWay, AtWork
<1>6. ASSUME NEW d \in Commands \ {c} PROVE Remembers(d)' /\ Running(d)'
  <2>1. cmd'[d] = cmd[d] /\ Remembers(d) /\ Running(d) /\ cmd[d].pc \notin AtWork \cup {"locked"}
    BY <1>3, <1>a DEF GateInv, Typed, Running
  <2>2. ops'[d].status = ops[d].status \/ ops[d].status # "none"
    BY <1>1, <1>a DEF Running
  <2>3. QED
    BY <1>3, <2>1, <2>2, NamesAssumption DEF Remembers, Running, Planning, UnderWay, AtWork
<1>7. QED
  BY <1>1, <1>2, <1>3, <1>5, <1>6, <1>a DEF GateInv, Typed

LEMMA ClearKeeps ==
  ASSUME GateInv, NEW c \in Commands, ClearIntervention(c)
  PROVE  GateInv'
<1>a. /\ Typed /\ Remembers(c) /\ Running(c) /\ ops \in [Commands -> OpRecord]
      /\ cmd[c].pc = "new" /\ lock = None
  BY DEF GateInv, Typed, ClearIntervention, At
<1>1. PICK o \in Unfinished : ops' = [ops EXCEPT ![o].status = "failed"]
  BY DEF ClearIntervention
<1>2. o \in Commands /\ ops[o].status # "none"
  BY <1>1 DEF Unfinished
<1>3. ops' \in [Commands -> OpRecord]
  BY <1>1, <1>2, <1>a DEF OpRecord, Final
<1>4. cmd' = [cmd EXCEPT ![c] = [NewCommand EXCEPT !.pc = "done"]]
      /\ [NewCommand EXCEPT !.pc = "done"] \in Command /\ UNCHANGED <<installed, drawn, began, lock>>
  BY NewTyped DEF ClearIntervention, Goes
<1>5. cmd'[c].pc = "done"
  BY <1>4, <1>a DEF Typed, NewCommand
<1>6. Remembers(c)' /\ Running(c)'
  BY <1>4, <1>5, <1>a, NamesAssumption DEF Remembers, Running, Planning, UnderWay, AtWork
<1>7. ASSUME NEW d \in Commands \ {c} PROVE Remembers(d)' /\ Running(d)'
  <2>1. cmd'[d] = cmd[d] /\ Remembers(d) /\ Running(d)
    BY <1>4, <1>a DEF GateInv, Typed
  <2>2. cmd[d].pc \notin AtWork \cup {"locked"}
    BY <2>1, <1>a, NamesAssumption DEF Running
  <2>3. ops'[d].status = ops[d].status \/ ops[d].status # "none"
    BY <1>1, <1>2, <1>a
  <2>4. QED
    BY <1>4, <2>1, <2>2, <2>3 DEF Remembers, Running, Planning, UnderWay, AtWork
<1>8. QED
  BY <1>3, <1>4, <1>6, <1>7, <1>a DEF GateInv, Typed

LEMMA InvStep == GateInv /\ [Next]_vars => GateInv'
<1> SUFFICES ASSUME GateInv, [Next]_vars PROVE GateInv'
  OBVIOUS
<1>1. CASE UNCHANGED vars
  BY <1>1 DEF vars, GateInv, Typed, Remembers, Running
<1>2. ASSUME NEW c \in Commands,
             Plan(c) \/ GiveUp(c) \/ TakeLock(c) \/ Work(c) \/ Crash(c) \/ ClearIntervention(c)
      PROVE  GateInv'
  <2>1. CASE GiveUp(c) \/ RefuseStale(c) \/ Crash(c)
    BY <2>1, LeaveKeeps DEF GiveUp, RefuseStale, Crash
  <2>2. CASE Run(c)
    BY <2>2, RunKeeps
  <2>3. CASE \E s \in Final : Finish(c, s)
    BY <2>3, FinishKeeps
  <2>4. QED
    BY <1>2, <2>1, <2>2, <2>3, PlanKeeps, TakeLockKeeps, WritesKeep, ClearKeeps DEF Work
<1>3. QED
  BY <1>1, <1>2 DEF Next

\* Types of the gate; one command at a time is past the lock
\* (DeploymentGate, TypeOK).
THEOREM TypeCorrect == Spec => []TypeOK
<1>1. QED
  BY InvInit, InvStep, InvTyped, PTL DEF Spec

-----------------------------------------------------------------------------
(* The gate *)

\* One command is at work: its operation is all that is unfinished when it began
\* over none.
LEMMA GateStep == GateInv /\ NeverOverAWreck /\ [Next]_vars => NeverOverAWreck'
<1> SUFFICES ASSUME GateInv, NeverOverAWreck, [Next]_vars,
                    NEW c \in Commands, cmd'[c].pc \in AtWork, cmd'[c].type \in Gated
             PROVE  Unfinished' = {cmd'[c].op}
  BY DEF NeverOverAWreck
<1>a. /\ Typed /\ Remembers(c) /\ Running(c) /\ GateInv' /\ lock' = c
      /\ ops \in [Commands -> OpRecord] /\ cmd \in [Commands -> Command]
      /\ cmd'[c].op \in Commands /\ ops'[cmd'[c].op].status = "running"
  BY InvStep DEF GateInv, Typed, Running, Remembers, UnderWay
<1>1. CASE Run(c)
  <2>1. /\ cmd'[c].op = cmd[c].op /\ cmd'[c].type = cmd[c].type
        /\ \A o \in Commands : o # cmd[c].op => ops'[o] = ops[o]
    BY <1>1, <1>a DEF Run, Goes, Command
  <2>2. Unfinished \subseteq {cmd[c].prior} /\ (cmd[c].prior # None => cmd[c].op = cmd[c].prior)
    BY <1>1, <2>1, RunFinds DEF Run, StillHolds, GateOpen
  <2>3. Unfinished \subseteq {cmd[c].op}
    BY <2>2, NamesAssumption DEF Unfinished
  <2>4. \A o \in Commands : o # cmd[c].op => ops'[o].status \notin {"running", "requires-manual-intervention"}
    BY <2>1, <2>3 DEF Unfinished
  <2>5. QED
    BY <1>a, <2>1, <2>4 DEF Unfinished
<1>2. CASE UNCHANGED ops /\ cmd[c].pc \in AtWork /\ cmd'[c].type = cmd[c].type /\ cmd'[c].op = cmd[c].op
  BY <1>2 DEF NeverOverAWreck, Unfinished
<1>3. CASE UNCHANGED vars
  BY <1>3, <1>2 DEF vars
<1>4. ASSUME NEW d \in Commands,
             Plan(d) \/ GiveUp(d) \/ TakeLock(d) \/ Work(d) \/ Crash(d) \/ ClearIntervention(d)
      PROVE  \/ Run(c) \/ DemoteCurrent(c) \/ PromoteNew(c) \/ RecordStop(c) \/ ClearStop(c)
                \/ UndoMove(c) \/ UndoPromotion(c) \/ UndoStop(c)
             \/ UNCHANGED ops /\ cmd'[c] = cmd[c]
  <2>1. CASE d = c
    <3>1. CASE Leave(c) \/ ClearIntervention(c)
      BY <3>1, <1>a, NamesAssumption DEF Leave, ClearIntervention, Goes, Typed, NewCommand, AtWork
    <3>2. CASE Plan(c)
      <4>1. lock' = lock /\ cmd[c].pc \notin AtWork \cup {"locked"}
        BY <3>2 DEF Plan, Invoke, ReadCurrent, ReadPrevious, ReadJournal, At, AtWork
      <4>2. QED
        BY <4>1, <1>a DEF Running
    <3>3. CASE TakeLock(c)
      BY <3>3, <1>a DEF TakeLock, Goes, Command, AtWork
    <3>4. CASE GiveUp(c) \/ RefuseStale(c) \/ Crash(c) \/ \E s \in Final : Finish(c, s)
      BY <3>1, <3>4 DEF GiveUp, RefuseStale, Finish, Crash
    <3>5. Plan(c) \/ GiveUp(c) \/ TakeLock(c) \/ Work(c) \/ Crash(c) \/ ClearIntervention(c)
      BY <1>4, <2>1
    <3>6. CASE Run(c) \/ DemoteCurrent(c) \/ PromoteNew(c) \/ RecordStop(c) \/ ClearStop(c)
               \/ UndoMove(c) \/ UndoPromotion(c) \/ UndoStop(c)
      BY <3>6
    <3>7. QED
      BY <3>1, <3>2, <3>3, <3>4, <3>5, <3>6 DEF Work
  <2>2. CASE d # c
    <3>1. cmd'[c] = cmd[c] /\ lock = c
      <4>1. \E m : cmd' = [cmd EXCEPT ![d] = m]
        BY <1>4 DEF Plan, Invoke, ReadCurrent, ReadPrevious, ReadJournal, GiveUp, Leave, TakeLock,
           Work, RefuseStale, Run, DemoteCurrent, PromoteNew, RecordStop, ClearStop, UndoMove,
           UndoPromotion, UndoStop, Finish, Crash, ClearIntervention, Goes
      <4>2. QED
        BY <4>1, <2>2, <1>a DEF Running, Typed
    <3>2. cmd[d].pc \notin AtWork \cup {"locked"} /\ lock # None
      BY <3>1, <2>2, NamesAssumption DEF GateInv, Running
    <3>3. UNCHANGED ops
      BY <1>4, <3>2 DEF Plan, Invoke, ReadCurrent, ReadPrevious, ReadJournal, GiveUp, TakeLock,
         Work, RefuseStale, Run, DemoteCurrent, PromoteNew, RecordStop, ClearStop, UndoMove,
         UndoPromotion, UndoStop, Finish, Crash, ClearIntervention, At, AtWork
    <3>4. QED
      BY <3>1, <3>3
  <2>3. QED
    BY <2>1, <2>2
<1>5. CASE DemoteCurrent(c) \/ PromoteNew(c) \/ RecordStop(c) \/ ClearStop(c)
             \/ UndoMove(c) \/ UndoPromotion(c) \/ UndoStop(c)
  <2>1. UNCHANGED ops /\ cmd[c].pc \in AtWork
    BY <1>5 DEF DemoteCurrent, PromoteNew, RecordStop, ClearStop, UndoMove, UndoPromotion,
       UndoStop, At, AtWork
  <2>2. \/ \E pc \in AtWork : cmd' = [cmd EXCEPT ![c] = [cmd[c] EXCEPT !.pc = pc]]
        \/ \E pc \in AtWork, b \in BOOLEAN :
             cmd' = [cmd EXCEPT ![c] = [cmd[c] EXCEPT !.pc = pc, !.marked = b]]
    BY <1>5 DEF DemoteCurrent, PromoteNew, RecordStop, ClearStop, UndoMove, UndoPromotion,
       UndoStop, Goes, AtWork
  <2>3. cmd'[c].type = cmd[c].type /\ cmd'[c].op = cmd[c].op
    BY <2>2, <1>a DEF Command
  <2>4. QED
    BY <2>1, <2>3, <1>2
<1>6. CASE UNCHANGED ops /\ cmd'[c] = cmd[c]
  BY <1>6, <1>2
<1>7. QED
  BY <1>1, <1>3, <1>4, <1>5, <1>6 DEF Next

\* A gated operation runs over no unfinished other (DeploymentGate,
\* NeverOverAWreck).
THEOREM OverNoWreck == Spec => []NeverOverAWreck
<1>1. Init => NeverOverAWreck
  BY DEF Init, NeverOverAWreck, NewCommand, AtWork
<1>2. QED
  BY <1>1, InvInit, InvStep, GateStep, PTL DEF Spec

\* An operation that reached its end is not run again (DeploymentGate,
\* NeverRunAgain).
THEOREM RunOnce == Spec => NeverRunAgain
<1>1. ASSUME GateInv, [Next]_vars, NEW o \in Commands,
             ops[o].status \in {"succeeded", "compensated", "requires-manual-intervention"}
      PROVE  ops'[o].status # "running"
  <2>a. ops \in [Commands -> OpRecord]
    BY <1>1 DEF GateInv, Typed
  <2>1. CASE UNCHANGED ops
    BY <1>1, <2>1
  <2>2. ASSUME NEW c \in Commands, Run(c) PROVE ops'[o].status # "running"
    <3>1. cmd[c].op # o
      BY <1>1, <2>2, RunFinds
    <3>2. QED
      BY <1>1, <2>2, <3>1, <2>a DEF Run
  <2>3. ASSUME NEW c \in Commands, NEW s \in Final, Finish(c, s) PROVE ops'[o].status # "running"
    BY <1>1, <2>3, <2>a DEF Finish, Final, OpRecord
  <2>4. ASSUME NEW c \in Commands, ClearIntervention(c) PROVE ops'[o].status # "running"
    BY <1>1, <2>4, <2>a DEF ClearIntervention, OpRecord
  <2>5. QED
    BY <1>1, <2>1, <2>2, <2>3, <2>4
       DEF Next, vars, Plan, Invoke, ReadCurrent, ReadPrevious, ReadJournal, GiveUp, TakeLock,
           Work, RefuseStale, DemoteCurrent, PromoteNew, RecordStop, ClearStop, UndoMove,
           UndoPromotion, UndoStop, Crash
<1>2. GateInv /\ [Next]_vars =>
        [\A o \in Commands :
           ops[o].status \in {"succeeded", "compensated", "requires-manual-intervention"}
           => ops'[o].status # "running"]_vars
  BY <1>1
<1>3. QED
  BY <1>2, InvInit, InvStep, PTL DEF Spec, NeverRunAgain

-----------------------------------------------------------------------------
(* The order operations begin in, and their second *)

Begun == {o \in Commands : began[o] > 0}

\* Operations on record are those that began, in the order of their seconds.
ClockInv ==
  /\ \A o \in Commands : began[o] > 0 <=> ops[o].status # "none"
  /\ \A o \in Commands : began[o] <= Cardinality(Begun)
  /\ \A o, p \in Commands : began[o] > 0 /\ began[p] > began[o] => ops[o].at <= ops[p].at

\* Only the first record of a run dates an operation.
LEMMA RunDates ==
  ASSUME GateInv, [Next]_vars
  PROVE  \/ \E c \in Commands : Run(c)
         \/ /\ began' = began
            /\ \A o \in Commands : /\ ops'[o].at = ops[o].at
                                   /\ ops'[o].status = "none" <=> ops[o].status = "none"
<1>1. Typed /\ ops \in [Commands -> OpRecord]
  BY DEF GateInv, Typed
<1>2. CASE UNCHANGED vars
  BY <1>2 DEF vars
<1>3. ASSUME NEW c \in Commands, Plan(c) \/ GiveUp(c) \/ TakeLock(c) \/ Crash(c)
      PROVE  ops' = ops /\ began' = began
  BY <1>3 DEF Plan, Invoke, ReadCurrent, ReadPrevious, ReadJournal, GiveUp, TakeLock, Crash
<1>4. ASSUME NEW c \in Commands,
             \/ RefuseStale(c) \/ DemoteCurrent(c) \/ PromoteNew(c) \/ RecordStop(c)
             \/ ClearStop(c) \/ UndoMove(c) \/ UndoPromotion(c) \/ UndoStop(c)
      PROVE  ops' = ops /\ began' = began
  BY <1>4 DEF RefuseStale, DemoteCurrent, PromoteNew, RecordStop, ClearStop, UndoMove,
     UndoPromotion, UndoStop
<1>5. ASSUME NEW o \in Commands, NEW s \in Final, ops[o].status # "none",
             ops' = [ops EXCEPT ![o].status = s]
      PROVE  \A p \in Commands : /\ ops'[p].at = ops[p].at
                                 /\ ops'[p].status = "none" <=> ops[p].status = "none"
  BY <1>1, <1>5 DEF OpRecord, Final
<1>6. ASSUME NEW c \in Commands, NEW s \in Final, Finish(c, s)
      PROVE  \E o \in Commands : /\ ops[o].status # "none" /\ began' = began
                                 /\ ops' = [ops EXCEPT ![o].status = s]
  <2>1. Remembers(c) /\ Running(c) /\ cmd[c].pc \in AtWork
    BY <1>6 DEF GateInv, Finish, AtWork
  <2>2. cmd[c].op \in Commands /\ ops[cmd[c].op].status = "running"
    BY <2>1 DEF Remembers, Running, UnderWay
  <2>3. QED
    BY <1>6, <2>2 DEF Finish
<1>7. ASSUME NEW c \in Commands, ClearIntervention(c)
      PROVE  \E o \in Commands : /\ ops[o].status # "none" /\ began' = began
                                 /\ ops' = [ops EXCEPT ![o].status = "failed"]
  BY <1>7 DEF ClearIntervention, Unfinished
<1>8. QED
  BY <1>2, <1>3, <1>4, <1>5, <1>6, <1>7 DEF Next, Work, Final

\* A new operation begins after all others, in a second no earlier than theirs.
LEMMA RunClock ==
  ASSUME GateInv, ClockInv, NEW c \in Commands, Run(c)
  PROVE  ClockInv'
<1>1. Typed /\ ops \in [Commands -> OpRecord] /\ began \in [Commands -> Nat]
  BY DEF GateInv, Typed
<1>2. PICK at \in IF cmd[c].prior = None THEN Seconds ELSE {ops[cmd[c].op].at} :
        ops' = [ops EXCEPT ![cmd[c].op] = [type |-> cmd[c].type, status |-> "running",
                                           at |-> at]]
  BY DEF Run
<1>3. CASE cmd[c].prior = None
  <2>1. cmd[c].op = c /\ ops[c].status = "none" /\ began[c] = 0
    BY <1>1, <1>3, RunFinds, NamesAssumption DEF ClockInv
  <2>2. at \in Nat /\ \A o \in Commands : ops[o].at <= at
    BY <1>2, <1>3, SecondsTyped DEF Seconds
  <2>3. /\ ops'[c].at = at /\ ops'[c].status = "running"
        /\ \A o \in Commands \ {c} : ops'[o] = ops[o]
    BY <1>1, <1>2, <2>1
  <2>4. IsFiniteSet(Begun) /\ Cardinality(Begun) \in Nat
    BY CommandsAssumption, FS_Subset, FS_CardinalityType DEF Begun
  <2>5. began' = [began EXCEPT ![c] = 1 + Cardinality(Begun)]
    BY <1>3 DEF Run, Dated, Begun
  <2>6. /\ began'[c] = 1 + Cardinality(Begun)
        /\ \A o \in Commands \ {c} : began'[o] = began[o]
    BY <1>1, <2>5
  <2>7. Begun' = Begun \cup {c} /\ c \notin Begun
    BY <1>1, <2>1, <2>4, <2>6 DEF Begun
  <2>8. Cardinality(Begun)' = Cardinality(Begun) + 1
    BY <2>4, <2>7, FS_AddElement
  <2>9. \A o \in Commands : began'[o] > 0 <=> ops'[o].status # "none"
    BY <2>3, <2>4, <2>6 DEF ClockInv
  <2>10. \A o \in Commands : began[o] \in Nat /\ began[o] <= Cardinality(Begun)
    BY <1>1 DEF ClockInv
  <2>11. \A o \in Commands : began'[o] <= Cardinality(Begun)'
    BY <2>4, <2>6, <2>8, <2>10
  <2>12. ASSUME NEW o \in Commands, NEW p \in Commands, began'[o] > 0, began'[p] > began'[o]
         PROVE  ops'[o].at <= ops'[p].at
    <3>1. o # c
      BY <2>4, <2>6, <2>10, <2>12
    <3>2. CASE p = c
      BY <2>2, <2>3, <3>1, <3>2
    <3>3. CASE p # c
      BY <2>3, <2>6, <2>12, <3>1, <3>3 DEF ClockInv
    <3>4. QED
      BY <3>2, <3>3
  <2>13. QED
    BY <2>9, <2>11, <2>12 DEF ClockInv
<1>4. CASE cmd[c].prior # None
  <2>1. cmd[c].op \in Commands /\ ops[cmd[c].op].status # "none"
    BY <1>4, RunFinds
  <2>2. began' = began /\ \A o \in Commands :
          /\ ops'[o].at = ops[o].at
          /\ ops'[o].status = "none" <=> ops[o].status = "none"
    BY <1>1, <1>2, <1>4, <2>1 DEF Run, OpRecord
  <2>3. QED
    BY <2>2 DEF ClockInv, Begun
<1>5. QED
  BY <1>3, <1>4

LEMMA ClockStep == GateInv /\ ClockInv /\ [Next]_vars => ClockInv'
<1>1. ASSUME ClockInv, began' = began,
             \A o \in Commands : /\ ops'[o].at = ops[o].at
                                 /\ ops'[o].status = "none" <=> ops[o].status = "none"
      PROVE  ClockInv'
  BY <1>1 DEF ClockInv, Begun
<1>2. QED
  BY <1>1, RunDates, RunClock

\* A command goes from the lock to its work by Run only.
LEMMA OnlyRunRuns ==
  ASSUME GateInv, [Next]_vars, NEW c \in Commands,
         cmd[c].pc = "locked", cmd'[c].pc = "running"
  PROVE  Run(c)
<1>1. cmd \in [Commands -> Command]
  BY DEF GateInv, Typed
<1>2. ASSUME NEW d \in Commands, NEW m, cmd' = [cmd EXCEPT ![d] = m]
      PROVE  d = c /\ m.pc = "running"
  BY <1>1, <1>2
<1>3. ASSUME NEW d \in Commands, Leave(d) PROVE FALSE
  BY <1>2, <1>3 DEF Leave, Goes, NewCommand
<1>4. ASSUME NEW d \in Commands, Plan(d) PROVE FALSE
  BY <1>2, <1>4 DEF Plan, Invoke, ReadCurrent, ReadPrevious, ReadJournal, Goes, At
<1>5. ASSUME NEW d \in Commands, TakeLock(d) PROVE FALSE
  BY <1>2, <1>5 DEF TakeLock, Goes, At
<1>6. ASSUME NEW d \in Commands, ClearIntervention(d) PROVE FALSE
  BY <1>2, <1>6 DEF ClearIntervention, Goes, At
<1>7. ASSUME NEW d \in Commands, Work(d), ~Run(d) PROVE FALSE
  BY <1>2, <1>3, <1>7 DEF Work, RefuseStale, DemoteCurrent, PromoteNew, RecordStop, ClearStop,
     UndoMove, UndoPromotion, UndoStop, Finish, Goes, At
<1>8. ASSUME NEW d \in Commands, Run(d) PROVE d = c
  BY <1>2, <1>8 DEF Run, Goes
<1>9. QED
  BY <1>3, <1>4, <1>5, <1>6, <1>7, <1>8 DEF Next, vars, GiveUp, Crash

\* A resume continues nothing from before the last success of its kind, for any
\* number of commands and however they wait; operations that began in one second
\* apart (findResumable, refreshResumable).
THEOREM NoHistoryResumed == Spec => NeverResumesHistory
<1>1. Init => ClockInv
  <2> SUFFICES ASSUME Init PROVE ClockInv
    OBVIOUS
  <2>1. \A o \in Commands : began[o] = 0 /\ ops[o].status = "none"
    BY DEF Init, NoRecord
  <2>2. Cardinality(Begun) \in Nat
    BY CommandsAssumption, FS_Subset, FS_CardinalityType DEF Begun
  <2>3. QED
    BY <2>1, <2>2 DEF ClockInv
<1>2. GateInv /\ ClockInv /\ [Next]_vars =>
        [\A c \in Commands :
           /\ cmd[c].pc = "locked" /\ cmd'[c].pc = "running" /\ cmd[c].prior # None
           => ~Superseded(cmd[c].prior)]_vars
  <2> SUFFICES ASSUME GateInv, ClockInv, [Next]_vars, NEW c \in Commands,
                      cmd[c].pc = "locked", cmd'[c].pc = "running", cmd[c].prior # None,
                      Superseded(cmd[c].prior)
               PROVE  FALSE
    OBVIOUS
  <2>1. Typed /\ ops \in [Commands -> OpRecord] /\ began \in [Commands -> Nat]
    BY DEF GateInv, Typed
  <2>2. cmd[c].prior \in Commands /\ FindResumable(cmd[c].type, cmd[c].prior)
    <3>1. Run(c)
      BY OnlyRunRuns
    <3>2. QED
      BY <3>1, RunFinds DEF Run, StillHolds
  <2>3. PICK p \in Commands : /\ ops[p].type = ops[cmd[c].prior].type
                              /\ began[p] > began[cmd[c].prior]
                              /\ ops[p].at # ops[cmd[c].prior].at
    BY DEF Superseded
  <2>4. p # cmd[c].prior /\ ops[cmd[c].prior].at > ops[p].at
    BY <2>1, <2>2, <2>3 DEF FindResumable, Newest, Later, OpRecord
  <2>5. began[cmd[c].prior] > 0
    BY <2>2 DEF ClockInv, FindResumable
  <2>6. ops[cmd[c].prior].at <= ops[p].at
    BY <2>2, <2>3, <2>5 DEF ClockInv
  <2>7. QED
    BY <2>1, <2>2, <2>4, <2>6 DEF OpRecord
<1>3. QED
  BY <1>1, <1>2, ClockStep, InvInit, InvStep, PTL DEF Spec, NeverResumesHistory

-----------------------------------------------------------------------------
(* The refinement *)

\* The operation at work is a real one, so nothing else stands for none.
LEMMA ActiveAtWork ==
  ASSUME GateInv, NEW c \in Commands, cmd[c].pc \in AtWork
  PROVE  /\ Active = [op |-> cmd[c].op,
                     on |-> IF cmd[c].type \in Gated THEN cmd[c].current ELSE NoRelease,
                     to |-> cmd[c].to]
         /\ cmd[c].op \in Commands /\ Active # Serial!Idle
         /\ ops[cmd[c].op].status = "running" /\ ops[cmd[c].op].type = cmd[c].type
<1>1. lock = c /\ cmd[c].op \in Commands /\ ops[cmd[c].op].status = "running"
      /\ ops[cmd[c].op].type = cmd[c].type
  BY NamesAssumption DEF GateInv, Running, Remembers, UnderWay, AtWork
<1>2. QED
  BY <1>1, NamesAssumption DEF Active, Serial!Idle

LEMMA ActiveIdle ==
  ASSUME lock = None \/ cmd[lock].pc \notin AtWork
  PROVE  Active = Serial!Idle
  BY DEF Active, Serial!Idle

\* Steps another command does not see.
LEMMA Stutters ==
  ASSUME GateInv, NEW c \in Commands,
         \A d \in Commands \ {c} : cmd'[d] = cmd[d],
         cmd'[c].pc \notin AtWork, cmd[c].pc \notin AtWork,
         \/ lock' = lock
         \/ lock = None /\ lock' = c
         \/ lock = c /\ lock' = None,
         UNCHANGED <<installed, ops>>
  PROVE  UNCHANGED <<installed, ops, Active>>
<1>1. lock \in Commands \cup {None}
  BY DEF GateInv, Typed
<1>2. Active' = Active
  BY <1>1, NamesAssumption DEF Active
<1>3. QED
  BY <1>2

LEMMA HiddenSteps ==
  ASSUME GateInv, NEW c \in Commands,
         Plan(c) \/ GiveUp(c) \/ TakeLock(c) \/ RefuseStale(c) \/ (Crash(c) /\ cmd[c].pc \notin AtWork)
  PROVE  UNCHANGED <<installed, ops, Active>>
<1>a. cmd[c] \in Command /\ cmd \in [Commands -> Command]
  BY DEF GateInv, Typed
<1>b. /\ [NewCommand EXCEPT !.pc = "done"].pc = "done"
      /\ \A t \in Kinds : [NewCommand EXCEPT !.pc = "release", !.type = t, !.op = c].pc = "release"
  BY DEF NewCommand
<1>1. CASE Plan(c)
  <2>1. UNCHANGED <<installed, ops, lock>> /\ cmd[c].pc \notin AtWork
    BY <1>1 DEF Plan, Invoke, ReadCurrent, ReadPrevious, ReadJournal, At, AtWork
  <2>2. \A d \in Commands \ {c} : cmd'[d] = cmd[d]
    BY <1>1, <1>a DEF Plan, Invoke, ReadCurrent, ReadPrevious, ReadJournal, Goes
  <2>3. CASE \E t \in Kinds : Invoke(c, t)
    BY <2>1, <2>2, <2>3, <1>a, <1>b, Stutters DEF Invoke, Goes, AtWork
  <2>4. CASE ReadCurrent(c)
    <3>1. cmd'[c].pc \in {"previous", "journal"}
      BY <2>4, <1>a DEF ReadCurrent, Goes, Command
    <3>2. QED
      BY <3>1, <2>1, <2>2, Stutters DEF AtWork
  <2>5. CASE ReadPrevious(c)
    <3>1. cmd'[c].pc = "journal"
      BY <2>5, <1>a DEF ReadPrevious, Goes, Command
    <3>2. QED
      BY <3>1, <2>1, <2>2, Stutters DEF AtWork
  <2>6. CASE ReadJournal(c)
    <3>1. CASE cmd' = [cmd EXCEPT ![c] = [cmd[c] EXCEPT !.pc = "waiting"]]
      BY <3>1, <1>a, <2>1, <2>2, Stutters DEF Command, AtWork
    <3>2. CASE \E o \in Commands :
            cmd' = [cmd EXCEPT ![c] = [cmd[c] EXCEPT !.pc = "waiting", !.op = o, !.prior = o]]
      BY <3>2, <1>a, <2>1, <2>2, Stutters DEF Command, AtWork
    <3>3. QED
      BY <2>6, <3>1, <3>2 DEF ReadJournal, Goes
  <2>7. QED
    BY <1>1, <2>3, <2>4, <2>5, <2>6 DEF Plan
<1>2. CASE TakeLock(c)
  <2>1. cmd'[c].pc = "locked" /\ \A d \in Commands \ {c} : cmd'[d] = cmd[d]
    BY <1>2, <1>a DEF TakeLock, Goes, Command
  <2>2. QED
    BY <1>2, <2>1, Stutters DEF TakeLock, At, AtWork
<1>3. CASE Leave(c) /\ UNCHANGED <<installed, ops>> /\ cmd[c].pc \notin AtWork
  <2>1. cmd'[c].pc = "done" /\ \A d \in Commands \ {c} : cmd'[d] = cmd[d]
    BY <1>3, <1>a, <1>b DEF Leave, Goes
  <2>2. QED
    BY <1>3, <2>1, Stutters DEF Leave, AtWork
<1>4. QED
  BY <1>1, <1>2, <1>3 DEF GiveUp, RefuseStale, Crash, At, AtWork

LEMMA RunBegins ==
  ASSUME GateInv, NEW c \in Commands, Run(c),
         NEW o, o = cmd[c].op, NEW t, t = cmd[c].type
  PROVE  Serial!Begin(o, t)
<1> DEFINE on == IF t \in Gated THEN cmd[c].current ELSE NoRelease
<1>a. /\ cmd \in [Commands -> Command] /\ cmd[c] \in Command /\ ops \in [Commands -> OpRecord]
      /\ Remembers(c) /\ cmd[c].pc = "locked" /\ o \in Commands /\ lock = c /\ GateInv'
  BY RunFinds, RunKeeps DEF GateInv, Typed, Run, At
<1>1. Active = Serial!Idle
  BY <1>a, ActiveIdle DEF AtWork
<1>2. /\ cmd'[c].pc = "running" /\ cmd'[c].op = o /\ cmd'[c].type = t
      /\ cmd'[c].current = cmd[c].current /\ cmd'[c].to = cmd[c].to
  BY <1>a DEF Run, Goes, Command
<1>3. Active' = [op |-> o, on |-> on, to |-> cmd[c].to]
  <2>1. lock' = c /\ c # None /\ cmd'[c].pc \in AtWork
    BY <1>2, <1>a, NamesAssumption DEF Run, AtWork
  <2>2. QED
    BY <1>2, <2>1 DEF Active
<1>4. cmd[c].to \in Releases \cup {NoRelease}
  BY <1>a DEF Command
<1>5. on \in (IF t \in Serial!Gated THEN {installed.current} ELSE {NoRelease})
      /\ (t = "rollback" => cmd[c].to = installed.previous)
      /\ (t \in Serial!Starts => ~installed.stopped)
  BY <1>a DEF Run, StillHolds, Serial!Gated, Gated, Serial!Starts, Starts, Remembers
<1>6. t \in Serial!Gated => Serial!Unfinished \subseteq {o}
  <2>1. Serial!Unfinished = Unfinished
    BY DEF Serial!Unfinished, Unfinished
  <2>2. cmd[c].prior # None => cmd[c].prior = o
    BY RunFinds
  <2>3. t \in Gated => Unfinished \subseteq {cmd[c].prior}
    BY DEF Run, StillHolds, GateOpen
  <2>4. None \notin Unfinished
    BY NamesAssumption DEF Unfinished
  <2>5. QED
    BY <2>1, <2>2, <2>3, <2>4 DEF Serial!Gated, Gated
<1>7. \/ [p \in Commands |-> ops[p].status][o] = "none"
      \/ /\ [p \in Commands |-> ops[p].type][o] = t /\ t \in Serial!Resumable
         /\ [p \in Commands |-> ops[p].status][o] \in {"running", "interrupted", "failed"}
  BY <1>a, RunFinds DEF Serial!Resumable, Resumable
<1>8. PICK at : ops' = [ops EXCEPT ![o] = [type |-> t, status |-> "running", at |-> at]]
  BY DEF Run
<1>9. /\ [p \in Commands |-> ops'[p].type] = [[p \in Commands |-> ops[p].type] EXCEPT ![o] = t]
      /\ [p \in Commands |-> ops'[p].status] = [[p \in Commands |-> ops[p].status] EXCEPT ![o] = "running"]
  BY <1>8, <1>a
<1>10. UNCHANGED installed
  BY DEF Run
<1>11. QED
  BY <1>1, <1>3, <1>4, <1>5, <1>6, <1>7, <1>9, <1>10 DEF Serial!Begin

LEMMA WritesWork ==
  ASSUME GateInv, NEW c \in Commands,
         DemoteCurrent(c) \/ PromoteNew(c) \/ RecordStop(c) \/ ClearStop(c)
           \/ UndoMove(c) \/ UndoPromotion(c) \/ UndoStop(c)
  PROVE  Serial!Works
<1>a. /\ cmd \in [Commands -> Command] /\ cmd[c] \in Command /\ ops \in [Commands -> OpRecord]
      /\ installed \in Installed /\ Running(c) /\ GateInv'
  BY WritesKeep DEF GateInv, Typed
<1>b. cmd[c].pc \in AtWork /\ UNCHANGED <<ops, lock>>
  BY DEF DemoteCurrent, PromoteNew, RecordStop, ClearStop, UndoMove, UndoPromotion, UndoStop,
     At, AtWork
<1>1. /\ Active.op = cmd[c].op /\ Active.to = cmd[c].to
      /\ Active.on = IF cmd[c].type \in Gated THEN cmd[c].current ELSE NoRelease
      /\ cmd[c].op \in Commands /\ Active # Serial!Idle
      /\ ops[cmd[c].op].type = cmd[c].type
  BY <1>b, ActiveAtWork
<1>2. \/ \E pc \in AtWork : cmd' = [cmd EXCEPT ![c] = [cmd[c] EXCEPT !.pc = pc]]
      \/ \E pc \in AtWork, b \in BOOLEAN :
           cmd' = [cmd EXCEPT ![c] = [cmd[c] EXCEPT !.pc = pc, !.marked = b]]
  BY DEF DemoteCurrent, PromoteNew, RecordStop, ClearStop, UndoMove, UndoPromotion, UndoStop,
     Goes, AtWork
<1>3. /\ cmd'[c].pc \in AtWork /\ cmd'[c].op = cmd[c].op /\ cmd'[c].type = cmd[c].type
      /\ cmd'[c].to = cmd[c].to /\ cmd'[c].current = cmd[c].current
  <2>1. CASE \E pc \in AtWork : cmd' = [cmd EXCEPT ![c] = [cmd[c] EXCEPT !.pc = pc]]
    BY <2>1, <1>a DEF Command
  <2>2. CASE \E pc \in AtWork, b \in BOOLEAN :
           cmd' = [cmd EXCEPT ![c] = [cmd[c] EXCEPT !.pc = pc, !.marked = b]]
    BY <2>2, <1>a DEF Command
  <2>3. QED
    BY <1>2, <2>1, <2>2
<1>4. Active' = Active
  <2>1. lock = c /\ lock' = c /\ c # None
    BY <1>a, <1>b, NamesAssumption DEF Running
  <2>2. QED
    BY <2>1, <1>b, <1>3 DEF Active
<1>5. [o \in Commands |-> ops[o].type][Active.op] = cmd[c].type
  BY <1>1
<1>6. UNCHANGED <<[o \in Commands |-> ops[o].type], [o \in Commands |-> ops[o].status], Active>>
  BY <1>4, <1>b
<1>7. CASE RecordStop(c) \/ ClearStop(c) \/ UndoStop(c)
  <2>1. /\ \/ cmd[c].type = "stop"
           \/ cmd[c].type = "start" /\ installed'.stopped = FALSE
        /\ installed'.stopped \in BOOLEAN
        /\ installed'.current = installed.current /\ installed'.previous = installed.previous
    <3>1. CASE RecordStop(c)
      BY <3>1, <1>a DEF RecordStop, Installed
    <3>2. CASE ClearStop(c)
      BY <3>2, <1>a DEF ClearStop, Installed
    <3>3. CASE UndoStop(c)
      BY <3>3, <1>a, <1>b DEF UndoStop, Installed, Running
    <3>4. QED
      BY <1>7, <3>1, <3>2, <3>3
  <2>2. QED
    BY <2>1, <1>1, <1>5, <1>6 DEF Serial!Works
<1>8. CASE DemoteCurrent(c) \/ PromoteNew(c) \/ UndoMove(c) \/ UndoPromotion(c)
  <2>1. cmd[c].type \in Moves
    BY <1>8, <1>a DEF DemoteCurrent, PromoteNew, UndoMove, UndoPromotion, Running, Moves, At
  <2>2. /\ installed'.current \in {installed.current, Active.on, Active.to}
        /\ installed'.previous \in {installed.previous, installed.current}
        /\ installed'.stopped = installed.stopped
    <3>1. CASE DemoteCurrent(c) \/ UndoMove(c)
      BY <3>1, <1>a DEF DemoteCurrent, UndoMove, Demote, Installed
    <3>2. CASE PromoteNew(c)
      BY <3>2, <1>a, <1>1 DEF PromoteNew, Installed
    <3>3. CASE UndoPromotion(c)
      BY <3>3, <1>a, <1>1, <2>1 DEF UndoPromotion, Installed, Moves, Gated
    <3>4. QED
      BY <1>8, <3>1, <3>2, <3>3
  <2>3. QED
    BY <2>1, <2>2, <1>1, <1>5, <1>6 DEF Serial!Works, Moves
<1>9. QED
  BY <1>7, <1>8

LEMMA LeavesEnd ==
  ASSUME GateInv, NEW c \in Commands, cmd[c].pc \in AtWork, Leave(c), installed' = installed,
         NEW s \in Final \cup {"running"},
         ops' = [ops EXCEPT ![cmd[c].op].status = s]
  PROVE  Serial!Ends
<1>a. /\ cmd \in [Commands -> Command] /\ ops \in [Commands -> OpRecord] /\ lock = c
  BY DEF GateInv, Typed, Running
<1>1. Active.op = cmd[c].op /\ cmd[c].op \in Commands /\ Active # Serial!Idle
  BY ActiveAtWork
<1>2. Active' = Serial!Idle
  BY <1>a DEF Leave, Active, Serial!Idle
<1>3. /\ [o \in Commands |-> ops'[o].type] = [o \in Commands |-> ops[o].type]
      /\ [o \in Commands |-> ops'[o].status]
         = [[o \in Commands |-> ops[o].status] EXCEPT ![cmd[c].op] = s]
  BY <1>a, <1>1 DEF OpRecord
<1>4. QED
  BY <1>1, <1>2, <1>3 DEF Serial!Ends, Final

LEMMA ClearAcknowledges ==
  ASSUME GateInv, NEW c \in Commands, ClearIntervention(c)
  PROVE  Serial!Acknowledge
<1>a. ops \in [Commands -> OpRecord] /\ lock = None /\ lock' = None /\ installed' = installed
  BY DEF GateInv, Typed, ClearIntervention
<1>1. Active = Serial!Idle /\ Active' = Serial!Idle
  BY <1>a DEF Active, Serial!Idle
<1>2. PICK o \in Unfinished : ops' = [ops EXCEPT ![o].status = "failed"]
  BY DEF ClearIntervention
<1>3. o \in Serial!Unfinished /\ o \in Commands
  BY <1>2 DEF Serial!Unfinished, Unfinished
<1>4. /\ [p \in Commands |-> ops'[p].type] = [p \in Commands |-> ops[p].type]
      /\ [p \in Commands |-> ops'[p].status] = [[p \in Commands |-> ops[p].status] EXCEPT ![o] = "failed"]
  BY <1>a, <1>2, <1>3 DEF OpRecord
<1>5. QED
  BY <1>a, <1>1, <1>3, <1>4 DEF Serial!Acknowledge

LEMMA SerialStep ==
  ASSUME GateInv, [Next]_vars
  PROVE  Serial!SerialNext \/ UNCHANGED <<installed, ops, Active>>
<1>1. CASE UNCHANGED vars
  BY <1>1 DEF vars, Active
<1>2. ASSUME NEW c \in Commands,
             Plan(c) \/ GiveUp(c) \/ TakeLock(c) \/ Work(c) \/ Crash(c) \/ ClearIntervention(c)
      PROVE  Serial!SerialNext \/ UNCHANGED <<installed, ops, Active>>
  <2>1. CASE Run(c)
    <3>1. PICK o \in Commands, t \in Serial!Types : o = cmd[c].op /\ t = cmd[c].type
      BY <2>1, RunFinds DEF Serial!Types, Serial!Gated, Types, Gated
    <3>2. Serial!Begin(o, t)
      BY <2>1, <3>1, RunBegins
    <3>3. QED
      BY <3>2 DEF Serial!SerialNext
  <2>2. CASE \E s \in Final : Finish(c, s)
    BY <2>2, LeavesEnd DEF Finish, AtWork, Serial!SerialNext
  <2>3. CASE Crash(c) /\ cmd[c].pc \in AtWork
    <3>1. ops' = [ops EXCEPT ![cmd[c].op].status = "running"]
      BY <2>3, ActiveAtWork DEF Crash, GateInv, Typed, OpRecord
    <3>2. QED
      BY <2>3, <3>1, LeavesEnd DEF Crash, Serial!SerialNext
  <2>4. CASE ClearIntervention(c)
    BY <2>4, ClearAcknowledges DEF Serial!SerialNext
  <2>5. CASE DemoteCurrent(c) \/ PromoteNew(c) \/ RecordStop(c) \/ ClearStop(c)
             \/ UndoMove(c) \/ UndoPromotion(c) \/ UndoStop(c)
    BY <2>5, WritesWork DEF Serial!SerialNext
  <2>6. QED
    BY <1>2, <2>1, <2>2, <2>3, <2>4, <2>5, HiddenSteps DEF Work
<1>3. QED
  BY <1>1, <1>2 DEF Next

\* Commands that plan without the lock and check again under it deploy as if one
\* after another (DeploymentGate, ImplementsSerial).
THEOREM ImplementsSerialDeployment == Spec => ImplementsSerial
<1>1. Init => Serial!SerialInit
  <2>1. SUFFICES ASSUME Init PROVE Serial!SerialInit
    OBVIOUS
  <2>2. Active = Serial!Idle
    BY <2>1, ActiveIdle DEF Init
  <2>3. /\ [o \in Commands |-> ops[o].type] = [o \in Commands |-> "none"]
        /\ [o \in Commands |-> ops[o].status] = [o \in Commands |-> "none"]
    BY <2>1 DEF Init, NoRecord
  <2>4. /\ installed.current \in Releases /\ installed.previous \in Releases \cup {NoRelease}
        /\ installed.stopped = FALSE
    BY <2>1 DEF Init
  <2>5. QED
    BY <2>2, <2>3, <2>4 DEF Serial!SerialInit
<1>2. GateInv /\ [Next]_vars => [Serial!SerialNext]_(Serial!serialVars)
  BY SerialStep DEF Serial!serialVars
<1>3. QED
  BY <1>1, <1>2, InvInit, InvStep, PTL DEF Spec, ImplementsSerial, Serial!SerialSpec
=============================================================================
