--------------------------- MODULE ManagerUpdate ---------------------------
(***************************************************************************)
(* internal/infra/lock/lock.go and internal/lifecycle/ops/self_update.go:  *)
(* the named locks of every installation, each an flock(2) with a sidecar  *)
(* that says who holds it, and the replacement of the manager's binary,    *)
(* which takes them all.                                                   *)
(*                                                                         *)
(* A process is a command on one installation or a self-update.  It takes  *)
(* its locks one after another and gives them back in the other order.     *)
(***************************************************************************)
EXTENDS Naturals, Sequences

CONSTANTS
  Updaters,    \* processes that replace the manager
  Commands,    \* processes that work on one installation
  Products,    \* the installations there may be, in the order they are listed in
  Newest,      \* bound of the model: versions are 1..Newest, and 0 is a dev build
  DevTargets,  \* bound of the model: those --to names to a dev build
  Lives,       \* bound of the model: processes an updater or a command runs as
  None

Listed == {Products[i] : i \in DOMAIN Products}

ASSUME ProductsAssumption ==
  /\ Products \in Seq(STRING)
  /\ \A i, j \in DOMAIN Products : Products[i] = Products[j] => i = j

ASSUME NewestAssumption == Newest \in Nat \ {0}

ASSUME DevTargetsAssumption == DevTargets \subseteq 1..Newest

ASSUME LivesAssumption == Lives \in Nat

ASSUME NoneAssumption == None \notin Updaters \union Commands

Procs    == Updaters \union Commands
Versions == 0..Newest
Locks    == Listed \X {"deployment", "outbox"}

\* The order locks are taken in: by installation, and each one's deployment lock
\* before its outbox.
Place(product) == CHOOSE i \in DOMAIN Products : Products[i] = product

Before(lock, other) ==
  \/ Place(lock[1]) < Place(other[1])
  \/ lock[1] = other[1] /\ lock[2] = "deployment" /\ other[2] = "outbox"

First(locks, lock) == lock \in locks /\ \A other \in locks \ {lock} : Before(lock, other)

Last(locks, lock) == lock \in locks /\ \A other \in locks \ {lock} : Before(other, lock)

VARIABLES
  installed,  \* the version of the file the manager runs from
  directory,  \* the updater that holds the lock on the file's directory
  holder,     \* the process that holds each lock
  sidecar,    \* the process each lock's owner file names, and which of its lives
  existing,   \* the products that have an installation
  memory,     \* the memory of each process
  life,       \* how many processes ran as this one
  told,       \* the versions each installation's journal has a manager update to
  ran,        \* the versions whose operations each journal has
  excused     \* history: versions whose record a journal could not get

vars == <<installed, directory, holder, sidecar, existing, memory, life, told, ran, excused>>

journals == <<told, ran, excused>>

Nobody == [proc |-> None, life |-> 0]

\* wanted and held are the locks a process has yet to take, and those it has; seen
\* is what a dev build found the file to be.
Idle == [pc |-> "idle", kind |-> "none", version |-> 0, seen |-> 0, target |-> 0, products |-> {},
         wanted |-> {}, held |-> {}, wait |-> FALSE]

At(p, pc) == memory[p].pc = pc

Becomes(p, m) == memory' = [memory EXCEPT ![p] = m]

-----------------------------------------------------------------------------
(* Taking locks and giving them back *)

\* What a process does once it has every lock it wanted.
Work(p) == CASE memory[p].kind = "update"  -> "check"
             [] memory[p].kind \in {"operate", "init"} -> "record"
             [] OTHER -> "release"

\* `--wait`, and what a removed notify target's entries wait for anyway.
Waits(p) == memory[p].wait \/ (memory[p].kind = "forget" /\ memory[p].held # {})

\* tryFlock takes a free lock; the owner is written after it.
TakeLock(p) ==
  /\ At(p, "take")
  /\ \E lock \in memory[p].wanted :
       /\ First(memory[p].wanted, lock)
       /\ holder[lock] = None
       /\ holder' = [holder EXCEPT ![lock] = p]
       /\ Becomes(p, [memory[p] EXCEPT !.pc = "own", !.wanted = @ \ {lock},
                                       !.held = @ \union {lock}])
  /\ UNCHANGED <<installed, directory, sidecar, existing, life, journals>>

WriteOwner(p) ==
  /\ At(p, "own")
  /\ \E lock \in memory[p].held :
       /\ Last(memory[p].held, lock)
       /\ sidecar' = [sidecar EXCEPT ![lock] = [proc |-> p, life |-> life[p]]]
  /\ Becomes(p, [memory[p] EXCEPT !.pc = IF memory[p].wanted = {} THEN Work(p) ELSE "take"])
  /\ UNCHANGED <<installed, directory, holder, existing, life, journals>>

\* A held lock refuses a process that does not wait; one that does asks again,
\* until it is interrupted.
Refused(p) ==
  /\ At(p, "take")
  /\ Waits(p) \/ \E lock \in memory[p].wanted : First(memory[p].wanted, lock) /\ holder[lock] # None
  /\ Becomes(p, [memory[p] EXCEPT !.pc = "release", !.wanted = {}])
  /\ UNCHANGED <<installed, directory, holder, sidecar, existing, life, journals>>

RemoveOwner(lock) ==
  /\ sidecar' = [sidecar EXCEPT ![lock] = Nobody]
  /\ UNCHANGED holder

Unlock(lock) ==
  /\ holder' = [holder EXCEPT ![lock] = None]
  /\ UNCHANGED sidecar

Half(p) == Becomes(p, [memory[p] EXCEPT !.pc = "unlock"])

Back(p, lock) == Becomes(p, [memory[p] EXCEPT !.pc = "release", !.held = @ \ {lock}])

GiveBack_UnlocksFirst(p) ==
  /\ \E lock \in memory[p].held :
       /\ Last(memory[p].held, lock)
       /\ \/ At(p, "release") /\ Unlock(lock) /\ Half(p)
          \/ At(p, "unlock") /\ RemoveOwner(lock) /\ Back(p, lock)
  /\ UNCHANGED <<installed, directory, existing, life, journals>>

\* The release of the last lock taken: its owner goes first, then the lock.
GiveBack(p) ==
  /\ \E lock \in memory[p].held :
       /\ Last(memory[p].held, lock)
       /\ \/ At(p, "release") /\ RemoveOwner(lock) /\ Half(p)
          \/ At(p, "unlock") /\ Unlock(lock) /\ Back(p, lock)
  /\ UNCHANGED <<installed, directory, existing, life, journals>>

\* The last lock is back, and with it the directory's: the process ends.
End(p) ==
  /\ At(p, "release")
  /\ memory[p].held = {}
  /\ directory' = IF directory = p THEN None ELSE directory
  /\ Becomes(p, Idle)
  /\ UNCHANGED <<installed, holder, sidecar, existing, life, journals>>

\* A killed process: the kernel takes its locks, and its owner files stay.
Crash(p) ==
  /\ ~At(p, "idle")
  /\ holder' = [lock \in Locks |-> IF holder[lock] = p THEN None ELSE holder[lock]]
  /\ directory' = IF directory = p THEN None ELSE directory
  /\ excused' = [q \in Listed |->
       IF At(p, "journal") /\ q \in memory[p].products
       THEN excused[q] \union {memory[p].target} ELSE excused[q]]
  /\ Becomes(p, Idle)
  /\ UNCHANGED <<installed, sidecar, existing, life, told, ran>>

\* Who the sidecar of a lock says holds it, if that process is still there.
Owner(lock) ==
  LET said == sidecar[lock]
  IN IF said # Nobody /\ life[said.proc] = said.life /\ ~At(said.proc, "idle")
     THEN said.proc ELSE None

-----------------------------------------------------------------------------
(* A command: it is the binary it was started from *)

Starts(p) ==
  /\ At(p, "idle")
  /\ life[p] < Lives
  /\ life' = [life EXCEPT ![p] = @ + 1]

Kinds == {"operate", "init", "forget", "send"}

\* An operation takes its installation's deployment lock, as `init` does before
\* there is one; `notify target remove` then the outbox, and a send that alone.
Names(kind) == CASE kind = "send"   -> {"outbox"}
                 [] kind = "forget" -> {"deployment", "outbox"}
                 [] OTHER           -> {"deployment"}

Command(product, kind, wait) ==
  [Idle EXCEPT !.pc = "take", !.kind = kind, !.version = installed,
               !.wait = wait /\ kind # "send", !.wanted = {product} \X Names(kind)]

Start(p) ==
  /\ Starts(p)
  /\ \E product \in Listed, kind \in Kinds, wait \in BOOLEAN :
       /\ (kind = "init") <=> (product \notin existing)
       /\ Becomes(p, Command(product, kind, wait))
  /\ UNCHANGED <<installed, directory, holder, sidecar, existing, journals>>

\* The operation's first record, which says the version of the manager that ran
\* it; `init` makes the installation with it.
Record(p) ==
  /\ At(p, "record")
  /\ \E lock \in memory[p].held :
       /\ ran' = [ran EXCEPT ![lock[1]] = @ \union {memory[p].version}]
       /\ existing' = existing \union {lock[1]}
  /\ Becomes(p, [memory[p] EXCEPT !.pc = "release"])
  /\ UNCHANGED <<installed, directory, holder, sidecar, life, told, excused>>

-----------------------------------------------------------------------------
(* A self-update *)

\* The release to install, which only moves forward; a dev build has no version
\* to compare, so --to names one.
Asked(target) ==
  [Idle EXCEPT !.pc = IF installed = 0 THEN "digest" ELSE "fetch", !.kind = "update",
               !.version = installed, !.target = target]

Ask(p) ==
  /\ Starts(p)
  /\ \E target \in IF installed = 0 THEN DevTargets ELSE Versions :
       target > installed /\ Becomes(p, Asked(target))
  /\ UNCHANGED <<installed, directory, holder, sidecar, existing, journals>>

\* A dev build reads the file for its digest, which may be another's by now.
Digest(p) ==
  /\ At(p, "digest")
  /\ Becomes(p, [memory[p] EXCEPT !.pc = "fetch", !.seen = installed])
  /\ UNCHANGED <<installed, directory, holder, sidecar, existing, life, journals>>

Discover_OutboxOnly(p) ==
  /\ At(p, "fetch")
  /\ Becomes(p, [memory[p] EXCEPT !.pc = "directory", !.products = existing,
                                  !.wanted = existing \X {"outbox"}])
  /\ UNCHANGED <<installed, directory, holder, sidecar, existing, life, journals>>

\* It is downloaded and unpacked beside the file, and the installations listed.
Discover(p) ==
  /\ At(p, "fetch")
  /\ Becomes(p, [memory[p] EXCEPT !.pc = "directory", !.products = existing,
                                  !.wanted = existing \X {"deployment", "outbox"}])
  /\ UNCHANGED <<installed, directory, holder, sidecar, existing, life, journals>>

LockDirectory(p) ==
  /\ At(p, "directory")
  /\ directory' = IF directory = None THEN p ELSE directory
  /\ Becomes(p, IF directory # None THEN Idle
                ELSE [memory[p] EXCEPT !.pc = IF memory[p].wanted = {} THEN "check" ELSE "take"])
  /\ UNCHANGED <<installed, holder, sidecar, existing, life, journals>>

MayReplace_AsStarted(p) == memory[p].target > memory[p].version

\* Another self-update may have finished since: a dev build asks for the same
\* file, any other for an older one.
MayReplace(p) == IF memory[p].version = 0 THEN installed = memory[p].seen
                 ELSE memory[p].target > installed

Check(p) ==
  /\ At(p, "check")
  /\ Becomes(p, [memory[p] EXCEPT !.pc = IF MayReplace(p) THEN "rename" ELSE "release"])
  /\ UNCHANGED <<installed, directory, holder, sidecar, existing, life, journals>>

Rename(p) ==
  /\ At(p, "rename")
  /\ installed' = memory[p].target
  /\ excused' = [q \in Listed |->
       IF q \in memory[p].products THEN excused[q] ELSE excused[q] \union {installed'}]
  /\ Becomes(p, [memory[p] EXCEPT !.pc = "journal"])
  /\ UNCHANGED <<directory, holder, sidecar, existing, life, told, ran>>

\* A journal that does not take the record is a warning.
JournalUpdate(p) ==
  /\ At(p, "journal")
  /\ \E product \in memory[p].products :
       /\ \A other \in memory[p].products : Place(product) <= Place(other)
       /\ \/ told' = [told EXCEPT ![product] = @ \union {memory[p].target}] /\ UNCHANGED excused
          \/ excused' = [excused EXCEPT ![product] = @ \union {memory[p].target}] /\ UNCHANGED told
       /\ Becomes(p, [memory[p] EXCEPT !.products = @ \ {product}])
  /\ UNCHANGED <<installed, directory, holder, sidecar, existing, life, ran>>

Updated(p) ==
  /\ At(p, "journal")
  /\ memory[p].products = {}
  /\ Becomes(p, [memory[p] EXCEPT !.pc = "release"])
  /\ UNCHANGED <<installed, directory, holder, sidecar, existing, life, journals>>

-----------------------------------------------------------------------------

Init ==
  /\ installed \in {0, 1}
  /\ directory = None
  /\ holder = [lock \in Locks |-> None]
  /\ sidecar = [lock \in Locks |-> Nobody]
  /\ existing \in SUBSET Listed
  /\ memory = [p \in Procs |-> Idle]
  /\ life = [p \in Procs |-> 0]
  /\ told = [q \in Listed |-> {}]
  /\ ran = [q \in Listed |-> {}]
  /\ excused = [q \in Listed |-> {installed}]

Locking(p) == TakeLock(p) \/ WriteOwner(p) \/ Refused(p) \/ GiveBack(p) \/ End(p)

Updating(p) ==
  Digest(p) \/ Discover(p) \/ LockDirectory(p) \/ Check(p) \/ Rename(p) \/ JournalUpdate(p) \/ Updated(p)

Next ==
  \/ \E p \in Commands : Start(p) \/ Record(p)
  \/ \E p \in Updaters : Ask(p) \/ Updating(p)
  \/ \E p \in Procs : Locking(p) \/ Crash(p)

Spec == Init /\ [][Next]_vars

-----------------------------------------------------------------------------
(* What must hold *)

Pcs == {"idle", "take", "own", "record", "digest", "fetch", "directory", "check", "rename", "journal",
        "release", "unlock"}

Memory == [pc : Pcs, kind : Kinds \union {"none", "update"}, version : Versions,
           seen : Versions, target : Versions, products : SUBSET Listed,
           wanted : SUBSET Locks, held : SUBSET Locks, wait : BOOLEAN]

\* Types, and that a lock is held by exactly the process that has it among its own.
TypeOK ==
  /\ installed \in Versions
  /\ directory \in Updaters \union {None}
  /\ holder \in [Locks -> Procs \union {None}]
  /\ sidecar \in [Locks -> [proc : Procs \union {None}, life : 0..Lives]]
  /\ existing \subseteq Listed
  /\ memory \in [Procs -> Memory]
  /\ life \in [Procs -> 0..Lives]
  /\ told \in [Listed -> SUBSET Versions]
  /\ ran \in [Listed -> SUBSET Versions]
  /\ excused \in [Listed -> SUBSET Versions]
  /\ \A lock \in Locks, p \in Procs : holder[lock] = p <=> lock \in memory[p].held

\* Who a refusal, `status` and `doctor` say holds a lock (Locker.Owner) does hold
\* it; and a process that has written its owner file is named for as long as it
\* works under the lock, whatever the holder before it does, or died of.
OwnerIsHolder ==
  \A lock \in Locks :
    /\ Owner(lock) # None => holder[lock] = Owner(lock)
    /\ \A p \in Procs :
         holder[lock] = p /\ ~(memory[p].pc \in {"own", "unlock"} /\ Last(memory[p].held, lock))
           => Owner(lock) = p

\* No operation of the new manager is in a journal before the record of the change
\* (self_update.go:247), but of a journal that could not take it, of an updater
\* that died first, and of an installation the updater did not find.
RecordComesFirst ==
  \A q \in Listed : ran[q] \subseteq told[q] \union excused[q]

\* Whatever self-updates start together, each for a release of its own, the
\* manager only moves forward, but by a dev build whose file another one replaced
\* before it read the digest it is held to.
NeverMovesBack ==
  [][installed' < installed =>
       \E p \in Updaters : /\ At(p, "rename") /\ memory'[p].pc = "journal"
                           /\ memory[p].version = 0 /\ memory[p].seen # 0]_vars
=============================================================================
