----------------------------- MODULE HostProofs -----------------------------
(***************************************************************************)
(* Theorems of the two modules about what the processes of a host share:   *)
(* Journal, for any operations and any number of appends, and              *)
(* ManagerUpdate, for any updaters, commands, installations and versions.  *)
(***************************************************************************)
EXTENDS Journal, ManagerUpdate, SequenceTheorems, TLAPS

-----------------------------------------------------------------------------
(* Journal: the inductive invariant *)

OpStatus == OpFinal \cup {"running"}
Entries == [op : Ops, status : OpStatus, part : Parts]

\* What an append was acknowledged for is flushed, whole, and of its operation.
JournalInv ==
  /\ file \in Seq(Entries)
  /\ synced \in 0..Len(file)
  /\ live \in Ops \cup {NoOp}
  /\ acked \in [Ops -> 0..synced]
  /\ \A o \in Ops : acked[o] > 0 => file[acked[o]].op = o /\ file[acked[o]].part = "whole"

LEMMA JournalInvTyped == JournalInv => JournalTypeOK
<1> SUFFICES ASSUME JournalInv PROVE JournalTypeOK
  OBVIOUS
<1>1. 0..synced \subseteq 0..Len(file)
  BY DEF JournalInv
<1>2. acked \in [Ops -> 0..Len(file)]
  BY <1>1 DEF JournalInv
<1>3. QED
  BY <1>2 DEF JournalInv, JournalTypeOK, Entries, OpStatus

LEMMA JournalInvInit == JournalInit => JournalInv
<1> SUFFICES ASSUME JournalInit PROVE JournalInv
  OBVIOUS
<1>1. file \in Seq(Entries) /\ Len(file) = 0
  BY DEF JournalInit
<1>2. QED
  BY <1>1 DEF JournalInit, JournalInv

LEMMA EntryTyped ==
  ASSUME NEW o \in Ops, NEW s \in OpStatus, NEW part \in Parts
  PROVE  Entry(o, s, part) \in Entries
  BY DEF Entry, Entries

\* An append leaves what was in the file where it was.
LEMMA Appended ==
  ASSUME JournalInv, NEW e \in Entries, file' = Append(file, e)
  PROVE  /\ file' \in Seq(Entries) /\ Len(file') = Len(file) + 1
         /\ \A i \in 1..Len(file) : file'[i] = file[i]
         /\ file'[Len(file')] = e
<1>1. file \in Seq(Entries) /\ Len(file) \in Nat
  BY DEF JournalInv
<1>2. QED
  BY <1>1, AppendProperties

LEMMA AppendKeeps ==
  ASSUME JournalInv, NEW o \in Ops, NEW s \in OpStatus,
         AppendSucceeds(o, s) \/ AppendFails(o, s),
         live' \in Ops \cup {NoOp}
  PROVE  JournalInv'
<1>a. /\ file \in Seq(Entries) /\ Len(file) \in Nat /\ synced \in 0..Len(file)
      /\ acked \in [Ops -> 0..synced]
      /\ \A p \in Ops : acked[p] > 0 => file[acked[p]].op = p /\ file[acked[p]].part = "whole"
  BY DEF JournalInv
<1>1. CASE AppendSucceeds(o, s)
  <2>1. Entry(o, s, "whole") \in Entries
    BY EntryTyped DEF Parts
  <2>2. /\ file' \in Seq(Entries) /\ Len(file') = Len(file) + 1
        /\ \A i \in 1..Len(file) : file'[i] = file[i]
        /\ file'[Len(file')] = Entry(o, s, "whole")
    BY <1>1, <2>1, Appended DEF AppendSucceeds
  <2>3. synced' = Len(file') /\ acked' = [acked EXCEPT ![o] = Len(file')]
    BY <1>1 DEF AppendSucceeds
  <2>4. acked' \in [Ops -> 0..synced']
    <3>1. 0..synced \subseteq 0..synced' /\ Len(file') \in 0..synced'
      BY <1>a, <2>2, <2>3
    <3>2. QED
      BY <1>a, <2>3, <3>1
  <2>5. ASSUME NEW p \in Ops, acked'[p] > 0
        PROVE  file'[acked'[p]].op = p /\ file'[acked'[p]].part = "whole"
    <3>1. CASE p = o
      BY <1>a, <2>2, <2>3, <3>1 DEF Entry
    <3>2. CASE p # o
      BY <1>a, <2>2, <2>3, <2>5, <3>2
    <3>3. QED
      BY <3>1, <3>2
  <2>6. QED
    BY <2>2, <2>3, <2>4, <2>5, <1>a DEF JournalInv
<1>2. CASE AppendFails(o, s) /\ UNCHANGED file
  BY <1>2 DEF AppendFails, JournalInv
<1>3. CASE \E part \in Parts : file' = Append(file, Entry(o, s, part)) /\ UNCHANGED <<synced, acked>>
  <2>1. PICK part \in Parts : file' = Append(file, Entry(o, s, part))
    BY <1>3
  <2>2. /\ file' \in Seq(Entries) /\ Len(file') = Len(file) + 1
        /\ \A i \in 1..Len(file) : file'[i] = file[i]
    BY <2>1, EntryTyped, Appended
  <2>3. \A p \in Ops : acked[p] > 0 => file'[acked[p]] = file[acked[p]]
    BY <1>a, <2>2
  <2>4. QED
    BY <1>3, <1>a, <2>2, <2>3 DEF JournalInv
<1>4. QED
  BY <1>1, <1>2, <1>3 DEF AppendFails

\* A power cut leaves what was flushed.
LEMMA PowerCutKeeps == JournalInv /\ PowerCut => JournalInv'
<1> SUFFICES ASSUME JournalInv, PowerCut PROVE JournalInv'
  OBVIOUS
<1>a. /\ file \in Seq(Entries) /\ Len(file) \in Nat /\ synced \in 0..Len(file)
      /\ acked \in [Ops -> 0..synced]
      /\ \A p \in Ops : acked[p] > 0 => file[acked[p]].op = p /\ file[acked[p]].part = "whole"
  BY DEF JournalInv
<1>1. PICK k \in synced..(Len(file) - 1) :
        \/ file' = SubSeq(file, 1, k)
        \/ \E part \in {"short", "torn"} :
             file' = Append(SubSeq(file, 1, k), [file[k + 1] EXCEPT !.part = part])
  BY DEF PowerCut
<1>2. /\ k \in Nat /\ k < Len(file) /\ synced <= k
      /\ SubSeq(file, 1, k) \in Seq(Entries) /\ Len(SubSeq(file, 1, k)) = k
      /\ \A i \in 1..k : SubSeq(file, 1, k)[i] = file[i]
  BY <1>a, <1>1, SubSeqProperties
<1>3. file' \in Seq(Entries) /\ Len(file') \in Nat /\ Len(file') >= k /\ \A i \in 1..k : file'[i] = file[i]
  <2>1. CASE file' = SubSeq(file, 1, k)
    BY <1>2, <2>1
  <2>2. CASE \E part \in {"short", "torn"} :
               file' = Append(SubSeq(file, 1, k), [file[k + 1] EXCEPT !.part = part])
    <3>1. PICK part \in {"short", "torn"} :
               file' = Append(SubSeq(file, 1, k), [file[k + 1] EXCEPT !.part = part])
      BY <2>2
    <3>2. file[k + 1] \in Entries
      BY <1>a, <1>2, ElementOfSeq
    <3>3. [file[k + 1] EXCEPT !.part = part] \in Entries
      BY <3>2 DEF Entries, Parts
    <3>4. QED
      BY <1>2, <3>1, <3>3, AppendProperties
  <2>3. QED
    BY <1>1, <2>1, <2>2
<1>4. synced' = Len(file') /\ acked' = acked /\ live' = NoOp
  BY DEF PowerCut
<1>5. acked' \in [Ops -> 0..synced']
  <2>1. 0..synced \subseteq 0..synced'
    BY <1>2, <1>3, <1>4, <1>a
  <2>2. QED
    BY <2>1, <1>4, <1>a
<1>6. \A p \in Ops : acked[p] > 0 => acked[p] \in 1..k
  BY <1>a, <1>2
<1>7. QED
  BY <1>a, <1>3, <1>4, <1>5, <1>6 DEF JournalInv

LEMMA JournalInvStep == JournalInv /\ [JournalNext]_journalVars => JournalInv'
<1> SUFFICES ASSUME JournalInv, [JournalNext]_journalVars PROVE JournalInv'
  OBVIOUS
<1>a. live \in Ops \cup {NoOp} /\ "running" \in OpStatus /\ OpFinal \subseteq OpStatus
  BY DEF JournalInv, OpStatus
<1>1. CASE \E o \in Ops : Begin(o)
  BY <1>1, <1>a, AppendKeeps DEF Begin, AppendOperation
<1>2. CASE JournalStep
  BY <1>2, <1>a, AppendKeeps DEF JournalStep, AppendOperation
<1>3. CASE Finish
  BY <1>3, <1>a, AppendKeeps DEF Finish, AppendOperation
<1>4. CASE ClearIntervention
  <2>1. PICK o \in Unfinished : AppendOperation(o, "failed")
    BY <1>4 DEF ClearIntervention
  <2>2. o \in Ops /\ "failed" \in OpStatus
    BY <2>1 DEF Unfinished, OpStatus, OpFinal
  <2>3. QED
    BY <1>4, <1>a, <2>1, <2>2, AppendKeeps DEF ClearIntervention, AppendOperation
<1>5. CASE Die
  <2>1. CASE UNCHANGED <<file, synced, acked>>
    BY <1>5, <2>1 DEF Die, JournalInv
  <2>2. CASE \E s \in OpFinal \cup {"running"} : AppendFails(live, s)
    <3>1. live \in Ops
      BY <1>5, <1>a DEF Die
    <3>2. QED
      BY <1>5, <1>a, <2>2, <3>1, AppendKeeps DEF Die, OpStatus
  <2>3. QED
    BY <1>5, <2>1, <2>2 DEF Die
<1>6. CASE PowerCut
  BY <1>6, PowerCutKeeps
<1>7. CASE UNCHANGED journalVars
  BY <1>7 DEF journalVars, JournalInv
<1>8. QED
  BY <1>1, <1>2, <1>3, <1>4, <1>5, <1>6, <1>7 DEF JournalNext

\* Types of the journal, and what is acknowledged is in it (Journal, JournalTypeOK).
THEOREM JournalTypeCorrect == JournalSpec => []JournalTypeOK
<1>1. QED
  BY JournalInvInit, JournalInvStep, JournalInvTyped, PTL DEF JournalSpec

-----------------------------------------------------------------------------
(* Journal: what is reported of an operation *)

\* The record that stands is the last of its operation, and is reported when it
\* has a line of its own.
LEMMA StandingIsReported ==
  ASSUME JournalInv, NEW o \in Ops, Standing(o),
         acked[o] > 1 => file[acked[o] - 1].part = "whole"
  PROVE  Reported(o) = file[acked[o]].status
<1> DEFINE mine == {i \in 1..Len(file) : file[i].op = o /\ Readable(i)}
<1>a. /\ Len(file) \in Nat /\ synced \in 0..Len(file) /\ acked[o] \in 0..synced
      /\ acked[o] > 0 /\ file[acked[o]].op = o /\ file[acked[o]].part = "whole"
  BY DEF JournalInv, Standing
<1>1. acked[o] \in mine
  BY <1>a DEF Readable
<1>2. \A i \in mine : i <= acked[o]
  BY <1>a DEF Standing
<1>3. LastOf(mine) \in mine /\ \A j \in mine : j <= LastOf(mine)
  BY <1>1, <1>2 DEF LastOf
<1>4. LastOf(mine) = acked[o]
  BY <1>1, <1>2, <1>3, <1>a
<1>5. Reported(o) = IF mine = {} THEN "none" ELSE file[LastOf(mine)].status
  BY DEF Reported
<1>6. QED
  BY <1>1, <1>4, <1>5

LEMMA JournalInvLost == JournalInv => LostOnlyBehindATear
  BY StandingIsReported DEF LostOnlyBehindATear

\* A record that an append acknowledged is the one reported of its operation
\* until another is appended, but behind a partial line (Journal,
\* LostOnlyBehindATear; readJournal).
THEOREM LostBehindATear == JournalSpec => []LostOnlyBehindATear
<1>1. QED
  BY JournalInvInit, JournalInvStep, JournalInvLost, PTL DEF JournalSpec

LEMMA DeadStep ==
  ASSUME JournalInv, [JournalNext]_journalVars, NEW o \in Ops,
         live = NoOp, live' \in Ops \ {o},
         acked[o] > 0, file[acked[o]].status = "running",
         acked[o] > 1 => file[acked[o] - 1].part = "whole"
  PROVE  \E i \in (acked[o] + 1)..Len(file) : file[i].op = o
<1>1. SUFFICES ASSUME \A i \in (acked[o] + 1)..Len(file) : file[i].op # o PROVE FALSE
  OBVIOUS
<1>2. Reported(o) = "running"
  BY <1>1, StandingIsReported DEF Standing
<1>3. o \in Unfinished
  BY <1>2 DEF Unfinished
<1>4. PICK p \in Ops : Begin(p) /\ live' = p
  BY BoundAssumption
     DEF JournalNext, journalVars, Begin, JournalStep, Finish, ClearIntervention, Die, PowerCut
<1>5. QED
  BY <1>3, <1>4 DEF Begin

\* No other operation begins over one that died with its record in the journal
\* (Journal, DeadBlocks; gateUnfinished).
THEOREM TheDeadBlock == JournalSpec => DeadBlocks
<1>1. JournalInv /\ [JournalNext]_journalVars =>
        [\A o \in Ops :
           /\ live = NoOp /\ live' \in Ops \ {o}
           /\ acked[o] > 0 /\ file[acked[o]].status = "running"
           => \/ \E i \in (acked[o] + 1)..Len(file) : file[i].op = o
              \/ acked[o] > 1 /\ file[acked[o] - 1].part # "whole"]_journalVars
  BY DeadStep
<1>2. QED
  BY <1>1, JournalInvInit, JournalInvStep, PTL DEF JournalSpec, DeadBlocks

-----------------------------------------------------------------------------
(* ManagerUpdate: the inductive invariant *)

Both == {"deployment", "outbox"}

AtWork == {"take", "own", "check", "rename", "journal"}

\* An updater that works has the directory, and has or is about to take both
\* locks of every installation it found; with all of them it wants no other.
Shape(p) ==
  /\ At(p, "idle") => memory[p] = Idle
  /\ memory[p].pc \in {"digest", "fetch", "directory"} => memory[p].held = {}
  /\ memory[p].pc \in {"digest", "fetch", "directory", "check", "rename", "journal"} =>
       memory[p].kind = "update"
  /\ memory[p].kind = "update" =>
       /\ p \in Updaters /\ memory[p].target > memory[p].version
       /\ memory[p].pc \in AtWork => directory = p
       /\ memory[p].pc \in AtWork \union {"directory"} =>
            memory[p].products \X Both \subseteq memory[p].held \union memory[p].wanted
  /\ memory[p].pc \in {"check", "rename", "journal"} => memory[p].wanted = {}

\* Locks are taken in their order.
InOrder(p) == \A lock \in memory[p].held, next \in memory[p].wanted : Before(lock, next)

Said(p) == [proc |-> p, life |-> life[p]]

\* Every lock a process holds has its owner file, but the last one while that is
\* written or removed; and an owner file that names a process which is there is of
\* a lock that process holds.
Named(p) ==
  \A lock \in Locks :
    /\ /\ lock \in memory[p].held
       /\ ~(memory[p].pc \in {"own", "unlock"} /\ Last(memory[p].held, lock))
       => sidecar[lock] = Said(p)
    /\ At(p, "unlock") /\ Last(memory[p].held, lock) => sidecar[lock] = Nobody
    /\ sidecar[lock].proc = p =>
         /\ sidecar[lock].life <= life[p]
         /\ sidecar[lock].life = life[p] /\ ~At(p, "idle") => lock \in memory[p].held

\* A dev build that is not the file it found when it came to read its digest.
Replaced(p) == memory[p].version = 0 /\ memory[p].seen # 0

\* The release an updater is about to rename is newer than the one it replaces.
Forward(p) == At(p, "rename") => memory[p].target > installed \/ Replaced(p)

\* A version whose record a journal has, or could not get, or is about to: the
\* updater that has still to write it holds the installation's locks.
Told(q, version) ==
  \/ version \in told[q] \union excused[q]
  \/ \E u \in Procs : At(u, "journal") /\ q \in memory[u].products /\ memory[u].target = version

ToldOfAll(q) ==
  /\ Told(q, installed)
  /\ \A p \in Procs : ~At(p, "idle") => Told(q, memory[p].version)
  /\ ran[q] \subseteq told[q] \union excused[q]

ManagerInv ==
  /\ TypeOK
  /\ \A p \in Procs : Shape(p) /\ InOrder(p) /\ Named(p) /\ Forward(p)
  /\ \A q \in Listed : ToldOfAll(q)

-----------------------------------------------------------------------------
(* ManagerUpdate: the order of the locks *)

LEMMA PlaceTyped ==
  ASSUME NEW q \in Listed
  PROVE  Place(q) \in Nat
<1>1. PICK i \in DOMAIN Products : Products[i] = q
  BY DEF Listed
<1>2. Place(q) \in DOMAIN Products
  BY <1>1 DEF Place
<1>3. QED
  BY <1>2, ProductsAssumption

LEMMA Asymmetric ==
  ASSUME NEW a \in Locks, NEW b \in Locks, Before(a, b)
  PROVE  ~Before(b, a)
<1>1. a[1] \in Listed /\ b[1] \in Listed
  BY DEF Locks
<1>2. Place(a[1]) \in Nat /\ Place(b[1]) \in Nat
  BY <1>1, PlaceTyped
<1>3. QED
  BY <1>2 DEF Before

LEMMA OneLast ==
  ASSUME NEW S \in SUBSET Locks, NEW a, NEW b, Last(S, a), Last(S, b)
  PROVE  a = b
  BY Asymmetric DEF Last

-----------------------------------------------------------------------------
(* ManagerUpdate: types *)

LEMMA Moves ==
  ASSUME memory \in [Procs -> Memory], NEW p \in Procs, NEW m, Becomes(p, m)
  PROVE  memory'[p] = m /\ \A r \in Procs \ {p} : memory'[r] = memory[r]
  BY DEF Becomes

LEMMA MovesTyped ==
  ASSUME memory \in [Procs -> Memory], NEW p \in Procs, NEW m \in Memory, Becomes(p, m)
  PROVE  memory' \in [Procs -> Memory]
  BY DEF Becomes

LEMMA IdleTyped == Idle \in Memory
  BY NewestAssumption DEF Idle, Memory, Pcs, Versions

LEMMA HeldKept ==
  ASSUME TypeOK, NEW p \in Procs, NEW m \in Memory, Becomes(p, m),
         m.held = memory[p].held, UNCHANGED holder
  PROVE  \A lock \in Locks, r \in Procs : holder'[lock] = r <=> lock \in memory'[r].held
  BY Moves DEF TypeOK

LEMMA TypedInit == Init => TypeOK
<1> SUFFICES ASSUME Init PROVE TypeOK
  OBVIOUS
<1>1. Idle \in Memory /\ Idle.held = {}
  BY IdleTyped DEF Idle
<1>2. Nobody \in [proc : Procs \union {None}, life : 0..Lives]
  BY LivesAssumption DEF Nobody
<1>3. installed \in Versions
  BY NewestAssumption DEF Init, Versions
<1>4. /\ directory \in Updaters \union {None} /\ existing \subseteq Listed
      /\ holder \in [Locks -> Procs \union {None}]
      /\ sidecar \in [Locks -> [proc : Procs \union {None}, life : 0..Lives]]
  BY <1>2 DEF Init
<1>5. memory \in [Procs -> Memory] /\ life \in [Procs -> 0..Lives]
  BY <1>1, LivesAssumption DEF Init
<1>6. told \in [Listed -> SUBSET Versions] /\ ran \in [Listed -> SUBSET Versions]
  BY DEF Init
<1>7. excused \in [Listed -> SUBSET Versions]
  BY <1>3 DEF Init
<1>8. \A lock \in Locks, p \in Procs : holder[lock] # p /\ lock \notin memory[p].held
  BY <1>1, NoneAssumption DEF Init, Procs
<1>9. QED
  BY <1>3, <1>4, <1>5, <1>6, <1>7, <1>8 DEF TypeOK

LEMMA TakeLockTyped ==
  ASSUME TypeOK, NEW p \in Procs, TakeLock(p)
  PROVE  TypeOK'
<1> DEFINE took(lock) == [memory[p] EXCEPT !.pc = "own", !.wanted = @ \ {lock},
                                           !.held = @ \union {lock}]
<1>1. PICK lock \in memory[p].wanted :
        holder[lock] = None /\ holder' = [holder EXCEPT ![lock] = p] /\ Becomes(p, took(lock))
  BY DEF TakeLock
<1>2. memory[p] \in Memory /\ lock \in Locks
  BY <1>1 DEF TypeOK, Memory
<1>3. took(lock) \in Memory /\ took(lock).held = memory[p].held \union {lock}
  BY <1>2 DEF Memory, Pcs
<1>4. memory' \in [Procs -> Memory] /\ memory'[p] = took(lock)
      /\ \A r \in Procs \ {p} : memory'[r] = memory[r]
  BY <1>1, <1>3, Moves, MovesTyped DEF TypeOK
<1>5. holder' \in [Locks -> Procs \union {None}]
  BY <1>1 DEF TypeOK
<1>6. ASSUME NEW k \in Locks, NEW r \in Procs
      PROVE  holder'[k] = r <=> k \in memory'[r].held
  <2>1. holder[k] = r <=> k \in memory[r].held
    BY DEF TypeOK
  <2>2. holder'[k] = IF k = lock THEN p ELSE holder[k]
    BY <1>1, <1>2 DEF TypeOK
  <2>3. memory'[r].held = IF r = p THEN memory[p].held \union {lock} ELSE memory[r].held
    BY <1>3, <1>4
  <2>4. r # None
    BY NoneAssumption DEF Procs
  <2>5. QED
    BY <1>1, <2>1, <2>2, <2>3, <2>4
<1>7. QED
  BY <1>4, <1>5, <1>6 DEF TypeOK, TakeLock, journals

LEMMA WriteOwnerTyped ==
  ASSUME TypeOK, NEW p \in Procs, WriteOwner(p)
  PROVE  TypeOK'
<1> DEFINE pc == IF memory[p].wanted = {} THEN Work(p) ELSE "take"
           next == [memory[p] EXCEPT !.pc = pc]
<1>1. PICK lock \in memory[p].held : sidecar' = [sidecar EXCEPT ![lock] = [proc |-> p, life |-> life[p]]]
  BY DEF WriteOwner
<1>2. memory[p] \in Memory /\ pc \in Pcs /\ life[p] \in 0..Lives
  BY DEF TypeOK, Pcs, Work
<1>3. next \in Memory /\ next.held = memory[p].held
  BY <1>2 DEF Memory
<1>4. Becomes(p, next)
  BY DEF WriteOwner
<1>5. memory' \in [Procs -> Memory]
  BY <1>3, <1>4, MovesTyped DEF TypeOK
<1>6. \A k \in Locks, r \in Procs : holder'[k] = r <=> k \in memory'[r].held
  BY <1>3, <1>4, HeldKept DEF WriteOwner
<1>7. sidecar' \in [Locks -> [proc : Procs \union {None}, life : 0..Lives]]
  BY <1>1, <1>2 DEF TypeOK
<1>8. QED
  BY <1>5, <1>6, <1>7 DEF TypeOK, WriteOwner, journals

\* A step that changes nothing but a process's memory, and not what it holds.
LEMMA LocalTyped ==
  ASSUME TypeOK, NEW p \in Procs, NEW m \in Memory, Becomes(p, m), m.held = memory[p].held,
         UNCHANGED <<installed, directory, holder, sidecar, existing, life, journals>>
  PROVE  TypeOK'
<1>1. memory' \in [Procs -> Memory]
  BY MovesTyped DEF TypeOK
<1>2. \A k \in Locks, r \in Procs : holder'[k] = r <=> k \in memory'[r].held
  BY HeldKept
<1>3. QED
  BY <1>1, <1>2 DEF TypeOK, journals

LEMMA RefusedTyped ==
  ASSUME TypeOK, NEW p \in Procs, Refused(p)
  PROVE  TypeOK'
<1> DEFINE next == [memory[p] EXCEPT !.pc = "release", !.wanted = {}]
<1>1. memory[p] \in Memory
  BY DEF TypeOK
<1>2. next \in Memory /\ next.held = memory[p].held
  BY <1>1 DEF Memory, Pcs
<1>3. QED
  BY <1>2, LocalTyped DEF Refused

LEMMA GiveBackTyped ==
  ASSUME TypeOK, NEW p \in Procs, GiveBack(p)
  PROVE  TypeOK'
<1> DEFINE next(lock) == [memory[p] EXCEPT !.pc = "release", !.held = @ \ {lock}]
           half == [memory[p] EXCEPT !.pc = "unlock"]
<1>1. PICK lock \in memory[p].held :
        \/ RemoveOwner(lock) /\ Half(p)
        \/ Unlock(lock) /\ Back(p, lock)
  BY DEF GiveBack
<1>2. memory[p] \in Memory /\ lock \in Locks
  BY <1>1 DEF TypeOK, Memory
<1>3. half \in Memory /\ half.held = memory[p].held
  BY <1>2 DEF Memory, Pcs
<1>4. next(lock) \in Memory /\ next(lock).held = memory[p].held \ {lock}
  BY <1>2 DEF Memory, Pcs
<1>5. CASE RemoveOwner(lock) /\ Half(p)
  <2>1. memory' \in [Procs -> Memory]
    BY <1>3, <1>5, MovesTyped DEF Half, TypeOK
  <2>2. \A k \in Locks, r \in Procs : holder'[k] = r <=> k \in memory'[r].held
    BY <1>3, <1>5, HeldKept DEF Half, RemoveOwner
  <2>3. sidecar' \in [Locks -> [proc : Procs \union {None}, life : 0..Lives]]
    BY <1>2, <1>5, LivesAssumption DEF RemoveOwner, TypeOK, Nobody
  <2>4. QED
    BY <1>5, <2>1, <2>2, <2>3 DEF TypeOK, GiveBack, RemoveOwner, journals
<1>6. CASE Unlock(lock) /\ Back(p, lock)
  <2>1. memory' \in [Procs -> Memory]
    BY <1>4, <1>6, MovesTyped DEF Back, TypeOK
  <2>2. holder' \in [Locks -> Procs \union {None}]
    BY <1>6 DEF Unlock, TypeOK
  <2>3. ASSUME NEW k \in Locks, NEW r \in Procs
        PROVE  holder'[k] = r <=> k \in memory'[r].held
    <3>1. holder[k] = r <=> k \in memory[r].held
      BY DEF TypeOK
    <3>2. holder'[k] = IF k = lock THEN None ELSE holder[k]
      BY <1>2, <1>6 DEF Unlock, TypeOK
    <3>a. Becomes(p, next(lock)) /\ memory \in [Procs -> Memory]
      BY <1>6 DEF Back, TypeOK
    <3>b. memory'[p] = next(lock) /\ \A o \in Procs \ {p} : memory'[o] = memory[o]
      BY <3>a, Moves
    <3>3. memory'[r].held = IF r = p THEN memory[p].held \ {lock} ELSE memory[r].held
      BY <1>4, <3>b
    <3>4. r # None /\ holder[lock] = p
      BY <1>1, <1>2, NoneAssumption DEF Procs, TypeOK
    <3>5. QED
      BY <3>1, <3>2, <3>3, <3>4
  <2>4. QED
    BY <1>6, <2>1, <2>2, <2>3 DEF TypeOK, GiveBack, Unlock, journals
<1>7. QED
  BY <1>1, <1>5, <1>6

LEMMA EndTyped ==
  ASSUME TypeOK, NEW p \in Procs, End(p)
  PROVE  TypeOK'
<1>1. Idle \in Memory /\ Idle.held = memory[p].held
  BY IdleTyped DEF End, Idle
<1>2. memory' \in [Procs -> Memory]
  BY <1>1, MovesTyped DEF End, TypeOK
<1>3. \A k \in Locks, r \in Procs : holder'[k] = r <=> k \in memory'[r].held
  BY <1>1, HeldKept DEF End
<1>4. directory' \in Updaters \union {None}
  BY DEF End, TypeOK
<1>5. QED
  BY <1>2, <1>3, <1>4 DEF TypeOK, End, journals

LEMMA CrashTyped ==
  ASSUME TypeOK, NEW p \in Procs, Crash(p)
  PROVE  TypeOK'
<1>1. Idle \in Memory /\ Idle.held = {}
  BY IdleTyped DEF Idle
<1>2. memory' \in [Procs -> Memory] /\ memory'[p] = Idle
      /\ \A r \in Procs \ {p} : memory'[r] = memory[r]
  BY <1>1, Moves, MovesTyped DEF Crash, TypeOK
<1>3. holder' \in [Locks -> Procs \union {None}]
  BY DEF Crash, TypeOK
<1>4. ASSUME NEW k \in Locks, NEW r \in Procs
      PROVE  holder'[k] = r <=> k \in memory'[r].held
  <2>1. holder[k] = r <=> k \in memory[r].held
    BY DEF TypeOK
  <2>2. holder'[k] = IF holder[k] = p THEN None ELSE holder[k]
    BY DEF Crash
  <2>3. r # None
    BY NoneAssumption DEF Procs
  <2>4. QED
    BY <1>1, <1>2, <2>1, <2>2, <2>3
<1>5. directory' \in Updaters \union {None}
  BY DEF Crash, TypeOK
<1>6. excused' \in [Listed -> SUBSET Versions]
  <2>1. memory[p].target \in Versions
    BY DEF TypeOK, Memory
  <2>2. QED
    BY <2>1 DEF Crash, TypeOK
<1>7. QED
  BY <1>2, <1>3, <1>4, <1>5, <1>6 DEF TypeOK, Crash

\* A process that starts has no lock yet.
LEMMA StartsTyped ==
  ASSUME TypeOK, NEW p \in Procs, Shape(p), Starts(p), NEW m \in Memory, Becomes(p, m), m.held = {},
         UNCHANGED <<installed, directory, holder, sidecar, existing, journals>>
  PROVE  TypeOK'
<1>1. memory[p].held = {}
  BY DEF Starts, Shape, Idle, At
<1>2. memory' \in [Procs -> Memory]
  BY MovesTyped DEF TypeOK
<1>3. \A k \in Locks, r \in Procs : holder'[k] = r <=> k \in memory'[r].held
  BY <1>1, HeldKept
<1>4. life' \in [Procs -> 0..Lives]
  <2>1. life[p] \in 0..Lives /\ life[p] < Lives
    BY DEF Starts, TypeOK
  <2>2. life[p] + 1 \in 0..Lives
    BY <2>1, LivesAssumption
  <2>3. QED
    BY <2>2 DEF Starts, TypeOK
<1>5. QED
  BY <1>2, <1>3, <1>4 DEF TypeOK, journals

LEMMA CommandTyped ==
  ASSUME TypeOK, NEW product \in Listed, NEW kind \in Kinds, NEW wait \in BOOLEAN
  PROVE  /\ Command(product, kind, wait) \in Memory
         /\ Command(product, kind, wait).held = {}
         /\ Command(product, kind, wait).pc = "take"
         /\ Command(product, kind, wait).kind = kind
         /\ Command(product, kind, wait).version = installed
<1>1. {product} \X Names(kind) \subseteq Locks
  BY DEF Names, Locks, Kinds
<1>2. installed \in Versions /\ 0 \in Versions
  BY NewestAssumption DEF TypeOK, Versions
<1>3. QED
  BY <1>1, <1>2 DEF Command, Idle, Memory, Pcs

LEMMA StartTyped ==
  ASSUME TypeOK, NEW p \in Procs, Shape(p), Start(p)
  PROVE  TypeOK'
<1>1. PICK product \in Listed, kind \in Kinds, wait \in BOOLEAN : Becomes(p, Command(product, kind, wait))
  BY DEF Start
<1>2. QED
  BY <1>1, CommandTyped, StartsTyped DEF Start

LEMMA DevTargetsAreVersions == DevTargets \subseteq Versions
  BY DevTargetsAssumption, NewestAssumption DEF Versions

LEMMA AskTyped ==
  ASSUME TypeOK, NEW p \in Procs, Shape(p), Ask(p)
  PROVE  TypeOK'
<1>1. PICK target \in Versions : Becomes(p, Asked(target))
  BY DevTargetsAreVersions DEF Ask
<1>2. installed \in Versions /\ 0 \in Versions /\ target \in Versions
  BY NewestAssumption DEF TypeOK, Versions
<1>3. Asked(target) \in Memory /\ Asked(target).held = {}
  BY <1>2 DEF Asked, Idle, Memory, Pcs
<1>4. QED
  BY <1>1, <1>3, StartsTyped DEF Ask

LEMMA RecordTyped ==
  ASSUME TypeOK, NEW p \in Procs, Record(p)
  PROVE  TypeOK'
<1> DEFINE next == [memory[p] EXCEPT !.pc = "release"]
<1>1. PICK lock \in memory[p].held :
        /\ ran' = [ran EXCEPT ![lock[1]] = @ \union {memory[p].version}]
        /\ existing' = existing \union {lock[1]}
  BY DEF Record
<1>2. memory[p] \in Memory
  BY DEF TypeOK
<1>3. next \in Memory /\ next.held = memory[p].held
  BY <1>2 DEF Memory, Pcs
<1>4. lock \in Locks /\ lock[1] \in Listed /\ memory[p].version \in Versions
  BY <1>1, <1>2 DEF Memory, Locks
<1>5. memory' \in [Procs -> Memory]
  BY <1>3, MovesTyped DEF Record, TypeOK
<1>6. \A k \in Locks, r \in Procs : holder'[k] = r <=> k \in memory'[r].held
  BY <1>3, HeldKept DEF Record
<1>7. ran' \in [Listed -> SUBSET Versions] /\ existing' \subseteq Listed
  BY <1>1, <1>4 DEF TypeOK
<1>8. QED
  BY <1>5, <1>6, <1>7 DEF TypeOK, Record

LEMMA DigestTyped ==
  ASSUME TypeOK, NEW p \in Procs, Digest(p)
  PROVE  TypeOK'
<1> DEFINE next == [memory[p] EXCEPT !.pc = "fetch", !.seen = installed]
<1>1. memory[p] \in Memory /\ installed \in Versions
  BY DEF TypeOK
<1>2. next \in Memory /\ next.held = memory[p].held
  BY <1>1 DEF Memory, Pcs
<1>3. QED
  BY <1>2, LocalTyped DEF Digest

LEMMA DiscoverTyped ==
  ASSUME TypeOK, NEW p \in Procs, Discover(p)
  PROVE  TypeOK'
<1> DEFINE next == [memory[p] EXCEPT !.pc = "directory", !.products = existing,
                                     !.wanted = existing \X {"deployment", "outbox"}]
<1>1. memory[p] \in Memory /\ existing \subseteq Listed
  BY DEF TypeOK
<1>2. existing \X {"deployment", "outbox"} \subseteq Locks
  BY <1>1 DEF Locks
<1>3. next \in Memory /\ next.held = memory[p].held
  BY <1>1, <1>2 DEF Memory, Pcs
<1>4. QED
  BY <1>3, LocalTyped DEF Discover

LEMMA LockDirectoryTyped ==
  ASSUME TypeOK, NEW p \in Updaters, Shape(p), LockDirectory(p)
  PROVE  TypeOK'
<1> DEFINE next == IF directory # None THEN Idle
                   ELSE [memory[p] EXCEPT !.pc = IF memory[p].wanted = {} THEN "check" ELSE "take"]
<1>1. memory[p] \in Memory /\ p \in Procs
  BY DEF TypeOK, Procs
<1>2. memory[p].held = {}
  BY DEF LockDirectory, Shape, At
<1>3. next \in Memory /\ next.held = memory[p].held
  BY <1>1, <1>2, IdleTyped DEF Memory, Pcs, Idle
<1>4. memory' \in [Procs -> Memory]
  BY <1>1, <1>3, MovesTyped DEF LockDirectory, TypeOK
<1>5. \A k \in Locks, r \in Procs : holder'[k] = r <=> k \in memory'[r].held
  BY <1>1, <1>3, HeldKept DEF LockDirectory
<1>6. directory' \in Updaters \union {None}
  BY DEF LockDirectory, TypeOK
<1>7. QED
  BY <1>4, <1>5, <1>6 DEF TypeOK, LockDirectory, journals

LEMMA CheckTyped ==
  ASSUME TypeOK, NEW p \in Procs, Check(p)
  PROVE  TypeOK'
<1> DEFINE next == [memory[p] EXCEPT !.pc = IF MayReplace(p) THEN "rename" ELSE "release"]
<1>1. memory[p] \in Memory
  BY DEF TypeOK
<1>2. next \in Memory /\ next.held = memory[p].held
  BY <1>1 DEF Memory, Pcs
<1>3. QED
  BY <1>2, LocalTyped DEF Check

LEMMA RenameTyped ==
  ASSUME TypeOK, NEW p \in Procs, Rename(p)
  PROVE  TypeOK'
<1> DEFINE next == [memory[p] EXCEPT !.pc = "journal"]
<1>1. memory[p] \in Memory
  BY DEF TypeOK
<1>2. next \in Memory /\ next.held = memory[p].held /\ memory[p].target \in Versions
  BY <1>1 DEF Memory, Pcs
<1>3. memory' \in [Procs -> Memory]
  BY <1>2, MovesTyped DEF Rename, TypeOK
<1>4. \A k \in Locks, r \in Procs : holder'[k] = r <=> k \in memory'[r].held
  BY <1>2, HeldKept DEF Rename
<1>5. installed' \in Versions
  BY <1>2 DEF Rename
<1>6. excused' \in [Listed -> SUBSET Versions]
  BY <1>5 DEF Rename, TypeOK
<1>7. QED
  BY <1>3, <1>4, <1>5, <1>6 DEF TypeOK, Rename

LEMMA JournalUpdateTyped ==
  ASSUME TypeOK, NEW p \in Procs, JournalUpdate(p)
  PROVE  TypeOK'
<1> DEFINE next(product) == [memory[p] EXCEPT !.products = @ \ {product}]
<1>1. PICK product \in memory[p].products :
       /\ \/ told' = [told EXCEPT ![product] = @ \union {memory[p].target}] /\ UNCHANGED excused
          \/ excused' = [excused EXCEPT ![product] = @ \union {memory[p].target}] /\ UNCHANGED told
       /\ Becomes(p, next(product))
  BY DEF JournalUpdate
<1>2. memory[p] \in Memory
  BY DEF TypeOK
<1>3. next(product) \in Memory /\ next(product).held = memory[p].held
  BY <1>2 DEF Memory
<1>4. memory' \in [Procs -> Memory]
  BY <1>1, <1>3, MovesTyped DEF TypeOK
<1>5. \A k \in Locks, r \in Procs : holder'[k] = r <=> k \in memory'[r].held
  BY <1>1, <1>3, HeldKept DEF JournalUpdate
<1>6. memory[p].target \in Versions
  BY <1>2 DEF Memory
<1>7. \A with \in [Listed -> SUBSET Versions] :
        [with EXCEPT ![product] = @ \union {memory[p].target}] \in [Listed -> SUBSET Versions]
  BY <1>6
<1>8. told \in [Listed -> SUBSET Versions] /\ excused \in [Listed -> SUBSET Versions]
  BY DEF TypeOK
<1>9. told' \in [Listed -> SUBSET Versions] /\ excused' \in [Listed -> SUBSET Versions]
  BY <1>1, <1>7, <1>8
<1>10. UNCHANGED <<installed, directory, holder, sidecar, existing, life, ran>>
  BY DEF JournalUpdate
<1>11. QED
  BY <1>4, <1>5, <1>9, <1>10 DEF TypeOK

LEMMA UpdatedTyped ==
  ASSUME TypeOK, NEW p \in Procs, Updated(p)
  PROVE  TypeOK'
<1> DEFINE next == [memory[p] EXCEPT !.pc = "release"]
<1>1. memory[p] \in Memory
  BY DEF TypeOK
<1>2. next \in Memory /\ next.held = memory[p].held
  BY <1>1 DEF Memory, Pcs
<1>3. QED
  BY <1>2, LocalTyped DEF Updated

LEMMA TypedStep ==
  ASSUME ManagerInv, Next
  PROVE  TypeOK'
<1>a. TypeOK /\ \A p \in Procs : Shape(p)
  BY DEF ManagerInv
<1>1. ASSUME NEW p \in Commands, Start(p) \/ Record(p) PROVE TypeOK'
  BY <1>a, <1>1, StartTyped, RecordTyped DEF Procs
<1>2. ASSUME NEW p \in Updaters, Ask(p) PROVE TypeOK'
  BY <1>a, <1>2, AskTyped DEF Procs
<1>3. ASSUME NEW p \in Updaters, Updating(p) PROVE TypeOK'
  <2>1. p \in Procs
    BY DEF Procs
  <2>2. QED
    BY <1>a, <1>3, <2>1, DigestTyped, DiscoverTyped, LockDirectoryTyped, CheckTyped, RenameTyped,
       JournalUpdateTyped, UpdatedTyped DEF Updating
<1>4. ASSUME NEW p \in Procs, Locking(p) PROVE TypeOK'
  BY <1>a, <1>4, TakeLockTyped, WriteOwnerTyped, RefusedTyped, GiveBackTyped, EndTyped DEF Locking
<1>5. ASSUME NEW p \in Procs, Crash(p) PROVE TypeOK'
  BY <1>a, <1>5, CrashTyped
<1>6. QED
  BY <1>1, <1>2, <1>3, <1>4, <1>5 DEF Next

-----------------------------------------------------------------------------
(* ManagerUpdate: each process for itself *)

Acts(p) ==
  \/ p \in Commands /\ (Start(p) \/ Record(p))
  \/ p \in Updaters /\ (Ask(p) \/ Updating(p))
  \/ Locking(p)
  \/ Crash(p)

LEMMA SomeoneActs == Next => \E p \in Procs : Acts(p)
  BY DEF Next, Acts, Procs

\* A step of one process leaves the others their memory, and what they hold.
LEMMA OthersKeep ==
  ASSUME TypeOK, NEW p \in Procs, Acts(p), NEW r \in Procs \ {p}
  PROVE  /\ memory'[r] = memory[r] /\ life'[r] = life[r]
         /\ directory = r => directory' = r
<1>a. memory \in [Procs -> Memory] /\ life \in [Procs -> 0..Lives] /\ r # None /\ r # p
  BY NoneAssumption DEF TypeOK, Procs
<1>1. CASE Start(p) \/ Ask(p)
  BY <1>a, <1>1 DEF Start, Ask, Starts, Becomes
<1>2. CASE Record(p)
  BY <1>a, <1>2 DEF Record, Becomes
<1>3. CASE Updating(p)
  <2>1. CASE Digest(p) \/ Discover(p) \/ LockDirectory(p)
    BY <1>a, <2>1 DEF Digest, Discover, LockDirectory, Becomes
  <2>2. CASE Check(p) \/ Rename(p)
    BY <1>a, <2>2 DEF Check, Rename, Becomes
  <2>3. CASE JournalUpdate(p) \/ Updated(p)
    BY <1>a, <2>3 DEF JournalUpdate, Updated, Becomes
  <2>4. QED
    BY <1>3, <2>1, <2>2, <2>3 DEF Updating
<1>4. CASE Locking(p)
  <2>1. CASE TakeLock(p) \/ WriteOwner(p) \/ Refused(p)
    BY <1>a, <2>1 DEF TakeLock, WriteOwner, Refused, Becomes
  <2>2. CASE GiveBack(p)
    BY <1>a, <2>2 DEF GiveBack, Half, Back, Becomes
  <2>3. CASE End(p)
    BY <1>a, <2>3 DEF End, Becomes
  <2>4. QED
    BY <1>4, <2>1, <2>2, <2>3 DEF Locking
<1>5. CASE Crash(p)
  BY <1>a, <1>5 DEF Crash, Becomes
<1>6. QED
  BY <1>1, <1>2, <1>3, <1>4, <1>5 DEF Acts

LEMMA ShapeOfOthers ==
  ASSUME ManagerInv, NEW p \in Procs, Acts(p), NEW r \in Procs \ {p}
  PROVE  Shape(r)'
<1>1. memory'[r] = memory[r] /\ (directory = r => directory' = r) /\ Shape(r)
  BY OthersKeep DEF ManagerInv
<1>2. QED
  BY <1>1 DEF Shape, At

LEMMA ShapeOfLocking ==
  ASSUME ManagerInv, NEW p \in Procs, Locking(p)
  PROVE  Shape(p)'
<1>a. memory \in [Procs -> Memory] /\ memory[p] \in Memory /\ Shape(p)
  BY DEF ManagerInv, TypeOK
<1>1. CASE TakeLock(p)
  <2>1. PICK lock \in memory[p].wanted :
          Becomes(p, [memory[p] EXCEPT !.pc = "own", !.wanted = @ \ {lock}, !.held = @ \union {lock}])
    BY <1>1 DEF TakeLock
  <2>2. /\ memory'[p].pc = "own" /\ memory'[p].kind = memory[p].kind
        /\ memory'[p].target = memory[p].target /\ memory'[p].version = memory[p].version
        /\ memory'[p].products = memory[p].products
        /\ memory'[p].held = memory[p].held \union {lock}
        /\ memory'[p].wanted = memory[p].wanted \ {lock}
    BY <1>a, <2>1 DEF Becomes, Memory
  <2>3. memory[p].pc = "take" /\ directory' = directory
    BY <1>1 DEF TakeLock, At
  <2>4. memory'[p].held \union memory'[p].wanted = memory[p].held \union memory[p].wanted
    BY <2>1, <2>2
  <2>5. QED
    BY <1>a, <2>2, <2>3, <2>4 DEF Shape, AtWork, At
<1>2. CASE WriteOwner(p)
  <2>1. Becomes(p, [memory[p] EXCEPT !.pc = IF memory[p].wanted = {} THEN Work(p) ELSE "take"])
    BY <1>2 DEF WriteOwner
  <2>2. /\ memory'[p].pc = IF memory[p].wanted = {} THEN Work(p) ELSE "take"
        /\ memory'[p].kind = memory[p].kind
        /\ memory'[p].target = memory[p].target /\ memory'[p].version = memory[p].version
        /\ memory'[p].products = memory[p].products
        /\ memory'[p].held = memory[p].held
        /\ memory'[p].wanted = memory[p].wanted
    BY <1>a, <2>1 DEF Becomes, Memory
  <2>3. memory[p].pc = "own" /\ directory' = directory
    BY <1>2 DEF WriteOwner, At
  <2>4. /\ memory'[p].pc \in {"take", "check", "record", "release"}
        /\ memory'[p].pc = "check" => memory[p].kind = "update" /\ memory[p].wanted = {}
    BY <2>2 DEF Work
  <2>5. QED
    BY <1>a, <2>2, <2>3, <2>4 DEF Shape, AtWork, At
<1>3. CASE Refused(p)
  <2>1. Becomes(p, [memory[p] EXCEPT !.pc = "release", !.wanted = {}])
    BY <1>3 DEF Refused
  <2>2. /\ memory'[p].pc = "release" /\ memory'[p].kind = memory[p].kind
        /\ memory'[p].target = memory[p].target /\ memory'[p].version = memory[p].version
    BY <1>a, <2>1 DEF Becomes, Memory
  <2>3. QED
    BY <1>a, <2>2 DEF Shape, AtWork, At
<1>4. CASE GiveBack(p)
  <2>1. /\ memory'[p].pc \in {"unlock", "release"} /\ memory'[p].kind = memory[p].kind
        /\ memory'[p].target = memory[p].target /\ memory'[p].version = memory[p].version
    <3>1. CASE Half(p)
      BY <1>a, <3>1 DEF Half, Becomes, Memory
    <3>2. ASSUME NEW lock, Back(p, lock)
          PROVE  /\ memory'[p].pc \in {"unlock", "release"} /\ memory'[p].kind = memory[p].kind
                 /\ memory'[p].target = memory[p].target /\ memory'[p].version = memory[p].version
      BY <1>a, <3>2 DEF Back, Becomes, Memory
    <3>3. QED
      BY <1>4, <3>1, <3>2 DEF GiveBack
  <2>2. QED
    BY <1>a, <2>1 DEF Shape, AtWork, At
<1>5. CASE End(p)
  <2>1. memory'[p] = Idle
    BY <1>a, <1>5 DEF End, Becomes
  <2>2. QED
    BY <2>1 DEF Shape, Idle, At, AtWork
<1>6. QED
  BY <1>1, <1>2, <1>3, <1>4, <1>5 DEF Locking

LEMMA ShapeOfUpdating ==
  ASSUME ManagerInv, NEW p \in Procs, p \in Updaters, Updating(p)
  PROVE  Shape(p)'
<1>a. memory \in [Procs -> Memory] /\ memory[p] \in Memory /\ Shape(p)
  BY DEF ManagerInv, TypeOK
<1>1. CASE Discover(p)
  <2>1. Becomes(p, [memory[p] EXCEPT !.pc = "directory", !.products = existing, !.wanted = existing \X Both])
    BY <1>1 DEF Discover, Both
  <2>2. /\ memory'[p].pc = "directory" /\ memory'[p].kind = memory[p].kind
        /\ memory'[p].target = memory[p].target /\ memory'[p].version = memory[p].version
        /\ memory'[p].products = existing
        /\ memory'[p].held = memory[p].held
        /\ memory'[p].wanted = existing \X Both
    BY <1>a, <2>1 DEF Becomes, Memory
  <2>3. memory[p].pc = "fetch"
    BY <1>1 DEF Discover, At
  <2>4. QED
    BY <1>a, <2>2, <2>3 DEF Shape, AtWork, At
<1>2. CASE LockDirectory(p) /\ directory # None
  <2>1. memory'[p] = Idle
    BY <1>a, <1>2 DEF LockDirectory, Becomes
  <2>2. QED
    BY <2>1 DEF Shape, Idle, At, AtWork
<1>3. CASE LockDirectory(p) /\ directory = None
  <2>1. Becomes(p, [memory[p] EXCEPT !.pc = IF memory[p].wanted = {} THEN "check" ELSE "take"])
    BY <1>3 DEF LockDirectory
  <2>2. /\ memory'[p].pc = (IF memory[p].wanted = {} THEN "check" ELSE "take")
        /\ memory'[p].kind = memory[p].kind
        /\ memory'[p].target = memory[p].target /\ memory'[p].version = memory[p].version
        /\ memory'[p].products = memory[p].products
        /\ memory'[p].held = memory[p].held
        /\ memory'[p].wanted = memory[p].wanted
    BY <1>a, <2>1 DEF Becomes, Memory
  <2>3. memory[p].pc = "directory" /\ directory' = p
    BY <1>3 DEF LockDirectory, At
  <2>4. QED
    BY <1>a, <2>2, <2>3 DEF Shape, AtWork, At
<1>4. CASE Check(p) \/ Rename(p) \/ Updated(p)
  <2>1. /\ memory'[p].pc \in {"rename", "journal", "release"}
        /\ memory'[p].kind = memory[p].kind
        /\ memory'[p].target = memory[p].target /\ memory'[p].version = memory[p].version
        /\ memory'[p].products = memory[p].products
        /\ memory'[p].held = memory[p].held
        /\ memory'[p].wanted = memory[p].wanted
    BY <1>a, <1>4 DEF Becomes, Memory, Check, Rename, Updated
  <2>2. memory[p].pc \in {"check", "rename", "journal"} /\ directory' = directory
    BY <1>4 DEF Check, Rename, Updated, At
  <2>3. QED
    BY <1>a, <2>1, <2>2 DEF Shape, AtWork, At
<1>5. CASE JournalUpdate(p)
  <2>1. PICK product \in memory[p].products : Becomes(p, [memory[p] EXCEPT !.products = @ \ {product}])
    BY <1>5 DEF JournalUpdate
  <2>2. /\ memory'[p].pc = memory[p].pc
        /\ memory'[p].kind = memory[p].kind
        /\ memory'[p].target = memory[p].target /\ memory'[p].version = memory[p].version
        /\ memory'[p].products \subseteq memory[p].products
        /\ memory'[p].held = memory[p].held
        /\ memory'[p].wanted = memory[p].wanted
    BY <1>a, <2>1 DEF Becomes, Memory
  <2>3. memory[p].pc = "journal" /\ directory' = directory
    BY <1>5 DEF JournalUpdate, At
  <2>4. memory'[p].products \X Both \subseteq memory[p].products \X Both
    BY <2>2
  <2>5. QED
    BY <1>a, <2>2, <2>3, <2>4 DEF Shape, AtWork, At
<1>6. CASE Digest(p)
  <2>1. /\ memory'[p].pc = "fetch" /\ memory'[p].kind = memory[p].kind
        /\ memory'[p].target = memory[p].target /\ memory'[p].version = memory[p].version
        /\ memory'[p].held = memory[p].held
    BY <1>a, <1>6 DEF Digest, Becomes, Memory
  <2>2. memory[p].pc = "digest"
    BY <1>6 DEF Digest, At
  <2>3. QED
    BY <1>a, <2>1, <2>2 DEF Shape, AtWork, At
<1>7. QED
  BY <1>1, <1>2, <1>3, <1>4, <1>5, <1>6 DEF Updating

LEMMA ShapeOfStarting ==
  ASSUME ManagerInv, NEW p \in Procs,
         \/ p \in Commands /\ (Start(p) \/ Record(p))
         \/ p \in Updaters /\ Ask(p)
         \/ Crash(p)
  PROVE  Shape(p)'
<1>a. TypeOK /\ memory \in [Procs -> Memory] /\ memory[p] \in Memory /\ Shape(p)
  BY DEF ManagerInv, TypeOK
<1>1. CASE Start(p)
  <2>1. PICK product \in Listed, kind \in Kinds, wait \in BOOLEAN : Becomes(p, Command(product, kind, wait))
    BY <1>1 DEF Start
  <2>2. memory'[p].pc = "take" /\ memory'[p].kind \in Kinds
    BY <1>a, <2>1, CommandTyped DEF Becomes
  <2>3. QED
    BY <2>2 DEF Shape, At, Kinds
<1>2. CASE Record(p)
  <2>1. /\ memory'[p].pc = "release" /\ memory'[p].kind = memory[p].kind
        /\ memory'[p].target = memory[p].target /\ memory'[p].version = memory[p].version
    BY <1>a, <1>2 DEF Becomes, Memory, Record
  <2>2. QED
    BY <1>a, <2>1 DEF Shape, AtWork, At
<1>3. CASE p \in Updaters /\ Ask(p)
  <2>1. PICK target \in Versions : target > installed /\ Becomes(p, Asked(target))
    BY <1>3, DevTargetsAreVersions DEF Ask
  <2>2. /\ memory'[p].pc \in {"digest", "fetch"} /\ memory'[p].held = {} /\ memory'[p].kind = "update"
        /\ memory'[p].target = target /\ memory'[p].version = installed
    BY <1>a, <2>1 DEF Becomes, Asked, Idle
  <2>3. QED
    BY <1>3, <2>1, <2>2 DEF Shape, AtWork, At
<1>4. CASE Crash(p)
  <2>1. memory'[p] = Idle
    BY <1>a, <1>4 DEF Crash, Becomes
  <2>2. QED
    BY <2>1 DEF Shape, Idle, At, AtWork
<1>5. QED
  BY <1>1, <1>2, <1>3, <1>4

LEMMA ShapeStep ==
  ASSUME ManagerInv, NEW p \in Procs, Acts(p), NEW r \in Procs
  PROVE  Shape(r)'
<1>1. CASE r = p
  BY <1>1, ShapeOfLocking, ShapeOfUpdating, ShapeOfStarting DEF Acts
<1>2. CASE r # p
  BY <1>2, ShapeOfOthers
<1>3. QED
  BY <1>1, <1>2

LEMMA InOrderStep ==
  ASSUME ManagerInv, NEW p \in Procs, Acts(p), NEW r \in Procs
  PROVE  InOrder(r)'
<1>a. memory \in [Procs -> Memory] /\ memory[p] \in Memory /\ Shape(p) /\ InOrder(p) /\ InOrder(r) /\ TypeOK
  BY DEF ManagerInv, TypeOK
<1>1. CASE r # p
  BY <1>1, <1>a, OthersKeep DEF InOrder
<1>2. CASE r = p /\ (memory'[p].held = {} \/ memory'[p].wanted = {})
  BY <1>2 DEF InOrder
<1>3. CASE /\ memory'[p].held \subseteq memory[p].held /\ memory'[p].wanted \subseteq memory[p].wanted
           /\ r = p
  BY <1>3, <1>a DEF InOrder
<1>4. CASE r = p /\ TakeLock(p)
  <2>1. PICK lock \in memory[p].wanted :
          /\ First(memory[p].wanted, lock)
          /\ Becomes(p, [memory[p] EXCEPT !.pc = "own", !.wanted = @ \ {lock}, !.held = @ \union {lock}])
    BY <1>4 DEF TakeLock
  <2>2. memory'[p].held = memory[p].held \union {lock} /\ memory'[p].wanted = memory[p].wanted \ {lock}
    BY <1>a, <2>1 DEF Becomes, Memory
  <2>3. QED
    BY <1>a, <1>4, <2>1, <2>2 DEF First, InOrder
<1>5. CASE Locking(p) /\ ~TakeLock(p)
  <2>1. CASE WriteOwner(p) \/ Refused(p) \/ End(p)
    <3>1. \/ memory'[p].held = memory[p].held /\ memory'[p].wanted \subseteq memory[p].wanted
          \/ memory'[p].held = {}
      <4>1. CASE WriteOwner(p)
        BY <1>a, <4>1 DEF WriteOwner, Becomes, Memory
      <4>2. CASE Refused(p)
        BY <1>a, <4>2 DEF Refused, Becomes, Memory
      <4>3. CASE End(p)
        BY <1>a, <4>3 DEF End, Becomes, Idle
      <4>4. QED
        BY <2>1, <4>1, <4>2, <4>3
    <3>2. QED
      BY <1>1, <1>2, <1>3, <3>1
  <2>2. CASE GiveBack(p)
    <3>1. memory'[p].held \subseteq memory[p].held /\ memory'[p].wanted = memory[p].wanted
      <4>1. CASE Half(p)
        BY <1>a, <4>1 DEF Half, Becomes, Memory
      <4>2. ASSUME NEW lock, Back(p, lock)
            PROVE  memory'[p].held \subseteq memory[p].held /\ memory'[p].wanted = memory[p].wanted
        BY <1>a, <4>2 DEF Back, Becomes, Memory
      <4>3. QED
        BY <2>2, <4>1, <4>2 DEF GiveBack
    <3>2. QED
      BY <1>1, <1>3, <3>1
  <2>3. QED
    BY <1>5, <2>1, <2>2 DEF Locking
<1>6. CASE Start(p) \/ Ask(p) \/ Crash(p)
  <2>1. CASE Start(p)
    <3>1. PICK product \in Listed, kind \in Kinds, wait \in BOOLEAN : Becomes(p, Command(product, kind, wait))
      BY <2>1 DEF Start
    <3>2. memory'[p].held = {}
      BY <1>a, <3>1, CommandTyped DEF Becomes
    <3>3. QED
      BY <1>1, <1>2, <3>2
  <2>2. CASE Ask(p) \/ Crash(p)
    <3>1. memory'[p].held = {}
      <4>1. CASE Ask(p)
        BY <1>a, <4>1 DEF Ask, Asked, Becomes, Idle
      <4>2. CASE Crash(p)
        BY <1>a, <4>2 DEF Crash, Becomes, Idle
      <4>3. QED
        BY <2>2, <4>1, <4>2
    <3>2. QED
      BY <1>1, <1>2, <3>1
  <2>3. QED
    BY <1>6, <2>1, <2>2
<1>7. CASE Record(p) \/ Check(p) \/ Rename(p) \/ JournalUpdate(p) \/ Updated(p)
  <2>1. memory'[p].held = memory[p].held /\ memory'[p].wanted = memory[p].wanted
    BY <1>a, <1>7 DEF Record, Check, Rename, JournalUpdate, Updated, Becomes, Memory
  <2>2. QED
    BY <1>1, <1>3, <2>1
<1>8. CASE Digest(p) \/ Discover(p) \/ LockDirectory(p)
  <2>1. memory[p].held = {}
    BY <1>a, <1>8 DEF Digest, Discover, LockDirectory, At, Shape
  <2>2. memory'[p].held = {}
    <3>1. CASE Discover(p)
      BY <1>a, <2>1, <3>1 DEF Discover, Becomes, Memory
    <3>a. CASE Digest(p)
      BY <1>a, <2>1, <3>a DEF Digest, Becomes, Memory
    <3>2. CASE LockDirectory(p) /\ directory # None
      BY <1>a, <3>2 DEF LockDirectory, Becomes, Idle
    <3>3. CASE LockDirectory(p) /\ directory = None
      BY <1>a, <2>1, <3>3 DEF LockDirectory, Becomes, Memory
    <3>4. QED
      BY <1>8, <3>1, <3>a, <3>2, <3>3
  <2>3. QED
    BY <1>1, <1>2, <2>2
<1>9. QED
  BY <1>1, <1>4, <1>5, <1>6, <1>7, <1>8 DEF Acts, Updating, Locking

-----------------------------------------------------------------------------
(* ManagerUpdate: who the owner files name *)

\* Nobody else's owner file is written or removed, and no lock given away, but
\* those of locks a process holds.
LEMMA SidecarKept ==
  ASSUME ManagerInv, NEW p \in Procs, Acts(p), NEW lock \in Locks, lock \notin memory[p].held
  PROVE  sidecar'[lock] = sidecar[lock]
<1>a. sidecar \in [Locks -> [proc : Procs \union {None}, life : 0..Lives]]
  BY DEF ManagerInv, TypeOK
<1>1. CASE WriteOwner(p)
  BY <1>a, <1>1 DEF WriteOwner
<1>2. CASE GiveBack(p)
  BY <1>a, <1>2 DEF GiveBack, RemoveOwner, Unlock
<1>3. CASE TakeLock(p) \/ Refused(p) \/ End(p) \/ Crash(p) \/ Start(p) \/ Ask(p)
  BY <1>3 DEF TakeLock, Refused, End, Crash, Start, Ask
<1>4. CASE Record(p) \/ Updating(p)
  BY <1>4 DEF Record, Updating, Digest, Discover, LockDirectory, Check, Rename, JournalUpdate, Updated
<1>5. QED
  BY <1>1, <1>2, <1>3, <1>4 DEF Acts, Locking

\* A lock has one holder.
LEMMA OneHolder ==
  ASSUME TypeOK, NEW lock \in Locks, NEW p \in Procs, NEW r \in Procs,
         lock \in memory[p].held, lock \in memory[r].held
  PROVE  p = r
  BY DEF TypeOK

\* A step of another process.
LEMMA NamedOthers ==
  ASSUME ManagerInv, NEW p \in Procs, Acts(p), NEW r \in Procs \ {p}
  PROVE  Named(r)'
<1>a. TypeOK /\ Named(r) /\ memory'[r] = memory[r] /\ life'[r] = life[r]
  BY OthersKeep DEF ManagerInv
<1>1. SUFFICES ASSUME NEW lock \in Locks
               PROVE  /\ /\ lock \in memory[r].held
                         /\ ~(memory[r].pc \in {"own", "unlock"} /\ Last(memory[r].held, lock))
                         => sidecar'[lock] = Said(r)
                      /\ At(r, "unlock") /\ Last(memory[r].held, lock) => sidecar'[lock] = Nobody
                      /\ sidecar'[lock].proc = r =>
                           /\ sidecar'[lock].life <= life[r]
                           /\ sidecar'[lock].life = life[r] /\ ~At(r, "idle") => lock \in memory[r].held
  BY <1>a DEF Named, Said, At
<1>2. CASE lock \notin memory[p].held
  BY <1>a, <1>2, SidecarKept DEF Named
<1>3. CASE lock \in memory[p].held
  <2>1. lock \notin memory[r].held
    BY <1>a, <1>3, OneHolder
  <2>2. \/ sidecar'[lock] = sidecar[lock]
        \/ sidecar'[lock].proc \in {p, None}
    <3>a. sidecar \in [Locks -> [proc : Procs \union {None}, life : 0..Lives]]
      BY <1>a DEF TypeOK
    <3>1. CASE WriteOwner(p)
      BY <3>a, <3>1 DEF WriteOwner
    <3>2. CASE GiveBack(p)
      BY <3>a, <3>2 DEF GiveBack, RemoveOwner, Unlock, Nobody
    <3>3. CASE TakeLock(p) \/ Refused(p) \/ End(p) \/ Crash(p) \/ Start(p) \/ Ask(p)
      BY <3>3 DEF TakeLock, Refused, End, Crash, Start, Ask
    <3>4. CASE Record(p) \/ Updating(p)
      BY <3>4 DEF Record, Updating, Digest, Discover, LockDirectory, Check, Rename, JournalUpdate, Updated
    <3>5. QED
      BY <3>1, <3>2, <3>3, <3>4 DEF Acts, Locking
  <2>3. r # None
    BY NoneAssumption DEF Procs
  <2>4. QED
    BY <1>a, <2>1, <2>2, <2>3 DEF Named, Last
<1>4. QED
  BY <1>2, <1>3

\* A step of the process itself that leaves the owner files, its life, its locks
\* and whether one is half given.
LEMMA NamedStill ==
  ASSUME ManagerInv, NEW p \in Procs, UNCHANGED <<sidecar, life>>,
         memory'[p].held = memory[p].held, ~At(p, "idle"),
         memory[p].pc \notin {"own", "unlock"}, memory'[p].pc # "unlock"
  PROVE  Named(p)'
  BY DEF ManagerInv, Named, Said, At

\* A process that is gone, or has just come, and holds nothing.
LEMMA NamedIdle ==
  ASSUME ManagerInv, NEW p \in Procs, UNCHANGED <<sidecar, life>>, memory'[p] = Idle
  PROVE  Named(p)'
<1>1. memory'[p].held = {} /\ memory'[p].pc = "idle"
  BY DEF Idle
<1>2. QED
  BY <1>1 DEF ManagerInv, Named, At, Last

LEMMA NamedNew ==
  ASSUME ManagerInv, NEW p \in Procs, Starts(p), UNCHANGED sidecar, memory'[p].held = {}
  PROVE  Named(p)'
<1>a. /\ sidecar \in [Locks -> [proc : Procs \union {None}, life : 0..Lives]]
      /\ life \in [Procs -> 0..Lives] /\ life' = [life EXCEPT ![p] = @ + 1]
  BY DEF ManagerInv, TypeOK, Starts
<1>1. life'[p] = life[p] + 1 /\ life[p] \in Nat
  BY <1>a, LivesAssumption
<1>2. \A lock \in Locks : sidecar[lock].proc = p => sidecar[lock].life <= life[p] /\ sidecar[lock].life \in Nat
  BY <1>a, LivesAssumption DEF ManagerInv, Named
<1>3. \A lock \in Locks : sidecar[lock].proc = p => sidecar[lock].life < life'[p]
  BY <1>1, <1>2
<1>4. QED
  BY <1>1, <1>2, <1>3 DEF Named, Last

LEMMA NamedTakeLock ==
  ASSUME ManagerInv, NEW p \in Procs, TakeLock(p)
  PROVE  Named(p)'
<1>a. memory \in [Procs -> Memory] /\ memory[p] \in Memory /\ Named(p) /\ InOrder(p)
  BY DEF ManagerInv, TypeOK
<1>1. PICK lock \in memory[p].wanted :
        Becomes(p, [memory[p] EXCEPT !.pc = "own", !.wanted = @ \ {lock}, !.held = @ \union {lock}])
  BY DEF TakeLock
<1>2. memory'[p].held = memory[p].held \union {lock} /\ memory'[p].pc = "own"
  BY <1>a, <1>1 DEF Becomes, Memory
<1>3. Last(memory'[p].held, lock)
  BY <1>a, <1>1, <1>2 DEF Last, InOrder
<1>4. UNCHANGED <<sidecar, life>> /\ memory[p].pc = "take"
  BY DEF TakeLock, At
<1>5. QED
  BY <1>a, <1>2, <1>3, <1>4 DEF Named, Said, At

LEMMA NamedWriteOwner ==
  ASSUME ManagerInv, NEW p \in Procs, WriteOwner(p)
  PROVE  Named(p)'
<1>a. /\ memory \in [Procs -> Memory] /\ memory[p] \in Memory /\ Named(p)
      /\ sidecar \in [Locks -> [proc : Procs \union {None}, life : 0..Lives]]
      /\ life[p] \in Nat /\ memory[p].pc = "own" /\ UNCHANGED life
  BY LivesAssumption DEF ManagerInv, TypeOK, WriteOwner, At
<1>1. PICK lock \in memory[p].held :
        Last(memory[p].held, lock) /\ sidecar' = [sidecar EXCEPT ![lock] = Said(p)]
  BY DEF WriteOwner, Said
<1>2. memory'[p].held = memory[p].held /\ memory'[p].pc # "unlock"
  BY <1>a DEF WriteOwner, Becomes, Memory, Work
<1>3. memory[p].held \subseteq Locks
  BY <1>a DEF Memory
<1>4. \A k \in Locks \ {lock} : sidecar'[k] = sidecar[k] /\ ~Last(memory[p].held, k)
  BY <1>a, <1>1, <1>3, OneLast
<1>5. sidecar'[lock] = Said(p)
  BY <1>a, <1>1, <1>3
<1>6. ASSUME NEW k \in Locks \ {lock}
      PROVE  /\ k \in memory[p].held => sidecar'[k] = Said(p)
             /\ sidecar'[k].proc = p =>
                  sidecar'[k].life <= life[p] /\ (sidecar'[k].life = life[p] => k \in memory[p].held)
  BY <1>a, <1>4 DEF Named, At
<1>7. QED
  BY <1>a, <1>1, <1>2, <1>5, <1>6 DEF Named, Said, At

LEMMA NamedGiveBack ==
  ASSUME ManagerInv, NEW p \in Procs, GiveBack(p)
  PROVE  Named(p)'
<1>a. /\ memory \in [Procs -> Memory] /\ memory[p] \in Memory /\ Named(p)
      /\ sidecar \in [Locks -> [proc : Procs \union {None}, life : 0..Lives]]
      /\ UNCHANGED life /\ p # None
  BY NoneAssumption DEF ManagerInv, TypeOK, GiveBack, Procs
<1>1. PICK lock \in memory[p].held :
        /\ Last(memory[p].held, lock)
        /\ \/ At(p, "release") /\ RemoveOwner(lock) /\ Half(p)
           \/ At(p, "unlock") /\ Unlock(lock) /\ Back(p, lock)
  BY DEF GiveBack
<1>2. memory[p].held \subseteq Locks
  BY <1>a DEF Memory
<1>3. \A k \in Locks \ {lock} : ~Last(memory[p].held, k)
  BY <1>1, <1>2, OneLast
<1>4. CASE At(p, "release") /\ RemoveOwner(lock) /\ Half(p)
  <2>1. memory'[p].held = memory[p].held /\ memory'[p].pc = "unlock"
    BY <1>a, <1>4 DEF Half, Becomes, Memory
  <2>2. sidecar'[lock] = Nobody /\ Nobody.proc = None /\ \A k \in Locks \ {lock} : sidecar'[k] = sidecar[k]
    BY <1>a, <1>2, <1>4 DEF RemoveOwner, Nobody
  <2>3. QED
    BY <1>a, <1>1, <1>3, <1>4, <2>1, <2>2 DEF Named, Said, At
<1>5. CASE At(p, "unlock") /\ Unlock(lock) /\ Back(p, lock)
  <2>1. memory'[p].held = memory[p].held \ {lock} /\ memory'[p].pc = "release" /\ UNCHANGED sidecar
    BY <1>a, <1>5 DEF Back, Becomes, Memory, Unlock
  <2>2. sidecar[lock].proc # p
    BY <1>a, <1>1, <1>2, <1>5 DEF Named, Nobody
  <2>3. QED
    BY <1>a, <1>3, <1>5, <2>1, <2>2 DEF Named, Said, At
<1>6. QED
  BY <1>1, <1>4, <1>5

LEMMA NamedStep ==
  ASSUME ManagerInv, NEW p \in Procs, Acts(p), NEW r \in Procs
  PROVE  Named(r)'
<1>a. memory \in [Procs -> Memory] /\ memory[p] \in Memory /\ Shape(p) /\ TypeOK
  BY DEF ManagerInv, TypeOK
<1>1. CASE r # p
  BY <1>1, NamedOthers
<1>2. CASE TakeLock(p) \/ WriteOwner(p) \/ GiveBack(p)
  BY <1>1, <1>2, NamedTakeLock, NamedWriteOwner, NamedGiveBack
<1>3. CASE End(p) \/ Crash(p) \/ (LockDirectory(p) /\ directory # None)
  <2>1. memory'[p] = Idle /\ UNCHANGED <<sidecar, life>>
    BY <1>a, <1>3 DEF End, Crash, LockDirectory, Becomes
  <2>2. QED
    BY <1>1, <2>1, NamedIdle
<1>4. CASE Start(p)
  <2>1. PICK product \in Listed, kind \in Kinds, wait \in BOOLEAN : Becomes(p, Command(product, kind, wait))
    BY <1>4 DEF Start
  <2>2. memory'[p].held = {} /\ Starts(p) /\ UNCHANGED sidecar
    BY <1>a, <1>4, <2>1, CommandTyped DEF Becomes, Start
  <2>3. QED
    BY <1>1, <2>2, NamedNew
<1>5. CASE Ask(p)
  <2>1. memory'[p].held = {} /\ Starts(p) /\ UNCHANGED sidecar
    BY <1>a, <1>5 DEF Ask, Asked, Becomes, Idle
  <2>2. QED
    BY <1>1, <2>1, NamedNew
<1>6. CASE Refused(p) \/ Record(p) \/ (Updating(p) /\ ~(LockDirectory(p) /\ directory # None))
  <2>1. /\ UNCHANGED <<sidecar, life>>
        /\ memory[p].pc \in {"take", "record", "digest", "fetch", "directory", "check", "rename", "journal"}
    BY <1>6 DEF Refused, Record, Updating, Digest, Discover, LockDirectory, Check, Rename, JournalUpdate,
              Updated, At
  <2>2. memory'[p].held = memory[p].held /\ memory'[p].pc # "unlock"
    <3>1. CASE Refused(p)
      BY <1>a, <3>1 DEF Refused, Becomes, Memory
    <3>a. CASE Record(p)
      BY <1>a, <3>a DEF Record, Becomes, Memory
    <3>2. CASE Discover(p)
      BY <1>a, <3>2 DEF Discover, Becomes, Memory
    <3>c. CASE Digest(p)
      BY <1>a, <3>c DEF Digest, Becomes, Memory
    <3>b. CASE LockDirectory(p) /\ directory = None
      BY <1>a, <3>b DEF LockDirectory, Becomes, Memory
    <3>3. CASE Check(p) \/ Rename(p) \/ Updated(p)
      BY <1>a, <3>3 DEF Check, Rename, Updated, Becomes, Memory
    <3>4. CASE JournalUpdate(p)
      BY <1>a, <3>4 DEF JournalUpdate, Becomes, Memory, At
    <3>5. QED
      BY <1>6, <3>1, <3>a, <3>2, <3>b, <3>c, <3>3, <3>4 DEF Updating
  <2>3. QED
    BY <1>1, <2>1, <2>2, NamedStill DEF At
<1>7. QED
  BY <1>1, <1>2, <1>3, <1>4, <1>5, <1>6 DEF Acts, Locking

-----------------------------------------------------------------------------
(* ManagerUpdate: the file that is replaced *)

\* The file changes only by a rename, to something newer, and by the process that
\* has the directory.
LEMMA InstalledKept ==
  ASSUME NEW p, Acts(p), ~Rename(p)
  PROVE  installed' = installed
<1>1. CASE Locking(p)
  BY <1>1 DEF Locking, TakeLock, WriteOwner, Refused, GiveBack, End
<1>2. CASE Updating(p)
  BY <1>2 DEF Updating, Digest, Discover, LockDirectory, Check, JournalUpdate, Updated
<1>3. CASE Start(p) \/ Record(p) \/ Ask(p) \/ Crash(p)
  BY <1>3 DEF Start, Record, Ask, Crash
<1>4. QED
  BY <1>1, <1>2, <1>3 DEF Acts

LEMMA CheckedIsNewer ==
  ASSUME TypeOK, NEW p \in Procs, Shape(p), memory[p].kind = "update", MayReplace(p)
  PROVE  memory[p].target > installed \/ Replaced(p)
<1>1. installed \in Nat /\ memory[p].version \in Nat /\ memory[p].target \in Nat
  BY NewestAssumption DEF TypeOK, Memory, Versions
<1>2. QED
  BY <1>1 DEF MayReplace, Shape, Replaced

LEMMA ForwardStep ==
  ASSUME ManagerInv, NEW p \in Procs, Acts(p), NEW r \in Procs
  PROVE  Forward(r)'
<1>a. /\ memory \in [Procs -> Memory] /\ memory[p] \in Memory /\ Shape(p) /\ Shape(r) /\ TypeOK
      /\ Forward(r)
  BY DEF ManagerInv, TypeOK
<1>1. CASE r # p
  <2>1. memory'[r] = memory[r]
    BY <1>1, <1>a, OthersKeep
  <2>2. CASE Rename(p)
    <3>1. memory[p].pc = "rename"
      BY <2>2 DEF Rename, At
    <3>2. directory = p
      BY <1>a, <3>1 DEF Shape, At, AtWork
    <3>3. ~At(r, "rename")
      BY <1>1, <1>a, <3>2 DEF Shape, At, AtWork
    <3>4. QED
      BY <2>1, <3>3 DEF Forward, At
  <2>3. CASE ~Rename(p)
    BY <1>a, <2>1, <2>3, InstalledKept DEF Forward, Replaced, At
  <2>4. QED
    BY <2>2, <2>3
<1>2. CASE Check(p) /\ r = p
  <2>1. memory'[p].pc = "rename" => MayReplace(p)
    BY <1>a, <1>2 DEF Check, Becomes, Memory
  <2>2. /\ memory'[p].target = memory[p].target /\ installed' = installed /\ memory[p].pc = "check"
        /\ memory'[p].version = memory[p].version /\ memory'[p].seen = memory[p].seen
    BY <1>a, <1>2 DEF Check, Becomes, Memory, At
  <2>3. memory[p].kind = "update"
    BY <1>a, <2>2 DEF Shape
  <2>4. QED
    BY <1>a, <1>2, <2>1, <2>2, <2>3, CheckedIsNewer DEF Forward, Replaced, At
<1>3. CASE ~Check(p) /\ r = p
  <2>1. memory'[p].pc # "rename"
    <3>1. CASE TakeLock(p)
      BY <1>a, <3>1 DEF TakeLock, Becomes, Memory
    <3>a. CASE WriteOwner(p)
      BY <1>a, <3>a DEF WriteOwner, Becomes, Memory, Work
    <3>b. CASE Refused(p)
      BY <1>a, <3>b DEF Refused, Becomes, Memory
    <3>2. CASE Half(p)
      BY <1>a, <3>2 DEF Half, Becomes, Memory
    <3>c. ASSUME NEW lock, Back(p, lock) PROVE memory'[p].pc # "rename"
      BY <1>a, <3>c DEF Back, Becomes, Memory
    <3>3. CASE End(p) \/ Crash(p) \/ (LockDirectory(p) /\ directory # None)
      BY <1>a, <3>3 DEF End, Crash, LockDirectory, Becomes, Idle
    <3>4. CASE Start(p)
      <4>1. PICK product \in Listed, kind \in Kinds, wait \in BOOLEAN : Becomes(p, Command(product, kind, wait))
        BY <3>4 DEF Start
      <4>2. QED
        BY <1>a, <4>1, CommandTyped DEF Becomes
    <3>5. CASE Ask(p)
      BY <1>a, <3>5 DEF Ask, Asked, Becomes, Idle
    <3>6. CASE Record(p)
      BY <1>a, <3>6 DEF Record, Becomes, Memory
    <3>e. CASE Discover(p)
      BY <1>a, <3>e DEF Discover, Becomes, Memory
    <3>f. CASE Digest(p)
      BY <1>a, <3>f DEF Digest, Becomes, Memory
    <3>d. CASE LockDirectory(p) /\ directory = None
      BY <1>a, <3>d DEF LockDirectory, Becomes, Memory
    <3>7. CASE Rename(p) \/ Updated(p)
      BY <1>a, <3>7 DEF Rename, Updated, Becomes, Memory
    <3>8. CASE JournalUpdate(p)
      BY <1>a, <3>8 DEF JournalUpdate, Becomes, Memory, At
    <3>9. QED
      BY <1>3, <3>1, <3>2, <3>3, <3>4, <3>5, <3>6, <3>7, <3>8, <3>a, <3>b, <3>c, <3>d, <3>e, <3>f
         DEF Acts, Locking, Updating, GiveBack
  <2>2. QED
    BY <1>3, <2>1 DEF Forward, At
<1>4. QED
  BY <1>1, <1>2, <1>3

-----------------------------------------------------------------------------
(* ManagerUpdate: what the journals were told *)

LEMMA JournalsGrow ==
  ASSUME TypeOK, NEW p \in Procs, Acts(p), NEW q \in Listed
  PROVE  told[q] \subseteq told'[q] /\ excused[q] \subseteq excused'[q]
<1>a. told \in [Listed -> SUBSET Versions] /\ excused \in [Listed -> SUBSET Versions]
  BY DEF TypeOK
<1>1. CASE Locking(p)
  BY <1>1 DEF Locking, TakeLock, WriteOwner, Refused, GiveBack, End, journals
<1>2. CASE Digest(p) \/ Discover(p) \/ LockDirectory(p) \/ Check(p) \/ Updated(p)
  BY <1>2 DEF Digest, Discover, LockDirectory, Check, Updated, journals
<1>3. CASE Start(p) \/ Record(p) \/ Ask(p)
  BY <1>3 DEF Start, Record, Ask, journals
<1>4. CASE Crash(p)
  BY <1>a, <1>4 DEF Crash
<1>5. CASE Rename(p)
  BY <1>a, <1>5 DEF Rename
<1>6. CASE JournalUpdate(p)
  <2>1. PICK product \in memory[p].products :
          \/ told' = [told EXCEPT ![product] = @ \union {memory[p].target}] /\ UNCHANGED excused
          \/ excused' = [excused EXCEPT ![product] = @ \union {memory[p].target}] /\ UNCHANGED told
    BY <1>6 DEF JournalUpdate
  <2>2. QED
    BY <1>a, <2>1
<1>7. QED
  BY <1>1, <1>2, <1>3, <1>4, <1>5, <1>6 DEF Acts, Updating

\* An updater leaves no journal it has still to write but by writing it, or dying.
LEMMA TellerKeeps ==
  ASSUME ManagerInv, NEW p \in Procs, Acts(p), NEW q \in Listed,
         At(p, "journal"), q \in memory[p].products
  PROVE  \/ memory[p].target \in told'[q] \union excused'[q]
         \/ memory'[p].pc = "journal" /\ q \in memory'[p].products
            /\ memory'[p].target = memory[p].target
<1>a. /\ memory \in [Procs -> Memory] /\ memory[p] \in Memory /\ TypeOK
      /\ told \in [Listed -> SUBSET Versions] /\ excused \in [Listed -> SUBSET Versions]
  BY DEF ManagerInv, TypeOK
<1>1. CASE JournalUpdate(p)
  <2>1. PICK product \in memory[p].products :
          /\ \/ told' = [told EXCEPT ![product] = @ \union {memory[p].target}] /\ UNCHANGED excused
             \/ excused' = [excused EXCEPT ![product] = @ \union {memory[p].target}] /\ UNCHANGED told
          /\ Becomes(p, [memory[p] EXCEPT !.products = @ \ {product}])
    BY <1>1 DEF JournalUpdate
  <2>2. CASE product = q
    BY <1>a, <2>1, <2>2
  <2>3. CASE product # q
    <3>1. /\ memory'[p].pc = memory[p].pc /\ memory'[p].target = memory[p].target
          /\ memory'[p].products = memory[p].products \ {product}
      BY <1>a, <2>1 DEF Becomes, Memory
    <3>2. QED
      BY <2>3, <3>1 DEF At
  <2>4. QED
    BY <2>2, <2>3
<1>2. CASE Crash(p)
  BY <1>a, <1>2 DEF Crash
<1>3. JournalUpdate(p) \/ Crash(p)
  BY DEF Acts, Locking, Updating, TakeLock, WriteOwner, Refused, GiveBack, End, Start, Starts, Ask,
         Record, Digest, Discover, LockDirectory, Check, Rename, Updated, At
<1>4. QED
  BY <1>1, <1>2, <1>3

LEMMA ToldKept ==
  ASSUME ManagerInv, NEW p \in Procs, Acts(p), NEW q \in Listed, NEW version, Told(q, version)
  PROVE  \/ version \in told'[q] \union excused'[q]
         \/ \E u \in Procs : /\ memory'[u].pc = "journal" /\ q \in memory'[u].products
                              /\ memory'[u].target = version
<1>a. TypeOK
  BY DEF ManagerInv
<1>1. CASE version \in told[q] \union excused[q]
  BY <1>a, <1>1, JournalsGrow
<1>2. ASSUME NEW u \in Procs, At(u, "journal"), q \in memory[u].products, memory[u].target = version
      PROVE  \/ version \in told'[q] \union excused'[q]
             \/ memory'[u].pc = "journal" /\ q \in memory'[u].products /\ memory'[u].target = version
  <2>1. CASE u = p
    BY <1>2, <2>1, TellerKeeps
  <2>2. CASE u # p
    BY <1>a, <1>2, <2>2, OthersKeep DEF At
  <2>3. QED
    BY <2>1, <2>2
<1>3. QED
  BY <1>1, <1>2 DEF Told

\* A record written under the deployment lock says a version the journal was told
\* of: who has still to tell it holds that lock.
LEMMA RecordTold ==
  ASSUME ManagerInv, NEW p \in Procs, Record(p), NEW q \in Listed
  PROVE  ran'[q] \subseteq told[q] \union excused[q]
<1>a. /\ memory[p] \in Memory /\ TypeOK /\ ran \in [Listed -> SUBSET Versions]
      /\ ran[q] \subseteq told[q] \union excused[q]
      /\ At(p, "record") /\ Told(q, memory[p].version)
  BY DEF ManagerInv, TypeOK, ToldOfAll, Record, At
<1>1. PICK lock \in memory[p].held : ran' = [ran EXCEPT ![lock[1]] = @ \union {memory[p].version}]
  BY DEF Record
<1>2. lock \in Locks
  BY <1>a, <1>1 DEF Memory
<1>3. CASE lock[1] # q
  BY <1>a, <1>1, <1>3
<1>4. CASE lock[1] = q
  <2>1. ~\E u \in Procs : At(u, "journal") /\ q \in memory[u].products
    <3>1. SUFFICES ASSUME NEW u \in Procs, At(u, "journal"), q \in memory[u].products
                   PROVE  FALSE
      OBVIOUS
    <3>2. memory[u].products \X Both \subseteq memory[u].held
      BY <3>1 DEF ManagerInv, Shape, At, AtWork
    <3>3. lock \in memory[u].products \X Both
      BY <1>2, <1>4, <3>1 DEF Locks, Both
    <3>4. u = p
      BY <1>a, <1>1, <1>2, <3>2, <3>3, OneHolder
    <3>5. QED
      BY <1>a, <3>1, <3>4 DEF At
  <2>2. memory[p].version \in told[q] \union excused[q]
    BY <1>a, <2>1 DEF Told
  <2>3. QED
    BY <1>a, <1>1, <1>4, <2>2
<1>5. QED
  BY <1>3, <1>4

\* The version a process was started from.
LEMMA StartedFrom ==
  ASSUME ManagerInv, NEW p \in Procs, Acts(p), memory'[p].pc # "idle"
  PROVE  \/ memory'[p].version = installed
         \/ memory'[p].version = memory[p].version /\ ~At(p, "idle")
<1>a. memory \in [Procs -> Memory] /\ memory[p] \in Memory /\ TypeOK /\ Shape(p)
  BY DEF ManagerInv, TypeOK
<1>1. CASE TakeLock(p)
  BY <1>a, <1>1 DEF TakeLock, Becomes, Memory, At
<1>2. CASE WriteOwner(p)
  BY <1>a, <1>2 DEF WriteOwner, Becomes, Memory, At
<1>3. CASE Refused(p)
  BY <1>a, <1>3 DEF Refused, Becomes, Memory, At
<1>4. CASE GiveBack(p)
  <2>1. ~At(p, "idle")
    BY <1>4 DEF GiveBack, At
  <2>2. CASE Half(p)
    BY <1>a, <2>1, <2>2 DEF Half, Becomes, Memory
  <2>3. ASSUME NEW lock, Back(p, lock) PROVE memory'[p].version = memory[p].version
    BY <1>a, <2>3 DEF Back, Becomes, Memory
  <2>4. QED
    BY <1>4, <2>1, <2>2, <2>3 DEF GiveBack
<1>5. CASE End(p) \/ Crash(p) \/ (LockDirectory(p) /\ directory # None)
  BY <1>a, <1>5 DEF End, Crash, LockDirectory, Becomes, Idle
<1>6. CASE Start(p)
  <2>1. PICK product \in Listed, kind \in Kinds, wait \in BOOLEAN : Becomes(p, Command(product, kind, wait))
    BY <1>6 DEF Start
  <2>2. QED
    BY <1>a, <2>1, CommandTyped DEF Becomes
<1>7. CASE Ask(p)
  BY <1>a, <1>7 DEF Ask, Asked, Becomes, Idle
<1>8. CASE Record(p)
  BY <1>a, <1>8 DEF Record, Becomes, Memory, At
<1>9. CASE Discover(p)
  BY <1>a, <1>9 DEF Discover, Becomes, Memory, At
<1>10. CASE LockDirectory(p) /\ directory = None
  BY <1>a, <1>10 DEF LockDirectory, Becomes, Memory, At
<1>11. CASE Check(p) \/ Rename(p) \/ Updated(p)
  BY <1>a, <1>11 DEF Check, Rename, Updated, Becomes, Memory, At
<1>12. CASE JournalUpdate(p)
  BY <1>a, <1>12 DEF JournalUpdate, Becomes, Memory, At
<1>13. CASE Digest(p)
  BY <1>a, <1>13 DEF Digest, Becomes, Memory, At
<1>14. QED
  BY <1>1, <1>2, <1>3, <1>4, <1>5, <1>6, <1>7, <1>8, <1>9, <1>10, <1>11, <1>12, <1>13
     DEF Acts, Locking, Updating

LEMMA RanKept ==
  ASSUME NEW p, Acts(p), ~Record(p)
  PROVE  ran' = ran
<1>1. CASE Locking(p)
  BY <1>1 DEF Locking, TakeLock, WriteOwner, Refused, GiveBack, End, journals
<1>2. CASE Updating(p)
  BY <1>2 DEF Updating, Digest, Discover, LockDirectory, Check, Rename, JournalUpdate, Updated, journals
<1>3. CASE Start(p) \/ Ask(p) \/ Crash(p)
  BY <1>3 DEF Start, Ask, Crash, journals
<1>4. QED
  BY <1>1, <1>2, <1>3 DEF Acts

LEMMA ToldStep ==
  ASSUME ManagerInv, NEW p \in Procs, Acts(p), NEW q \in Listed
  PROVE  ToldOfAll(q)'
<1>a. /\ memory \in [Procs -> Memory] /\ memory[p] \in Memory /\ TypeOK /\ ToldOfAll(q)
      /\ excused \in [Listed -> SUBSET Versions]
  BY DEF ManagerInv, TypeOK
<1>1. ASSUME NEW version, Told(q, version)
      PROVE  \/ version \in told'[q] \union excused'[q]
             \/ \E u \in Procs : /\ memory'[u].pc = "journal" /\ q \in memory'[u].products
                                  /\ memory'[u].target = version
  BY <1>1, ToldKept
<1>2. \/ installed' \in told'[q] \union excused'[q]
      \/ \E u \in Procs : /\ memory'[u].pc = "journal" /\ q \in memory'[u].products
                           /\ memory'[u].target = installed'
  <2>1. CASE Rename(p)
    <3>1. /\ memory'[p].pc = "journal" /\ memory'[p].products = memory[p].products
          /\ memory'[p].target = memory[p].target
      BY <1>a, <2>1 DEF Rename, Becomes, Memory
    <3>2. /\ installed' = memory[p].target
          /\ q \notin memory[p].products => installed' \in excused'[q]
      BY <1>a, <2>1 DEF Rename
    <3>3. QED
      BY <3>1, <3>2
  <2>2. CASE ~Rename(p)
    <3>1. installed' = installed
      BY <2>2, InstalledKept
    <3>2. QED
      BY <1>a, <1>1, <3>1 DEF ToldOfAll
  <2>3. QED
    BY <2>1, <2>2
<1>3. ASSUME NEW r \in Procs, memory'[r].pc # "idle"
      PROVE  \/ memory'[r].version \in told'[q] \union excused'[q]
             \/ \E u \in Procs : /\ memory'[u].pc = "journal" /\ q \in memory'[u].products
                                  /\ memory'[u].target = memory'[r].version
  <2>1. \/ memory'[r].version = installed
        \/ memory'[r].version = memory[r].version /\ ~At(r, "idle")
    BY <1>a, <1>3, StartedFrom, OthersKeep DEF At
  <2>2. Told(q, memory'[r].version)
    BY <1>a, <2>1 DEF ToldOfAll
  <2>3. QED
    BY <1>1, <2>2
<1>4. ran'[q] \subseteq told'[q] \union excused'[q]
  <2>1. told[q] \subseteq told'[q] /\ excused[q] \subseteq excused'[q]
    BY <1>a, JournalsGrow
  <2>2. ran'[q] \subseteq told[q] \union excused[q]
    BY <1>a, RecordTold, RanKept DEF ToldOfAll
  <2>3. QED
    BY <2>1, <2>2
<1>5. QED
  BY <1>2, <1>3, <1>4 DEF ToldOfAll, Told, At

-----------------------------------------------------------------------------
(* ManagerUpdate: the theorems *)

LEMMA ManagerInvInit == Init => ManagerInv
<1> SUFFICES ASSUME Init PROVE ManagerInv
  OBVIOUS
<1>1. TypeOK
  BY TypedInit
<1>2. ASSUME NEW p \in Procs PROVE memory[p] = Idle /\ Idle.held = {} /\ Idle.pc = "idle" /\ p # None
  BY NoneAssumption DEF Init, Idle, Procs
<1>3. \A p \in Procs : Shape(p) /\ InOrder(p) /\ Forward(p)
  BY <1>2 DEF Shape, InOrder, Forward, At, Idle, AtWork
<1>4. ASSUME NEW p \in Procs PROVE Named(p)
  BY <1>2 DEF Named, Init, Nobody, Last, At
<1>5. ASSUME NEW q \in Listed PROVE ToldOfAll(q)
  BY <1>2 DEF ToldOfAll, Told, At, Init
<1>6. QED
  BY <1>1, <1>3, <1>4, <1>5 DEF ManagerInv

LEMMA ManagerInvStep == ManagerInv /\ [Next]_vars => ManagerInv'
<1> SUFFICES ASSUME ManagerInv, [Next]_vars PROVE ManagerInv'
  OBVIOUS
<1>1. CASE Next
  <2>1. PICK p \in Procs : Acts(p)
    BY <1>1, SomeoneActs
  <2>2. TypeOK'
    BY <1>1, TypedStep
  <2>3. \A r \in Procs : Shape(r)' /\ InOrder(r)'
    BY <2>1, ShapeStep, InOrderStep
  <2>4. \A r \in Procs : Named(r)' /\ Forward(r)'
    BY <2>1, NamedStep, ForwardStep
  <2>5. \A q \in Listed : ToldOfAll(q)'
    BY <2>1, ToldStep
  <2>6. QED
    BY <2>2, <2>3, <2>4, <2>5 DEF ManagerInv
<1>2. CASE UNCHANGED vars
  BY <1>2 DEF vars, journals, ManagerInv, TypeOK, Shape, InOrder, Named, Forward, Replaced, ToldOfAll, Told, At, Said
<1>3. QED
  BY <1>1, <1>2

\* A lock is held by exactly the process that has it among its own, in every
\* reachable state (ManagerUpdate, TypeOK; tryFlock and the release).
THEOREM ManagerTypeCorrect == Spec => []TypeOK
<1>1. ManagerInv => TypeOK
  BY DEF ManagerInv
<1>2. QED
  BY <1>1, ManagerInvInit, ManagerInvStep, PTL DEF Spec

LEMMA OwnerHolds == ManagerInv => OwnerIsHolder
<1> SUFFICES ASSUME ManagerInv, NEW lock \in Locks
             PROVE  /\ Owner(lock) # None => holder[lock] = Owner(lock)
                    /\ \A p \in Procs :
                         /\ holder[lock] = p
                         /\ ~(memory[p].pc \in {"own", "unlock"} /\ Last(memory[p].held, lock))
                         => Owner(lock) = p
  BY DEF OwnerIsHolder
<1>a. /\ TypeOK /\ sidecar[lock] \in [proc : Procs \union {None}, life : 0..Lives]
      /\ \A p \in Procs : Named(p) /\ Shape(p)
  BY DEF ManagerInv, TypeOK
<1>1. ASSUME Owner(lock) # None PROVE holder[lock] = Owner(lock)
  <2>1. /\ sidecar[lock] # Nobody /\ Owner(lock) = sidecar[lock].proc
        /\ life[sidecar[lock].proc] = sidecar[lock].life /\ ~At(sidecar[lock].proc, "idle")
    BY <1>1 DEF Owner
  <2>2. sidecar[lock].proc \in Procs
    BY <1>a, <1>1, <2>1
  <2>3. lock \in memory[sidecar[lock].proc].held
    BY <1>a, <2>1, <2>2 DEF Named
  <2>4. QED
    BY <1>a, <2>1, <2>2, <2>3 DEF TypeOK
<1>2. ASSUME NEW p \in Procs, holder[lock] = p,
             ~(memory[p].pc \in {"own", "unlock"} /\ Last(memory[p].held, lock))
      PROVE  Owner(lock) = p
  <2>1. lock \in memory[p].held
    BY <1>a, <1>2 DEF TypeOK
  <2>2. sidecar[lock] = Said(p)
    BY <1>a, <1>2, <2>1 DEF Named
  <2>3. ~At(p, "idle")
    BY <1>a, <2>1 DEF Shape, Idle
  <2>4. p # None
    BY NoneAssumption DEF Procs
  <2>5. QED
    BY <2>2, <2>3, <2>4 DEF Owner, Said, Nobody
<1>3. QED
  BY <1>1, <1>2

\* Who an owner file names, if that process is there, holds the lock; and a process
\* at work under a lock is named (ManagerUpdate, OwnerIsHolder; Locker.Owner,
\* writeOwner and the release).
THEOREM TheOwnerIsHolder == Spec => []OwnerIsHolder
<1>1. QED
  BY OwnerHolds, ManagerInvInit, ManagerInvStep, PTL DEF Spec

\* No journal has work of a manager before the record of the change to it
\* (ManagerUpdate, RecordComesFirst; self_update.go:247).
THEOREM TheRecordComesFirst == Spec => []RecordComesFirst
<1>1. ManagerInv => RecordComesFirst
  BY DEF ManagerInv, ToldOfAll, RecordComesFirst
<1>2. QED
  BY <1>1, ManagerInvInit, ManagerInvStep, PTL DEF Spec

LEMMA ForwardOnly ==
  ASSUME ManagerInv, Next, installed' < installed
  PROVE  \E p \in Updaters : /\ At(p, "rename") /\ memory'[p].pc = "journal"
                             /\ memory[p].version = 0 /\ memory[p].seen # 0
<1>a. installed \in Nat
  BY DEF ManagerInv, TypeOK, Versions
<1>1. PICK p \in Procs : Acts(p)
  BY SomeoneActs
<1>2. Rename(p)
  BY <1>a, <1>1, InstalledKept
<1>3. memory \in [Procs -> Memory] /\ memory[p] \in Memory
  BY DEF ManagerInv, TypeOK
<1>4. At(p, "rename") /\ installed' = memory[p].target
  BY <1>2 DEF Rename
<1>5. memory'[p].pc = "journal"
  BY <1>2, <1>3 DEF Rename, Becomes, Memory
<1>6. p \in Updaters
  BY <1>4 DEF ManagerInv, Shape, At
<1>7. memory[p].target \in Nat
  BY <1>3 DEF Memory, Versions
<1>8. Replaced(p)
  BY <1>a, <1>4, <1>7 DEF ManagerInv, Forward
<1>9. QED
  BY <1>4, <1>5, <1>6, <1>8 DEF Replaced

\* Any number of self-updates, each to a release of its own, only move the manager
\* forward, but for a dev build whose file was another's before it read the digest
\* it is held to (ManagerUpdate, NeverMovesBack; the check under the locks).
THEOREM NothingMovesBack == Spec => NeverMovesBack
<1>1. ManagerInv /\ [Next]_vars =>
        [installed' < installed =>
           \E p \in Updaters : /\ At(p, "rename") /\ memory'[p].pc = "journal"
                               /\ memory[p].version = 0 /\ memory[p].seen # 0]_vars
  BY ForwardOnly
<1>2. QED
  BY <1>1, ManagerInvInit, ManagerInvStep, PTL DEF Spec, NeverMovesBack
=============================================================================
