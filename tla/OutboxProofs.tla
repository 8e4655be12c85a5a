---------------------------- MODULE OutboxProofs ----------------------------
(***************************************************************************)
(* Theorems of Outbox, for any commands, targets, events and troubles.     *)
(***************************************************************************)
EXTENDS Outbox, FiniteSetTheorems, TLAPS

-----------------------------------------------------------------------------
(* Types, and who holds the locks *)

Writing == {"write", "list", "drop", "count", "tell"}
Sending == {"send", "post", "remove", "forgetting"}
Forgetting == {"forget", "forgetting"}
Pcs == {"idle", "wired", "lock", "sent"} \cup Writing \cup Sending \cup Forgetting

Memory == [pc : Pcs, notifiers : SUBSET Targets, event : 0..MaxEvents,
           pending : SUBSET Targets, target : Targets \cup {None}, over : SUBSET Messages,
           count : Nat, names : SUBSET Messages, down : SUBSET Targets,
           at : (0..MaxEvents) \X (Targets \cup {None})]

Typed ==
  /\ entries \subseteq Messages /\ dropped \in [Targets -> Nat]
  /\ configured \subseteq Targets /\ up \subseteq Targets
  /\ outbox \in Procs \cup {None} /\ deployment \in Procs \cup {None}
  /\ memory \in [Procs -> Memory]
  /\ happened \in 0..MaxEvents

\* What a process has at hand, and the locks it holds.
Shape(p) ==
  /\ memory[p].pc \in Writing => memory[p].event \in 1..MaxEvents
  /\ memory[p].pc \in (Writing \ {"write"}) \cup Forgetting => memory[p].target \in Targets
  /\ memory[p].pc \in {"post", "remove"} => memory[p].at \in Messages
  /\ memory[p].pc \in Sending <=> outbox = p
  /\ memory[p].pc \in Forgetting <=> deployment = p

TypeInv == Typed /\ \A p \in Procs : Shape(p)

LEMMA TypeInvOK == TypeInv => TypeOK
<1> SUFFICES ASSUME TypeInv PROVE TypeOK
  OBVIOUS
<1>1. ASSUME NEW p \in Procs
      PROVE  /\ memory[p].notifiers \subseteq Targets /\ memory[p].names \subseteq Messages
             /\ memory[p].pc \in {"send", "post", "remove", "forgetting"} <=> outbox = p
             /\ memory[p].pc \in {"forget", "forgetting"} <=> deployment = p
  <2>1. memory[p] \in Memory /\ Shape(p)
    BY DEF TypeInv, Typed
  <2>2. memory[p].notifiers \subseteq Targets /\ memory[p].names \subseteq Messages
    BY <2>1 DEF Memory
  <2>3. QED
    BY <2>1, <2>2 DEF Shape, Sending, Forgetting
<1>2. QED
  BY <1>1 DEF TypeInv, Typed, TypeOK

LEMMA Numbers == /\ 0 \in 0..MaxEvents /\ 0 \in Nat /\ MaxEvents \in Nat
                 /\ IsFiniteSet(Messages)
<1>1. MaxEvents \in Nat /\ IsFiniteSet(1..MaxEvents) /\ IsFiniteSet(Targets)
  BY BoundAssumption, FS_Interval
<1>2. QED
  BY <1>1, FS_Product DEF Messages

LEMMA IdleTyped ==
  /\ Idle \in Memory /\ Idle.pc = "idle"
  /\ \A pc \in Pcs, S \in SUBSET Targets : [Idle EXCEPT !.pc = pc, !.notifiers = S] \in Memory
  /\ \A S \in SUBSET Targets : [Idle EXCEPT !.notifiers = S] \in Memory
<1>1. Idle \in Memory /\ Idle.pc = "idle"
  BY Numbers DEF Idle, Memory, Pcs
<1>2. QED
  BY <1>1 DEF Memory

LEMMA TypeInit == Init => TypeInv
<1> SUFFICES ASSUME Init PROVE TypeInv
  OBVIOUS
<1>1. Typed
  BY IdleTyped, Numbers DEF Init, Typed
<1>2. ASSUME NEW p \in Procs PROVE Shape(p)
  BY IdleTyped, NoneAssumption
     DEF Init, Shape, Writing, Sending, Forgetting, Procs
<1>3. QED
  BY <1>1, <1>2 DEF TypeInv

\* One process moves; the locks of the others are what they were.
LEMMA OneMoves ==
  ASSUME TypeInv, NEW p \in Procs, memory'[p] \in Memory,
         memory' = [memory EXCEPT ![p] = memory'[p]],
         entries' \subseteq Messages, dropped' \in [Targets -> Nat],
         configured' \subseteq Targets, up' \subseteq Targets, happened' \in 0..MaxEvents,
         outbox' \in Procs \cup {None}, deployment' \in Procs \cup {None},
         \A q \in Procs \ {p} : (outbox' = q <=> outbox = q) /\ (deployment' = q <=> deployment = q),
         Shape(p)'
  PROVE  TypeInv'
<1>1. Typed'
  BY DEF TypeInv, Typed
<1>2. ASSUME NEW q \in Procs \ {p} PROVE Shape(q)'
  <2>1. memory'[q] = memory[q] /\ Shape(q)
    BY DEF TypeInv, Typed
  <2>2. QED
    BY <2>1 DEF Shape
<1>3. QED
  BY <1>1, <1>2 DEF TypeInv

\* It moves without a lock, and tells the world nothing.
LEMMA QuietMove ==
  ASSUME TypeInv, NEW p \in Procs, NEW m \in Memory, memory' = [memory EXCEPT ![p] = m],
         entries' \subseteq Messages, dropped' \in [Targets -> Nat],
         configured' \subseteq Targets, up' \subseteq Targets, happened' \in 0..MaxEvents,
         UNCHANGED <<outbox, deployment>>,
         m.pc \in Writing => m.event \in 1..MaxEvents,
         m.pc \in (Writing \ {"write"}) \cup Forgetting => m.target \in Targets,
         m.pc \in {"post", "remove"} => m.at \in Messages,
         m.pc \in Sending <=> memory[p].pc \in Sending,
         m.pc \in Forgetting <=> memory[p].pc \in Forgetting
  PROVE  TypeInv'
<1>1. memory'[p] = m /\ memory' = [memory EXCEPT ![p] = memory'[p]]
  BY DEF TypeInv, Typed
<1>2. Shape(p)'
  BY <1>1 DEF TypeInv, Shape
<1>3. QED
  BY <1>1, <1>2, OneMoves DEF TypeInv, Typed

\* An event is told, and written down.
LEMMA TellsTyped ==
  ASSUME TypeInv, NEW p \in Procs, Tells(p)
  PROVE  TypeInv'
<1>a. /\ memory[p] \in Memory /\ memory \in [Procs -> Memory] /\ Shape(p)
      /\ entries \subseteq Messages /\ dropped \in [Targets -> Nat]
      /\ configured \subseteq Targets /\ up \subseteq Targets /\ happened \in 0..MaxEvents
  BY DEF TypeInv, Typed
<1>b. Written(p) \in Memory /\ Written(p).pc \in {"idle", "write"}
      /\ (Written(p).pc = "write" => Written(p).event = memory[p].event)
  <2>1. CASE memory[p].pending = {}
    BY <2>1, IdleTyped DEF Written
  <2>2. [memory[p] EXCEPT !.pc = "write", !.over = {}, !.count = 0] \in Memory
    BY <1>a, Numbers DEF Memory, Pcs, Writing
  <2>3. /\ [memory[p] EXCEPT !.pc = "write", !.over = {}, !.count = 0].pc = "write"
        /\ [memory[p] EXCEPT !.pc = "write", !.over = {}, !.count = 0].event = memory[p].event
    BY <1>a DEF Memory
  <2>4. QED
    BY <2>1, <2>2, <2>3 DEF Written
<1>1. CASE Notify(p)
  <2>1. happened + 1 \in 1..MaxEvents /\ happened + 1 \in 0..MaxEvents
    BY <1>1, <1>a, Numbers DEF Notify
  <2>2. memory[p].notifiers \ up \subseteq Targets
    BY <1>a DEF Memory
  <2>3. [Idle EXCEPT !.pc = "write", !.event = happened + 1, !.pending = memory[p].notifiers \ up]
          \in Memory
    BY <2>1, <2>2, IdleTyped DEF Memory, Pcs, Writing
  <2>4. memory[p].pc \notin Sending \cup Forgetting \cup Writing
    BY <1>1 DEF Notify, At, Sending, Forgetting, Writing
  <2>5. CASE memory' = [memory EXCEPT ![p] = Idle]
    BY <1>1, <1>a, <2>1, <2>4, <2>5, IdleTyped, QuietMove
       DEF Notify, disk, locks, Sending, Forgetting, Writing
  <2>6. CASE memory' = [memory EXCEPT ![p] =
               [Idle EXCEPT !.pc = "write", !.event = happened + 1, !.pending = memory[p].notifiers \ up]]
    <3>1. [Idle EXCEPT !.pc = "write", !.event = happened + 1, !.pending = memory[p].notifiers \ up].pc = "write"
          /\ [Idle EXCEPT !.pc = "write", !.event = happened + 1, !.pending = memory[p].notifiers \ up].event
             = happened + 1
      BY DEF Idle
    <3>2. QED
      BY <1>1, <1>a, <2>1, <2>3, <2>4, <2>6, <3>1, QuietMove
         DEF Notify, disk, locks, Sending, Forgetting, Writing
  <2>7. QED
    BY <1>1, <2>5, <2>6 DEF Notify, Becomes
<1>2. CASE Write(p)
  <2>1. PICK t \in memory[p].pending :
          /\ entries' = entries \cup {<<memory[p].event, t>>}
          /\ memory' = [memory EXCEPT ![p] =
               [memory[p] EXCEPT !.pc = "list", !.target = t, !.pending = memory[p].pending \ {t}]]
    BY <1>2 DEF Write, Becomes
  <2>2. t \in Targets /\ memory[p].event \in 1..MaxEvents /\ memory[p].pc = "write"
    BY <1>2, <1>a DEF Write, At, Memory, Shape, Writing
  <2>3. entries' \subseteq Messages
    BY <1>a, <2>1, <2>2 DEF Messages
  <2>4. [memory[p] EXCEPT !.pc = "list", !.target = t, !.pending = memory[p].pending \ {t}] \in Memory
    BY <1>a, <2>2 DEF Memory, Pcs, Writing
  <2>5. /\ [memory[p] EXCEPT !.pc = "list", !.target = t, !.pending = memory[p].pending \ {t}].pc = "list"
        /\ [memory[p] EXCEPT !.pc = "list", !.target = t, !.pending = memory[p].pending \ {t}].target = t
        /\ [memory[p] EXCEPT !.pc = "list", !.target = t, !.pending = memory[p].pending \ {t}].event
           = memory[p].event
    BY <1>a DEF Memory
  <2>6. QED
    BY <1>2, <1>a, <2>1, <2>2, <2>3, <2>4, <2>5, QuietMove
       DEF Write, locks, world, Sending, Forgetting, Writing
<1>3. CASE List(p)
  <2>1. /\ Excess(memory[p].target) \in SUBSET Messages
        /\ Cardinality(Excess(memory[p].target)) \in Nat
    BY <1>a, Numbers, FS_Subset, FS_CardinalityType DEF Excess, Of
  <2>2. memory[p].pc = "list"
    BY <1>3 DEF List, At
  <2>3. CASE memory' = [memory EXCEPT ![p] = Written(p)]
    BY <1>3, <1>a, <1>b, <2>2, <2>3, QuietMove
       DEF List, disk, locks, world, Shape, Sending, Forgetting, Writing
  <2>4. ASSUME NEW m, m = [memory[p] EXCEPT !.pc = "drop", !.over = Excess(memory[p].target),
                                            !.count = Cardinality(Excess(memory[p].target))],
               memory' = [memory EXCEPT ![p] = m]
        PROVE  TypeInv'
    <3>1. m \in Memory /\ m.pc = "drop" /\ m.event = memory[p].event /\ m.target = memory[p].target
      BY <2>1, <2>4, <1>a DEF Memory, Pcs, Writing
    <3>2. QED
      BY <1>3, <1>a, <2>2, <2>4, <3>1, QuietMove
         DEF List, disk, locks, world, Shape, Sending, Forgetting, Writing
  <2>5. QED
    BY <1>3, <2>3, <2>4 DEF List, Becomes
<1>4. CASE Drop(p)
  <2>1. PICK msg : /\ entries' = entries \ {msg}
                   /\ memory' = [memory EXCEPT ![p] =
                        [memory[p] EXCEPT !.over = memory[p].over \ {msg},
                           !.pc = IF memory[p].over = {msg} THEN "count" ELSE "drop"]]
    BY <1>4 DEF Drop, Becomes
  <2>2. PICK m : m = [memory[p] EXCEPT !.over = memory[p].over \ {msg},
                           !.pc = IF memory[p].over = {msg} THEN "count" ELSE "drop"]
    OBVIOUS
  <2>3. m \in Memory /\ m.pc \in {"count", "drop"} /\ m.event = memory[p].event
        /\ m.target = memory[p].target
    BY <2>2, <1>a DEF Memory, Pcs, Writing
  <2>4. memory[p].pc = "drop" /\ entries' \subseteq Messages
    BY <1>4, <1>a, <2>1 DEF Drop, At
  <2>5. QED
    BY <1>4, <1>a, <2>1, <2>2, <2>3, <2>4, QuietMove
       DEF Drop, locks, world, Shape, Sending, Forgetting, Writing
<1>5. CASE Count(p)
  <2>1. memory[p].pc = "count" /\ memory[p].target \in Targets
    BY <1>5, <1>a DEF Count, At, Shape, Writing
  <2>2. PICK m : \E n \in Nat : /\ m = [memory[p] EXCEPT !.pc = "tell", !.count = n]
                                /\ memory' = [memory EXCEPT ![p] = m]
    <3>1. memory[p].count \in Nat /\ dropped[memory[p].target] \in Nat
      BY <2>1, <1>a DEF Memory
    <3>2. memory[p].count + dropped[memory[p].target] \in Nat
      BY <3>1
    <3>3. QED
      BY <1>5, <3>2 DEF Count, Becomes
  <2>3. m \in Memory /\ m.pc = "tell" /\ m.event = memory[p].event /\ m.target = memory[p].target
    BY <2>1, <2>2, <1>a DEF Memory, Pcs, Writing
  <2>4. QED
    BY <1>5, <1>a, <2>1, <2>2, <2>3, QuietMove
       DEF Count, Becomes, disk, locks, world, Shape, Sending, Forgetting, Writing
<1>6. CASE Tell(p)
  <2>1. memory[p].pc = "tell" /\ memory[p].count \in Nat
    BY <1>6, <1>a DEF Tell, At, Memory
  <2>2. dropped' \in [Targets -> Nat]
    BY <1>6, <1>a, <2>1 DEF Tell
  <2>3. QED
    BY <1>6, <1>a, <1>b, <2>1, <2>2, QuietMove
       DEF Tell, Becomes, locks, world, Shape, Sending, Forgetting, Writing
<1>7. QED
  BY <1>1, <1>2, <1>3, <1>4, <1>5, <1>6 DEF Tells

LEMMA SentTyped ==
  ASSUME TypeInv, NEW p \in Procs
  PROVE  Sent(p) \in Memory /\ Sent(p).pc \in {"sent", "idle"}
<1>1. memory[p].notifiers \in SUBSET Targets
  BY DEF TypeInv, Typed, Memory
<1>2. [Idle EXCEPT !.pc = "sent", !.notifiers = memory[p].notifiers] \in Memory
      /\ [Idle EXCEPT !.pc = "sent", !.notifiers = memory[p].notifiers].pc = "sent"
  BY <1>1, IdleTyped DEF Pcs, Idle
<1>3. QED
  BY <1>2, IdleTyped DEF Sent

\* What a send reads next, and what becomes of it.
Rest(p, m) == [memory[p] EXCEPT !.names = memory[p].names \ {m}]

ReadOf(p, m) ==
  /\ entries' \in {entries, entries \ {m}}
  /\ \/ memory' = [memory EXCEPT ![p] = Rest(p, m)]
     \/ memory' = [memory EXCEPT ![p] =
                    [Rest(p, m) EXCEPT !.down = Rest(p, m).down \cup {m[2]}]]
     \/ /\ m \in entries /\ entries' = entries
        /\ memory' = [memory EXCEPT ![p] = [Rest(p, m) EXCEPT !.pc = "post", !.at = m]]

LEMMA ReadOne ==
  ASSUME NEW p \in Procs, Read(p)
  PROVE  \E m \in Oldest(memory[p].names) : ReadOf(p, m)
  BY DEF Read, ReadOf, Rest, Becomes

\* The outbox is sent.
LEMMA SendsTyped ==
  ASSUME TypeInv, NEW p \in Procs, Sends(p)
  PROVE  TypeInv'
<1>a. /\ memory[p] \in Memory /\ memory \in [Procs -> Memory] /\ Shape(p)
      /\ entries \subseteq Messages /\ dropped \in [Targets -> Nat]
      /\ configured \subseteq Targets /\ up \subseteq Targets /\ happened \in 0..MaxEvents
      /\ outbox \in Procs \cup {None} /\ deployment \in Procs \cup {None}
  BY DEF TypeInv, Typed
<1>b. p # None
  BY NoneAssumption DEF Procs
<1>1. CASE Flush(p)
  <2>1. PICK m : /\ memory' = [memory EXCEPT ![p] = m]
                 /\ \/ m = Idle
                    \/ \E pc \in {"lock", "sent"} : m = [[Idle EXCEPT !.notifiers = configured] EXCEPT !.pc = pc]
    BY <1>1 DEF Flush, Becomes
  <2>2. m \in Memory /\ m.pc \in {"idle", "lock", "sent"}
    <3>1. [Idle EXCEPT !.notifiers = configured] \in Memory /\ "lock" \in Pcs /\ "sent" \in Pcs
      BY <1>a, IdleTyped DEF Pcs
    <3>2. \A pc \in {"lock", "sent"} :
            /\ [[Idle EXCEPT !.notifiers = configured] EXCEPT !.pc = pc] \in Memory
            /\ [[Idle EXCEPT !.notifiers = configured] EXCEPT !.pc = pc].pc = pc
      BY <3>1 DEF Memory
    <3>3. QED
      BY <2>1, <3>2, IdleTyped
  <2>3. QED
    BY <1>1, <1>a, <2>1, <2>2, QuietMove
       DEF Flush, At, disk, locks, world, Sending, Forgetting, Writing
<1>2. CASE Busy(p)
  <2>1. memory[p].pc = "lock" /\ Sent(p) \in Memory /\ Sent(p).pc \in {"sent", "idle"}
    BY <1>2, SentTyped DEF Busy, At
  <2>2. memory' = [memory EXCEPT ![p] = Sent(p)] /\ UNCHANGED <<disk, locks, world>>
    BY <1>2 DEF Busy, Becomes
  <2>3. memory'[p] = Sent(p) /\ memory' = [memory EXCEPT ![p] = memory'[p]]
    BY <1>a, <2>2
  <2>4. QED
    BY <1>a, <2>1, <2>2, <2>3, QuietMove DEF disk, locks, world, Sending, Forgetting, Writing
<1>3. CASE Take(p)
  <2>1. memory'[p] = [memory[p] EXCEPT !.pc = "send", !.names = entries, !.pending = configured]
        /\ memory' = [memory EXCEPT ![p] = memory'[p]]
    BY <1>3, <1>a DEF Take, Becomes
  <2>2. memory'[p] \in Memory /\ memory'[p].pc = "send"
    <3>1. "send" \in Pcs /\ entries \in SUBSET Messages /\ configured \in SUBSET Targets
      BY <1>a DEF Pcs, Sending
    <3>2. QED
      BY <1>a, <2>1, <3>1 DEF Memory
  <2>3. /\ outbox = None /\ outbox' = p /\ deployment' = deployment /\ memory[p].pc = "lock"
        /\ UNCHANGED <<entries, dropped, configured, up, happened>>
    BY <1>3 DEF Take, OutboxFree, At, disk, world
  <2>4. Shape(p)'
    BY <2>2, <2>3, <1>a DEF Shape, Sending, Forgetting, Writing
  <2>5. \A q \in Procs \ {p} : (outbox' = q <=> outbox = q) /\ (deployment' = q <=> deployment = q)
    BY <2>3, NoneAssumption DEF Procs
  <2>6. QED
    BY <2>1, <2>2, <2>3, <2>4, <2>5, <1>a, OneMoves
<1>4. CASE Read(p)
  <2>1. PICK msg \in Oldest(memory[p].names) : ReadOf(p, msg)
    BY <1>4, ReadOne
  <2>2. msg \in Messages /\ msg[2] \in Targets
        /\ msg \in (0..MaxEvents) \X (Targets \cup {None})
    BY <1>a, Numbers DEF Oldest, Memory, Messages
  <2>3. PICK m : /\ memory' = [memory EXCEPT ![p] = m]
                 /\ \/ m = Rest(p, msg)
                    \/ m = [Rest(p, msg) EXCEPT !.down = Rest(p, msg).down \cup {msg[2]}]
                    \/ m = [Rest(p, msg) EXCEPT !.pc = "post", !.at = msg]
    BY <2>1 DEF ReadOf
  <2>4. /\ Rest(p, msg) \in Memory /\ Rest(p, msg).pc = memory[p].pc
    BY <1>a DEF Rest, Memory
  <2>5. memory[p].pc = "send"
    BY <1>4 DEF Read, At
  <2>6. m \in Memory /\ m.pc \in {"post", "send"} /\ (m.pc = "post" => m.at = msg)
    <3>1. CASE m = Rest(p, msg)
      BY <2>4, <2>5, <3>1
    <3>2. CASE m = [Rest(p, msg) EXCEPT !.down = Rest(p, msg).down \cup {msg[2]}]
      BY <2>2, <2>4, <2>5, <3>2 DEF Memory
    <3>3. CASE m = [Rest(p, msg) EXCEPT !.pc = "post", !.at = msg]
      BY <2>2, <2>4, <2>5, <3>3 DEF Memory, Pcs, Sending
    <3>4. QED
      BY <2>3, <3>1, <3>2, <3>3
  <2>7. QED
    BY <1>4, <1>a, <2>1, <2>2, <2>3, <2>5, <2>6, QuietMove
       DEF Read, ReadOf, locks, world, Sending, Forgetting, Writing
<1>5. CASE Post(p)
  <2>1. PICK m : /\ memory' = [memory EXCEPT ![p] = m]
                 /\ \/ m = [memory[p] EXCEPT !.pc = "remove"]
                    \/ m = [memory[p] EXCEPT !.pc = "send", !.at = Idle.at,
                                             !.down = memory[p].down \cup {memory[p].at[2]}]
    BY <1>5, <1>a DEF Post, Becomes, Memory
  <2>2. memory[p].pc = "post" /\ memory[p].at \in Messages /\ memory[p].at[2] \in Targets
        /\ Idle.at \in (0..MaxEvents) \X (Targets \cup {None})
    BY <1>5, <1>a, IdleTyped DEF Post, At, Shape, Messages, Memory
  <2>3. m \in Memory /\ m.pc \in {"remove", "send"} /\ (m.pc = "remove" => m.at = memory[p].at)
    <3>1. CASE m = [memory[p] EXCEPT !.pc = "remove"]
      BY <3>1, <1>a DEF Memory, Pcs, Sending
    <3>2. CASE m = [memory[p] EXCEPT !.pc = "send", !.at = Idle.at,
                                     !.down = memory[p].down \cup {memory[p].at[2]}]
      <4>1. memory[p].down \cup {memory[p].at[2]} \in SUBSET Targets
        BY <2>2, <1>a DEF Memory
      <4>2. "send" \in Pcs
        BY DEF Pcs, Sending
      <4>3. QED
        BY <2>2, <3>2, <4>1, <4>2, <1>a DEF Memory
    <3>3. QED
      BY <2>1, <3>1, <3>2
  <2>4. QED
    BY <1>5, <1>a, <2>1, <2>2, <2>3, QuietMove
       DEF Post, disk, locks, world, Sending, Forgetting, Writing
<1>6. CASE RemoveEntry(p)
  <2>1. PICK m : /\ memory' = [memory EXCEPT ![p] = m]
                 /\ m = [memory[p] EXCEPT !.pc = "send", !.at = Idle.at]
    BY <1>6 DEF RemoveEntry, Becomes
  <2>2. m \in Memory /\ m.pc = "send"
    BY <2>1, <1>a, IdleTyped DEF Memory, Pcs, Sending
  <2>3. memory[p].pc = "remove" /\ entries' \subseteq Messages
    BY <1>6, <1>a DEF RemoveEntry, At
  <2>4. QED
    BY <1>6, <1>a, <2>1, <2>2, <2>3, QuietMove
       DEF RemoveEntry, locks, world, Sending, Forgetting, Writing
<1>7. CASE CaughtUp(p)
  <2>1. /\ memory'[p] = Sent(p) /\ memory' = [memory EXCEPT ![p] = memory'[p]]
        /\ Sent(p) \in Memory /\ Sent(p).pc \in {"sent", "idle"}
    BY <1>7, <1>a, SentTyped DEF CaughtUp, Becomes
  <2>2. outbox = p /\ outbox' = None /\ deployment' = deployment /\ memory[p].pc = "send"
    BY <1>7, <1>a DEF CaughtUp, At, Shape, Sending
  <2>3. dropped' \in [Targets -> Nat]
    BY <1>7, <1>a, Numbers DEF CaughtUp
  <2>4. Shape(p)'
    BY <2>1, <2>2, <1>a, <1>b DEF Shape, Sending, Forgetting, Writing
  <2>5. \A q \in Procs \ {p} : (outbox' = q <=> outbox = q) /\ (deployment' = q <=> deployment = q)
    BY <2>2, NoneAssumption DEF Procs
  <2>6. QED
    BY <1>7, <2>1, <2>2, <2>3, <2>4, <2>5, <1>a, OneMoves DEF CaughtUp, world
<1>8. QED
  BY <1>1, <1>2, <1>3, <1>4, <1>5, <1>6, <1>7 DEF Sends

\* Targets come and go, and processes.
LEMMA OthersTyped ==
  ASSUME TypeInv, NEW p \in Procs, Wire(p) \/ Changes(p) \/ Leave(p) \/ Crash(p)
  PROVE  TypeInv'
<1>a. /\ memory[p] \in Memory /\ memory \in [Procs -> Memory] /\ Shape(p)
      /\ entries \subseteq Messages /\ dropped \in [Targets -> Nat]
      /\ configured \subseteq Targets /\ up \subseteq Targets /\ happened \in 0..MaxEvents
      /\ outbox \in Procs \cup {None} /\ deployment \in Procs \cup {None}
  BY DEF TypeInv, Typed
<1>b. p # None
  BY NoneAssumption DEF Procs
<1>1. CASE Wire(p)
  <2>1. PICK m : memory' = [memory EXCEPT ![p] = m] /\ m = [Idle EXCEPT !.pc = "wired", !.notifiers = configured]
    BY <1>1 DEF Wire, Becomes
  <2>2. m \in Memory /\ m.pc = "wired"
    BY <2>1, <1>a, IdleTyped DEF Memory, Pcs
  <2>3. QED
    BY <1>1, <1>a, <2>1, <2>2, QuietMove
       DEF Wire, At, disk, locks, world, Sending, Forgetting, Writing
<1>2. CASE Leave(p)
  BY <1>2, <1>a, IdleTyped, QuietMove
     DEF Leave, At, Becomes, disk, locks, world, Sending, Forgetting, Writing
<1>3. CASE AddTarget(p)
  BY <1>3, <1>a, IdleTyped, QuietMove
     DEF AddTarget, At, Becomes, disk, locks, world, Sending, Forgetting, Writing
<1>4. CASE RemoveTarget(p)
  <2>1. PICK t \in Targets : /\ memory' = [memory EXCEPT ![p] = [Idle EXCEPT !.pc = "forget", !.target = t]]
                             /\ configured' = configured \ {t}
    BY <1>4, <1>a DEF RemoveTarget, Becomes
  <2>2. memory'[p] \in Memory /\ memory'[p].pc = "forget" /\ memory'[p].target = t
        /\ memory' = [memory EXCEPT ![p] = memory'[p]]
    <3>1. Idle \in Memory /\ "forget" \in Pcs
      BY IdleTyped DEF Pcs, Forgetting
    <3>2. [Idle EXCEPT !.pc = "forget", !.target = t] \in Memory
      BY <3>1 DEF Memory
    <3>3. /\ [Idle EXCEPT !.pc = "forget", !.target = t].pc = "forget"
          /\ [Idle EXCEPT !.pc = "forget", !.target = t].target = t
      BY <3>1 DEF Memory
    <3>4. QED
      BY <2>1, <1>a, <3>2, <3>3
  <2>3. /\ outbox' = outbox /\ deployment = None /\ deployment' = p /\ memory[p].pc = "idle"
        /\ UNCHANGED <<entries, dropped, up, happened>>
    BY <1>4 DEF RemoveTarget, At, disk
  <2>4. Shape(p)'
    BY <2>2, <2>3, <1>a DEF Shape, Sending, Forgetting, Writing
  <2>5. \A q \in Procs \ {p} : (outbox' = q <=> outbox = q) /\ (deployment' = q <=> deployment = q)
    BY <2>3, NoneAssumption DEF Procs
  <2>6. QED
    BY <2>1, <2>2, <2>3, <2>4, <2>5, <1>a, OneMoves
<1>5. CASE ForgetTarget(p)
  <2>1. /\ memory' = [memory EXCEPT ![p] = [memory[p] EXCEPT !.pc = "forgetting",
                                             !.names = Of(memory[p].target, entries)]]
        /\ Of(memory[p].target, entries) \in SUBSET Messages
    BY <1>5, <1>a DEF ForgetTarget, Becomes, Of
  <2>2. memory'[p] \in Memory /\ memory'[p].pc = "forgetting" /\ memory'[p].target = memory[p].target
        /\ memory' = [memory EXCEPT ![p] = memory'[p]]
    BY <2>1, <1>a DEF Memory, Pcs, Forgetting
  <2>3. /\ outbox = None /\ outbox' = p /\ deployment' = deployment /\ memory[p].pc = "forget"
        /\ UNCHANGED <<entries, dropped, configured, up, happened>>
    BY <1>5 DEF ForgetTarget, OutboxFree, At, disk, world
  <2>4. Shape(p)'
    BY <2>2, <2>3, <1>a DEF Shape, Sending, Forgetting, Writing
  <2>5. \A q \in Procs \ {p} : (outbox' = q <=> outbox = q) /\ (deployment' = q <=> deployment = q)
    BY <2>3, NoneAssumption DEF Procs
  <2>6. QED
    BY <2>2, <2>3, <2>4, <2>5, <1>a, OneMoves
<1>6. CASE Forgotten(p) \/ Crash(p)
  <2>1. /\ memory'[p] = Idle /\ memory' = [memory EXCEPT ![p] = memory'[p]]
        /\ outbox' = (IF outbox = p THEN None ELSE outbox)
        /\ UNCHANGED <<configured, up, happened>> /\ entries' \subseteq Messages
        /\ dropped' \in [Targets -> Nat]
    BY <1>6, <1>a, Numbers DEF Forgotten, Crash, Becomes, disk, world
  <2>2. deployment' = (IF deployment = p THEN None ELSE deployment)
    BY <1>6, <1>a DEF Forgotten, Crash, At, Shape, Forgetting
  <2>3. Shape(p)'
    BY <2>1, <2>2, <1>b, IdleTyped DEF Shape, Sending, Forgetting, Writing
  <2>4. /\ outbox' \in Procs \cup {None} /\ deployment' \in Procs \cup {None}
        /\ \A q \in Procs \ {p} : (outbox' = q <=> outbox = q) /\ (deployment' = q <=> deployment = q)
    BY <2>1, <2>2, <1>a, NoneAssumption DEF Procs
  <2>5. QED
    BY <2>1, <2>3, <2>4, <1>a, IdleTyped, OneMoves
<1>7. QED
  BY <1>1, <1>2, <1>3, <1>4, <1>5, <1>6 DEF Changes

LEMMA TypeStep == TypeInv /\ [Next]_vars => TypeInv'
<1>1. ASSUME TypeInv, NEW t \in Targets, Weather(t) PROVE TypeInv'
  BY <1>1 DEF TypeInv, Typed, Shape, Weather, GoesDown, ComesUp, disk, locks
<1>2. ASSUME TypeInv, UNCHANGED vars PROVE TypeInv'
  BY <1>2 DEF TypeInv, Typed, Shape, vars
<1>3. QED
  BY <1>1, <1>2, TellsTyped, SendsTyped, OthersTyped DEF Next

\* Types; a process sends or forgets with the lock (Outbox, TypeOK).
THEOREM TypeCorrect == Spec => []TypeOK
<1>1. QED
  BY TypeInit, TypeStep, TypeInvOK, PTL DEF Spec

-----------------------------------------------------------------------------
(* What becomes of a message *)

Known == entries \cup answered \cup forgotten

\* What a writer is yet to write nobody has seen.
Unseen(p) ==
  memory[p].pc \in Writing =>
    /\ memory[p].event <= happened
    /\ \A t \in memory[p].pending :
         /\ <<memory[p].event, t>> \notin Known
         /\ \A q \in Procs : memory[q].pc \in {"post", "remove"} =>
                               memory[q].at # <<memory[p].event, t>>

\* What a sender is about to post nobody has taken, and nobody forgot.
Unposted(p) ==
  /\ memory[p].pc \in {"post", "remove"} => memory[p].at[1] <= happened
  /\ memory[p].pc = "post" => memory[p].at \notin answered \cup forgotten

Settled ==
  /\ again = {} /\ answered \subseteq Messages /\ forgotten \subseteq Messages
  /\ \A m \in Known : m[1] <= happened
  /\ entries \cap forgotten = {}
  /\ \A m \in entries \cap answered :
       \E p \in Procs : memory[p].pc = "remove" /\ memory[p].at = m

MessageInv ==
  /\ Settled
  /\ \A p \in Procs : Unseen(p) /\ Unposted(p)
  /\ \A p, q \in Procs :
       p # q /\ memory[p].pc \in Writing /\ memory[q].pc \in Writing =>
         memory[p].event # memory[q].event

LEMMA MessageInit == Init => MessageInv
  BY IdleTyped, Numbers DEF Init, MessageInv, Settled, Known, Unseen, Unposted, Writing

\* A process moves on without an answer: it removes entries, takes one up that is
\* there and was not answered, or drops what it had at hand.
LEMMA QuietMessages ==
  ASSUME TypeInv, MessageInv, NEW p \in Procs, NEW m \in Memory,
         memory' = [memory EXCEPT ![p] = m],
         entries' \subseteq entries, UNCHANGED <<happened, answered, again, forgotten>>,
         m.pc \in Writing => /\ memory[p].pc \in Writing /\ m.event = memory[p].event
                             /\ m.pending \subseteq memory[p].pending,
         m.pc = "post" => m.at \in entries /\ m.at \notin answered,
         m.pc # "remove",
         memory[p].pc = "remove" => memory[p].at \notin entries'
  PROVE  MessageInv'
<1>1. /\ memory'[p] = m /\ \A q \in Procs \ {p} : memory'[q] = memory[q]
      /\ Known' \subseteq Known /\ happened \in Nat
  BY Numbers DEF TypeInv, Typed, Known
<1>2. Settled'
  <2>1. ASSUME NEW n \in entries' \cap answered'
        PROVE  \E q \in Procs : memory'[q].pc = "remove" /\ memory'[q].at = n
    <3>1. PICK q \in Procs : memory[q].pc = "remove" /\ memory[q].at = n
      BY <2>1 DEF MessageInv, Settled
    <3>2. q # p
      BY <3>1, <2>1
    <3>3. QED
      BY <1>1, <3>1, <3>2
  <2>2. QED
    BY <1>1, <2>1 DEF MessageInv, Settled
<1>3. ASSUME NEW q \in Procs PROVE Unseen(q)'
  <2>1. ASSUME memory'[q].pc \in Writing
        PROVE  /\ memory[q].pc \in Writing /\ memory'[q].event = memory[q].event
               /\ memory'[q].pending \subseteq memory[q].pending
    BY <1>1, <2>1
  <2>2. ASSUME memory'[q].pc \in Writing, NEW t \in memory'[q].pending, NEW r \in Procs,
               memory'[r].pc \in {"post", "remove"}
        PROVE  memory'[r].at # <<memory'[q].event, t>>
    <3>1. /\ <<memory[q].event, t>> \notin Known
          /\ memory[r].pc \in {"post", "remove"} => memory[r].at # <<memory[q].event, t>>
      BY <2>1, <2>2 DEF MessageInv, Unseen
    <3>2. CASE r = p
      BY <1>1, <2>1, <2>2, <3>1, <3>2 DEF Known
    <3>3. CASE r # p
      BY <1>1, <2>1, <2>2, <3>1, <3>3
    <3>4. QED
      BY <3>2, <3>3
  <2>3. QED
    BY <1>1, <2>1, <2>2 DEF MessageInv, Unseen
<1>4. ASSUME NEW q \in Procs PROVE Unposted(q)'
  <2>1. CASE q = p
    BY <1>1, <2>1 DEF MessageInv, Settled, Unposted, Known
  <2>2. CASE q # p
    BY <1>1, <2>2 DEF MessageInv, Unposted
  <2>3. QED
    BY <2>1, <2>2
<1>5. ASSUME NEW q \in Procs, NEW r \in Procs, q # r,
             memory'[q].pc \in Writing, memory'[r].pc \in Writing
      PROVE  memory'[q].event # memory'[r].event
  BY <1>1, <1>5 DEF MessageInv
<1>6. QED
  BY <1>2, <1>3, <1>4, <1>5 DEF MessageInv

\* A sender that is not at its removal finds no answered message in the outbox.
LEMMA NoneAnswered ==
  ASSUME TypeInv, MessageInv, NEW p \in Procs, memory[p].pc = "send"
  PROVE  entries \cap answered = {}
<1> SUFFICES ASSUME NEW m \in entries \cap answered PROVE FALSE
  OBVIOUS
<1>1. PICK q \in Procs : memory[q].pc = "remove"
  BY DEF MessageInv, Settled
<1>2. outbox = p /\ outbox = q
  BY <1>1 DEF TypeInv, Shape, Sending
<1>3. QED
  BY <1>1, <1>2

\* The actions that neither tell, write, post, forget nor crash.
LEMMA QuietActions ==
  ASSUME TypeInv, MessageInv, NEW p \in Procs,
         \/ Wire(p) \/ Leave(p) \/ List(p) \/ Drop(p) \/ Count(p) \/ Tell(p)
         \/ Flush(p) \/ Busy(p) \/ Take(p) \/ Read(p) \/ RemoveEntry(p) \/ CaughtUp(p)
         \/ AddTarget(p) \/ RemoveTarget(p) \/ ForgetTarget(p)
  PROVE  MessageInv'
<1>a. /\ memory[p] \in Memory /\ memory \in [Procs -> Memory] /\ Shape(p)
      /\ entries \subseteq Messages /\ dropped \in [Targets -> Nat]
      /\ configured \subseteq Targets
  BY DEF TypeInv, Typed
<1>b. TypeInv'
  BY TellsTyped, SendsTyped, OthersTyped DEF Tells, Sends, Changes
<1>c. memory'[p] \in Memory
  BY <1>b DEF TypeInv, Typed
<1>d. Written(p).pc \in {"idle", "write"}
      /\ (Written(p).pc = "write" => /\ Written(p).event = memory[p].event
                                     /\ Written(p).pending = memory[p].pending)
  <2>1. CASE memory[p].pending = {}
    BY <2>1, IdleTyped DEF Written
  <2>2. /\ [memory[p] EXCEPT !.pc = "write", !.over = {}, !.count = 0].pc = "write"
        /\ [memory[p] EXCEPT !.pc = "write", !.over = {}, !.count = 0].event = memory[p].event
        /\ [memory[p] EXCEPT !.pc = "write", !.over = {}, !.count = 0].pending = memory[p].pending
    BY <1>a DEF Memory
  <2>3. QED
    BY <2>1, <2>2 DEF Written
<1>e. ASSUME NEW m, memory' = [memory EXCEPT ![p] = m]
      PROVE  m = memory'[p]
  BY <1>a, <1>e
<1>1. CASE Wire(p)
  <2>1. memory'[p] = [Idle EXCEPT !.pc = "wired", !.notifiers = configured]
        /\ memory' = [memory EXCEPT ![p] = memory'[p]]
    BY <1>1, <1>a DEF Wire, Becomes
  <2>2. memory'[p].pc = "wired"
    BY <2>1 DEF Idle
  <2>3. QED
    BY <1>1, <1>c, <2>1, <2>2, QuietMessages DEF Wire, At, disk, world, history, Writing
<1>2. CASE Leave(p) \/ AddTarget(p)
  BY <1>2, IdleTyped, QuietMessages
     DEF Leave, AddTarget, At, Becomes, disk, world, history, Writing
<1>3. CASE List(p)
  <2>1. memory' = [memory EXCEPT ![p] = memory'[p]] /\ memory[p].pc = "list"
        /\ UNCHANGED <<entries, happened, answered, again, forgotten>>
    BY <1>3, <1>a DEF List, Becomes, At, disk, world, history
  <2>2. \/ memory'[p] = Written(p)
        \/ memory'[p] = [memory[p] EXCEPT !.pc = "drop", !.over = Excess(memory[p].target),
                                          !.count = Cardinality(Excess(memory[p].target))]
    BY <1>3, <1>a DEF List, Becomes
  <2>3. CASE memory'[p] = Written(p)
    BY <1>c, <1>d, <2>1, <2>3, QuietMessages DEF Writing
  <2>4. CASE memory'[p] = [memory[p] EXCEPT !.pc = "drop", !.over = Excess(memory[p].target),
                                            !.count = Cardinality(Excess(memory[p].target))]
    <3>1. memory'[p].pc = "drop" /\ memory'[p].event = memory[p].event
          /\ memory'[p].pending = memory[p].pending
      BY <1>a, <2>4 DEF Memory
    <3>2. QED
      BY <1>c, <2>1, <3>1, QuietMessages DEF Writing
  <2>5. QED
    BY <2>2, <2>3, <2>4
<1>4. CASE Drop(p)
  <2>1. PICK msg : /\ entries' = entries \ {msg}
                   /\ memory' = [memory EXCEPT ![p] =
                        [memory[p] EXCEPT !.over = memory[p].over \ {msg},
                           !.pc = IF memory[p].over = {msg} THEN "count" ELSE "drop"]]
    BY <1>4 DEF Drop, Becomes
  <2>2. /\ memory' = [memory EXCEPT ![p] = memory'[p]]
        /\ memory'[p] = [memory[p] EXCEPT !.over = memory[p].over \ {msg},
                           !.pc = IF memory[p].over = {msg} THEN "count" ELSE "drop"]
    BY <2>1, <1>a
  <2>3. /\ memory'[p].pc \in {"count", "drop"} /\ memory'[p].event = memory[p].event
        /\ memory'[p].pending = memory[p].pending
    BY <2>2, <1>a DEF Memory
  <2>4. memory[p].pc = "drop" /\ UNCHANGED <<happened, answered, again, forgotten>>
    BY <1>4 DEF Drop, At, world, history
  <2>5. QED
    BY <1>c, <2>1, <2>2, <2>3, <2>4, QuietMessages DEF Writing
<1>5. CASE Count(p)
  <2>1. /\ memory' = [memory EXCEPT ![p] = memory'[p]] /\ memory[p].pc = "count"
        /\ UNCHANGED <<entries, happened, answered, again, forgotten>>
        /\ memory'[p].pc = "tell" /\ memory'[p].event = memory[p].event
        /\ memory'[p].pending = memory[p].pending
    BY <1>5, <1>a DEF Count, Becomes, At, disk, world, history, Memory
  <2>2. QED
    BY <1>c, <2>1, QuietMessages DEF Writing
<1>6. CASE Tell(p)
  <2>1. /\ memory' = [memory EXCEPT ![p] = memory'[p]] /\ memory[p].pc = "tell"
        /\ UNCHANGED <<entries, happened, answered, again, forgotten>>
        /\ memory'[p] = Written(p)
    BY <1>6, <1>a DEF Tell, Becomes, At, world, history
  <2>2. QED
    BY <1>c, <1>d, <2>1, QuietMessages DEF Writing
<1>7. CASE Flush(p)
  <2>1. /\ memory' = [memory EXCEPT ![p] = memory'[p]] /\ memory[p].pc = "idle"
        /\ UNCHANGED <<entries, happened, answered, again, forgotten>>
        /\ memory'[p].pc \in {"lock", "sent", "idle"}
    BY <1>7, <1>a, IdleTyped DEF Flush, Becomes, At, disk, world, history, Idle
  <2>2. QED
    BY <1>c, <2>1, QuietMessages DEF Writing
<1>8. CASE Busy(p) \/ CaughtUp(p)
  <2>1. /\ memory' = [memory EXCEPT ![p] = memory'[p]] /\ memory[p].pc \in {"lock", "send"}
        /\ UNCHANGED <<entries, happened, answered, again, forgotten>>
        /\ memory'[p].pc \in {"sent", "idle"}
    BY <1>8, <1>a, SentTyped DEF Busy, CaughtUp, Becomes, At, disk, world, history
  <2>2. QED
    BY <1>c, <2>1, QuietMessages DEF Writing
<1>9. CASE Take(p) \/ ForgetTarget(p)
  <2>1. \/ /\ memory' = [memory EXCEPT ![p] = [memory[p] EXCEPT !.pc = "send", !.names = entries,
                                                               !.pending = configured]]
           /\ memory[p].pc = "lock"
        \/ /\ memory' = [memory EXCEPT ![p] = [memory[p] EXCEPT !.pc = "forgetting",
                                                 !.names = Of(memory[p].target, entries)]]
           /\ memory[p].pc = "forget"
    BY <1>9 DEF Take, ForgetTarget, Becomes, At
  <2>2. UNCHANGED <<entries, happened, answered, again, forgotten>>
    BY <1>9 DEF Take, ForgetTarget, disk, world, history
  <2>3. memory' = [memory EXCEPT ![p] = memory'[p]]
    BY <2>1, <1>a
  <2>4. \/ memory'[p] = [memory[p] EXCEPT !.pc = "send", !.names = entries, !.pending = configured]
        \/ memory'[p] = [memory[p] EXCEPT !.pc = "forgetting",
                                          !.names = Of(memory[p].target, entries)]
    BY <2>1, <1>a
  <2>5. memory'[p].pc \in {"send", "forgetting"}
    BY <2>4, <1>a DEF Memory
  <2>6. QED
    BY <1>c, <2>1, <2>2, <2>3, <2>5, QuietMessages DEF Writing
<1>10. CASE Read(p)
  <2>1. PICK m \in Oldest(memory[p].names) : ReadOf(p, m)
    BY <1>10, ReadOne
  <2>2. memory[p].pc = "send" /\ UNCHANGED <<happened, answered, again, forgotten>>
    BY <1>10 DEF Read, At, world, history
  <2>3. entries \cap answered = {}
    BY <2>2, NoneAnswered
  <2>4. /\ memory' = [memory EXCEPT ![p] = memory'[p]] /\ entries' \subseteq entries
        /\ \/ memory'[p] = Rest(p, m)
           \/ memory'[p] = [Rest(p, m) EXCEPT !.down = Rest(p, m).down \cup {m[2]}]
           \/ m \in entries /\ memory'[p] = [Rest(p, m) EXCEPT !.pc = "post", !.at = m]
    BY <2>1, <1>a DEF ReadOf
  <2>5. \/ memory'[p].pc = "send"
        \/ memory'[p].pc = "post" /\ memory'[p].at \in entries
    <3>1. Rest(p, m) \in [pc : {"send"}, notifiers : SUBSET Targets, event : 0..MaxEvents,
             pending : SUBSET Targets, target : Targets \cup {None}, over : SUBSET Messages,
             count : Nat, names : SUBSET Messages, down : SUBSET Targets,
             at : (0..MaxEvents) \X (Targets \cup {None})]
      BY <1>a, <2>2 DEF Rest, Memory
    <3>2. QED
      BY <2>4, <3>1
  <2>6. QED
    BY <1>c, <2>2, <2>3, <2>4, <2>5, QuietMessages DEF Writing
<1>11. CASE RemoveEntry(p)
  <2>1. /\ memory' = [memory EXCEPT ![p] = memory'[p]] /\ memory[p].pc = "remove"
        /\ entries' = entries \ {memory[p].at}
        /\ UNCHANGED <<happened, answered, again, forgotten>>
        /\ memory'[p].pc = "send"
    BY <1>11, <1>a DEF RemoveEntry, Becomes, At, world, history, Memory
  <2>2. QED
    BY <1>c, <2>1, QuietMessages DEF Writing
<1>12. CASE RemoveTarget(p)
  <2>1. /\ memory' = [memory EXCEPT ![p] = memory'[p]] /\ memory[p].pc = "idle"
        /\ UNCHANGED <<entries, happened, answered, again, forgotten>>
        /\ memory'[p].pc = "forget"
    BY <1>12, <1>a, IdleTyped DEF RemoveTarget, Becomes, At, disk, history, Idle
  <2>2. QED
    BY <1>c, <2>1, QuietMessages DEF Writing
<1>13. QED
  BY <1>1, <1>2, <1>3, <1>4, <1>5, <1>6, <1>7, <1>8, <1>9, <1>10, <1>11, <1>12

\* An event happens: its number is new to everybody.
LEMMA NotifyMessages ==
  ASSUME TypeInv, MessageInv, NEW p \in Procs, Notify(p)
  PROVE  MessageInv'
<1>1. /\ memory[p] \in Memory /\ memory \in [Procs -> Memory] /\ up \subseteq Targets
      /\ happened \in 0..MaxEvents /\ happened < MaxEvents /\ happened' = happened + 1
      /\ memory[p].notifiers \subseteq Targets /\ entries' = entries /\ forgotten' = forgotten
      /\ memory[p].pc \in {"sent", "wired"} /\ MaxEvents \in Nat
  BY Numbers DEF TypeInv, Typed, Notify, At, Answers, disk, Memory
<1>2. PICK new : new = {happened + 1} \X (memory[p].notifiers \cap up)
  OBVIOUS
<1>3. answered' = answered \cup new /\ again' = again \cup (new \cap answered)
  BY <1>1, <1>2 DEF Notify, Answers
<1>4. \A m \in new : m \in Messages /\ m[1] = happened + 1 /\ m[2] \in up
  BY <1>1, <1>2 DEF Messages
<1>5. /\ memory' = [memory EXCEPT ![p] = memory'[p]]
      /\ \A q \in Procs \ {p} : memory'[q] = memory[q]
      /\ \/ memory'[p] = Idle
         \/ memory'[p] = [Idle EXCEPT !.pc = "write", !.event = happened + 1,
                                      !.pending = memory[p].notifiers \ up]
  BY <1>1 DEF Notify, Becomes
<1>6. \/ memory'[p].pc = "idle"
      \/ /\ memory'[p].pc = "write" /\ memory'[p].event = happened + 1
         /\ memory'[p].pending = memory[p].notifiers \ up
  <2>1. CASE memory'[p] = Idle
    BY <2>1, IdleTyped
  <2>2. CASE memory'[p] = [Idle EXCEPT !.pc = "write", !.event = happened + 1,
                                       !.pending = memory[p].notifiers \ up]
    BY <2>2 DEF Idle
  <2>3. QED
    BY <1>5, <2>1, <2>2
<1>7. new \cap Known = {}
  BY <1>1, <1>4 DEF MessageInv, Settled, Messages
<1>8. Settled'
  <2>1. ASSUME NEW m \in entries' \cap answered'
        PROVE  \E q \in Procs : memory'[q].pc = "remove" /\ memory'[q].at = m
    <3>1. m \in entries \cap answered
      BY <1>1, <1>3, <1>7, <2>1 DEF Known
    <3>2. PICK q \in Procs : memory[q].pc = "remove" /\ memory[q].at = m
      BY <3>1 DEF MessageInv, Settled
    <3>3. QED
      BY <1>1, <1>5, <3>2
  <2>2. again' = {} /\ answered' \subseteq Messages /\ forgotten' \subseteq Messages
        /\ entries' \cap forgotten' = {}
    BY <1>1, <1>3, <1>4, <1>7 DEF MessageInv, Settled, Known
  <2>3. ASSUME NEW m \in Known' PROVE m[1] <= happened'
    <3>1. CASE m \in new
      BY <1>1, <1>4, <3>1
    <3>2. CASE m \in Known
      <4>1. m \in Messages /\ m[1] <= happened
        BY <3>2 DEF MessageInv, Settled, Known, TypeInv, Typed
      <4>2. m[1] \in 1..MaxEvents
        BY <4>1 DEF Messages
      <4>3. QED
        BY <1>1, <4>1, <4>2
    <3>3. QED
      BY <1>1, <1>3, <2>3, <3>1, <3>2 DEF Known
  <2>4. QED
    BY <2>1, <2>2, <2>3 DEF Settled
<1>9. ASSUME NEW q \in Procs, memory[q].pc \in {"post", "remove"}
      PROVE  /\ q # p /\ memory[q].at[1] \in 1..MaxEvents /\ memory[q].at[1] <= happened
  BY <1>1, <1>9 DEF TypeInv, Shape, Messages, MessageInv, Unposted
<1>10. ASSUME NEW q \in Procs \ {p}, memory[q].pc \in Writing
       PROVE  memory[q].event \in 1..MaxEvents /\ memory[q].event <= happened
  BY <1>10 DEF TypeInv, Shape, MessageInv, Unseen
<1>11. Unseen(p)'
  <2> SUFFICES ASSUME memory'[p].pc = "write", memory'[p].event = happened + 1,
                      memory'[p].pending = memory[p].notifiers \ up
               PROVE  Unseen(p)'
    BY <1>6 DEF Unseen, Writing
  <2>1. ASSUME NEW t \in memory'[p].pending PROVE <<happened + 1, t>> \notin Known'
    <3>1. <<happened + 1, t>> \notin new
      BY <1>4, <2>1
    <3>2. <<happened + 1, t>> \notin Known
      BY <1>1 DEF MessageInv, Settled
    <3>3. QED
      BY <1>1, <1>3, <3>1, <3>2 DEF Known
  <2>2. ASSUME NEW t \in memory'[p].pending, NEW q \in Procs,
               memory'[q].pc \in {"post", "remove"}
        PROVE  memory'[q].at # <<happened + 1, t>>
    <3>1. q # p
      BY <2>2
    <3>2. memory[q].at[1] <= happened /\ memory[q].at[1] \in 1..MaxEvents /\ memory'[q] = memory[q]
      BY <1>5, <1>9, <2>2, <3>1
    <3>3. QED
      BY <1>1, <3>2
  <2>3. QED
    BY <1>1, <2>1, <2>2 DEF Unseen
<1>12. ASSUME NEW q \in Procs \ {p} PROVE Unseen(q)'
  <2> SUFFICES ASSUME memory[q].pc \in Writing PROVE Unseen(q)'
    BY <1>5 DEF Unseen
  <2>1. memory'[q] = memory[q] /\ memory[q].event <= happened /\ memory[q].event \in 1..MaxEvents
    BY <1>5, <1>10
  <2>2. ASSUME NEW t \in memory[q].pending
        PROVE  /\ <<memory[q].event, t>> \notin Known'
               /\ \A r \in Procs : memory'[r].pc \in {"post", "remove"} =>
                                     memory'[r].at # <<memory[q].event, t>>
    <3>1. /\ <<memory[q].event, t>> \notin Known
          /\ \A r \in Procs : memory[r].pc \in {"post", "remove"} =>
                                memory[r].at # <<memory[q].event, t>>
      BY <2>2 DEF MessageInv, Unseen
    <3>2. <<memory[q].event, t>> \notin new
      BY <1>1, <1>4, <2>1
    <3>3. \A r \in Procs : memory'[r].pc \in {"post", "remove"} => r # p
      BY <1>6
    <3>4. QED
      BY <1>1, <1>3, <1>5, <3>1, <3>2, <3>3 DEF Known
  <2>3. QED
    BY <1>1, <2>1, <2>2 DEF Unseen
<1>13. ASSUME NEW q \in Procs PROVE Unposted(q)'
  <2>1. CASE memory'[q].pc \in {"post", "remove"}
    <3>1. q # p /\ memory'[q] = memory[q]
      BY <1>5, <1>6, <2>1
    <3>2. /\ memory[q].at[1] <= happened /\ memory[q].at[1] \in 1..MaxEvents
          /\ memory[q].pc = "post" => memory[q].at \notin answered \cup forgotten
      BY <1>9, <2>1, <3>1 DEF MessageInv, Unposted
    <3>3. memory[q].at \notin new
      BY <1>1, <1>4, <3>2
    <3>4. QED
      BY <1>1, <1>3, <3>1, <3>2, <3>3 DEF Unposted
  <2>2. QED
    BY <2>1 DEF Unposted
<1>14. ASSUME NEW q \in Procs, NEW r \in Procs, q # r,
              memory'[q].pc \in Writing, memory'[r].pc \in Writing
       PROVE  memory'[q].event # memory'[r].event
  <2>1. CASE q # p /\ r # p
    BY <1>5, <1>14, <2>1 DEF MessageInv
  <2>2. CASE q = p
    BY <1>1, <1>5, <1>6, <1>10, <1>14, <2>2 DEF Writing
  <2>3. CASE r = p
    BY <1>1, <1>5, <1>6, <1>10, <1>14, <2>3 DEF Writing
  <2>4. QED
    BY <2>1, <2>2, <2>3
<1>15. QED
  BY <1>8, <1>11, <1>12, <1>13, <1>14 DEF MessageInv

LEMMA WriteMessages ==
  ASSUME TypeInv, MessageInv, NEW p \in Procs, Write(p)
  PROVE  MessageInv'
<1>1. PICK t \in memory[p].pending :
        /\ entries' = entries \cup {<<memory[p].event, t>>}
        /\ memory' = [memory EXCEPT ![p] =
             [memory[p] EXCEPT !.pc = "list", !.target = t, !.pending = memory[p].pending \ {t}]]
  BY DEF Write, Becomes
<1>2. PICK msg : msg = <<memory[p].event, t>>
  OBVIOUS
<1>3. /\ memory[p] \in Memory /\ memory \in [Procs -> Memory] /\ memory[p].pc = "write"
      /\ UNCHANGED <<happened, answered, again, forgotten>>
      /\ memory[p].event \in 1..MaxEvents /\ memory[p].event <= happened
  BY DEF TypeInv, Typed, Shape, MessageInv, Unseen, Write, At, world, history, Writing
<1>4. /\ memory'[p].pc = "list" /\ memory'[p].event = memory[p].event
      /\ memory'[p].pending = memory[p].pending \ {t}
      /\ \A q \in Procs \ {p} : memory'[q] = memory[q]
  <2>1. /\ memory'[p] = [memory[p] EXCEPT !.pc = "list", !.target = t,
                                           !.pending = memory[p].pending \ {t}]
        /\ \A q \in Procs \ {p} : memory'[q] = memory[q]
    BY <1>1, <1>3
  <2>2. QED
    BY <1>3, <2>1 DEF Memory
<1>5. /\ msg \notin Known /\ Known' = Known \cup {msg} /\ msg[1] = memory[p].event
      /\ \A q \in Procs : memory[q].pc \in {"post", "remove"} => memory[q].at # msg
  BY <1>1, <1>2, <1>3 DEF MessageInv, Unseen, Known, Writing
<1>6. Settled'
  <2>1. ASSUME NEW m \in entries' \cap answered'
        PROVE  \E q \in Procs : memory'[q].pc = "remove" /\ memory'[q].at = m
    <3>1. m \in entries \cap answered
      BY <1>1, <1>2, <1>3, <1>5, <2>1 DEF Known
    <3>2. PICK q \in Procs : memory[q].pc = "remove" /\ memory[q].at = m
      BY <3>1 DEF MessageInv, Settled
    <3>3. QED
      BY <1>3, <1>4, <3>2
  <2>2. entries' \cap forgotten' = {}
    BY <1>1, <1>2, <1>3, <1>5 DEF MessageInv, Settled, Known
  <2>3. QED
    BY <1>3, <1>5, <2>1, <2>2 DEF MessageInv, Settled
<1>7. ASSUME NEW q \in Procs PROVE Unseen(q)'
  <2> SUFFICES ASSUME memory'[q].pc \in Writing PROVE Unseen(q)'
    BY DEF Unseen
  <2>1. /\ memory[q].pc \in Writing /\ memory'[q].event = memory[q].event
        /\ memory'[q].pending \subseteq memory[q].pending
    BY <1>3, <1>4 DEF Writing
  <2>2. ASSUME NEW u \in memory'[q].pending
        PROVE  /\ <<memory[q].event, u>> # msg
               /\ <<memory[q].event, u>> \notin Known
               /\ \A r \in Procs : memory'[r].pc \in {"post", "remove"} =>
                                     memory'[r].at # <<memory[q].event, u>>
    <3>1. /\ <<memory[q].event, u>> \notin Known
          /\ \A r \in Procs : memory[r].pc \in {"post", "remove"} =>
                                memory[r].at # <<memory[q].event, u>>
      BY <2>1, <2>2 DEF MessageInv, Unseen
    <3>2. <<memory[q].event, u>> # msg
      <4>1. CASE q = p
        BY <1>2, <1>4, <2>2, <4>1
      <4>2. CASE q # p
        BY <1>2, <1>3, <2>1, <4>2 DEF MessageInv, Writing
      <4>3. QED
        BY <4>1, <4>2
    <3>3. QED
      BY <1>4, <3>1, <3>2
  <2>3. memory[q].event <= happened
    BY <2>1 DEF MessageInv, Unseen
  <2>4. QED
    BY <1>3, <1>5, <2>1, <2>2, <2>3 DEF Unseen
<1>8. ASSUME NEW q \in Procs PROVE Unposted(q)'
  BY <1>3, <1>4 DEF MessageInv, Unposted
<1>9. ASSUME NEW q \in Procs, NEW r \in Procs, q # r,
             memory'[q].pc \in Writing, memory'[r].pc \in Writing
      PROVE  memory'[q].event # memory'[r].event
  <2>1. ASSUME NEW o \in Procs, memory'[o].pc \in Writing
        PROVE  memory[o].pc \in Writing /\ memory'[o].event = memory[o].event
    BY <1>3, <1>4, <2>1 DEF Writing
  <2>2. QED
    BY <1>9, <2>1 DEF MessageInv
<1>10. QED
  BY <1>6, <1>7, <1>8, <1>9 DEF MessageInv

\* A target answers the sender.
LEMMA PostMessages ==
  ASSUME TypeInv, MessageInv, NEW p \in Procs, Post(p)
  PROVE  MessageInv'
<1>1. /\ memory[p] \in Memory /\ memory \in [Procs -> Memory] /\ memory[p].pc = "post"
      /\ UNCHANGED <<entries, happened, forgotten>>
      /\ memory[p].at \in Messages /\ memory[p].at \notin answered \cup forgotten
      /\ memory[p].at[1] <= happened
  BY DEF TypeInv, Typed, Shape, MessageInv, Unposted, Post, At, disk, world, Answers, history
<1>2. CASE memory[p].at[2] \notin up
  <2>1. /\ memory' = [memory EXCEPT ![p] = memory'[p]]
        /\ memory'[p] = [memory[p] EXCEPT !.pc = "send", !.at = Idle.at,
                                          !.down = memory[p].down \cup {memory[p].at[2]}]
        /\ UNCHANGED <<answered, again>>
    BY <1>1, <1>2 DEF Post, Becomes, history
  <2>2. memory'[p].pc = "send"
    BY <1>1, <2>1 DEF Memory
  <2>3. memory'[p] \in Memory
    BY SendsTyped DEF Sends, TypeInv, Typed
  <2>4. QED
    BY <1>1, <2>1, <2>2, <2>3, QuietMessages DEF Writing
<1>3. CASE memory[p].at[2] \in up
  <2>1. /\ memory'[p] = [memory[p] EXCEPT !.pc = "remove"]
        /\ \A q \in Procs \ {p} : memory'[q] = memory[q]
        /\ answered' = answered \cup {memory[p].at}
        /\ again' = again \cup ({memory[p].at} \cap answered)
    BY <1>1, <1>3 DEF Post, Becomes, Answers
  <2>2. memory'[p].pc = "remove" /\ memory'[p].at = memory[p].at
    BY <1>1, <2>1 DEF Memory
  <2>3. Settled'
    <3>1. ASSUME NEW m \in entries' \cap answered'
          PROVE  \E q \in Procs : memory'[q].pc = "remove" /\ memory'[q].at = m
      <4>1. CASE m = memory[p].at
        BY <2>2, <4>1
      <4>2. CASE m \in answered
        <5>1. PICK q \in Procs : memory[q].pc = "remove" /\ memory[q].at = m
          BY <1>1, <3>1, <4>2 DEF MessageInv, Settled
        <5>2. QED
          BY <1>1, <2>1, <5>1
      <4>3. QED
        BY <2>1, <3>1, <4>1, <4>2
    <3>2. \A m \in Known' : m[1] <= happened'
      BY <1>1, <2>1 DEF MessageInv, Settled, Known
    <3>3. QED
      BY <1>1, <2>1, <3>1, <3>2 DEF MessageInv, Settled
  <2>4. \A q \in Procs : memory'[q].pc \in {"post", "remove"} =>
                           /\ memory[q].pc \in {"post", "remove"} /\ memory'[q].at = memory[q].at
    BY <1>1, <2>1, <2>2
  <2>5. \A q \in Procs : memory'[q].pc \in Writing => q # p /\ memory'[q] = memory[q]
    BY <2>1, <2>2 DEF Writing
  <2>6. ASSUME NEW q \in Procs PROVE Unseen(q)'
    BY <1>1, <2>1, <2>4, <2>5 DEF MessageInv, Unseen, Known
  <2>7. ASSUME NEW q \in Procs PROVE Unposted(q)'
    <3>1. ASSUME q # p, memory[q].pc = "post" PROVE FALSE
      <4>1. outbox = p /\ outbox = q
        BY <1>1, <3>1 DEF TypeInv, Shape, Sending
      <4>2. QED
        BY <3>1, <4>1
    <3>2. QED
      BY <1>1, <2>1, <2>2, <2>4, <3>1 DEF MessageInv, Unposted
  <2>8. QED
    BY <2>3, <2>5, <2>6, <2>7 DEF MessageInv
<1>4. QED
  BY <1>2, <1>3

LEMMA OtherMessages ==
  ASSUME TypeInv, MessageInv, NEW p \in Procs, Forgotten(p) \/ Crash(p)
  PROVE  MessageInv'
<1>1. /\ memory \in [Procs -> Memory] /\ happened' = happened /\ again' = again
      /\ memory'[p] = Idle /\ Idle.pc = "idle" /\ \A q \in Procs \ {p} : memory'[q] = memory[q]
  BY IdleTyped DEF TypeInv, Typed, Forgotten, Crash, Becomes, world
<1>2. CASE Forgotten(p)
  <2>1. PICK gone : gone = memory[p].names \cap entries
    OBVIOUS
  <2>2. /\ entries' = entries \ gone /\ forgotten' = forgotten \cup gone /\ answered' = answered
        /\ gone \subseteq entries /\ memory[p].pc = "forgetting"
    BY <1>2, <2>1 DEF Forgotten, At
  <2>3. Known' = Known
    BY <2>2 DEF Known
  <2>4. ASSUME NEW q \in Procs, memory[q].pc \in {"post", "remove"} PROVE FALSE
    <3>1. outbox = p /\ outbox = q
      BY <2>2, <2>4 DEF TypeInv, Shape, Sending
    <3>2. QED
      BY <2>2, <2>4, <3>1
  <2>5. entries' \cap answered' = {}
    BY <2>2, <2>4 DEF MessageInv, Settled
  <2>6. Settled'
    BY <1>1, <2>2, <2>3, <2>5 DEF MessageInv, Settled, TypeInv, Typed
  <2>7. ASSUME NEW q \in Procs PROVE Unseen(q)' /\ Unposted(q)'
    BY <1>1, <2>3, <2>4 DEF MessageInv, Unseen, Unposted, Writing
  <2>8. QED
    BY <1>1, <2>6, <2>7 DEF MessageInv, Writing
<1>3. CASE Crash(p)
  <2>1. /\ UNCHANGED <<entries, forgotten>> /\ answered' \subseteq answered
        /\ memory[p].pc = "remove" => memory[p].at \notin answered'
    BY <1>3 DEF Crash, disk, At
  <2>2. Settled'
    <3>1. ASSUME NEW m \in entries' \cap answered'
          PROVE  \E q \in Procs : memory'[q].pc = "remove" /\ memory'[q].at = m
      <4>1. PICK q \in Procs : memory[q].pc = "remove" /\ memory[q].at = m
        BY <2>1, <3>1 DEF MessageInv, Settled
      <4>2. q # p
        BY <2>1, <3>1, <4>1
      <4>3. QED
        BY <1>1, <4>1, <4>2
    <3>2. QED
      BY <1>1, <2>1, <3>1 DEF MessageInv, Settled, Known
  <2>3. ASSUME NEW q \in Procs PROVE Unseen(q)' /\ Unposted(q)'
    BY <1>1, <2>1 DEF MessageInv, Unseen, Unposted, Known, Writing
  <2>4. QED
    BY <1>1, <2>2, <2>3 DEF MessageInv, Writing
<1>4. QED
  BY <1>2, <1>3

LEMMA MessageStep == TypeInv /\ MessageInv /\ [Next]_vars => MessageInv'
<1> SUFFICES ASSUME TypeInv, MessageInv, [Next]_vars PROVE MessageInv'
  OBVIOUS
<1>1. CASE (\E t \in Targets : Weather(t)) \/ UNCHANGED vars
  <2>1. UNCHANGED <<entries, answered, again, forgotten, happened, memory>>
    BY <1>1 DEF Weather, disk, history, vars
  <2>2. QED
    BY <2>1 DEF MessageInv, Settled, Known, Unseen, Unposted
<1>2. CASE \E p \in Procs : Wire(p) \/ Tells(p) \/ Sends(p) \/ Changes(p) \/ Leave(p) \/ Crash(p)
  BY <1>2, QuietActions, NotifyMessages, WriteMessages, PostMessages, OtherMessages
     DEF Tells, Sends, Changes
<1>3. QED
  BY <1>1, <1>2 DEF Next

\* No message is posted again once an answer to it was heard and its hearer
\* lived to remove it (Outbox, NeverSentTwice).
THEOREM SentOnce == Spec => []NeverSentTwice
<1>1. MessageInv => NeverSentTwice
  BY DEF MessageInv, Settled, NeverSentTwice
<1>2. QED
  BY <1>1, TypeInit, TypeStep, MessageInit, MessageStep, PTL DEF Spec

\* What a removed target was owed is never posted (Outbox, ForgottenIsNeverSent).
THEOREM ForgottenStaysUnsent == Spec => ForgottenIsNeverSent
<1>1. TypeInv /\ MessageInv
        => \A p \in Procs : At(p, "post") /\ ~At(p, "post")' => memory[p].at \notin forgotten
  BY DEF MessageInv, Unposted, At
<1>2. QED
  BY <1>1, TypeInit, TypeStep, MessageInit, MessageStep, PTL DEF Spec, ForgottenIsNeverSent

-----------------------------------------------------------------------------
(* How much a target keeps *)

\* The processes that wrote a message of the target and are not done with what it
\* keeps, those of them that remove, and what these have yet to remove.
Writers(t) == {p \in Procs : memory[p].pc \in {"list", "drop"} /\ memory[p].target = t}

Droppers(t) == {p \in Writers(t) : memory[p].pc = "drop"}

Going(S) == UNION {memory[p].over : p \in S}

\* Each process still at it accounts for one message past the bound, as each one
\* that was killed does; and so it is of what is left when any of those that remove
\* are done, whoever of them removes what another was to remove.
Fits(t) ==
  /\ IsFiniteSet(Writers(t))
  /\ \A S \in SUBSET Droppers(t) :
       Cardinality(Of(t, entries) \ Going(S)) <= Bound + crashes + Cardinality(Writers(t) \ S)

BoundInv == crashes \in Nat /\ \A t \in Targets : Fits(t)

\* Sets of a target's entries are finite, and a part counts no more than the whole.
LEMMA Counting ==
  ASSUME entries \subseteq Messages, NEW t, NEW A, A \subseteq Of(t, entries), NEW B, B \subseteq A
  PROVE  /\ IsFiniteSet(A) /\ Cardinality(A) \in Nat
         /\ IsFiniteSet(B) /\ Cardinality(B) \in Nat /\ Cardinality(B) <= Cardinality(A)
<1>1. A \in SUBSET Messages
  BY DEF Of
<1>2. IsFiniteSet(A)
  BY <1>1, Numbers, FS_Subset
<1>3. B \in SUBSET A
  OBVIOUS
<1>4. IsFiniteSet(B) /\ Cardinality(B) <= Cardinality(A)
  BY <1>2, <1>3, FS_Subset
<1>5. QED
  BY <1>2, <1>4, FS_CardinalityType

\* What a listing does not count as too much is no more than the bound: no two
\* messages of a target have as many newer ones.
LEMMA KeptFew ==
  ASSUME entries \subseteq Messages, NEW t
  PROVE  Cardinality(Of(t, entries) \ Excess(t)) <= Bound
<1> DEFINE mine     == Of(t, entries)
           newer(m) == {n \in mine : n[1] > m[1]}
           kept     == mine \ Excess(t)
           rank     == [m \in kept |-> Cardinality(newer(m))]
<1>1. Bound \in Nat /\ Bound >= 1
  BY BoundAssumption
<1>2. \A m \in mine : m[1] \in Nat /\ m[2] = t /\ m = <<m[1], m[2]>>
  BY DEF Of, Messages
<1>3. \A m \in mine : Cardinality(newer(m)) \in Nat /\ IsFiniteSet(newer(m))
  <2>1. ASSUME NEW m \in mine PROVE Cardinality(newer(m)) \in Nat /\ IsFiniteSet(newer(m))
    <3>1. newer(m) \subseteq mine
      OBVIOUS
    <3>2. QED
      BY <3>1, Counting
  <2>2. QED
    BY <2>1
<1>4. \A m \in kept : m \in mine /\ Cardinality(newer(m)) < Bound
  BY <1>1, <1>3 DEF Excess
<1>5. rank \in [kept -> 0..(Bound - 1)]
  BY <1>1, <1>3, <1>4
<1>6. ASSUME NEW m \in kept, NEW n \in kept, m[1] < n[1]
      PROVE  Cardinality(newer(m)) # Cardinality(newer(n))
  <2>1. newer(n) \in SUBSET newer(m) /\ n \in newer(m) /\ n \notin newer(n)
    BY <1>2, <1>4, <1>6
  <2>2. newer(n) # newer(m)
    BY <2>1
  <2>3. QED
    BY <1>3, <1>4, <2>1, <2>2, FS_Subset
<1>7. \A m, n \in kept : rank[m] = rank[n] => m = n
  <2>1. ASSUME NEW m \in kept, NEW n \in kept, rank[m] = rank[n] PROVE m = n
    <3>1. Cardinality(newer(m)) = Cardinality(newer(n))
      BY <2>1
    <3>2. ~(m[1] < n[1]) /\ ~(n[1] < m[1])
      BY <1>6, <3>1
    <3>3. m[1] = n[1]
      BY <1>2, <1>4, <3>2
    <3>4. QED
      BY <1>2, <1>4, <3>3
  <2>2. QED
    BY <2>1
<1>8. rank \in Injection(kept, 0..(Bound - 1))
  BY <1>5, <1>7 DEF Injection, IsInjective
<1>9. IsFiniteSet(0..(Bound - 1)) /\ Cardinality(0..(Bound - 1)) = Bound
  BY <1>1, FS_Interval
<1>10. QED
  BY <1>8, <1>9, FS_Injection

LEMMA BoundInit == Init => BoundInv
<1> SUFFICES ASSUME Init PROVE BoundInv
  OBVIOUS
<1>1. ASSUME NEW t \in Targets PROVE Fits(t)
  <2>1. Writers(t) = {} /\ Droppers(t) = {} /\ Of(t, entries) = {}
    BY IdleTyped DEF Init, Writers, Droppers, Of
  <2>2. \A S \in SUBSET Droppers(t) : Of(t, entries) \ Going(S) = {} /\ Writers(t) \ S = {}
    BY <2>1
  <2>3. QED
    BY <2>1, <2>2, FS_EmptySet, BoundAssumption DEF Fits, Init
<1>2. QED
  BY <1>1 DEF BoundInv, Init

\* What a step must keep of the bound: the same writers or fewer, and for each set
\* of those that will remove another one, of before, that leaves no less and that
\* counts no more.
LEMMA FitsBy ==
  ASSUME entries \subseteq Messages, NEW t \in Targets, Fits(t),
         crashes \in Nat, crashes' \in {crashes, crashes + 1},
         IsFiniteSet(Writers(t)'),
         \A S \in SUBSET Droppers(t)' : \E R \in SUBSET Droppers(t) :
            /\ Of(t, entries') \ Going(S)' \subseteq Of(t, entries) \ Going(R)
            /\ crashes + Cardinality(Writers(t) \ R) <= crashes' + Cardinality(Writers(t)' \ S)
  PROVE  Fits(t)'
<1>1. ASSUME NEW S \in SUBSET Droppers(t)'
      PROVE  Cardinality(Of(t, entries') \ Going(S)')
               <= Bound + crashes' + Cardinality(Writers(t)' \ S)
  <2>1. PICK R \in SUBSET Droppers(t) :
          /\ Of(t, entries') \ Going(S)' \subseteq Of(t, entries) \ Going(R)
          /\ crashes + Cardinality(Writers(t) \ R) <= crashes' + Cardinality(Writers(t)' \ S)
    OBVIOUS
  <2>2. Cardinality(Of(t, entries) \ Going(R)) <= Bound + crashes + Cardinality(Writers(t) \ R)
    BY DEF Fits
  <2>3. /\ Cardinality(Of(t, entries') \ Going(S)') \in Nat
        /\ Cardinality(Of(t, entries) \ Going(R)) \in Nat
        /\ Cardinality(Of(t, entries') \ Going(S)') <= Cardinality(Of(t, entries) \ Going(R))
    BY <2>1, Counting
  <2>4. Writers(t) \ R \in SUBSET Writers(t) /\ Writers(t)' \ S \in SUBSET Writers(t)'
    OBVIOUS
  <2>5. Cardinality(Writers(t) \ R) \in Nat /\ Cardinality(Writers(t)' \ S) \in Nat
    BY <2>4, FS_Subset, FS_CardinalityType DEF Fits
  <2>6. QED
    BY <2>1, <2>2, <2>3, <2>5, BoundAssumption
<1>2. QED
  BY <1>1 DEF Fits

\* A process that does not write of the target, before and after.
LEMMA FitsApart ==
  ASSUME TypeInv, NEW t \in Targets, Fits(t), NEW p \in Procs,
         crashes \in Nat, crashes' \in {crashes, crashes + 1},
         \A q \in Procs \ {p} : memory'[q] = memory[q],
         p \notin Writers(t), p \notin Writers(t)',
         Of(t, entries') \subseteq Of(t, entries)
  PROVE  Fits(t)'
<1>1. Writers(t)' = Writers(t) /\ Droppers(t)' = Droppers(t)
  BY DEF Writers, Droppers
<1>2. ASSUME NEW S \in SUBSET Droppers(t) PROVE Going(S)' = Going(S)
  BY DEF Going, Droppers, Writers
<1>3. Cardinality(Writers(t)) \in Nat /\ \A S : Cardinality(Writers(t) \ S) \in Nat
  <2>1. \A S : Writers(t) \ S \in SUBSET Writers(t)
    OBVIOUS
  <2>2. QED
    BY <2>1, FS_Subset, FS_CardinalityType DEF Fits
<1>4. ASSUME NEW S \in SUBSET Droppers(t)'
      PROVE  /\ S \in SUBSET Droppers(t)
             /\ Of(t, entries') \ Going(S)' \subseteq Of(t, entries) \ Going(S)
             /\ crashes + Cardinality(Writers(t) \ S) <= crashes' + Cardinality(Writers(t)' \ S)
  <2>1. S \in SUBSET Droppers(t)
    BY <1>1
  <2>2. Going(S)' = Going(S)
    BY <2>1, <1>2
  <2>3. crashes + Cardinality(Writers(t) \ S) <= crashes' + Cardinality(Writers(t)' \ S)
    BY <1>1, <1>3
  <2>4. QED
    BY <2>1, <2>2, <2>3
<1>5. IsFiniteSet(Writers(t)') /\ entries \subseteq Messages
  BY <1>1 DEF Fits, TypeInv, Typed
<1>6. QED
  BY <1>4, <1>5, FitsBy

\* A message more, and a process more that will count.
LEMMA FitsWritten ==
  ASSUME TypeInv, NEW t \in Targets, Fits(t), NEW p \in Procs, NEW msg,
         crashes \in Nat, crashes' = crashes,
         \A q \in Procs \ {p} : memory'[q] = memory[q],
         memory[p].pc = "write", memory'[p].pc = "list", memory'[p].target = t,
         entries' = entries \cup {msg}
  PROVE  Fits(t)'
<1>1. /\ Writers(t)' = Writers(t) \cup {p} /\ p \notin Writers(t)
      /\ Droppers(t)' = Droppers(t)
  BY DEF Writers, Droppers
<1>2. IsFiniteSet(Writers(t)') /\ IsFiniteSet(Writers(t)) /\ entries \subseteq Messages
  BY <1>1, FS_AddElement DEF Fits, TypeInv, Typed
<1>3. ASSUME NEW S \in SUBSET Droppers(t)'
      PROVE  Cardinality(Of(t, entries') \ Going(S)')
               <= Bound + crashes' + Cardinality(Writers(t)' \ S)
  <2> DEFINE was == Of(t, entries) \ Going(S)
             is  == Of(t, entries') \ Going(S)'
  <2>1. S \in SUBSET Droppers(t) /\ p \notin S
    BY <1>1 DEF Droppers
  <2>2. Going(S)' = Going(S)
    BY <2>1 DEF Going, Droppers, Writers
  <2>3. is \in SUBSET (was \cup {msg})
    BY <2>2 DEF Of
  <2>4. IsFiniteSet(was) /\ Cardinality(was) \in Nat
    BY <1>2, Counting
  <2>5. /\ IsFiniteSet(was \cup {msg})
        /\ Cardinality(was \cup {msg}) \in {Cardinality(was), Cardinality(was) + 1}
    BY <2>4, FS_AddElement
  <2>6. Cardinality(is) \in Nat /\ Cardinality(is) <= Cardinality(was) + 1
    <3> HIDE DEF is, was
    <3>1. IsFiniteSet(is) /\ Cardinality(is) <= Cardinality(was \cup {msg})
      BY <2>3, <2>5, FS_Subset
    <3>2. Cardinality(is) \in Nat
      BY <3>1, FS_CardinalityType
    <3>3. QED
      BY <2>4, <2>5, <3>1, <3>2
  <2>7. Writers(t)' \ S = (Writers(t) \ S) \cup {p} /\ p \notin Writers(t) \ S
    BY <1>1, <2>1
  <2>8. IsFiniteSet(Writers(t) \ S) /\ Cardinality(Writers(t) \ S) \in Nat
    BY <1>2, FS_Difference, FS_CardinalityType
  <2>9. Cardinality(Writers(t)' \ S) = Cardinality(Writers(t) \ S) + 1
    BY <2>7, <2>8, FS_AddElement
  <2>10. Cardinality(was) <= Bound + crashes + Cardinality(Writers(t) \ S)
    BY <2>1 DEF Fits
  <2>11. QED
    BY <2>4, <2>6, <2>8, <2>9, <2>10, BoundAssumption
<1>4. QED
  BY <1>2, <1>3 DEF Fits

\* A listing: with nothing past the bound the process is done, and otherwise what it
\* will remove leaves no more than the bound.
LEMMA FitsListed ==
  ASSUME TypeInv, NEW t \in Targets, Fits(t), NEW p \in Procs,
         crashes \in Nat, crashes' = crashes, entries' = entries,
         \A q \in Procs \ {p} : memory'[q] = memory[q],
         memory[p].pc = "list", memory[p].target = t,
         \/ Excess(t) = {} /\ p \notin Writers(t)'
         \/ memory'[p].pc = "drop" /\ memory'[p].target = t /\ memory'[p].over = Excess(t)
  PROVE  Fits(t)'
<1>1. Writers(t)' \subseteq Writers(t) /\ Droppers(t)' \subseteq Droppers(t) \cup {p}
      /\ (Excess(t) # {} => Writers(t)' = Writers(t))
  BY DEF Writers, Droppers
<1>2. IsFiniteSet(Writers(t)') /\ IsFiniteSet(Writers(t)) /\ entries \subseteq Messages
  <2>1. Writers(t)' \in SUBSET Writers(t)
    BY <1>1
  <2>2. QED
    BY <2>1, FS_Subset DEF Fits, TypeInv, Typed
<1>3. ASSUME NEW S \in SUBSET Droppers(t)'
      PROVE  Cardinality(Of(t, entries') \ Going(S)')
               <= Bound + crashes' + Cardinality(Writers(t)' \ S)
  <2>1. Cardinality(Writers(t)' \ S) \in Nat
    BY <1>2, FS_Difference, FS_CardinalityType
  <2>2. CASE Of(t, entries') \ Going(S)' \subseteq Of(t, entries) \ Excess(t)
    <3>1. /\ Cardinality(Of(t, entries') \ Going(S)') \in Nat
          /\ Cardinality(Of(t, entries) \ Excess(t)) \in Nat
          /\ Cardinality(Of(t, entries') \ Going(S)') <= Cardinality(Of(t, entries) \ Excess(t))
      BY <1>2, <2>2, Counting
    <3>2. QED
      BY <1>2, <2>1, <3>1, KeptFew, BoundAssumption
  <2>3. CASE ~(Of(t, entries') \ Going(S)' \subseteq Of(t, entries) \ Excess(t))
    <3>1. Excess(t) # {} /\ Writers(t)' = Writers(t)
      BY <1>1, <2>3
    <3>2. p \notin S
      BY <2>3, <3>1 DEF Going
    <3>3. S \in SUBSET Droppers(t)
      BY <1>1, <3>2
    <3>4. Going(S)' = Going(S)
      BY <3>2, <3>3 DEF Going, Droppers, Writers
    <3>5. QED
      BY <3>1, <3>3, <3>4 DEF Fits
  <2>4. QED
    BY <2>2, <2>3
<1>4. QED
  BY <1>2, <1>3 DEF Fits

\* One removal, or the last of a process, which then is done: what the others leave
\* they left together with it.
LEMMA FitsDropped ==
  ASSUME TypeInv, NEW t \in Targets, Fits(t), NEW p \in Procs, NEW msg \in memory[p].over,
         crashes \in Nat, crashes' = crashes, entries' = entries \ {msg},
         \A q \in Procs \ {p} : memory'[q] = memory[q],
         memory[p].pc = "drop", memory[p].target = t, memory'[p].target = t,
         memory'[p].over = memory[p].over \ {msg},
         memory'[p].pc = IF memory[p].over = {msg} THEN "count" ELSE "drop"
  PROVE  Fits(t)'
<1>1. p \in Writers(t) /\ p \in Droppers(t) /\ entries \subseteq Messages
  BY DEF Writers, Droppers, TypeInv, Typed
<1>2. CASE memory[p].over = {msg}
  <2>1. Writers(t)' = Writers(t) \ {p} /\ Droppers(t)' = Droppers(t) \ {p}
    BY <1>2 DEF Writers, Droppers
  <2>2. IsFiniteSet(Writers(t)')
    BY <2>1, FS_RemoveElement DEF Fits
  <2>3. ASSUME NEW S \in SUBSET Droppers(t)'
        PROVE  \E R \in SUBSET Droppers(t) :
                 /\ Of(t, entries') \ Going(S)' \subseteq Of(t, entries) \ Going(R)
                 /\ crashes + Cardinality(Writers(t) \ R) <= crashes' + Cardinality(Writers(t)' \ S)
    <3>1. S \cup {p} \in SUBSET Droppers(t) /\ p \notin S
      BY <1>1, <2>1
    <3>2. Going(S \cup {p}) = Going(S)' \cup {msg}
      BY <1>2, <2>1, <3>1 DEF Going, Droppers, Writers
    <3>3. Of(t, entries') \ Going(S)' \subseteq Of(t, entries) \ Going(S \cup {p})
      BY <3>2 DEF Of
    <3>4. Writers(t) \ (S \cup {p}) = Writers(t)' \ S
      BY <2>1
    <3>5. /\ Cardinality(Writers(t)' \ S) \in Nat
          /\ Cardinality(Writers(t) \ (S \cup {p})) = Cardinality(Writers(t)' \ S)
      BY <2>2, <3>4, FS_Difference, FS_CardinalityType
    <3>6. crashes + Cardinality(Writers(t) \ (S \cup {p})) <= crashes' + Cardinality(Writers(t)' \ S)
      BY <3>5
    <3>7. QED
      BY <3>1, <3>3, <3>6
  <2>4. QED
    BY <1>1, <2>2, <2>3, FitsBy
<1>3. CASE memory[p].over # {msg}
  <2>1. Writers(t)' = Writers(t) /\ Droppers(t)' = Droppers(t)
    BY <1>1, <1>3 DEF Writers, Droppers
  <2>2. IsFiniteSet(Writers(t)')
    BY <2>1 DEF Fits
  <2>3. ASSUME NEW S \in SUBSET Droppers(t)'
        PROVE  \E R \in SUBSET Droppers(t) :
                 /\ Of(t, entries') \ Going(S)' \subseteq Of(t, entries) \ Going(R)
                 /\ crashes + Cardinality(Writers(t) \ R) <= crashes' + Cardinality(Writers(t)' \ S)
    <3>1. S \in SUBSET Droppers(t)
      BY <2>1
    <3>2. \A q \in S : q \in Procs /\ memory[q].over \subseteq memory'[q].over \cup {msg}
      BY <3>1 DEF Droppers, Writers
    <3>3. Going(S) \subseteq Going(S)' \cup {msg}
      BY <3>2 DEF Going
    <3>4. Of(t, entries') \ Going(S)' \subseteq Of(t, entries) \ Going(S)
      BY <3>3 DEF Of
    <3>5. Cardinality(Writers(t) \ S) \in Nat
      BY <2>1, <2>2, FS_Difference, FS_CardinalityType
    <3>6. crashes + Cardinality(Writers(t) \ S) <= crashes' + Cardinality(Writers(t)' \ S)
      BY <2>1, <3>5
    <3>7. QED
      BY <3>1, <3>4, <3>6
  <2>4. QED
    BY <1>1, <2>2, <2>3, FitsBy
<1>4. QED
  BY <1>2, <1>3

\* A process that dies before it is done counts on as a crash.
LEMMA FitsKilled ==
  ASSUME TypeInv, NEW t \in Targets, Fits(t), NEW p \in Procs,
         crashes \in Nat, crashes' = crashes + 1, entries' = entries,
         \A q \in Procs \ {p} : memory'[q] = memory[q], p \in Writers(t), p \notin Writers(t)'
  PROVE  Fits(t)'
<1>1. Writers(t)' = Writers(t) \ {p} /\ Droppers(t)' = Droppers(t) \ {p}
      /\ entries \subseteq Messages
  BY DEF Writers, Droppers, TypeInv, Typed
<1>2. IsFiniteSet(Writers(t)')
  BY <1>1, FS_RemoveElement DEF Fits
<1>3. ASSUME NEW S \in SUBSET Droppers(t)'
      PROVE  /\ S \in SUBSET Droppers(t)
             /\ Of(t, entries') \ Going(S)' \subseteq Of(t, entries) \ Going(S)
             /\ crashes + Cardinality(Writers(t) \ S) <= crashes' + Cardinality(Writers(t)' \ S)
  <2>1. S \in SUBSET Droppers(t) /\ p \notin S
    BY <1>1
  <2>2. Going(S)' = Going(S)
    BY <2>1 DEF Going, Droppers, Writers
  <2>3. Writers(t) \ S = (Writers(t)' \ S) \cup {p} /\ p \notin Writers(t)' \ S
    BY <1>1, <2>1
  <2>4. IsFiniteSet(Writers(t)' \ S) /\ Cardinality(Writers(t)' \ S) \in Nat
    BY <1>2, FS_Difference, FS_CardinalityType
  <2>5. Cardinality(Writers(t) \ S) = Cardinality(Writers(t)' \ S) + 1
    BY <2>3, <2>4, FS_AddElement
  <2>6. QED
    BY <2>1, <2>2, <2>4, <2>5
<1>4. QED
  BY <1>1, <1>2, <1>3, FitsBy

\* A process that neither lists nor removes, before or after.
LEMMA BoundApart ==
  ASSUME TypeInv, BoundInv, NEW p \in Procs, crashes' \in {crashes, crashes + 1},
         NEW m \in Memory, memory' = [memory EXCEPT ![p] = m],
         memory[p].pc \notin {"list", "drop"}, m.pc \notin {"list", "drop"},
         entries' \subseteq entries
  PROVE  BoundInv'
<1>1. memory'[p] = m /\ \A q \in Procs \ {p} : memory'[q] = memory[q]
  BY DEF TypeInv, Typed
<1>2. ASSUME NEW t \in Targets PROVE Fits(t)'
  <2>1. p \notin Writers(t) /\ p \notin Writers(t)' /\ Of(t, entries') \subseteq Of(t, entries)
    BY <1>1 DEF Writers, Of
  <2>2. QED
    BY <1>1, <2>1, FitsApart DEF BoundInv
<1>3. QED
  BY <1>2 DEF BoundInv

\* The four steps that write, list, remove, and die.
LEMMA BoundWriting ==
  ASSUME TypeInv, BoundInv, NEW p \in Procs, Write(p) \/ List(p) \/ Drop(p) \/ Crash(p)
  PROVE  BoundInv'
<1>a. memory[p] \in Memory /\ memory \in [Procs -> Memory] /\ Shape(p) /\ crashes \in Nat
  BY DEF TypeInv, Typed, BoundInv
<1>b. \A q \in Procs \ {p} : memory'[q] = memory[q]
  BY <1>a DEF Write, List, Drop, Crash, Becomes
<1>1. CASE Write(p)
  <2>1. PICK t \in memory[p].pending :
          /\ entries' = entries \cup {<<memory[p].event, t>>}
          /\ memory' = [memory EXCEPT ![p] =
               [memory[p] EXCEPT !.pc = "list", !.target = t, !.pending = memory[p].pending \ {t}]]
    BY <1>1 DEF Write, Becomes
  <2>2. /\ memory[p].pc = "write" /\ memory'[p].pc = "list" /\ memory'[p].target = t
        /\ crashes' = crashes
    BY <1>1, <1>a, <2>1 DEF Write, At, Memory, world
  <2>3. ASSUME NEW u \in Targets PROVE Fits(u)'
    <3>1. CASE u = t
      BY <1>a, <1>b, <2>1, <2>2, <3>1, FitsWritten DEF BoundInv
    <3>2. CASE u # t
      <4>1. p \notin Writers(u) /\ p \notin Writers(u)' /\ Of(u, entries') \subseteq Of(u, entries)
        BY <2>1, <2>2, <3>2 DEF Writers, Of
      <4>2. QED
        BY <1>a, <1>b, <2>2, <4>1, FitsApart DEF BoundInv
    <3>3. QED
      BY <3>1, <3>2
  <2>4. QED
    BY <1>a, <2>2, <2>3 DEF BoundInv
<1>2. CASE List(p)
  <2> DEFINE t == memory[p].target
  <2>1. memory[p].pc = "list" /\ t \in Targets /\ entries' = entries /\ crashes' = crashes
    BY <1>2, <1>a DEF List, At, Shape, Writing, disk, world
  <2>2. \/ Excess(t) = {} /\ memory'[p] = Written(p)
        \/ memory'[p] = [memory[p] EXCEPT !.pc = "drop", !.over = Excess(t),
                                          !.count = Cardinality(Excess(t))]
    BY <1>2, <1>a DEF List, Becomes
  <2>3. Written(p).pc \in {"idle", "write"}
    BY <1>a, IdleTyped DEF Written, Memory
  <2>4. \/ Excess(t) = {} /\ memory'[p].pc \notin {"list", "drop"}
        \/ memory'[p].pc = "drop" /\ memory'[p].target = t /\ memory'[p].over = Excess(t)
    BY <1>a, <2>2, <2>3 DEF Memory
  <2>5. ASSUME NEW u \in Targets PROVE Fits(u)'
    <3>1. CASE u = t
      <4>1. \/ Excess(u) = {} /\ p \notin Writers(u)'
            \/ memory'[p].pc = "drop" /\ memory'[p].target = u /\ memory'[p].over = Excess(u)
        BY <2>4, <3>1 DEF Writers
      <4>2. QED
        BY <1>a, <1>b, <2>1, <3>1, <4>1, FitsListed DEF BoundInv
    <3>2. CASE u # t
      <4>1. p \notin Writers(u) /\ p \notin Writers(u)' /\ Of(u, entries') \subseteq Of(u, entries)
        BY <2>1, <2>4, <3>2 DEF Writers
      <4>2. QED
        BY <1>a, <1>b, <2>1, <4>1, FitsApart DEF BoundInv
    <3>3. QED
      BY <3>1, <3>2
  <2>6. QED
    BY <1>a, <2>1, <2>5 DEF BoundInv
<1>3. CASE Drop(p)
  <2> DEFINE t == memory[p].target
  <2>1. PICK msg \in Oldest(memory[p].over) :
          /\ entries' = entries \ {msg}
          /\ memory' = [memory EXCEPT ![p] =
               [memory[p] EXCEPT !.over = memory[p].over \ {msg},
                  !.pc = IF memory[p].over = {msg} THEN "count" ELSE "drop"]]
    BY <1>3 DEF Drop, Becomes
  <2>2. memory[p].pc = "drop" /\ t \in Targets /\ crashes' = crashes /\ msg \in memory[p].over
    BY <1>3, <1>a DEF Drop, At, Shape, Writing, world, Oldest
  <2>3. /\ memory'[p].target = t /\ memory'[p].over = memory[p].over \ {msg}
        /\ memory'[p].pc = IF memory[p].over = {msg} THEN "count" ELSE "drop"
    BY <1>a, <2>1 DEF Memory
  <2>4. ASSUME NEW u \in Targets PROVE Fits(u)'
    <3>1. CASE u = t
      BY <1>a, <1>b, <2>1, <2>2, <2>3, <3>1, FitsDropped DEF BoundInv
    <3>2. CASE u # t
      <4>1. p \notin Writers(u) /\ p \notin Writers(u)' /\ Of(u, entries') \subseteq Of(u, entries)
        BY <2>1, <2>3, <3>2 DEF Writers, Of
      <4>2. QED
        BY <1>a, <1>b, <2>2, <4>1, FitsApart DEF BoundInv
    <3>3. QED
      BY <3>1, <3>2
  <2>5. QED
    BY <1>a, <2>2, <2>4 DEF BoundInv
<1>4. CASE Crash(p)
  <2>1. crashes' = crashes + 1 /\ entries' = entries /\ memory'[p] = Idle
    BY <1>4, <1>a DEF Crash, Becomes, disk
  <2>2. ASSUME NEW u \in Targets PROVE Fits(u)'
    <3>1. p \notin Writers(u)' /\ Of(u, entries') \subseteq Of(u, entries)
      BY <2>1, IdleTyped DEF Writers
    <3>2. CASE p \in Writers(u)
      BY <1>a, <1>b, <2>1, <3>1, <3>2, FitsKilled DEF BoundInv
    <3>3. CASE p \notin Writers(u)
      BY <1>a, <1>b, <2>1, <3>1, <3>3, FitsApart DEF BoundInv
    <3>4. QED
      BY <3>2, <3>3
  <2>3. QED
    BY <1>a, <2>1, <2>2 DEF BoundInv
<1>5. QED
  BY <1>1, <1>2, <1>3, <1>4

\* Every other step.
LEMMA BoundElsewhere ==
  ASSUME TypeInv, BoundInv, NEW p \in Procs,
         \/ Wire(p) \/ Notify(p) \/ Count(p) \/ Tell(p)
         \/ Sends(p) \/ Changes(p) \/ Leave(p)
  PROVE  BoundInv'
<1>a. memory[p] \in Memory /\ memory \in [Procs -> Memory]
  BY DEF TypeInv, Typed
<1>b. memory'[p] \in Memory
  BY TypeStep DEF TypeInv, Typed, Next, Tells
<1>c. memory' = [memory EXCEPT ![p] = memory'[p]]
  BY <1>a DEF Wire, Notify, Count, Tell, Sends, Flush, Busy, Take, Read, Post, RemoveEntry,
              CaughtUp, Changes, AddTarget, RemoveTarget, ForgetTarget, Forgotten, Leave, Becomes
<1>d. crashes' = crashes /\ crashes \in Nat
  BY DEF Wire, Notify, Count, Tell, Sends, Flush, Busy, Take, Read, Post, RemoveEntry, CaughtUp,
         Changes, AddTarget, RemoveTarget, ForgetTarget, Forgotten, Leave, world, BoundInv
<1>e. entries' \subseteq entries
  <2>1. CASE Wire(p) \/ Notify(p) \/ Count(p) \/ Tell(p) \/ Leave(p)
    BY <2>1 DEF Wire, Notify, Count, Tell, Leave, disk
  <2>2. CASE Sends(p)
    BY <2>2 DEF Sends, Flush, Busy, Take, Read, Post, RemoveEntry, CaughtUp, disk
  <2>3. CASE Changes(p)
    BY <2>3 DEF Changes, AddTarget, RemoveTarget, ForgetTarget, Forgotten, disk
  <2>4. QED
    BY <2>1, <2>2, <2>3
<1>f. memory[p].pc \notin {"list", "drop"}
  <2>1. CASE Wire(p) \/ Notify(p) \/ Count(p) \/ Tell(p) \/ Leave(p)
    BY <2>1 DEF Wire, Notify, Count, Tell, Leave, At
  <2>2. CASE Sends(p)
    BY <2>2 DEF Sends, Flush, Busy, Take, Read, Post, RemoveEntry, CaughtUp, At
  <2>3. CASE Changes(p)
    BY <2>3 DEF Changes, AddTarget, RemoveTarget, ForgetTarget, Forgotten, At
  <2>4. QED
    BY <2>1, <2>2, <2>3
<1>g. memory'[p].pc \notin {"list", "drop"}
  <2>1. CASE Wire(p) \/ Notify(p) \/ Leave(p) \/ AddTarget(p) \/ RemoveTarget(p) \/ Forgotten(p)
    <3>1. CASE Wire(p) \/ Leave(p)
      BY <1>a, <3>1, IdleTyped DEF Wire, Leave, Becomes, Idle
    <3>2. CASE Notify(p)
      BY <1>a, <3>2, IdleTyped DEF Notify, Becomes, Idle
    <3>3. CASE AddTarget(p) \/ RemoveTarget(p) \/ Forgotten(p)
      BY <1>a, <3>3, IdleTyped DEF AddTarget, RemoveTarget, Forgotten, Becomes, Idle
    <3>4. QED
      BY <2>1, <3>1, <3>2, <3>3
  <2>2. CASE Count(p) \/ Take(p) \/ RemoveEntry(p) \/ ForgetTarget(p)
    <3>1. CASE Count(p)
      BY <1>a, <3>1 DEF Count, Becomes, Memory
    <3>2. CASE Take(p)
      BY <1>a, <3>2 DEF Take, Becomes, Memory
    <3>3. CASE RemoveEntry(p)
      BY <1>a, <3>3 DEF RemoveEntry, Becomes, Memory
    <3>4. CASE ForgetTarget(p)
      BY <1>a, <3>4 DEF ForgetTarget, Becomes, Memory
    <3>5. QED
      BY <2>2, <3>1, <3>2, <3>3, <3>4
  <2>3. CASE Tell(p)
    <3>1. Written(p).pc \in {"idle", "write"}
      BY <1>a, IdleTyped DEF Written, Memory
    <3>2. QED
      BY <1>a, <2>3, <3>1 DEF Tell, Becomes
  <2>4. CASE Flush(p) \/ Busy(p) \/ CaughtUp(p)
    <3>1. CASE Flush(p)
      BY <1>a, <3>1, SentTyped, IdleTyped DEF Flush, Becomes, Idle
    <3>2. CASE Busy(p)
      BY <1>a, <3>2, SentTyped, IdleTyped DEF Busy, Becomes, Idle
    <3>3. CASE CaughtUp(p)
      BY <1>a, <3>3, SentTyped, IdleTyped DEF CaughtUp, Becomes, Idle
    <3>4. QED
      BY <2>4, <3>1, <3>2, <3>3
  <2>5. CASE Post(p)
    <3>1. \E m : /\ memory' = [memory EXCEPT ![p] = m]
                 /\ \/ m = [memory[p] EXCEPT !.pc = "remove"]
                    \/ m = [memory[p] EXCEPT !.pc = "send", !.at = Idle.at,
                              !.down = memory[p].down \cup {memory[p].at[2]}]
      BY <2>5 DEF Post, Becomes
    <3>2. QED
      BY <1>a, <3>1 DEF Memory
  <2>6. CASE Read(p)
    <3>1. PICK msg \in Oldest(memory[p].names) : ReadOf(p, msg)
      BY <2>6, ReadOne
    <3>2. memory[p].pc = "send" /\ Rest(p, msg).pc = "send"
      BY <2>6, <1>a DEF Read, At, Rest, Memory
    <3>3. memory'[p].pc \in {"send", "post"}
      <4>1. Rest(p, msg) \in Memory
        BY <1>a DEF Rest, Memory
      <4>2. [Rest(p, msg) EXCEPT !.down = Rest(p, msg).down \cup {msg[2]}].pc = "send"
            /\ [Rest(p, msg) EXCEPT !.pc = "post", !.at = msg].pc = "post"
        BY <3>2, <4>1 DEF Memory
      <4>3. QED
        BY <1>a, <3>1, <3>2, <4>2 DEF ReadOf
    <3>4. QED
      BY <3>3
  <2>7. QED
    BY <2>1, <2>2, <2>3, <2>4, <2>5, <2>6 DEF Sends, Changes
<1>1. QED
  BY <1>b, <1>c, <1>d, <1>e, <1>f, <1>g, BoundApart

LEMMA BoundStep == TypeInv /\ BoundInv /\ [Next]_vars => BoundInv'
<1> SUFFICES ASSUME TypeInv, BoundInv, [Next]_vars PROVE BoundInv'
  OBVIOUS
<1>1. CASE (\E t \in Targets : Weather(t)) \/ UNCHANGED vars
  <2>1. UNCHANGED <<entries, crashes, memory>>
    BY <1>1 DEF Weather, disk, vars
  <2>2. QED
    BY <2>1 DEF BoundInv, Fits, Writers, Droppers, Going, Of
<1>2. CASE \E p \in Procs : Wire(p) \/ Tells(p) \/ Sends(p) \/ Changes(p) \/ Leave(p) \/ Crash(p)
  BY <1>2, BoundWriting, BoundElsewhere DEF Tells
<1>3. QED
  BY <1>1, <1>2 DEF Next

\* Nobody at it, a target keeps the bound, and one more for each that was killed
\* (Outbox, BoundedAtRest).
THEOREM NoMoreThanTheBound == Spec => []BoundedAtRest
<1>1. TypeInv /\ BoundInv => BoundedAtRest
  <2> SUFFICES ASSUME BoundInv, \A p \in Procs : memory[p].pc \notin {"list", "drop"},
                      NEW t \in Targets
               PROVE  Cardinality(Of(t, entries)) <= Bound + crashes
    BY DEF BoundedAtRest
  <2>1. Writers(t) = {} /\ {} \in SUBSET Droppers(t) /\ Going({}) = {}
    BY DEF Writers, Going
  <2>2. Cardinality(Of(t, entries) \ {}) <= Bound + crashes + Cardinality({} \ {})
    BY <2>1 DEF BoundInv, Fits
  <2>3. Of(t, entries) \ {} = Of(t, entries) /\ Cardinality({} \ {}) = 0
    BY FS_EmptySet
  <2>4. QED
    BY <2>2, <2>3, BoundAssumption DEF BoundInv
<1>2. QED
  BY <1>1, TypeInit, TypeStep, BoundInit, BoundStep, PTL DEF Spec
=============================================================================
