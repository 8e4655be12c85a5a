------------------------------- MODULE Outbox -------------------------------
(***************************************************************************)
(* internal/lifecycle/ops/notify_outbox.go and notify_targets.go, and the  *)
(* call in ops.go that fills the outbox: what a notify target did not      *)
(* accept is kept as one file per event and target.  Commands write it     *)
(* when they end, with no lock; the scheduled doctor and `notify flush`    *)
(* send it under the outbox lock; `notify target remove` forgets a target. *)
(*                                                                         *)
(* An event is its number, which is its ULID: numbers are drawn when the   *)
(* event happens, entries are written seconds later.  A message is the     *)
(* pair of an event and a target, the name of its file.                    *)
(***************************************************************************)
EXTENDS Naturals, FiniteSets

CONSTANTS
  Commands,    \* processes an operator or an operation runs
  Doctor,      \* the process of the timer
  Targets,     \* notify targets, by label
  Flaky,       \* bound of the model: those that go down again once they are up
  Bound,       \* messages a target keeps: outboxBound
  MaxEvents,   \* bound of the model: events that happen
  MaxTroubles, \* bound of the model: processes killed, and targets removed or added
  None

ASSUME BoundAssumption == Bound \in Nat \ {0} /\ MaxEvents \in Nat /\ IsFiniteSet(Targets)

ASSUME NoneAssumption == None \notin Commands \union {Doctor} \union Targets

Procs == Commands \union {Doctor}

VARIABLES
  entries,     \* the messages in the outbox
  dropped,     \* the count of dropped messages of each target, as its file says
  configured,  \* the targets installation.yaml names
  up,          \* the targets that answer
  outbox,      \* the process that holds the outbox lock
  deployment,  \* the process that holds the deployment lock
  memory,      \* the memory of each process
  happened,    \* events so far
  crashes,
  changes,
  answered,    \* history: messages a target took or refused, and somebody knows
  again,       \* history: such messages that were posted once more
  forgotten    \* history: messages a removed target's entries held

vars == <<entries, dropped, configured, up, outbox, deployment, memory, happened,
          crashes, changes, answered, again, forgotten>>

disk    == <<entries, dropped>>
locks   == <<outbox, deployment>>
history == <<answered, again, forgotten>>
world   == <<configured, up, happened, crashes, changes>>

Messages == (1..MaxEvents) \X Targets

Of(t, messages) == {m \in messages : m[2] = t}

Oldest(messages) == {m \in messages : \A n \in messages : m[1] <= n[1]}

Idle == [pc |-> "idle", notifiers |-> {}, event |-> 0, pending |-> {}, target |-> None,
         over |-> {}, count |-> 0, names |-> {}, down |-> {}, at |-> <<0, None>>]

At(p, pc) == memory[p].pc = pc

Becomes(p, m) == memory' = [memory EXCEPT ![p] = m]

\* A target takes the messages, or refuses them for good, and the process hears it.
Answers(ms) ==
  /\ again' = again \union (ms \intersect answered)
  /\ answered' = answered \union ms
  /\ UNCHANGED forgotten

-----------------------------------------------------------------------------
(* An event, told to every target and kept for those that may take it later *)

\* A command that will tell knows the targets that are configured when it starts.
Wire(p) ==
  /\ At(p, "idle")
  /\ p \in Commands
  /\ Becomes(p, [Idle EXCEPT !.pc = "wired", !.notifiers = configured])
  /\ UNCHANGED <<disk, locks, world, history>>

\* Every target is told at once; the ones that do not answer may later.
Notify(p) ==
  /\ At(p, IF p = Doctor THEN "sent" ELSE "wired")
  /\ happened < MaxEvents
  /\ happened' = happened + 1
  /\ LET kept == memory[p].notifiers \ up
     IN /\ Answers({happened + 1} \X (memory[p].notifiers \intersect up))
        /\ Becomes(p, IF kept = {} THEN Idle
                      ELSE [Idle EXCEPT !.pc = "write", !.event = happened + 1, !.pending = kept])
  /\ UNCHANGED <<disk, locks, configured, up, crashes, changes>>

Write(p) ==
  /\ At(p, "write")
  /\ \E t \in memory[p].pending :
       /\ entries' = entries \union {<<memory[p].event, t>>}
       /\ Becomes(p, [memory[p] EXCEPT !.pc = "list", !.target = t, !.pending = @ \ {t}])
  /\ UNCHANGED <<dropped, locks, world, history>>

Written(p) ==
  IF memory[p].pending = {} THEN Idle
  ELSE [memory[p] EXCEPT !.pc = "write", !.over = {}, !.count = 0]

Excess_OneMore(t) ==
  LET mine == Of(t, entries)
  IN {m \in mine : Cardinality({n \in mine : n[1] > m[1]}) > Bound}

\* The entries past the bound: the oldest of the target's.
Excess(t) ==
  LET mine == Of(t, entries)
  IN {m \in mine : Cardinality({n \in mine : n[1] > m[1]}) >= Bound}

List(p) ==
  /\ At(p, "list")
  /\ LET over == Excess(memory[p].target)
     IN Becomes(p, IF over = {} THEN Written(p)
                   ELSE [memory[p] EXCEPT !.pc = "drop", !.over = over,
                                          !.count = Cardinality(over)])
  /\ UNCHANGED <<disk, locks, world, history>>

\* One removal; that the file is gone already is no failure.
Drop(p) ==
  /\ At(p, "drop")
  /\ \E m \in Oldest(memory[p].over) :
       /\ entries' = entries \ {m}
       /\ Becomes(p, [memory[p] EXCEPT !.over = @ \ {m},
                        !.pc = IF memory[p].over = {m} THEN "count" ELSE "drop"])
  /\ UNCHANGED <<dropped, locks, world, history>>

Count(p) ==
  /\ At(p, "count")
  /\ Becomes(p, [memory[p] EXCEPT !.pc = "tell", !.count = @ + dropped[memory[p].target]])
  /\ UNCHANGED <<disk, locks, world, history>>

Tell(p) ==
  /\ At(p, "tell")
  /\ dropped' = [dropped EXCEPT ![memory[p].target] = memory[p].count]
  /\ Becomes(p, Written(p))
  /\ UNCHANGED <<entries, locks, world, history>>

-----------------------------------------------------------------------------
(* A send of the outbox *)

\* The scheduled doctor sends first, and tells what it found after.
Sent(p) == IF p = Doctor THEN [Idle EXCEPT !.pc = "sent", !.notifiers = memory[p].notifiers]
           ELSE Idle

OutboxFree_Always(p) == TRUE

OutboxFree(p) == outbox = None

\* Listed once without the lock: with nothing to send, nothing is locked.
Flush(p) ==
  /\ At(p, "idle")
  /\ LET started == [Idle EXCEPT !.notifiers = configured]
     IN Becomes(p, IF entries # {} THEN [started EXCEPT !.pc = "lock"]
                   ELSE IF p = Doctor THEN [started EXCEPT !.pc = "sent"] ELSE Idle)
  /\ UNCHANGED <<disk, locks, world, history>>

\* Another sender holds it: nothing is sent.
Busy(p) ==
  /\ At(p, "lock")
  /\ ~OutboxFree(p)
  /\ Becomes(p, Sent(p))
  /\ UNCHANGED <<disk, locks, world, history>>

\* What the send goes by: the entries listed again and the targets configured now.
Take(p) ==
  /\ At(p, "lock")
  /\ OutboxFree(p)
  /\ outbox' = p
  /\ Becomes(p, [memory[p] EXCEPT !.pc = "send", !.names = entries, !.pending = configured])
  /\ UNCHANGED <<disk, deployment, world, history>>

\* The next entry, oldest first: what becomes of it without asking its target.
Read(p) ==
  /\ At(p, "send")
  /\ \E m \in Oldest(memory[p].names) :
       LET t       == m[2]
           next    == [memory[p] EXCEPT !.names = @ \ {m}]
           present == m \in entries
           orphan  == t \notin memory[p].pending
       IN /\ entries' = IF present /\ t \notin memory[p].down /\ orphan
                        THEN entries \ {m} ELSE entries
          /\ Becomes(p, CASE ~present \/ t \in memory[p].down \/ orphan -> next
                          [] t \notin memory[p].notifiers -> [next EXCEPT !.down = @ \union {t}]
                          [] OTHER -> [next EXCEPT !.pc = "post", !.at = m])
  /\ UNCHANGED <<dropped, locks, world, history>>

Post_GivesUp(p) ==
  /\ At(p, "post")
  /\ IF memory[p].at[2] \in up
     THEN /\ Answers({memory[p].at})
          /\ Becomes(p, [memory[p] EXCEPT !.pc = "remove"])
     ELSE /\ Becomes(p, [memory[p] EXCEPT !.pc = "send", !.at = Idle.at, !.names = {}])
          /\ UNCHANGED history
  /\ UNCHANGED <<disk, locks, world>>

\* The target answers, for good or for evil, or the deadline passes: it is down.
Post(p) ==
  /\ At(p, "post")
  /\ LET t == memory[p].at[2]
     IN \/ /\ t \in up
           /\ Answers({memory[p].at})
           /\ Becomes(p, [memory[p] EXCEPT !.pc = "remove"])
        \/ /\ t \notin up
           /\ Becomes(p, [memory[p] EXCEPT !.pc = "send", !.at = Idle.at,
                                           !.down = @ \union {t}])
           /\ UNCHANGED history
  /\ UNCHANGED <<disk, locks, world>>

RemoveEntry(p) ==
  /\ At(p, "remove")
  /\ entries' = entries \ {memory[p].at}
  /\ Becomes(p, [memory[p] EXCEPT !.pc = "send", !.at = Idle.at])
  /\ UNCHANGED <<dropped, locks, world, history>>

\* A target that caught up starts counting its drops again, and the lock goes.
CaughtUp(p) ==
  /\ At(p, "send")
  /\ memory[p].names = {}
  /\ dropped' = [t \in Targets |->
       IF t \in memory[p].pending /\ Of(t, entries) = {} THEN 0 ELSE dropped[t]]
  /\ outbox' = None
  /\ Becomes(p, Sent(p))
  /\ UNCHANGED <<entries, deployment, world, history>>

-----------------------------------------------------------------------------
(* The targets of the installation *)

\* `notify target add`: the whole of it is one write under the deployment lock.
AddTarget(p) ==
  /\ At(p, "idle")
  /\ p \in Commands
  /\ deployment = None
  /\ crashes + changes < MaxTroubles
  /\ changes' = changes + 1
  /\ \E t \in Targets \ configured : configured' = configured \union {t}
  /\ Becomes(p, Idle)
  /\ UNCHANGED <<disk, locks, up, happened, crashes, history>>

\* `notify target remove`, which goes on holding the deployment lock.
RemoveTarget(p) ==
  /\ At(p, "idle")
  /\ p \in Commands
  /\ deployment = None
  /\ crashes + changes < MaxTroubles
  /\ changes' = changes + 1
  /\ deployment' = p
  /\ \E t \in configured :
       /\ configured' = configured \ {t}
       /\ Becomes(p, [Idle EXCEPT !.pc = "forget", !.target = t])
  /\ UNCHANGED <<disk, outbox, up, happened, crashes, history>>

ForgetTarget_NoWait(p) ==
  /\ At(p, "forget")
  /\ Becomes(p, [memory[p] EXCEPT !.pc = "forgetting", !.names = Of(memory[p].target, entries)])
  /\ UNCHANGED <<disk, locks, world, history>>

\* forgetTarget waits for a send in progress, and lists what it will remove.
ForgetTarget(p) ==
  /\ At(p, "forget")
  /\ OutboxFree(p)
  /\ outbox' = p
  /\ Becomes(p, [memory[p] EXCEPT !.pc = "forgetting", !.names = Of(memory[p].target, entries)])
  /\ UNCHANGED <<disk, deployment, world, history>>

Forgotten(p) ==
  /\ At(p, "forgetting")
  /\ entries' = entries \ memory[p].names
  /\ forgotten' = forgotten \union (memory[p].names \intersect entries)
  /\ dropped' = [dropped EXCEPT ![memory[p].target] = 0]
  /\ outbox' = IF outbox = p THEN None ELSE outbox
  /\ deployment' = None
  /\ Becomes(p, Idle)
  /\ UNCHANGED <<world, answered, again>>

-----------------------------------------------------------------------------
(* What happens around it *)

\* A process that has nothing to tell.
Leave(p) ==
  /\ At(p, IF p = Doctor THEN "sent" ELSE "wired")
  /\ Becomes(p, Idle)
  /\ UNCHANGED <<disk, locks, world, history>>

\* A process is killed, or its send fails on the disk: the kernel drops its locks.
Crash(p) ==
  /\ ~At(p, "idle")
  /\ crashes + changes < MaxTroubles
  /\ crashes' = crashes + 1
  /\ outbox' = IF outbox = p THEN None ELSE outbox
  /\ deployment' = IF deployment = p THEN None ELSE deployment
  /\ answered' = IF At(p, "remove") THEN answered \ {memory[p].at} ELSE answered
  /\ Becomes(p, Idle)
  /\ UNCHANGED <<disk, configured, up, happened, changes, again, forgotten>>

GoesDown(t) == t \in up \intersect Flaky /\ up' = up \ {t}

ComesUp(t) == t \notin up /\ up' = up \union {t}

Weather(t) ==
  /\ GoesDown(t) \/ ComesUp(t)
  /\ UNCHANGED <<disk, locks, configured, happened, crashes, changes, memory, history>>

-----------------------------------------------------------------------------

Init ==
  /\ entries = {}
  /\ dropped = [t \in Targets |-> 0]
  /\ configured \in SUBSET Targets /\ Flaky \subseteq configured
  /\ up \in SUBSET Targets
  /\ outbox = None
  /\ deployment = None
  /\ memory = [p \in Procs |-> Idle]
  /\ happened = 0
  /\ crashes = 0
  /\ changes = 0
  /\ answered = {}
  /\ again = {}
  /\ forgotten = {}

Tells(p) == Notify(p) \/ Write(p) \/ List(p) \/ Drop(p) \/ Count(p) \/ Tell(p)

Sends(p) == Flush(p) \/ Busy(p) \/ Take(p) \/ Read(p) \/ Post(p) \/ RemoveEntry(p) \/ CaughtUp(p)

Changes(p) == AddTarget(p) \/ RemoveTarget(p) \/ ForgetTarget(p) \/ Forgotten(p)

Next ==
  \/ \E p \in Procs : Wire(p) \/ Tells(p) \/ Sends(p) \/ Changes(p) \/ Leave(p) \/ Crash(p)
  \/ \E t \in Targets : Weather(t)

\* The timer starts a doctor again and again, and a process that runs goes on.
Fairness ==
  /\ WF_vars(Sends(Doctor) \/ Leave(Doctor))
  /\ \A p \in Procs : WF_vars(Write(p) \/ List(p) \/ Drop(p) \/ Count(p) \/ Tell(p))
  /\ \A p \in Procs : WF_vars(Busy(p) \/ Take(p) \/ Read(p) \/ Post(p) \/ RemoveEntry(p) \/ CaughtUp(p))
  /\ \A p \in Procs : WF_vars(Forgotten(p))

Spec == Init /\ [][Next]_vars /\ Fairness

-----------------------------------------------------------------------------
(* What must hold *)

\* Types of the variables.
TypeOK ==
  /\ entries \subseteq Messages
  /\ dropped \in [Targets -> Nat]
  /\ configured \subseteq Targets /\ up \subseteq Targets
  /\ outbox \in Procs \union {None} /\ deployment \in Procs \union {None}
  /\ \A p \in Procs :
       /\ memory[p].notifiers \subseteq Targets /\ memory[p].names \subseteq Messages
       /\ memory[p].pc \in {"send", "post", "remove", "forgetting"} <=> outbox = p
       /\ memory[p].pc \in {"forget", "forgetting"} <=> deployment = p

\* Two senders never send one message (notify_outbox.go, outboxLock): what a
\* target took or refused is posted again only when the process that heard the
\* answer died before it removed the entry.
NeverSentTwice == again = {}

\* What a removed target's entries held is never posted any more: `notify target
\* remove` waits for the send that may have read one (forgetTarget).
ForgottenIsNeverSent ==
  [][\A p \in Procs : At(p, "post") /\ ~At(p, "post")' => memory[p].at \notin forgotten]_vars

\* However commands that end together interleave their writes and their removals,
\* a target keeps no more than the bound once they are done: each lists what the
\* others wrote.  One killed between the two leaves one message more.
BoundedAtRest ==
  (\A p \in Procs : memory[p].pc \notin {"list", "drop"}) =>
    \A t \in Targets : Cardinality(Of(t, entries)) <= Bound + crashes

\* A target that answers again is caught up with, again and again, whatever the
\* other targets do and whoever else sends.
KeptIsSettled ==
  \A t \in Targets : <>[](t \in up) => []<>(Of(t, entries) = {})
=============================================================================
