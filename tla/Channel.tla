------------------------------ MODULE Channel ------------------------------
(***************************************************************************)
(* internal/lifecycle/ops/channel.go, channel_marks.go and fetch.go: one   *)
(* installation that follows one channel.  A timer polls it, stages what   *)
(* it finds and installs it unattended; an operator polls, updates, rolls  *)
(* back and applies beside it.                                             *)
(*                                                                         *)
(* The channel is a tag.  What it names is an artefact, the only thing a   *)
(* poll can compare without a download; an artefact holds a bundle, and a  *)
(* bundle declares a version.                                              *)
(***************************************************************************)
EXTENDS Naturals

CONSTANTS
  Artefacts,  \* upstream digests the channel may point at
  Bundles,    \* content digests
  BundleOf,   \* the bundle of each artefact
  VersionOf,  \* the version each bundle declares
  First,      \* the bundle the installation was created with
  Unusable,   \* bundles this machine refuses: a prerelease, a bad signature
  None

ASSUME ArtefactsAssumption == BundleOf \in [Artefacts -> Bundles] /\ None \notin Artefacts

ASSUME NoneAssumption == None \notin {"timer", "operator"}

ASSUME BundlesAssumption == /\ VersionOf \in [Bundles -> Nat \ {0}]
                            /\ Unusable \subseteq Bundles /\ First \in Bundles
                            /\ None \notin Bundles

Actors == {"timer", "operator"}

VARIABLES
  tag,         \* what the channel points at
  store,       \* the bundle in each version's directory of the release store
  candidate,   \* the update candidate: what became of the last artefact looked at
  mark,        \* the newest version fetched and verified from the channel, 0 for none
  release,     \* the release records; of the previous one, its bundle
  unfinished,  \* what the journal says of the last operation: "none", "running", "attention"
  lock,        \* the actor that holds the deployment lock
  memory,      \* the memory of each actor's process
  forMark,     \* history: the candidate was refused for the mark alone
  delivered    \* history: the newest version staged since the operator last went back

vars == <<tag, store, candidate, mark, release, unfinished, lock, memory,
          forMark, delivered>>

history == <<forMark, delivered>>

NoCandidate == [of |-> None, staged |-> FALSE, failed |-> FALSE, marked |-> "before"]

NoRelease == [current |-> [bundle |-> None, upstream |-> None], previous |-> None]

Idle == [pc |-> "idle", kind |-> "none", of |-> None, to |-> None, from |-> NoRelease]

Version(b) == VersionOf[b]

Goes(p, m) == memory' = [memory EXCEPT ![p] = m]

At(p, pc) == memory[p].pc = pc

Leave(p) == /\ Goes(p, Idle)
            /\ lock' = IF lock = p THEN None ELSE lock

\* A tick goes on with whatever candidate there is; an operator's poll is over.
AfterPoll(p) == /\ Goes(p, IF p = "timer" THEN [Idle EXCEPT !.pc = "decide"] ELSE Idle)
                /\ lock' = IF lock = p THEN None ELSE lock

-----------------------------------------------------------------------------
(* What has been seen, and what is refused *)

Outdated_Strictly ==
  candidate # NoCandidate /\ ~candidate.staged /\ candidate.marked = "after"

\* refusalOutdated: the mark is dated in the second of the refusal, or after it.
Outdated == /\ candidate # NoCandidate
            /\ ~candidate.staged
            /\ candidate.marked # "before"

Seen_Installed == release.current.upstream

\* lastSeenUpstream: the candidate, else the installed release.
Seen == CASE candidate = NoCandidate -> release.current.upstream
          [] Outdated -> None
          [] OTHER -> candidate.of

Installed == release.current.bundle

Conflicts(b) == store[Version(b)] \notin {None, b}

Refusals_NoMark(b) ==
  {r \in {"older", "same", "unusable", "conflict"} :
     CASE r = "older"    -> Version(b) < Version(Installed)
       [] r = "same"     -> Version(b) = Version(Installed)
       [] r = "unusable" -> b \in Unusable
       [] r = "conflict" -> Conflicts(b)}

\* stageCandidate and FetchIntoStore: what is wrong with a bundle, as things are.
Refusals(b) ==
  {r \in {"older", "same", "mark", "unusable", "conflict"} :
     CASE r = "older"    -> Version(b) < Version(Installed)
       [] r = "same"     -> Version(b) = Version(Installed)
       [] r = "mark"     -> Version(b) < mark
       [] r = "unusable" -> b \in Unusable
       [] r = "conflict" -> Conflicts(b)}

\* A mark written now is dated in the second of a standing refusal, or after it.
SetMark(v) ==
  /\ mark' = v
  /\ IF candidate = NoCandidate \/ candidate.staged \/ candidate.marked = "after"
     THEN UNCHANGED candidate
     ELSE \E t \in {"same", "after"} : candidate' = [candidate EXCEPT !.marked = t]

-----------------------------------------------------------------------------
(* A poll: a tick of the timer, or `update --stage' *)

\* Without the lock: a tick refuses while an operation needs a person
\* (refuseOpenIntervention), then the peek is compared with what was seen.
Peek(p) == /\ At(p, "idle")
           /\ p = "timer" => unfinished # "attention"
           /\ IF tag = Seen THEN AfterPoll(p)
              ELSE Goes(p, [Idle EXCEPT !.pc = "wait to stage", !.of = tag]) /\ UNCHANGED lock
           /\ UNCHANGED <<tag, store, candidate, mark, release, unfinished, history>>

\* Another poll, or an update, answered while this one waited for the lock.
SeenMeanwhile(p) ==
  /\ At(p, "wait to stage") /\ lock = None
  /\ memory[p].of = Seen
  /\ AfterPoll(p)
  /\ UNCHANGED <<tag, store, candidate, mark, release, unfinished, history>>

\* stageUnderLock records any error as a refusal: of the bundle, or of a network,
\* a registry or a disk that fails.
Refuse(p) ==
  /\ At(p, "wait to stage") /\ lock = None
  /\ memory[p].of # Seen
  /\ \E t \in IF mark = 0 THEN {"before"} ELSE {"before", "same"} :
       candidate' = [NoCandidate EXCEPT !.of = memory[p].of, !.marked = t]
  /\ forMark' = (Refusals(BundleOf[memory[p].of]) = {"mark"})
  /\ Leave(p)
  /\ UNCHANGED <<tag, store, mark, release, unfinished, delivered>>

Fetch_Unmarked(p) ==
  /\ At(p, "wait to stage") /\ lock = None
  /\ memory[p].of # Seen
  /\ LET b == BundleOf[memory[p].of]
     IN  /\ Refusals(b) = {}
         /\ store' = [store EXCEPT ![Version(b)] = b]
  /\ lock' = p
  /\ Goes(p, [memory[p] EXCEPT !.pc = "fetched"])
  /\ UNCHANGED <<tag, candidate, mark, release, unfinished, history>>

\* Fetched and verified: into the store, and the mark first.
Fetch(p) ==
  /\ At(p, "wait to stage") /\ lock = None
  /\ memory[p].of # Seen
  /\ LET b == BundleOf[memory[p].of]
     IN  /\ Refusals(b) = {}
         /\ store' = [store EXCEPT ![Version(b)] = b]
         /\ SetMark(Version(b))
  /\ lock' = p
  /\ Goes(p, [memory[p] EXCEPT !.pc = "fetched"])
  /\ UNCHANGED <<tag, release, unfinished, history>>

Stage(p) ==
  /\ At(p, "fetched")
  /\ candidate' = [NoCandidate EXCEPT !.of = memory[p].of, !.staged = TRUE]
  /\ delivered' = Version(BundleOf[memory[p].of])
  /\ forMark' = FALSE
  /\ AfterPoll(p)
  /\ UNCHANGED <<tag, store, mark, release, unfinished>>

-----------------------------------------------------------------------------
(* Deciding to install *)

\* RunUnattended, after the poll: a staged candidate that has not failed.
Decide == /\ At("timer", "decide")
          /\ candidate.staged /\ ~candidate.failed
          /\ Goes("timer", [Idle EXCEPT !.pc = "decided", !.of = candidate.of])
          /\ UNCHANGED <<tag, store, candidate, mark, release, unfinished, lock, history>>

Plan(p, kind, b) ==
  /\ unfinished = "none"
  /\ Goes(p, [memory[p] EXCEPT !.pc = "wait to run", !.kind = kind, !.to = b,
               !.from = [release EXCEPT !.previous = IF kind = "rollback" THEN @ ELSE None]])
  /\ UNCHANGED <<tag, store, candidate, mark, release, unfinished, lock, history>>

NotOlder(b) == Version(b) >= Version(Installed)

\* `update --to' the candidate's version, as the store has it.
PlanUnattended ==
  /\ At("timer", "decided")
  /\ LET b == store[Version(BundleOf[memory["timer"].of])]
     IN  b # None /\ NotOlder(b) /\ Plan("timer", "update", b)

\* An update to a bundle in the store or from a path; an older one when the
\* operator allows it.
AskUpdate == \E b \in Bundles :
  /\ ~Conflicts(b)
  /\ Plan("operator", IF NotOlder(b) THEN "update" ELSE "allow older", b)

AskRollback == /\ release.previous # None
               /\ Version(release.previous) # Version(Installed)
               /\ Plan("operator", "rollback", release.previous)

AskApply == Plan("operator", "apply", Installed)

Ask == /\ At("operator", "idle")
       /\ AskUpdate \/ AskRollback \/ AskApply

-----------------------------------------------------------------------------
(* An operation, under the lock *)

Run_Unchecked(p) ==
  /\ At(p, "wait to run") /\ lock = None
  /\ lock' = p
  /\ unfinished = "none"
  /\ unfinished' = "running"
  /\ Goes(p, [memory[p] EXCEPT !.pc = "running"])
  /\ UNCHANGED <<tag, store, candidate, mark, release, history>>

\* The re-checks under the lock, and the first record in the journal.
Run(p) ==
  /\ At(p, "wait to run") /\ lock = None
  /\ lock' = p
  /\ unfinished = "none"
  /\ Installed = memory[p].from.current.bundle
  /\ memory[p].kind = "rollback" => release.previous = memory[p].from.previous
  /\ unfinished' = "running"
  /\ Goes(p, [memory[p] EXCEPT !.pc = "running"])
  /\ UNCHANGED <<tag, store, candidate, mark, release, history>>

PlaceRelease_Overwrites(p) ==
  /\ At(p, "running")
  /\ memory[p].kind \in {"update", "allow older"}
  /\ store' = [store EXCEPT ![Version(memory[p].to)] = memory[p].to]
  /\ Goes(p, [memory[p] EXCEPT !.pc = "placed"])
  /\ UNCHANGED <<tag, candidate, mark, release, unfinished, lock, history>>

\* stage-release: into the store, unless another bundle has its version's place.
\* Skipped when the bundle is there, and then never undone.
PlaceRelease(p) ==
  /\ At(p, "running")
  /\ memory[p].kind \in {"update", "allow older"}
  /\ ~Conflicts(memory[p].to)
  /\ store' = [store EXCEPT ![Version(memory[p].to)] = memory[p].to]
  /\ Goes(p, [memory[p] EXCEPT !.pc = "placed",
               !.from = IF store' = store THEN NoRelease ELSE @])
  /\ UNCHANGED <<tag, candidate, mark, release, unfinished, lock, history>>

\* SetCurrentRelease: what is current becomes previous, when the version changes.
Promoted(b, upstream) ==
  [current  |-> [bundle |-> b, upstream |-> upstream],
   previous |-> IF Version(b) = Version(Installed) THEN release.previous ELSE Installed]

\* point-to-previous, which knows no upstream digest.
PointToPrevious(p) ==
  /\ At(p, "running")
  /\ memory[p].kind = "rollback"
  /\ release' = Promoted(memory[p].to, None)
  /\ Goes(p, [memory[p] EXCEPT !.pc = "placed"])
  /\ UNCHANGED <<tag, store, candidate, mark, unfinished, lock, history>>

\* adoptStagedCandidate: the only source of a release's upstream digest.
Adopted(b) == IF candidate.staged /\ Version(BundleOf[candidate.of]) = Version(b)
              THEN candidate.of ELSE None

\* record-state, up to the release record.
RecordRelease(p) ==
  /\ At(p, "placed") \/ (At(p, "running") /\ memory[p].kind = "apply")
  /\ release' = Promoted(memory[p].to, Adopted(memory[p].to))
  /\ Goes(p, [memory[p] EXCEPT !.pc = "recorded", !.from = NoRelease])
  /\ UNCHANGED <<tag, store, candidate, mark, unfinished, lock, history>>

\* record-state, retireStagedCandidate: a candidate not newer than what was
\* installed is forgotten.  Failing to is a warning.
Retire(p) ==
  /\ At(p, "recorded")
  /\ \/ UNCHANGED candidate
     \/ /\ candidate.staged
        /\ Version(BundleOf[candidate.of]) <= Version(memory[p].to)
        /\ candidate' = NoCandidate
  /\ Goes(p, [memory[p] EXCEPT !.pc = "retired"])
  /\ UNCHANGED <<tag, store, mark, release, unfinished, lock, history>>

GoesBack(p) == memory[p].kind \in {"rollback", "allow older"}

Succeed(p) ==
  /\ At(p, "retired")
  /\ unfinished' = "none"
  /\ IF GoesBack(p)
     THEN Goes(p, [memory[p] EXCEPT !.pc = "lower"]) /\ UNCHANGED lock
     ELSE Leave(p)
  /\ delivered' = IF GoesBack(p) /\ Version(memory[p].to) < delivered
                  THEN Version(memory[p].to) ELSE delivered
  /\ UNCHANGED <<tag, store, candidate, mark, release, forMark>>

\* lowerFollowedMarkOrWarn.
LowerMark(p) == /\ At(p, "lower")
                /\ IF Version(memory[p].to) < mark THEN SetMark(Version(memory[p].to))
                                                   ELSE UNCHANGED <<mark, candidate>>
                /\ Leave(p)
                /\ UNCHANGED <<tag, store, release, unfinished, history>>

\* An operation that ran and did not succeed: failed, interrupted, compensated or
\* needing a person.  What took place before record-state may be undone: both
\* stage-release and point-to-previous put the release they started from back.
Fail(p) ==
  /\ memory[p].pc \in {"running", "placed", "retired"}
  /\ unfinished' \in {"none", "attention"}
  /\ \/ UNCHANGED release
     \/ /\ At(p, "placed") /\ memory[p].from # NoRelease
        /\ release' = Promoted(memory[p].from.current.bundle, memory[p].from.current.upstream)
  /\ Goes(p, IF p = "timer" THEN [Idle EXCEPT !.pc = "wait to mark", !.of = memory[p].of]
                            ELSE Idle)
  /\ lock' = None
  /\ UNCHANGED <<tag, store, candidate, mark, forMark, delivered>>

MarkInstallFailed_Whatever ==
  /\ At("timer", "wait to mark") /\ lock = None
  /\ candidate # NoCandidate
  /\ candidate' = [candidate EXCEPT !.failed = TRUE]
  /\ Leave("timer")
  /\ UNCHANGED <<tag, store, mark, release, unfinished, history>>

\* Under the lock; the candidate may be another by now, or none.
MarkInstallFailed ==
  /\ At("timer", "wait to mark") /\ lock = None
  /\ candidate.of = memory["timer"].of
  /\ candidate' = [candidate EXCEPT !.failed = TRUE]
  /\ Leave("timer")
  /\ UNCHANGED <<tag, store, mark, release, unfinished, history>>

-----------------------------------------------------------------------------
(* The rest of the world *)

\* A refusal anywhere, the lock held by another, a write that fails, or a kill:
\* the process ends here and what it has written stays.
End(p) == /\ memory[p].pc # "idle"
          /\ Leave(p)
          /\ UNCHANGED <<tag, store, candidate, mark, release, unfinished, history>>

\* `status --clear-intervention'.
Acknowledge == /\ At("operator", "idle")
               /\ lock = None
               /\ unfinished # "none"
               /\ unfinished' = "none"
               /\ UNCHANGED <<tag, store, candidate, mark, release, lock, memory, history>>

\* The vendor moves the channel.
MoveTag == /\ tag' \in Artefacts \ {tag}
           /\ UNCHANGED <<store, candidate, mark, release, unfinished, lock, memory, history>>

Versions == {Version(b) : b \in Bundles}

Init ==
  /\ tag \in Artefacts
  /\ store = [v \in Versions |-> IF v = Version(First) THEN First ELSE None]
  /\ candidate = NoCandidate
  /\ mark = 0
  /\ release = [current |-> [bundle |-> First, upstream |-> None], previous |-> None]
  /\ unfinished = "none"
  /\ lock = None
  /\ memory = [p \in Actors |-> Idle]
  /\ forMark = FALSE /\ delivered = 0

Poll(p) == Peek(p) \/ SeenMeanwhile(p) \/ Refuse(p) \/ Fetch(p) \/ Stage(p)

Operate(p) == \/ Run(p) \/ PlaceRelease(p) \/ PointToPrevious(p)
              \/ RecordRelease(p) \/ Retire(p) \/ Succeed(p) \/ LowerMark(p) \/ Fail(p)

Next == \/ \E p \in Actors : Poll(p) \/ Operate(p) \/ End(p)
        \/ Decide \/ PlanUnattended \/ MarkInstallFailed
        \/ Ask \/ Acknowledge \/ MoveTag

Spec == Init /\ [][Next]_vars

-----------------------------------------------------------------------------
(* Properties *)

Waiting == {"idle", "wait to stage", "decide", "decided", "wait to run", "wait to mark"}

Holding == {"fetched", "running", "placed", "recorded", "retired", "lower"}

Releases == [current : [bundle : Bundles, upstream : Artefacts \cup {None}],
             previous : Bundles \cup {None}]

Kinds == {"none", "update", "allow older", "rollback", "apply"}

Candidates == [of : Artefacts \cup {None}, staged : BOOLEAN, failed : BOOLEAN,
               marked : {"before", "same", "after"}]

Memories == [pc : Waiting \cup Holding, kind : Kinds, of : Artefacts \cup {None},
             to : Bundles \cup {None}, from : Releases \cup {NoRelease}]

\* Types; an actor is under the lock exactly when it holds it.
TypeOK ==
  /\ tag \in Artefacts
  /\ store \in [Versions -> Bundles \cup {None}]
  /\ candidate \in Candidates
  /\ mark \in Versions \cup {0}
  /\ release \in Releases
  /\ unfinished \in {"none", "running", "attention"}
  /\ lock \in Actors \cup {None}
  /\ memory \in [Actors -> Memories]
  /\ \A p \in Actors : memory[p].pc \in Holding <=> lock = p

\* A timer never moves the machine to an older release, whatever an operator
\* installed between its poll, its plan and its turn at the lock.
NeverDowngrades ==
  [][At("timer", "placed") /\ release' # release =>
       Version(release'.current.bundle) >= Version(Installed)]_vars

\* Nothing older than the channel has delivered is staged from it, unless the
\* operator went back since; also when a process died between the writes of the
\* mark and of the candidate (stageUnderLock; RFC 0037).
NeverBelowDelivered ==
  [][candidate'.staged /\ candidate'.of # candidate.of =>
       Version(BundleOf[candidate'.of]) >= delivered]_vars

\* A refusal made for the mark, which the poll goes on trusting, is one the mark
\* still makes: a lowering is seen, in whichever second it falls (refusalOutdated).
LoweredMarkIsSeen ==
  forMark /\ candidate # NoCandidate /\ ~candidate.staged /\ ~Outdated =>
    Version(BundleOf[candidate.of]) < mark

\* A candidate is only said to have failed by the tick that ran an install of it,
\* and of no other: an operator may have staged another before the tick could say
\* so, and none is blamed for a tick that ran nothing (markInstallFailed).
OnlyTheFailedIsBlamed ==
  [][candidate'.failed /\ ~(candidate.failed /\ candidate'.of = candidate.of) =>
       At("timer", "wait to mark") /\ memory["timer"].of = candidate'.of]_vars

\* That a tick failed to install a staged candidate stays on it for as long as it is
\* the candidate: a poll that waited meanwhile does not stage it afresh, which would
\* have the next tick repeat the install (FollowChannel's second look).
FailureIsKept ==
  [][candidate.staged /\ candidate.failed /\ candidate'.of = candidate.of =>
       candidate'.failed]_vars

\* A release that says what its channel called it is that artefact's bundle: a
\* poll that finds the channel unmoved has it installed (adoptStagedCandidate,
\* which compares versions, and the store, which has one bundle for each).
UpstreamIsWhatIsInstalled ==
  release.current.upstream # None => BundleOf[release.current.upstream] = Installed

=============================================================================
