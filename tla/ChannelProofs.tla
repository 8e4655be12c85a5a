---------------------------- MODULE ChannelProofs ----------------------------
(***************************************************************************)
(* Theorems of Channel: every property its run checks, for all artefacts,  *)
(* bundles and versions.                                                   *)
(***************************************************************************)
EXTENDS Channel, TLAPS

\* What a process holds at each point of its way.
Holds(p, m) ==
  /\ m.pc \in {"wait to stage", "fetched", "decided", "wait to mark"} => m.of \in Artefacts
  /\ m.pc \in {"wait to run", "running", "placed", "recorded", "retired", "lower"} =>
       /\ m.to \in Bundles
       /\ p = "timer" => m.of \in Artefacts
  /\ m.pc = "wait to run" => m.from \in Releases

\* The half of the type invariant that is about processes,
MemoryInv ==
  /\ memory \in [Actors -> Memories]
  /\ lock \in Actors \cup {None}
  /\ \A p \in Actors : Holds(p, memory[p])
  /\ \A p \in Actors : memory[p].pc \in Holding <=> lock = p

\* and the half about files.
FilesInv ==
  /\ tag \in Artefacts
  /\ store \in [Versions -> Bundles \cup {None}]
  /\ candidate \in Candidates
  /\ candidate # NoCandidate => candidate.of \in Artefacts
  /\ mark \in Versions \cup {0}
  /\ release \in Releases
  /\ unfinished \in {"none", "running", "attention"}

TypeInv == MemoryInv /\ FilesInv

\* What an installation begins with.
LEMMA TypeInvInit == Init => TypeInv
<1> SUFFICES ASSUME Init PROVE TypeInv
  OBVIOUS
<1>1. MemoryInv
  BY NoneAssumption DEF Init, MemoryInv, Holds, Actors, Idle, Memories, Kinds, Waiting, Holding
<1>2. FilesInv
  BY ArtefactsAssumption, BundlesAssumption
     DEF Init, FilesInv, NoCandidate, Versions, Version, Releases, Candidates
<1>3. QED
  BY <1>1, <1>2 DEF TypeInv

\* A bundle's version has a place in the store.
LEMMA VersionTyped == \A b \in Bundles : Version(b) \in Versions
  BY DEF Versions

\* One process goes on, and keeps, takes or leaves the lock.
LEMMA MemoryStep ==
  ASSUME MemoryInv, NEW p \in Actors, NEW m \in Memories, Holds(p, m), Goes(p, m),
         \/ m.pc \in Holding /\ lock' = p /\ lock \in {p, None}
         \/ m.pc \notin Holding /\ lock' = IF lock = p THEN None ELSE lock
  PROVE  MemoryInv'
<1>1. memory' \in [Actors -> Memories]
  BY DEF MemoryInv, Goes
<1>2. \A q \in Actors : memory'[q] = IF q = p THEN m ELSE memory[q]
  BY DEF MemoryInv, Goes
<1>3. \A q \in Actors : Holds(q, memory'[q])
  BY <1>2 DEF MemoryInv
<1>4. None \notin Actors
  BY NoneAssumption DEF Actors
<1>5. lock' \in Actors \cup {None} /\ \A q \in Actors : memory'[q].pc \in Holding <=> lock' = q
  BY <1>2, <1>4 DEF MemoryInv
<1>6. QED
  BY <1>1, <1>3, <1>5 DEF MemoryInv, Holds

\* A process that has done, fits;
LEMMA IdleFits == Idle \in Memories /\ \A p \in Actors : Holds(p, Idle) /\ Idle.pc \notin Holding
  BY DEF Idle, Memories, Kinds, Waiting, Holding, Holds

\* it leaves the lock to the others,
LEMMA LeaveFits == ASSUME MemoryInv, NEW p \in Actors, Leave(p) PROVE MemoryInv'
  BY IdleFits, MemoryStep DEF Leave

\* after a poll too, when a tick goes on to decide.
LEMMA AfterPollFits == ASSUME MemoryInv, NEW p \in Actors, AfterPoll(p) PROVE MemoryInv'
<1> DEFINE m == IF p = "timer" THEN [Idle EXCEPT !.pc = "decide"] ELSE Idle
<1>1. m \in Memories /\ Holds(p, m) /\ m.pc \notin Holding
  BY IdleFits DEF Idle, Memories, Kinds, Waiting, Holding, Holds
<1>2. QED
  BY <1>1, MemoryStep DEF AfterPoll

\* The files as an action leaves them.
LEMMA SetMarkTyped == ASSUME FilesInv, NEW v \in Versions, SetMark(v)
                      PROVE  /\ mark' \in Versions \cup {0}
                             /\ candidate' \in Candidates
                             /\ candidate' # NoCandidate => candidate'.of \in Artefacts
  BY DEF FilesInv, SetMark, Candidates, NoCandidate

\* A promotion writes a release record,
LEMMA PromotedTyped ==
  ASSUME FilesInv, NEW b \in Bundles, NEW u \in Artefacts \cup {None}
  PROVE  Promoted(b, u) \in Releases
  BY DEF FilesInv, Promoted, Releases, Installed

\* whose upstream digest is an artefact's, if any.
LEMMA AdoptedTyped == ASSUME FilesInv, NEW b \in Bundles PROVE Adopted(b) \in Artefacts \cup {None}
  BY DEF FilesInv, Adopted, Candidates

\* Types are kept by every action.
LEMMA TypeInvStep == TypeInv /\ [Next]_vars => TypeInv'
<1> SUFFICES ASSUME MemoryInv, FilesInv, [Next]_vars PROVE MemoryInv' /\ FilesInv'
  BY DEF TypeInv
<1>1. ASSUME NEW p \in Actors, Peek(p) PROVE MemoryInv' /\ FilesInv'
  <2> DEFINE m == [Idle EXCEPT !.pc = "wait to stage", !.of = tag]
  <2>1. ASSUME AfterPoll(p) PROVE MemoryInv'
    BY <2>1, AfterPollFits
  <2>2. ASSUME Goes(p, m), UNCHANGED lock PROVE MemoryInv'
    <3>1. m \in Memories /\ Holds(p, m) /\ m.pc \notin Holding
      BY DEF FilesInv, Idle, Memories, Kinds, Waiting, Holding, Holds
    <3>2. lock # p
      BY <1>1 DEF Peek, At, MemoryInv, Holding
    <3>3. QED
      BY <2>2, <3>1, <3>2, MemoryStep
  <2>3. FilesInv'
    BY <1>1 DEF Peek, FilesInv
  <2>4. QED
    BY <1>1, <2>1, <2>2, <2>3 DEF Peek
<1>2. ASSUME NEW p \in Actors, SeenMeanwhile(p) PROVE MemoryInv' /\ FilesInv'
  BY <1>2, AfterPollFits DEF SeenMeanwhile, FilesInv
<1>3. ASSUME NEW p \in Actors, Refuse(p) PROVE MemoryInv' /\ FilesInv'
  <2>1. memory[p].of \in Artefacts
    BY <1>3 DEF Refuse, At, MemoryInv, Holds
  <2>2. candidate' \in Candidates /\ candidate'.of \in Artefacts
    BY <1>3, <2>1 DEF Refuse, NoCandidate, Candidates
  <2>3. QED
    BY <1>3, <2>2, LeaveFits DEF Refuse, FilesInv
<1>4. ASSUME NEW p \in Actors, Fetch(p) PROVE MemoryInv' /\ FilesInv'
  <2> DEFINE b == BundleOf[memory[p].of]
             m == [memory[p] EXCEPT !.pc = "fetched"]
  <2>1. memory[p].of \in Artefacts /\ memory[p] \in Memories
    BY <1>4 DEF Fetch, At, MemoryInv, Holds
  <2>2. b \in Bundles /\ Version(b) \in Versions
    BY <2>1, ArtefactsAssumption, VersionTyped
  <2>3. m \in Memories /\ Holds(p, m) /\ m.pc \in Holding
    BY <2>1 DEF Memories, Waiting, Holding, Holds
  <2>4. MemoryInv'
    BY <1>4, <2>3, MemoryStep DEF Fetch
  <2>5. FilesInv'
    BY <1>4, <2>2, SetMarkTyped DEF Fetch, FilesInv
  <2>6. QED
    BY <2>4, <2>5
<1>5. ASSUME NEW p \in Actors, Stage(p) PROVE MemoryInv' /\ FilesInv'
  <2>1. memory[p].of \in Artefacts
    BY <1>5 DEF Stage, At, MemoryInv, Holds
  <2>2. candidate' \in Candidates /\ candidate'.of \in Artefacts
    BY <1>5, <2>1 DEF Stage, NoCandidate, Candidates
  <2>3. QED
    BY <1>5, <2>2, AfterPollFits DEF Stage, FilesInv
<1>6. ASSUME NEW p \in Actors, Run(p) PROVE MemoryInv' /\ FilesInv'
  <2> DEFINE m == [memory[p] EXCEPT !.pc = "running"]
  <2>1. m \in Memories /\ Holds(p, m) /\ m.pc \in Holding
    BY <1>6 DEF Run, At, MemoryInv, Memories, Waiting, Holding, Holds
  <2>2. MemoryInv'
    BY <1>6, <2>1, MemoryStep DEF Run
  <2>3. QED
    BY <1>6, <2>2 DEF Run, FilesInv
<1>7. ASSUME NEW p \in Actors, PlaceRelease(p) PROVE MemoryInv' /\ FilesInv'
  <2> DEFINE m == [memory[p] EXCEPT !.pc = "placed",
                   !.from = IF store' = store THEN NoRelease ELSE @]
  <2>1. memory[p] \in Memories /\ memory[p].to \in Bundles /\ lock = p
    BY <1>7 DEF PlaceRelease, At, MemoryInv, Holding, Holds
  <2>2. m \in Memories /\ Holds(p, m) /\ m.pc \in Holding
    BY <1>7, <2>1 DEF PlaceRelease, At, MemoryInv, Memories, Waiting, Holding, Holds
  <2>3. MemoryInv'
    BY <1>7, <2>1, <2>2, MemoryStep DEF PlaceRelease
  <2>4. QED
    BY <1>7, <2>1, <2>3, VersionTyped DEF PlaceRelease, FilesInv
<1>8. ASSUME NEW p \in Actors, PointToPrevious(p) PROVE MemoryInv' /\ FilesInv'
  <2> DEFINE m == [memory[p] EXCEPT !.pc = "placed"]
  <2>1. memory[p] \in Memories /\ memory[p].to \in Bundles /\ lock = p
    BY <1>8 DEF PointToPrevious, At, MemoryInv, Holding, Holds
  <2>2. m \in Memories /\ Holds(p, m) /\ m.pc \in Holding
    BY <1>8, <2>1 DEF PointToPrevious, At, MemoryInv, Memories, Waiting, Holding, Holds
  <2>3. MemoryInv'
    BY <1>8, <2>1, <2>2, MemoryStep DEF PointToPrevious
  <2>4. QED
    BY <1>8, <2>1, <2>3, PromotedTyped DEF PointToPrevious, FilesInv
<1>9. ASSUME NEW p \in Actors, RecordRelease(p) PROVE MemoryInv' /\ FilesInv'
  <2> DEFINE m == [memory[p] EXCEPT !.pc = "recorded", !.from = NoRelease]
  <2>1. memory[p] \in Memories /\ memory[p].to \in Bundles /\ lock = p
    BY <1>9 DEF RecordRelease, At, MemoryInv, Holding, Holds
  <2>2. m \in Memories /\ Holds(p, m) /\ m.pc \in Holding
    BY <1>9, <2>1 DEF RecordRelease, At, MemoryInv, Memories, Waiting, Holding, Holds
  <2>3. MemoryInv'
    BY <1>9, <2>1, <2>2, MemoryStep DEF RecordRelease
  <2>4. QED
    BY <1>9, <2>1, <2>3, PromotedTyped, AdoptedTyped DEF RecordRelease, FilesInv
<1>10. ASSUME NEW p \in Actors, Retire(p) PROVE MemoryInv' /\ FilesInv'
  <2> DEFINE m == [memory[p] EXCEPT !.pc = "retired"]
  <2>1. memory[p] \in Memories /\ lock = p
    BY <1>10 DEF Retire, At, MemoryInv, Holding
  <2>2. m \in Memories /\ Holds(p, m) /\ m.pc \in Holding
    BY <1>10, <2>1 DEF Retire, At, MemoryInv, Memories, Waiting, Holding, Holds
  <2>3. MemoryInv'
    BY <1>10, <2>1, <2>2, MemoryStep DEF Retire
  <2>4. NoCandidate \in Candidates
    BY DEF NoCandidate, Candidates
  <2>5. QED
    BY <1>10, <2>3, <2>4 DEF Retire, FilesInv
<1>11. ASSUME NEW p \in Actors, Succeed(p) PROVE MemoryInv' /\ FilesInv'
  <2> DEFINE m == [memory[p] EXCEPT !.pc = "lower"]
  <2>1. memory[p] \in Memories /\ lock = p
    BY <1>11 DEF Succeed, At, MemoryInv, Holding
  <2>2. m \in Memories /\ Holds(p, m) /\ m.pc \in Holding
    BY <1>11, <2>1 DEF Succeed, At, MemoryInv, Memories, Waiting, Holding, Holds
  <2>3. CASE GoesBack(p)
    BY <1>11, <2>1, <2>2, <2>3, MemoryStep DEF Succeed, FilesInv
  <2>4. CASE ~GoesBack(p)
    BY <1>11, <2>4, LeaveFits DEF Succeed, FilesInv
  <2>5. QED
    BY <2>3, <2>4
<1>12. ASSUME NEW p \in Actors, LowerMark(p) PROVE MemoryInv' /\ FilesInv'
  <2>1. Version(memory[p].to) \in Versions
    BY <1>12, VersionTyped DEF LowerMark, At, MemoryInv, Holds
  <2>2. QED
    BY <1>12, <2>1, LeaveFits, SetMarkTyped DEF LowerMark, FilesInv
<1>13. ASSUME NEW p \in Actors, Fail(p) PROVE MemoryInv' /\ FilesInv'
  <2> DEFINE m == IF p = "timer" THEN [Idle EXCEPT !.pc = "wait to mark", !.of = memory[p].of]
                                 ELSE Idle
  <2>1. memory[p] \in Memories /\ lock = p /\ (p = "timer" => memory[p].of \in Artefacts)
    BY <1>13 DEF Fail, At, MemoryInv, Holding, Holds
  <2>2. m \in Memories /\ Holds(p, m) /\ m.pc \notin Holding
    BY <2>1, IdleFits DEF Idle, Memories, Kinds, Waiting, Holding, Holds
  <2>3. MemoryInv'
    BY <1>13, <2>1, <2>2, MemoryStep DEF Fail
  <2>4. release' \in Releases
    <3>1. CASE UNCHANGED release
      BY <3>1 DEF FilesInv
    <3>2. CASE memory[p].from # NoRelease
               /\ release' = Promoted(memory[p].from.current.bundle,
                                       memory[p].from.current.upstream)
      <4>1. memory[p].from \in Releases
        BY <2>1, <3>2 DEF Memories
      <4>2. QED
        BY <3>2, <4>1, PromotedTyped DEF Releases
    <3>3. QED
      BY <1>13, <3>1, <3>2 DEF Fail
  <2>5. QED
    BY <1>13, <2>3, <2>4 DEF Fail, FilesInv
<1>14. ASSUME NEW p \in Actors, End(p) PROVE MemoryInv' /\ FilesInv'
  BY <1>14, LeaveFits DEF End, FilesInv
<1>15. CASE Decide
  <2> DEFINE m == [Idle EXCEPT !.pc = "decided", !.of = candidate.of]
  <2>1. candidate.of \in Artefacts
    BY <1>15 DEF Decide, FilesInv, NoCandidate
  <2>2. "timer" \in Actors /\ lock # "timer"
    BY <1>15 DEF Decide, At, MemoryInv, Holding, Actors
  <2>3. m \in Memories /\ Holds("timer", m) /\ m.pc \notin Holding
    BY <2>1 DEF Idle, Memories, Kinds, Waiting, Holding, Holds
  <2>4. MemoryInv'
    BY <1>15, <2>2, <2>3, MemoryStep DEF Decide
  <2>5. QED
    BY <1>15, <2>4 DEF Decide, FilesInv
<1>16. ASSUME NEW p \in Actors, NEW kind \in Kinds, NEW b \in Bundles, Plan(p, kind, b),
              memory[p].pc \in {"idle", "decided"}, p = "timer" => memory[p].of \in Artefacts
       PROVE  MemoryInv' /\ FilesInv'
  <2> DEFINE f == [release EXCEPT !.previous = IF kind = "rollback" THEN @ ELSE None]
             m == [memory[p] EXCEPT !.pc = "wait to run", !.kind = kind, !.to = b, !.from = f]
  <2>1. f \in Releases /\ memory[p] \in Memories /\ lock # p
    BY <1>16 DEF FilesInv, MemoryInv, Releases, Holding
  <2>2. m \in Memories /\ Holds(p, m) /\ m.pc \notin Holding
    BY <1>16, <2>1 DEF Memories, Waiting, Holding, Holds
  <2>3. MemoryInv'
    BY <1>16, <2>1, <2>2, MemoryStep DEF Plan
  <2>4. QED
    BY <1>16, <2>3 DEF Plan, FilesInv
<1>17. CASE PlanUnattended
  <2>1. "timer" \in Actors /\ memory["timer"].of \in Artefacts /\ memory["timer"].pc = "decided"
    BY <1>17 DEF PlanUnattended, At, MemoryInv, Holds, Actors
  <2>2. store[Version(BundleOf[memory["timer"].of])] \in Bundles \cup {None}
    BY <2>1, ArtefactsAssumption, VersionTyped DEF FilesInv
  <2>3. QED
    BY <1>16, <1>17, <2>1, <2>2 DEF PlanUnattended, Kinds
<1>18. CASE Ask
  <2>1. "operator" \in Actors /\ memory["operator"].pc = "idle" /\ "operator" # "timer"
    BY <1>18 DEF Ask, At, Actors
  <2>2. ASSUME NEW b \in Bundles,
               Plan("operator", IF NotOlder(b) THEN "update" ELSE "allow older", b)
        PROVE  MemoryInv' /\ FilesInv'
    BY <1>16, <2>1, <2>2 DEF Kinds
  <2>3. CASE AskRollback
    BY <1>16, <2>1, <2>3 DEF AskRollback, Kinds, FilesInv, Releases
  <2>4. CASE AskApply
    BY <1>16, <2>1, <2>4 DEF AskApply, Kinds, FilesInv, Releases, Installed
  <2>5. QED
    BY <1>18, <2>2, <2>3, <2>4 DEF Ask, AskUpdate
<1>19. CASE MarkInstallFailed
  <2>1. "timer" \in Actors /\ memory["timer"].of \in Artefacts
    BY <1>19 DEF MarkInstallFailed, At, MemoryInv, Holds, Actors
  <2>2. candidate' \in Candidates /\ candidate'.of \in Artefacts
    BY <1>19, <2>1 DEF MarkInstallFailed, FilesInv, Candidates
  <2>3. QED
    BY <1>19, <2>1, <2>2, LeaveFits DEF MarkInstallFailed, FilesInv
<1>20. CASE Acknowledge
  BY <1>20 DEF Acknowledge, MemoryInv, FilesInv
<1>21. CASE MoveTag
  BY <1>21 DEF MoveTag, MemoryInv, FilesInv
<1>22. CASE UNCHANGED vars
  BY <1>22 DEF vars, MemoryInv, FilesInv
<1>23. QED
  BY <1>1, <1>2, <1>3, <1>4, <1>5, <1>6, <1>7, <1>8, <1>9, <1>10, <1>11, <1>12, <1>13, <1>14,
     <1>15, <1>17, <1>18, <1>19, <1>20, <1>21, <1>22 DEF Next, Poll, Operate

\* Every reachable state of the channel is well typed, and an actor is under the
\* lock exactly when it holds it.
THEOREM TypeCorrect == Spec => []TypeOK
<1>1. Init => TypeInv
  BY TypeInvInit
<1>2. TypeInv /\ [Next]_vars => TypeInv'
  BY TypeInvStep
<1>3. TypeInv => TypeOK
  BY DEF TypeInv, MemoryInv, FilesInv, TypeOK
<1>4. QED
  BY <1>1, <1>2, <1>3, PTL DEF Spec
-----------------------------------------------------------------------------
(* A release is the artefact it says *)

HasIn(s, b) == s[Version(b)] = b

SaysTruly(r) == r.current.upstream # None => BundleOf[r.current.upstream] = r.current.bundle

\* What a process relies on of the store s, with m in its memory.
Knows(s, m) ==
  /\ m.pc = "fetched" => HasIn(s, BundleOf[m.of])
  /\ \/ m.pc = "placed"
     \/ m.pc \in {"wait to run", "running"} /\ m.kind \in {"rollback", "apply"}
     => HasIn(s, m.to)
  /\ m.pc \in {"wait to run", "running", "placed"} /\ m.from # NoRelease =>
       HasIn(s, m.from.current.bundle) /\ SaysTruly(m.from)

\* What is recorded is in the store, and the store never takes a bundle back.
RecordsInv ==
  /\ HasIn(store, Installed)
  /\ release.previous # None => HasIn(store, release.previous)
  /\ candidate.staged => HasIn(store, BundleOf[candidate.of])
  /\ SaysTruly(release)

StoreInv == RecordsInv /\ \A p \in Actors : Knows(store, memory[p])

StoreGrows == \A b \in Bundles : HasIn(store, b) => HasIn(store', b)

\* An action that leaves the store alone takes nothing from it.
LEMMA StoreKept == ASSUME UNCHANGED store PROVE StoreGrows
  BY DEF StoreGrows, HasIn

\* A bundle put in a place that is free, or its own, takes no other's.
LEMMA PutGrows ==
  ASSUME FilesInv, NEW b \in Bundles, ~Conflicts(b), store' = [store EXCEPT ![Version(b)] = b]
  PROVE  StoreGrows /\ HasIn(store', b)
  BY VersionTyped, BundlesAssumption DEF FilesInv, Conflicts, StoreGrows, HasIn

\* What a process relies on, a store that grows still has.
LEMMA KnowledgeGrows ==
  ASSUME StoreGrows, NEW p \in Actors, NEW m \in Memories, Holds(p, m), Knows(store, m)
  PROVE  Knows(store', m)
<1>1. m.pc = "fetched" => BundleOf[m.of] \in Bundles
  BY ArtefactsAssumption DEF Holds
<1>2. m.pc \in {"wait to run", "running", "placed"} => m.to \in Bundles
  BY DEF Holds
<1>3. m.from # NoRelease => m.from.current.bundle \in Bundles
  BY DEF Memories, Releases
<1>4. QED
  BY <1>1, <1>2, <1>3 DEF StoreGrows, Knows

\* One process goes on with what it may rely on; the others keep theirs.
LEMMA KnowledgeStep ==
  ASSUME MemoryInv, StoreInv, StoreGrows, NEW p \in Actors, NEW m, Goes(p, m), Knows(store', m)
  PROVE  \A q \in Actors : Knows(store', memory'[q])
<1>1. \A q \in Actors : memory'[q] = IF q = p THEN m ELSE memory[q]
  BY DEF MemoryInv, Goes
<1>2. \A q \in Actors : memory[q] \in Memories /\ Holds(q, memory[q]) /\ Knows(store, memory[q])
  BY DEF MemoryInv, StoreInv
<1>3. QED
  BY <1>1, <1>2, KnowledgeGrows

\* A process that has done relies on nothing.
LEMMA IdleKnows == \A s : Knows(s, Idle)
  BY DEF Knows, Idle

\* So a process may leave,
LEMMA LeaveKnows ==
  ASSUME MemoryInv, StoreInv, StoreGrows, NEW p \in Actors, Leave(p)
  PROVE  \A q \in Actors : Knows(store', memory'[q])
  BY IdleKnows, KnowledgeStep DEF Leave

\* and end its poll.
LEMMA AfterPollKnows ==
  ASSUME MemoryInv, StoreInv, StoreGrows, NEW p \in Actors, AfterPoll(p)
  PROVE  \A q \in Actors : Knows(store', memory'[q])
<1> DEFINE m == IF p = "timer" THEN [Idle EXCEPT !.pc = "decide"] ELSE Idle
<1>1. Knows(store', m)
  BY DEF Knows, Idle
<1>2. QED
  BY <1>1, KnowledgeStep DEF AfterPoll

\* An action that leaves the files alone but for the mark, the tag and the journal.
LEMMA RecordsKept ==
  ASSUME RecordsInv, UNCHANGED <<store, candidate, release>> PROVE RecordsInv'
  BY DEF RecordsInv, HasIn, SaysTruly, Installed

\* A promotion of a bundle that is in the store, with an artefact that is it.
LEMMA PromotionKeeps ==
  ASSUME FilesInv, RecordsInv, UNCHANGED <<store, candidate>>,
         NEW b \in Bundles, NEW u \in Artefacts \cup {None}, HasIn(store, b),
         u # None => BundleOf[u] = b, release' = Promoted(b, u)
  PROVE  RecordsInv'
  BY DEF RecordsInv, HasIn, SaysTruly, Installed, Promoted

\* A mark's writing dates a refusal anew and leaves the candidate what it is.
LEMMA SetMarkKeeps ==
  ASSUME FilesInv, NEW v, SetMark(v)
  PROVE  candidate'.staged = candidate.staged /\ candidate'.of = candidate.of
  BY DEF FilesInv, SetMark, Candidates, NoCandidate

\* The first release is in the store.
LEMMA StoreInvInit == Init => StoreInv
<1> SUFFICES ASSUME Init PROVE StoreInv
  OBVIOUS
<1>1. RecordsInv
  BY BundlesAssumption, VersionTyped
     DEF Init, RecordsInv, HasIn, SaysTruly, Installed, NoCandidate, Versions
<1>2. QED
  BY <1>1, IdleKnows DEF Init, StoreInv

\* The store has what is recorded, after every action.
LEMMA StoreInvStep == TypeInv /\ StoreInv /\ [Next]_vars => StoreInv'
<1> SUFFICES ASSUME MemoryInv, FilesInv, StoreInv, RecordsInv, [Next]_vars
             PROVE  RecordsInv' /\ \A q \in Actors : Knows(store', memory'[q])
  BY DEF TypeInv, StoreInv
<1> DEFINE Goal == RecordsInv' /\ \A q \in Actors : Knows(store', memory'[q])
<1>1. ASSUME NEW p \in Actors, Peek(p) PROVE Goal
  <2>1. RecordsInv' /\ StoreGrows
    BY <1>1, RecordsKept, StoreKept DEF Peek
  <2>2. Knows(store', [Idle EXCEPT !.pc = "wait to stage", !.of = tag])
    BY DEF Knows, Idle
  <2>3. QED
    BY <1>1, <2>1, <2>2, AfterPollKnows, KnowledgeStep DEF Peek
<1>2. ASSUME NEW p \in Actors, SeenMeanwhile(p) PROVE Goal
  BY <1>2, RecordsKept, StoreKept, AfterPollKnows DEF SeenMeanwhile
<1>3. ASSUME NEW p \in Actors, Refuse(p) PROVE Goal
  <2>1. ~candidate'.staged
    BY <1>3 DEF Refuse, NoCandidate
  <2>2. RecordsInv'
    BY <1>3, <2>1 DEF Refuse, RecordsInv, HasIn, SaysTruly, Installed
  <2>3. QED
    BY <1>3, <2>2, StoreKept, LeaveKnows DEF Refuse
<1>4. ASSUME NEW p \in Actors, Fetch(p) PROVE Goal
  <2> DEFINE b == BundleOf[memory[p].of]
             m == [memory[p] EXCEPT !.pc = "fetched"]
  <2>1. memory[p].of \in Artefacts /\ memory[p] \in Memories
    BY <1>4 DEF Fetch, At, MemoryInv, Holds
  <2>2. b \in Bundles /\ ~Conflicts(b) /\ store' = [store EXCEPT ![Version(b)] = b]
    BY <1>4, <2>1, ArtefactsAssumption DEF Fetch, Refusals
  <2>3. StoreGrows /\ HasIn(store', b)
    BY <2>2, PutGrows
  <2>4. Knows(store', m)
    BY <2>1, <2>3 DEF Knows, Memories
  <2>5. candidate'.staged = candidate.staged /\ candidate'.of = candidate.of /\ release' = release
    BY <1>4, SetMarkKeeps DEF Fetch
  <2>6. candidate.staged => BundleOf[candidate.of] \in Bundles
    BY ArtefactsAssumption DEF FilesInv, NoCandidate
  <2>7. Installed \in Bundles /\ release.previous \in Bundles \cup {None}
    BY DEF FilesInv, Releases, Installed
  <2>8. RecordsInv'
    BY <2>3, <2>5, <2>6, <2>7 DEF RecordsInv, StoreGrows, SaysTruly, Installed, HasIn
  <2>9. QED
    BY <1>4, <2>3, <2>4, <2>8, KnowledgeStep DEF Fetch
<1>5. ASSUME NEW p \in Actors, Stage(p) PROVE Goal
  <2>1. candidate'.of = memory[p].of /\ HasIn(store, BundleOf[memory[p].of])
    BY <1>5 DEF Stage, NoCandidate, StoreInv, Knows, At
  <2>2. RecordsInv'
    BY <1>5, <2>1 DEF Stage, RecordsInv, HasIn, SaysTruly, Installed
  <2>3. QED
    BY <1>5, <2>2, StoreKept, AfterPollKnows DEF Stage
<1>6. ASSUME NEW p \in Actors, Run(p) PROVE Goal
  <2> DEFINE m == [memory[p] EXCEPT !.pc = "running"]
  <2>1. UNCHANGED <<store, candidate, release>> /\ Goes(p, m) /\ memory[p].pc = "wait to run"
    BY <1>6 DEF Run, At
  <2>2. memory[p] \in Memories /\ Knows(store, memory[p])
    BY DEF MemoryInv, StoreInv
  <2>3. Knows(store', m)
    BY <2>1, <2>2 DEF Knows, Memories
  <2>4. QED
    BY <2>1, <2>3, RecordsKept, StoreKept, KnowledgeStep
<1>7. ASSUME NEW p \in Actors, PlaceRelease(p) PROVE Goal
  <2> DEFINE f == IF store' = store THEN NoRelease ELSE memory[p].from
             m == [memory[p] EXCEPT !.pc = "placed", !.from = f]
  <2>1. memory[p] \in Memories /\ memory[p].to \in Bundles /\ memory[p].pc = "running"
    BY <1>7 DEF PlaceRelease, At, MemoryInv, Holds
  <2>2. StoreGrows /\ HasIn(store', memory[p].to)
    BY <1>7, <2>1, PutGrows DEF PlaceRelease
  <2>3. Knows(store', memory[p])
    BY <2>1, <2>2, KnowledgeGrows DEF MemoryInv, StoreInv
  <2>4. Knows(store', m)
    BY <2>1, <2>2, <2>3 DEF Knows, Memories
  <2>5. Goes(p, m)
    BY <1>7, <2>1 DEF PlaceRelease, Memories, Goes
  <2>6. candidate.staged => BundleOf[candidate.of] \in Bundles
    BY ArtefactsAssumption DEF FilesInv, NoCandidate
  <2>7. Installed \in Bundles /\ release.previous \in Bundles \cup {None}
    BY DEF FilesInv, Releases, Installed
  <2>8. UNCHANGED <<candidate, release>>
    BY <1>7 DEF PlaceRelease
  <2>9. RecordsInv'
    BY <2>2, <2>6, <2>7, <2>8 DEF RecordsInv, StoreGrows, SaysTruly, Installed, HasIn
  <2>10. QED
    BY <2>2, <2>4, <2>5, <2>9, KnowledgeStep
<1>8. ASSUME NEW p \in Actors, PointToPrevious(p) PROVE Goal
  <2> DEFINE m == [memory[p] EXCEPT !.pc = "placed"]
  <2>1. memory[p] \in Memories /\ memory[p].to \in Bundles /\ Knows(store, memory[p])
    BY <1>8 DEF PointToPrevious, At, MemoryInv, Holds, StoreInv
  <2>2. HasIn(store, memory[p].to)
    BY <1>8, <2>1 DEF PointToPrevious, At, Knows
  <2>3. RecordsInv'
    BY <1>8, <2>1, <2>2, PromotionKeeps DEF PointToPrevious
  <2>4. store' = store /\ Knows(store, m)
    BY <1>8, <2>1, <2>2 DEF PointToPrevious, At, Knows, Memories
  <2>5. QED
    BY <1>8, <2>3, <2>4, StoreKept, KnowledgeStep DEF PointToPrevious
<1>9. ASSUME NEW p \in Actors, RecordRelease(p) PROVE Goal
  <2> DEFINE b == memory[p].to
             m == [memory[p] EXCEPT !.pc = "recorded", !.from = NoRelease]
  <2>1. memory[p] \in Memories /\ b \in Bundles /\ Knows(store, memory[p])
    BY <1>9 DEF RecordRelease, At, MemoryInv, Holds, StoreInv
  <2>2. HasIn(store, b)
    BY <1>9, <2>1 DEF RecordRelease, At, Knows
  <2>3. Adopted(b) # None => BundleOf[Adopted(b)] = b
    BY <2>2 DEF Adopted, RecordsInv, HasIn
  <2>4. RecordsInv'
    BY <1>9, <2>1, <2>2, <2>3, AdoptedTyped, PromotionKeeps DEF RecordRelease
  <2>5. store' = store /\ Knows(store, m)
    BY <1>9, <2>1 DEF RecordRelease, Knows, Memories
  <2>6. QED
    BY <1>9, <2>4, <2>5, StoreKept, KnowledgeStep DEF RecordRelease
<1>10. ASSUME NEW p \in Actors, Retire(p) PROVE Goal
  <2> DEFINE m == [memory[p] EXCEPT !.pc = "retired"]
  <2>1. candidate' = candidate \/ ~candidate'.staged
    BY <1>10 DEF Retire, NoCandidate
  <2>2. RecordsInv'
    BY <1>10, <2>1 DEF Retire, RecordsInv, HasIn, SaysTruly, Installed
  <2>3. store' = store /\ Knows(store, m)
    BY <1>10 DEF Retire, Knows, Memories, MemoryInv
  <2>4. QED
    BY <1>10, <2>2, <2>3, StoreKept, KnowledgeStep DEF Retire
<1>11. ASSUME NEW p \in Actors, Succeed(p) PROVE Goal
  <2> DEFINE m == [memory[p] EXCEPT !.pc = "lower"]
  <2>1. RecordsInv' /\ StoreGrows
    BY <1>11, RecordsKept, StoreKept DEF Succeed
  <2>2. Knows(store', m)
    BY DEF Knows, Memories, MemoryInv
  <2>3. QED
    BY <1>11, <2>1, <2>2, LeaveKnows, KnowledgeStep DEF Succeed
<1>12. ASSUME NEW p \in Actors, LowerMark(p) PROVE Goal
  <2>1. candidate'.staged = candidate.staged /\ candidate'.of = candidate.of
    BY <1>12, SetMarkKeeps DEF LowerMark
  <2>2. RecordsInv'
    BY <1>12, <2>1 DEF LowerMark, RecordsInv, HasIn, SaysTruly, Installed
  <2>3. QED
    BY <1>12, <2>2, StoreKept, LeaveKnows DEF LowerMark
<1>13. ASSUME NEW p \in Actors, Fail(p) PROVE Goal
  <2> DEFINE m == IF p = "timer" THEN [Idle EXCEPT !.pc = "wait to mark", !.of = memory[p].of]
                                 ELSE Idle
             f == memory[p].from
  <2>1. UNCHANGED <<store, candidate>> /\ StoreGrows /\ Goes(p, m)
    BY <1>13, StoreKept DEF Fail
  <2>2. Knows(store', m)
    BY DEF Knows, Idle
  <2>3. ASSUME At(p, "placed"), f # NoRelease,
               release' = Promoted(f.current.bundle, f.current.upstream)
        PROVE  RecordsInv'
    <3>1. f \in Releases
      BY <2>3 DEF MemoryInv, Memories
    <3>2. HasIn(store, f.current.bundle) /\ SaysTruly(f)
      BY <2>3 DEF StoreInv, Knows, At
    <3>3. QED
      BY <2>1, <2>3, <3>1, <3>2, PromotionKeeps DEF Releases, SaysTruly
  <2>4. RecordsInv'
    BY <1>13, <2>1, <2>3, RecordsKept DEF Fail
  <2>5. QED
    BY <2>1, <2>2, <2>4, KnowledgeStep
<1>14. ASSUME NEW p \in Actors, End(p) PROVE Goal
  BY <1>14, RecordsKept, StoreKept, LeaveKnows DEF End
<1>15. CASE Decide
  <2>1. RecordsInv' /\ StoreGrows /\ "timer" \in Actors
    BY <1>15, RecordsKept, StoreKept DEF Decide, Actors
  <2>2. Knows(store', [Idle EXCEPT !.pc = "decided", !.of = candidate.of])
    BY DEF Knows, Idle
  <2>3. QED
    BY <1>15, <2>1, <2>2, KnowledgeStep DEF Decide
<1>16. ASSUME NEW p \in Actors, NEW kind, NEW b, Plan(p, kind, b),
              kind \in {"rollback", "apply"} => HasIn(store, b)
       PROVE  Goal
  <2> DEFINE f == [release EXCEPT !.previous = IF kind = "rollback" THEN @ ELSE None]
             m == [memory[p] EXCEPT !.pc = "wait to run", !.kind = kind, !.to = b, !.from = f]
  <2>1. UNCHANGED <<store, candidate, release>> /\ Goes(p, m)
    BY <1>16 DEF Plan
  <2>2. memory[p] \in Memories
    BY DEF MemoryInv
  <2>3. f.current = release.current
    BY DEF FilesInv, Releases
  <2>4. HasIn(store, f.current.bundle) /\ SaysTruly(f)
    BY <2>3 DEF RecordsInv, Installed, SaysTruly
  <2>5. m.pc = "wait to run" /\ m.kind = kind /\ m.to = b /\ m.from = f
    BY <2>2 DEF Memories
  <2>6. Knows(store', m)
    BY <1>16, <2>1, <2>4, <2>5 DEF Knows
  <2>7. QED
    BY <2>1, <2>6, RecordsKept, StoreKept, KnowledgeStep
<1>17. CASE PlanUnattended
  BY <1>16, <1>17 DEF PlanUnattended, Actors
<1>18. CASE Ask
  <2>1. "operator" \in Actors
    BY DEF Actors
  <2>2. ASSUME NEW b \in Bundles,
               Plan("operator", IF NotOlder(b) THEN "update" ELSE "allow older", b)
        PROVE  Goal
    BY <1>16, <2>1, <2>2
  <2>3. CASE AskRollback
    BY <1>16, <2>1, <2>3 DEF AskRollback, RecordsInv
  <2>4. CASE AskApply
    BY <1>16, <2>1, <2>4 DEF AskApply, RecordsInv
  <2>5. QED
    BY <1>18, <2>2, <2>3, <2>4 DEF Ask, AskUpdate
<1>19. CASE MarkInstallFailed
  <2>1. candidate'.staged = candidate.staged /\ candidate'.of = candidate.of
    BY <1>19 DEF MarkInstallFailed, FilesInv, Candidates
  <2>2. RecordsInv'
    BY <1>19, <2>1 DEF MarkInstallFailed, RecordsInv, HasIn, SaysTruly, Installed
  <2>3. QED
    BY <1>19, <2>2, StoreKept, LeaveKnows DEF MarkInstallFailed, Actors
<1>20. ASSUME UNCHANGED <<store, candidate, release, memory>> PROVE Goal
  BY <1>20, RecordsKept DEF StoreInv
<1>21. QED
  BY <1>1, <1>2, <1>3, <1>4, <1>5, <1>6, <1>7, <1>8, <1>9, <1>10, <1>11, <1>12, <1>13, <1>14,
     <1>15, <1>17, <1>18, <1>19, <1>20
     DEF Next, Poll, Operate, Acknowledge, MoveTag, vars

\* A release that says what its channel called it is that artefact's bundle,
\* although the digest is taken over by version alone.
THEOREM UpstreamAlwaysInstalled == Spec => []UpstreamIsWhatIsInstalled
<1>1. Init => TypeInv /\ StoreInv
  BY TypeInvInit, StoreInvInit
<1>2. TypeInv /\ StoreInv /\ [Next]_vars => (TypeInv /\ StoreInv)'
  BY TypeInvStep, StoreInvStep
<1>3. StoreInv => UpstreamIsWhatIsInstalled
  BY DEF StoreInv, RecordsInv, SaysTruly, UpstreamIsWhatIsInstalled, Installed
<1>4. QED
  BY <1>1, <1>2, <1>3, PTL DEF Spec
-----------------------------------------------------------------------------
(* A timer never goes back *)

\* What the timer planned is not older than what it planned from; once its plan is
\* checked under the lock, that is what is installed, and stays so.
TimerInv ==
  LET m == memory["timer"]
  IN  /\ m.pc = "wait to run" =>
           m.kind = "update" /\ Version(m.to) >= Version(m.from.current.bundle)
      /\ m.pc \in {"running", "placed"} =>
           /\ m.kind = "update" /\ Version(m.to) >= Version(Installed)
           /\ m.from # NoRelease => m.from.current.bundle = Installed

\* Only the holder of the lock writes the release records.
LEMMA ReleaseStep ==
  ASSUME MemoryInv, [Next]_vars
  PROVE  release' # release =>
           lock \in Actors /\ (PointToPrevious(lock) \/ RecordRelease(lock) \/ Fail(lock))
<1>1. \A p \in Actors : PointToPrevious(p) \/ RecordRelease(p) \/ Fail(p) => lock = p
  BY DEF PointToPrevious, RecordRelease, Fail, At, MemoryInv, Holding
<1>2. QED
  BY <1>1 DEF Next, Poll, Operate, vars, Peek, SeenMeanwhile, Refuse, Fetch, Stage, Decide,
     PlanUnattended, Plan, Ask, AskUpdate, AskRollback, AskApply, Run, PlaceRelease, Retire,
     Succeed, LowerMark, MarkInstallFailed, End, Acknowledge, MoveTag

\* What the operator does while the timer has a plan under way.
LEMMA TimerUntouched ==
  ASSUME MemoryInv, TimerInv, [Next]_vars, memory'["timer"] = memory["timer"]
  PROVE  TimerInv'
<1>1. CASE release' = release
  BY <1>1 DEF TimerInv, Installed
<1>2. CASE release' # release
  <2> DEFINE p == lock
             m == memory[p]
  <2>1. p \in Actors /\ (PointToPrevious(p) \/ RecordRelease(p) \/ Fail(p))
    BY <1>2, ReleaseStep
  <2>2. m \in Memories /\ m.pc \in {"running", "placed", "retired"}
    BY <2>1 DEF PointToPrevious, RecordRelease, Fail, At, MemoryInv
  <2>3. CASE PointToPrevious(p)
    <3>1. m.pc = "running" /\ memory'[p] = [m EXCEPT !.pc = "placed"]
      BY <2>1, <2>3 DEF PointToPrevious, At, Goes, MemoryInv
    <3>2. memory'[p] # m
      BY <2>2, <3>1 DEF Memories
    <3>3. QED
      BY <2>1, <3>2 DEF TimerInv, MemoryInv, Holding, Actors
  <2>4. CASE RecordRelease(p)
    <3>1. m.pc # "recorded" /\ memory'[p] = [m EXCEPT !.pc = "recorded", !.from = NoRelease]
      BY <2>1, <2>4 DEF RecordRelease, At, Goes, MemoryInv
    <3>2. memory'[p] # m
      BY <2>2, <3>1 DEF Memories
    <3>3. QED
      BY <2>1, <3>2 DEF TimerInv, MemoryInv, Holding, Actors
  <2>5. CASE Fail(p)
    <3>1. memory'[p].pc \in {"idle", "wait to mark"}
      BY <2>1, <2>5 DEF Fail, Goes, MemoryInv, Idle
    <3>2. p # "timer"
      BY <2>2, <3>1
    <3>3. QED
      BY <2>1, <3>2 DEF TimerInv, MemoryInv, Holding, Actors
  <2>6. QED
    BY <2>1, <2>3, <2>4, <2>5
<1>3. QED
  BY <1>1, <1>2

\* A timer whose process is nowhere near the release records.
LEMMA TimerElsewhere ==
  ASSUME memory'["timer"].pc \notin {"wait to run", "running", "placed"} PROVE TimerInv'
  BY DEF TimerInv

\* The timer's plan stays good, by every action.
LEMMA TimerInvStep == TypeInv /\ TimerInv /\ [Next]_vars => TimerInv'
<1> SUFFICES ASSUME MemoryInv, FilesInv, TimerInv, [Next]_vars PROVE TimerInv'
  BY DEF TypeInv
<1> DEFINE m == memory["timer"]
<1>1. "timer" \in Actors /\ m \in Memories /\ Holds("timer", m)
  BY DEF MemoryInv, Actors
<1>2. CASE Run("timer")
  <2>1. /\ memory'["timer"] = [m EXCEPT !.pc = "running"] /\ m.pc = "wait to run"
        /\ Installed = m.from.current.bundle /\ release' = release
    BY <1>2 DEF Run, Goes, At, MemoryInv, Actors
  <2>2. QED
    BY <1>1, <2>1 DEF TimerInv, Memories, Installed
<1>3. CASE PlaceRelease("timer")
  <2> DEFINE f == IF store' = store THEN NoRelease ELSE m.from
  <2>1. /\ memory'["timer"] = [m EXCEPT !.pc = "placed", !.from = f]
        /\ m.pc = "running" /\ release' = release
    BY <1>1, <1>3 DEF PlaceRelease, Goes, At, MemoryInv, Memories
  <2>2. QED
    BY <1>1, <2>1 DEF TimerInv, Memories, Installed
<1>4. CASE PointToPrevious("timer")
  BY <1>4 DEF PointToPrevious, At, TimerInv
<1>5. CASE PlanUnattended
  <2> DEFINE b == store[Version(BundleOf[m.of])]
             f == [release EXCEPT !.previous = None]
  <2>1. NotOlder(b) /\ Plan("timer", "update", b)
    BY <1>5 DEF PlanUnattended
  <2>2. memory'["timer"] = [m EXCEPT !.pc = "wait to run", !.kind = "update", !.to = b, !.from = f]
    BY <2>1 DEF Plan, Goes, MemoryInv, Actors
  <2>3. f.current = release.current
    BY DEF FilesInv, Releases
  <2>4. QED
    BY <1>1, <2>1, <2>2, <2>3 DEF NotOlder, TimerInv, Memories, Installed
<1>6. CASE /\ ~Run("timer") /\ ~PlaceRelease("timer") /\ ~PointToPrevious("timer")
           /\ ~PlanUnattended
  <2>1. ASSUME NEW p \in Actors, Poll(p) \/ Operate(p) \/ End(p)
        PROVE  TimerInv'
    <3>1. CASE p = "timer"
      <4>1. ASSUME NEW n, Goes("timer", n), n.pc \notin {"wait to run", "running", "placed"}
            PROVE  TimerInv'
        <5>1. memory'["timer"] = n
          BY <1>1, <4>1 DEF Goes, MemoryInv
        <5>2. QED
          BY <4>1, <5>1, TimerElsewhere
      <4>2. Idle.pc = "idle"
        BY DEF Idle
      <4>3. CASE Leave("timer") \/ AfterPoll("timer")
        BY <4>1, <4>2, <4>3 DEF Leave, AfterPoll, Idle
      <4>4. CASE Peek("timer")
        BY <4>1, <4>3, <4>4 DEF Peek, Idle
      <4>5. CASE Fetch("timer")
        BY <1>1, <4>1, <4>5 DEF Fetch, Memories
      <4>6. CASE RecordRelease("timer")
        BY <1>1, <4>1, <4>6 DEF RecordRelease, Memories
      <4>7. CASE Retire("timer")
        BY <1>1, <4>1, <4>7 DEF Retire, Memories
      <4>8. CASE Succeed("timer")
        BY <1>1, <4>1, <4>3, <4>8 DEF Succeed, Memories
      <4>9. CASE Fail("timer")
        BY <4>1, <4>9 DEF Fail, Idle
      <4>10. QED
        BY <1>6, <2>1, <3>1, <4>3, <4>4, <4>5, <4>6, <4>7, <4>8, <4>9
           DEF Poll, Operate, SeenMeanwhile, Refuse, Stage, LowerMark, End
    <3>2. CASE p # "timer"
      <4>1. memory'["timer"] = memory["timer"]
        BY <1>1, <2>1, <3>2
           DEF Poll, Operate, Peek, SeenMeanwhile, Refuse, Fetch, Stage, Run, PlaceRelease,
               PointToPrevious, RecordRelease, Retire, Succeed, LowerMark, Fail, End, AfterPoll,
               Leave, Goes, MemoryInv
      <4>2. QED
        BY <4>1, TimerUntouched
    <3>3. QED
      BY <3>1, <3>2
  <2>2. CASE Decide \/ MarkInstallFailed
    <3>1. \/ memory'["timer"] = [Idle EXCEPT !.pc = "decided", !.of = candidate.of]
          \/ memory'["timer"] = Idle
      BY <1>1, <2>2 DEF Decide, MarkInstallFailed, Leave, Goes, MemoryInv
    <3>2. Idle.pc = "idle" /\ [Idle EXCEPT !.pc = "decided", !.of = candidate.of].pc = "decided"
      BY DEF Idle
    <3>3. memory'["timer"].pc \in {"decided", "idle"}
      BY <3>1, <3>2
    <3>4. QED
      BY <3>3, TimerElsewhere
  <2>3. CASE Ask \/ Acknowledge \/ MoveTag \/ UNCHANGED vars
    <3>1. memory'["timer"] = memory["timer"]
      BY <1>1, <2>3 DEF Ask, AskUpdate, AskRollback, AskApply, Plan, Goes, Acknowledge, MoveTag,
                        vars, MemoryInv
    <3>2. QED
      BY <3>1, TimerUntouched
  <2>4. QED
    BY <1>6, <2>1, <2>2, <2>3 DEF Next
<1>7. QED
  BY <1>2, <1>3, <1>4, <1>5, <1>6

\* A timer never moves the machine to an older release, whatever an operator
\* installed between its poll, its plan and its turn at the lock.
THEOREM TimerNeverDowngrades == Spec => NeverDowngrades
<1> DEFINE Kept == At("timer", "placed") /\ release' # release =>
                     Version(release'.current.bundle) >= Version(Installed)
<1>1. Init => TypeInv /\ TimerInv
  <2>1. ASSUME Init PROVE memory["timer"].pc = "idle"
    BY <2>1 DEF Init, Idle, Actors
  <2>2. QED
    BY <2>1, TypeInvInit DEF TimerInv
<1>2. TypeInv /\ TimerInv /\ [Next]_vars => (TypeInv /\ TimerInv)'
  BY TypeInvStep, TimerInvStep
<1>3. TypeInv /\ TimerInv /\ [Next]_vars => [Kept]_vars
  <2> SUFFICES ASSUME MemoryInv, FilesInv, TimerInv, [Next]_vars,
                      At("timer", "placed"), release' # release
               PROVE  Version(release'.current.bundle) >= Version(Installed)
    BY DEF TypeInv
  <2> DEFINE m == memory["timer"]
  <2>1. lock = "timer" /\ m \in Memories /\ m.to \in Bundles
    BY DEF At, MemoryInv, Holding, Holds, Actors
  <2>2. RecordRelease("timer") \/ Fail("timer")
    BY <2>1, ReleaseStep DEF PointToPrevious, At
  <2>3. CASE release' = Promoted(m.to, Adopted(m.to))
    BY <2>3 DEF Promoted, TimerInv, At
  <2>4. CASE m.from # NoRelease
             /\ release' = Promoted(m.from.current.bundle, m.from.current.upstream)
    <3>1. release'.current.bundle = Installed
      BY <2>4 DEF Promoted, TimerInv, At
    <3>2. Version(Installed) \in Nat
      BY BundlesAssumption DEF FilesInv, Releases, Installed, Version
    <3>3. QED
      BY <3>1, <3>2
  <2>5. QED
    BY <2>2, <2>3, <2>4 DEF RecordRelease, Fail
<1>4. QED
  BY <1>1, <1>2, <1>3, PTL DEF Spec, NeverDowngrades
-----------------------------------------------------------------------------
(* What a process under the lock knows of the candidate and the mark *)

\* Between the two writes of a staging, the mark is the bundle's version and the
\* candidate another; between the two of going back, the mark is yet to be lowered.
Owes(m, c, at, newest) ==
  /\ m.pc = "fetched" => Version(BundleOf[m.of]) = at /\ ~(c.staged /\ c.of = m.of)
  /\ m.pc = "lower" => newest <= Version(m.to)

AllOwe == \A p \in Actors : Owes(memory[p], candidate, mark, delivered)

DeliveryInv == delivered \in Nat /\ delivered <= mark /\ AllOwe

\* Who changes what the holder of the lock relies on is the holder, or there is none.
LEMMA OwesStep ==
  ASSUME MemoryInv, DeliveryInv, NEW p \in Actors, NEW m, Goes(p, m),
         Owes(m, candidate', mark', delivered'),
         lock \in {None, p} \/ UNCHANGED <<candidate, mark, delivered>>
  PROVE  AllOwe'
<1>1. \A q \in Actors : memory'[q] = IF q = p THEN m ELSE memory[q]
  BY DEF MemoryInv, Goes
<1>2. SUFFICES ASSUME NEW q \in Actors, q # p PROVE Owes(memory'[q], candidate', mark', delivered')
  BY <1>1 DEF AllOwe
<1>3. memory'[q] = memory[q]
  BY <1>1, <1>2
<1>4. CASE lock \in {None, p}
  <2>1. memory[q].pc \notin {"fetched", "lower"}
    BY <1>2, <1>4, NoneAssumption DEF MemoryInv, Holding, Actors
  <2>2. QED
    BY <1>3, <2>1 DEF Owes
<1>5. CASE UNCHANGED <<candidate, mark, delivered>>
  BY <1>3, <1>5 DEF DeliveryInv, AllOwe, Owes
<1>6. QED
  BY <1>4, <1>5

\* The step of a process that is then at no such point.
LEMMA OwesNothing ==
  ASSUME MemoryInv, DeliveryInv, NEW p \in Actors, NEW m, Goes(p, m),
         m.pc \notin {"fetched", "lower"},
         lock \in {None, p} \/ UNCHANGED <<candidate, mark, delivered>>
  PROVE  AllOwe'
<1>1. Owes(m, candidate', mark', delivered')
  BY DEF Owes
<1>2. QED
  BY <1>1, OwesStep

\* A process that leaves, or ends its poll, owes nothing.
LEMMA LeaveOwes ==
  ASSUME MemoryInv, DeliveryInv, NEW p \in Actors, Leave(p) \/ AfterPoll(p),
         lock \in {None, p} \/ UNCHANGED <<candidate, mark, delivered>>
  PROVE  AllOwe'
<1>1. Idle.pc = "idle" /\ [Idle EXCEPT !.pc = "decide"].pc = "decide"
  BY DEF Idle
<1>2. QED
  BY <1>1, OwesNothing DEF Leave, AfterPoll

\* The steps that write none of the three.
Quiet ==
  \/ \E p \in Actors : \/ Peek(p) \/ SeenMeanwhile(p) \/ Run(p) \/ PlaceRelease(p)
                       \/ PointToPrevious(p) \/ RecordRelease(p) \/ Fail(p) \/ End(p)
  \/ Decide \/ PlanUnattended \/ Ask \/ Acknowledge \/ MoveTag \/ UNCHANGED vars

\* They are quiet by their UNCHANGED,
LEMMA QuietWrites == Quiet => UNCHANGED <<candidate, mark, delivered>>
  BY DEF Quiet, Peek, SeenMeanwhile, Run, PlaceRelease, PointToPrevious, RecordRelease, Fail,
     End, Decide, PlanUnattended, Ask, AskUpdate, AskRollback, AskApply, Plan, Acknowledge,
     MoveTag, vars, history

\* and keep what every process relies on.
LEMMA QuietStep == ASSUME MemoryInv, FilesInv, DeliveryInv, Quiet PROVE DeliveryInv'
<1>1. UNCHANGED <<candidate, mark, delivered>>
  BY QuietWrites
<1>2. SUFFICES AllOwe'
  BY <1>1 DEF DeliveryInv
<1>3. ASSUME NEW p \in Actors, NEW m, Goes(p, m), m.pc \notin {"fetched", "lower"}
      PROVE  AllOwe'
  BY <1>1, <1>3, OwesNothing
<1>4. ASSUME NEW p \in Actors, Leave(p) \/ AfterPoll(p)
      PROVE  AllOwe'
  BY <1>1, <1>4, LeaveOwes
<1>5. \A p \in Actors : memory[p] \in Memories
  BY DEF MemoryInv
<1>6. ASSUME NEW p \in Actors, NEW kind, NEW b, Plan(p, kind, b)
      PROVE  AllOwe'
  BY <1>3, <1>5, <1>6 DEF Plan, Memories
<1>7. ASSUME NEW p \in Actors, Peek(p) \/ Fail(p) PROVE AllOwe'
  BY <1>3, <1>4, <1>7 DEF Peek, Fail, Idle
<1>8. ASSUME NEW p \in Actors, Run(p) \/ PointToPrevious(p)
      PROVE  AllOwe'
  BY <1>3, <1>5, <1>8 DEF Run, PointToPrevious, Memories
<1>9. ASSUME NEW p \in Actors, PlaceRelease(p) \/ RecordRelease(p)
      PROVE  AllOwe'
  BY <1>3, <1>5, <1>9 DEF PlaceRelease, RecordRelease, Memories
<1>10. CASE Decide
  BY <1>3, <1>10 DEF Decide, Idle, Actors
<1>11. CASE PlanUnattended \/ Ask
  BY <1>6, <1>11 DEF PlanUnattended, Ask, AskUpdate, AskRollback, AskApply, Actors
<1>12. CASE UNCHANGED memory
  BY <1>1, <1>12 DEF DeliveryInv, AllOwe, Owes
<1>13. QED
  BY <1>4, <1>7, <1>8, <1>9, <1>10, <1>11, <1>12
     DEF Quiet, SeenMeanwhile, End, Acknowledge, MoveTag, vars

\* The mark covers what was delivered, after every action.
LEMMA DeliveryInvStep == TypeInv /\ DeliveryInv /\ [Next]_vars => DeliveryInv'
<1> SUFFICES ASSUME MemoryInv, FilesInv, DeliveryInv, [Next]_vars PROVE DeliveryInv'
  BY DEF TypeInv
<1>1. ASSUME NEW v \in Versions PROVE v \in Nat
  BY BundlesAssumption DEF Versions, Version
<1>2. \A p \in Actors : memory[p] \in Memories /\ Holds(p, memory[p])
  BY DEF MemoryInv
<1>3. \A a \in Artefacts : Version(BundleOf[a]) \in Nat
  BY <1>1, ArtefactsAssumption, VersionTyped
<1>4. mark \in Nat /\ delivered \in Nat /\ delivered <= mark
  BY <1>1 DEF FilesInv, DeliveryInv
<1>5. ASSUME NEW p \in Actors, Refuse(p) PROVE DeliveryInv'
  <2>1. AllOwe'
    BY <1>5, LeaveOwes DEF Refuse
  <2>2. QED
    BY <1>4, <1>5, <2>1 DEF Refuse, DeliveryInv
<1>6. ASSUME NEW p \in Actors, Fetch(p) PROVE DeliveryInv'
  <2> DEFINE a == memory[p].of
             m == [memory[p] EXCEPT !.pc = "fetched"]
  <2>1. a \in Artefacts /\ a # Seen /\ lock = None /\ Goes(p, m) /\ delivered' = delivered
    BY <1>2, <1>6 DEF Fetch, At, Holds, history
  <2>2. mark' = Version(BundleOf[a])
    BY <1>6 DEF Fetch, SetMark
  <2>3. candidate'.staged = candidate.staged /\ candidate'.of = candidate.of
    BY <1>6, SetMarkKeeps DEF Fetch
  <2>4. candidate.staged => a # candidate.of
    BY <2>1 DEF Seen, Outdated, NoCandidate
  <2>5. Owes(m, candidate', mark', delivered')
    BY <1>2, <2>2, <2>3, <2>4 DEF Owes, Memories
  <2>6. mark <= mark'
    <3>1. "mark" \notin Refusals(BundleOf[a])
      BY <1>6 DEF Fetch
    <3>2. ~(Version(BundleOf[a]) < mark)
      BY <3>1 DEF Refusals
    <3>3. QED
      BY <1>3, <1>4, <2>1, <2>2, <3>2
  <2>7. AllOwe'
    BY <2>1, <2>5, OwesStep
  <2>8. QED
    BY <1>3, <1>4, <2>1, <2>2, <2>6, <2>7 DEF DeliveryInv
<1>7. ASSUME NEW p \in Actors, Stage(p) PROVE DeliveryInv'
  <2>1. lock = p /\ memory[p].of \in Artefacts /\ Version(BundleOf[memory[p].of]) = mark
    BY <1>2, <1>7 DEF Stage, At, Holds, MemoryInv, Holding, DeliveryInv, AllOwe, Owes
  <2>2. AllOwe'
    BY <1>7, <2>1, LeaveOwes DEF Stage
  <2>3. QED
    BY <1>4, <1>7, <2>1, <2>2 DEF Stage, DeliveryInv
<1>8. ASSUME NEW p \in Actors, Retire(p) PROVE DeliveryInv'
  <2>1. lock = p
    BY <1>8 DEF Retire, At, MemoryInv, Holding
  <2>2. AllOwe'
    BY <1>2, <1>8, <2>1, OwesNothing DEF Retire, Memories
  <2>3. QED
    BY <1>4, <1>8, <2>2 DEF Retire, DeliveryInv, history
<1>9. ASSUME NEW p \in Actors, Succeed(p) PROVE DeliveryInv'
  <2> DEFINE v == Version(memory[p].to)
             m == [memory[p] EXCEPT !.pc = "lower"]
  <2>1. lock = p /\ v \in Nat /\ mark' = mark
    BY <1>1, <1>2, <1>9, VersionTyped DEF Succeed, At, MemoryInv, Holding, Holds
  <2>2. delivered' \in Nat /\ delivered' <= delivered /\ (GoesBack(p) => delivered' <= v)
    BY <1>4, <1>9, <2>1 DEF Succeed
  <2>3. CASE GoesBack(p)
    <3>1. Owes(m, candidate', mark', delivered') /\ Goes(p, m)
      BY <1>2, <1>9, <2>2, <2>3 DEF Succeed, Owes, Memories
    <3>2. QED
      BY <1>4, <2>1, <2>2, <3>1, OwesStep DEF DeliveryInv
  <2>4. CASE ~GoesBack(p)
    <3>1. AllOwe'
      BY <1>9, <2>1, <2>4, LeaveOwes DEF Succeed
    <3>2. QED
      BY <1>4, <2>1, <2>2, <3>1 DEF DeliveryInv
  <2>5. QED
    BY <2>3, <2>4
<1>10. ASSUME NEW p \in Actors, LowerMark(p) PROVE DeliveryInv'
  <2> DEFINE v == Version(memory[p].to)
  <2>1. lock = p /\ v \in Nat /\ delivered <= v /\ delivered' = delivered
    BY <1>1, <1>2, <1>10, VersionTyped
       DEF LowerMark, At, MemoryInv, Holding, Holds, DeliveryInv, AllOwe, Owes, history
  <2>2. mark' \in {mark, v}
    BY <1>10 DEF LowerMark, SetMark
  <2>3. AllOwe'
    BY <1>10, <2>1, LeaveOwes DEF LowerMark
  <2>4. QED
    BY <1>4, <2>1, <2>2, <2>3 DEF DeliveryInv
<1>11. CASE MarkInstallFailed
  <2>1. AllOwe'
    BY <1>11, LeaveOwes DEF MarkInstallFailed, Actors
  <2>2. QED
    BY <1>4, <1>11, <2>1 DEF MarkInstallFailed, DeliveryInv, history
<1>12. CASE Quiet
  BY <1>12, QuietStep
<1>13. QED
  BY <1>5, <1>6, <1>7, <1>8, <1>9, <1>10, <1>11, <1>12 DEF Next, Poll, Operate, Quiet

\* The invariant behind the theorems below.
LEMMA ChannelInvHolds == Spec => [](TypeInv /\ DeliveryInv)
<1>1. Init => TypeInv /\ DeliveryInv
  <2>1. ASSUME Init PROVE DeliveryInv
    <3>1. \A p \in Actors : memory[p].pc = "idle"
      BY <2>1 DEF Init, Idle
    <3>2. QED
      BY <2>1, <3>1 DEF Init, DeliveryInv, AllOwe, Owes
  <2>2. QED
    BY <2>1, TypeInvInit
<1>2. TypeInv /\ DeliveryInv /\ [Next]_vars => (TypeInv /\ DeliveryInv)'
  BY TypeInvStep, DeliveryInvStep
<1>3. QED
  BY <1>1, <1>2, PTL DEF Spec

\* Nothing older than the channel has delivered is staged from it, unless the
\* operator went back since; also when a process died between two of its writes.
THEOREM NeverStagedBelowDelivered == Spec => NeverBelowDelivered
<1> DEFINE Kept == candidate'.staged /\ candidate'.of # candidate.of =>
                     Version(BundleOf[candidate'.of]) >= delivered
<1>1. TypeInv /\ DeliveryInv /\ [Next]_vars => [Kept]_vars
  <2> SUFFICES ASSUME MemoryInv, FilesInv, DeliveryInv, [Next]_vars,
                      candidate'.staged, candidate'.of # candidate.of
               PROVE  Version(BundleOf[candidate'.of]) >= delivered
    BY DEF TypeInv
  <2>1. ASSUME NEW p \in Actors, Stage(p)
        PROVE  Version(BundleOf[candidate'.of]) >= delivered
    <3>1. candidate'.of = memory[p].of /\ Version(BundleOf[memory[p].of]) = mark
      BY <2>1 DEF Stage, At, NoCandidate, DeliveryInv, AllOwe, Owes
    <3>2. mark \in Nat
      BY BundlesAssumption DEF FilesInv, Versions, Version
    <3>3. QED
      BY <3>1, <3>2 DEF DeliveryInv
  <2>2. ASSUME NEW p \in Actors PROVE ~Refuse(p) /\ ~Retire(p)
    <3>1. NoCandidate.staged = FALSE
      BY DEF NoCandidate
    <3>2. Refuse(p) => candidate'.staged = FALSE
      BY DEF Refuse, NoCandidate
    <3>3. Retire(p) => candidate' \in {candidate, NoCandidate}
      BY DEF Retire
    <3>4. QED
      BY <3>1, <3>2, <3>3
  <2>3. ASSUME NEW p \in Actors PROVE ~Fetch(p) /\ ~LowerMark(p) /\ ~Succeed(p)
    BY SetMarkKeeps DEF Fetch, LowerMark, Succeed
  <2>4. ~MarkInstallFailed
    BY DEF MarkInstallFailed, FilesInv, Candidates
  <2>5. ~Quiet
    BY QuietWrites
  <2>6. QED
    BY <2>1, <2>2, <2>3, <2>4, <2>5 DEF Next, Poll, Operate, Quiet
<1>2. QED
  BY ChannelInvHolds, <1>1, PTL DEF Spec, NeverBelowDelivered

\* That an install of the candidate failed is not forgotten while it is the
\* candidate: a poll that waited meanwhile does not stage it afresh.
THEOREM FailureIsAlwaysKept == Spec => FailureIsKept
<1> DEFINE Kept == candidate.staged /\ candidate.failed /\ candidate'.of = candidate.of =>
                     candidate'.failed
<1>1. TypeInv /\ DeliveryInv /\ [Next]_vars => [Kept]_vars
  <2> SUFFICES ASSUME MemoryInv, FilesInv, DeliveryInv, [Next]_vars,
                      candidate.staged, candidate.failed, candidate'.of = candidate.of
               PROVE  candidate'.failed
    BY DEF TypeInv
  <2>1. candidate # NoCandidate /\ candidate.of # None
    BY ArtefactsAssumption DEF FilesInv, NoCandidate
  <2>2. ASSUME NEW p \in Actors PROVE ~Stage(p) /\ ~Refuse(p)
    BY <2>1 DEF Stage, Refuse, At, Seen, Outdated, NoCandidate, DeliveryInv, AllOwe, Owes
  <2>3. ASSUME NEW p \in Actors, Fetch(p) \/ LowerMark(p) PROVE candidate' = candidate
    BY <2>3 DEF Fetch, LowerMark, SetMark
  <2>4. ASSUME NEW p \in Actors, Retire(p) \/ Succeed(p) PROVE candidate' = candidate
    BY <2>1, <2>4 DEF Retire, Succeed, NoCandidate
  <2>5. MarkInstallFailed => candidate'.failed
    BY DEF MarkInstallFailed, FilesInv, Candidates
  <2>6. Quiet => candidate' = candidate
    BY QuietWrites
  <2>7. QED
    BY <2>2, <2>3, <2>4, <2>5, <2>6 DEF Next, Poll, Operate, Quiet
<1>2. QED
  BY ChannelInvHolds, <1>1, PTL DEF Spec, FailureIsKept

\* A candidate is only said to have failed by the tick that ran an install of it.
THEOREM OnlyTheFailedIsEverBlamed == Spec => OnlyTheFailedIsBlamed
<1> DEFINE Kept == candidate'.failed /\ ~(candidate.failed /\ candidate'.of = candidate.of) =>
                     At("timer", "wait to mark") /\ memory["timer"].of = candidate'.of
<1>1. TypeInv /\ [Next]_vars => [Kept]_vars
  <2> SUFFICES ASSUME FilesInv, [Next]_vars, candidate'.failed,
                      ~(candidate.failed /\ candidate'.of = candidate.of)
               PROVE  At("timer", "wait to mark") /\ memory["timer"].of = candidate'.of
    BY DEF TypeInv
  <2>1. candidate' # candidate
    OBVIOUS
  <2>2. ASSUME NEW p \in Actors PROVE ~Stage(p) /\ ~Refuse(p) /\ ~Retire(p) /\ ~Succeed(p)
    <3>1. ~Stage(p) /\ ~Refuse(p)
      BY DEF Stage, Refuse, NoCandidate
    <3>2. ~Retire(p) /\ ~Succeed(p)
      BY <2>1 DEF Retire, Succeed, NoCandidate
    <3>3. QED
      BY <3>1, <3>2
  <2>3. ASSUME NEW v PROVE ~SetMark(v)
    BY <2>1 DEF SetMark, FilesInv, Candidates
  <2>4. ASSUME NEW p \in Actors PROVE ~Fetch(p) /\ ~LowerMark(p)
    BY <2>1, <2>3 DEF Fetch, LowerMark
  <2>5. ~Quiet
    BY <2>1, QuietWrites
  <2>6. MarkInstallFailed
    BY <2>2, <2>4, <2>5 DEF Next, Poll, Operate, Quiet
  <2>7. QED
    BY <2>6 DEF MarkInstallFailed, FilesInv, Candidates
<1>2. QED
  BY ChannelInvHolds, <1>1, PTL DEF Spec, OnlyTheFailedIsBlamed

\* A refusal made for the mark, which the poll goes on trusting, is one the mark
\* still makes: a lowering is seen, in whichever second it falls.
THEOREM LoweredMarkIsAlwaysSeen == Spec => []LoweredMarkIsSeen
<1>1. Init => LoweredMarkIsSeen
  BY DEF Init, LoweredMarkIsSeen
<1>2. TypeInv /\ LoweredMarkIsSeen /\ [Next]_vars => LoweredMarkIsSeen'
  <2> SUFFICES ASSUME MemoryInv, FilesInv, LoweredMarkIsSeen, [Next]_vars
               PROVE  LoweredMarkIsSeen'
    BY DEF TypeInv
  <2>1. ASSUME NEW p \in Actors, Refuse(p) PROVE LoweredMarkIsSeen'
    <3> DEFINE b == BundleOf[memory[p].of]
    <3>1. candidate'.of = memory[p].of /\ mark' = mark /\ forMark' = (Refusals(b) = {"mark"})
      BY <2>1 DEF Refuse, NoCandidate
    <3>2. "mark" \in Refusals(b) => Version(b) < mark
      BY DEF Refusals
    <3>3. QED
      BY <3>1, <3>2 DEF LoweredMarkIsSeen
  <2>2. ASSUME NEW v, SetMark(v), forMark' = forMark PROVE LoweredMarkIsSeen'
    BY <2>2 DEF SetMark, LoweredMarkIsSeen, Outdated, FilesInv, Candidates, NoCandidate
  <2>3. ASSUME NEW p \in Actors, Fetch(p) PROVE LoweredMarkIsSeen'
    BY <2>2, <2>3 DEF Fetch, history
  <2>4. ASSUME NEW p \in Actors, LowerMark(p) PROVE LoweredMarkIsSeen'
    BY <2>2, <2>4 DEF LowerMark, history, LoweredMarkIsSeen, Outdated
  <2>5. ASSUME NEW p \in Actors, Stage(p) \/ Retire(p) PROVE LoweredMarkIsSeen'
    BY <2>5 DEF Stage, Retire, history, LoweredMarkIsSeen, Outdated
  <2>6. ASSUME NEW p \in Actors, Succeed(p) PROVE LoweredMarkIsSeen'
    BY <2>6 DEF Succeed, LoweredMarkIsSeen, Outdated
  <2>7. CASE MarkInstallFailed
    <3>1. /\ candidate'.staged = candidate.staged /\ candidate'.marked = candidate.marked
          /\ candidate'.of = candidate.of
      BY <2>7 DEF MarkInstallFailed, FilesInv, Candidates
    <3>2. candidate # NoCandidate
      <4>1. candidate.of \in Artefacts
        BY <2>7 DEF MarkInstallFailed, MemoryInv, Holds, At, Actors
      <4>2. QED
        BY <4>1, ArtefactsAssumption DEF NoCandidate
    <3>3. QED
      BY <2>7, <3>1, <3>2 DEF MarkInstallFailed, history, LoweredMarkIsSeen, Outdated
  <2>8. CASE Quiet
    <3>1. forMark' = forMark
      BY <2>8 DEF Quiet, Peek, SeenMeanwhile, Run, PlaceRelease, PointToPrevious, RecordRelease,
         Fail, End, Decide, PlanUnattended, Ask, AskUpdate, AskRollback, AskApply, Plan,
         Acknowledge, MoveTag, vars, history
    <3>2. QED
      BY <2>8, <3>1, QuietWrites DEF LoweredMarkIsSeen, Outdated
  <2>9. QED
    BY <2>1, <2>3, <2>4, <2>5, <2>6, <2>7, <2>8 DEF Next, Poll, Operate, Quiet
<1>3. QED
  BY <1>1, <1>2, ChannelInvHolds, PTL DEF Spec
=============================================================================
