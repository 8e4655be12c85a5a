-------------------------- MODULE ImageStoreProofs --------------------------
(***************************************************************************)
(* Theorems of ImageStore: what its run checks on two installations, for   *)
(* any installations, releases and images, any retention of at least one   *)
(* and any number of commands and crashes.                                 *)
(***************************************************************************)
EXTENDS ImageStore, TLAPS

-----------------------------------------------------------------------------
(* Names and keys *)

\* What a release needs has a name,
LEMMA RefsTyped == \A r \in Releases : RuntimeImageRefs(r) \subseteq Names
  BY DEF RuntimeImageRefs, Aliases, Names, Keys

\* which is its own key's,
LEMMA KeysTyped == \A S \in SUBSET Releases : KeysOf(S) \subseteq Keys
<1> SUFFICES ASSUME NEW S \in SUBSET Releases, NEW r \in S, NEW n \in RuntimeImageRefs(r)
             PROVE  ImageKey(n) \in Keys
  BY DEF KeysOf
<1>1. n \in Names
  BY RefsTyped
<1>2. QED
  BY <1>1 DEF Names, ImageKey

\* so that what is not one of the keys of a set of releases is needed by none of them.
LEMMA KeyOfRef ==
  ASSUME NEW S, NEW r \in S, NEW n \in RuntimeImageRefs(r)
  PROVE  ImageKey(n) \in KeysOf(S)
  BY DEF KeysOf

LEMMA KeysMonotone ==
  ASSUME NEW S, NEW T, S \subseteq T
  PROVE  KeysOf(S) \subseteq KeysOf(T)
  BY DEF KeysOf

\* An alias and its digest have one key: what `docker image rm' takes with a name
\* is that name's key.
LEMMA TakenWith ==
  ASSUME NEW n, NEW m \in {n} \cup (IF n[1] = "alias" THEN {<<"digest", n[2]>>} ELSE {})
  PROVE  ImageKey(m) = ImageKey(n)
  BY DEF ImageKey

-----------------------------------------------------------------------------
(* Types, and what a command at each of its points holds *)

Prunes == {"list", "plan", "trees", "images"}

Arrives(c) ==
  /\ c.pc \notin Prunes => c.to \in Releases
  /\ c.pc = "point" => ~c.clear

TypeInv ==
  /\ TypeOK
  /\ \A i \in Installations : asked[i] # None /\ asked[i].op # "prune" => asked[i].to \in Releases
  /\ \A i \in Installations : cmd[i] # None => Arrives(cmd[i])

Roles == [current : MaybeRelease, previous : MaybeRelease, candidate : MaybeRelease]

\* The half of the type invariant that is about commands.
CmdsTyped ==
  /\ cmd \in [Installations -> Process \cup {None}]
  /\ \A i \in Installations : cmd[i] # None => Arrives(cmd[i])

\* A command goes on, to a state of its type, or ends.
LEMMA BecomesFits ==
  ASSUME CmdsTyped, NEW i \in Installations, NEW c \in Process \cup {None}, c # None => Arrives(c),
         Becomes(i, c)
  PROVE  CmdsTyped'
<1>1. cmd' \in [Installations -> Process \cup {None}]
  BY DEF CmdsTyped, Becomes
<1>2. \A j \in Installations : cmd'[j] = IF j = i THEN c ELSE cmd[j]
  BY DEF CmdsTyped, Becomes
<1>3. QED
  BY <1>1, <1>2 DEF CmdsTyped

LEMMA EndFits == ASSUME CmdsTyped, NEW i \in Installations, End(i) PROVE CmdsTyped'
  BY BecomesFits DEF End

\* One that only moves on to another point:
LEMMA GotoFits ==
  ASSUME CmdsTyped, NEW i \in Installations, cmd[i] # None,
         NEW pc \in {"stage", "land", "ingest", "load", "start", "record", "candidate",
                     "list", "plan", "trees", "images"},
         pc \in Prunes \/ cmd[i].to \in Releases, Goto(i, pc)
  PROVE  CmdsTyped'
<1> DEFINE c == [cmd[i] EXCEPT !.pc = pc]
<1>1. cmd[i] \in Process
  BY DEF CmdsTyped
<1>2. c \in Process
  BY <1>1 DEF Process
<1>3. Arrives(c)
  BY <1>1 DEF Process, Arrives, Prunes
<1>4. QED
  BY <1>2, <1>3, BecomesFits DEF Goto

\* A command spends one of its installation's.
LEMMA SpendFits ==
  ASSUME TypeInv, NEW i \in Installations, Spend(i)
  PROVE  /\ ops' \in [Installations -> Nat]
         /\ \A j \in Installations : ops'[j] <= MaxOps[j]
         /\ crashes' \in 0..MaxCrashes
<1>1. ops \in [Installations -> Nat] /\ MaxOps \in [Installations -> Nat]
      /\ (\A j \in Installations : ops[j] <= MaxOps[j]) /\ crashes \in 0..MaxCrashes
  BY BoundAssumption DEF TypeInv, TypeOK
<1>2. \A j \in Installations : ops'[j] = IF j = i THEN ops[i] + 1 ELSE ops[j]
  BY <1>1 DEF Spend
<1>3. QED
  BY <1>1, <1>2 DEF Spend

\* The roles of one installation change, each to a release or none.
LEMMA RolesStep ==
  ASSUME TypeInv, NEW i \in Installations, NEW r \in Roles, roles' = [roles EXCEPT ![i] = r]
  PROVE  roles' \in [Installations -> Roles]
  BY DEF TypeInv, TypeOK, Roles

LEMMA PromoteTyped ==
  ASSUME NEW role \in Roles, NEW r \in MaybeRelease
  PROVE  Promote(role, r) \in Roles
  BY DEF Promote, Roles

\* What the installations begin with.
LEMMA TypeInvInit == Init => TypeInv
<1> SUFFICES ASSUME Init PROVE TypeInv
  OBVIOUS
<1> USE DEF Init
<1>1. store \in [Installations -> SUBSET Releases] /\ half \in [Installations -> SUBSET Releases]
  BY InstalledAssumption
<1>2. staging \in [Installations -> MaybeRelease] /\ fetching \in [Installations -> MaybeRelease]
  BY DEF MaybeRelease
<1>3. roles \in [Installations -> Roles]
  BY InstalledAssumption DEF Roles, MaybeRelease
<1>4. running \in [Installations -> MaybeRelease]
  BY InstalledAssumption DEF MaybeRelease
<1>5. loaded \subseteq Installations \X Releases
  OBVIOUS
<1>6. names \subseteq Names
  BY <1>5, RefsTyped
<1>7. ops \in [Installations -> Nat] /\ (\A i \in Installations : ops[i] <= MaxOps[i])
      /\ crashes \in 0..MaxCrashes
  BY BoundAssumption
<1>8. asked \in [Installations -> Plan \cup {None}] /\ cmd \in [Installations -> Process \cup {None}]
  OBVIOUS
<1>9. QED
  BY <1>1, <1>2, <1>3, <1>4, <1>5, <1>6, <1>7, <1>8 DEF TypeInv, TypeOK, Roles

\* A command of a release asks for one.
LEMMA AskedTyped ==
  ASSUME TypeInv, NEW i \in Installations, NEW op \in Operations, NEW r \in MaybeRelease,
         MayAsk(i, op, r)
  PROVE  op # "prune" => r \in Releases
  BY DEF TypeInv, TypeOK, MayAsk, Operations, MaybeRelease

\* Types are kept by every action.
LEMMA TypeInvStep == TypeInv /\ [Next]_vars => TypeInv'
<1> SUFFICES ASSUME TypeInv, [Next]_vars PROVE TypeInv'
  OBVIOUS
<1> USE DEF disk, spent
<1>0. CmdsTyped
  BY DEF TypeInv, TypeOK, CmdsTyped
<1>1. ASSUME NEW i \in Installations, Ask(i) PROVE TypeInv'
  <2>1. PICK op \in Operations, r \in MaybeRelease :
          MayAsk(i, op, r) /\ asked' = [asked EXCEPT ![i] = [op |-> op, to |-> r,
                                                             from |-> roles[i].current]]
    BY <1>1 DEF Ask
  <2>2. [op |-> op, to |-> r, from |-> roles[i].current] \in Plan
    BY DEF TypeInv, TypeOK, Plan
  <2>3. asked' \in [Installations -> Plan \cup {None}]
    BY <2>1, <2>2 DEF TypeInv, TypeOK
  <2>4. \A j \in Installations : asked'[j] # None /\ asked'[j].op # "prune" => asked'[j].to \in Releases
    BY <2>1, AskedTyped DEF TypeInv, TypeOK
  <2>5. ops' \in [Installations -> Nat] /\ (\A j \in Installations : ops'[j] <= MaxOps[j])
        /\ crashes' \in 0..MaxCrashes
    BY <1>1, SpendFits DEF Ask
  <2>6. QED
    BY <1>1, <2>3, <2>4, <2>5 DEF Ask, Spend, TypeInv, TypeOK
<1>2. ASSUME NEW i \in Installations, Take(i) PROVE TypeInv'
  <2> DEFINE c == [op |-> asked[i].op, to |-> asked[i].to, from |-> asked[i].from,
                   pc |-> FirstStep(asked[i].op), clear |-> FALSE, left |-> {}, go |-> {},
                   drop |-> {}, referenced |-> {}, read |-> {}]
  <2>1. asked[i] \in Plan /\ (asked[i].op # "prune" => asked[i].to \in Releases)
    BY <1>2 DEF Take, TypeInv, TypeOK
  <2>2. FirstStep(asked[i].op) \in {"list", "point", "stage"}
        /\ (FirstStep(asked[i].op) # "list" => asked[i].to \in Releases)
    BY <2>1 DEF FirstStep, Plan, Operations
  <2>3. c \in Process /\ Arrives(c)
    BY <2>1, <2>2 DEF Plan, Process, Arrives, Prunes
  <2>4. CmdsTyped'
    BY <1>2, <1>0, <2>3, BecomesFits DEF Take, CmdsTyped
  <2>5. asked' \in [Installations -> Plan \cup {None}]
        /\ \A j \in Installations : asked'[j] # None /\ asked'[j].op # "prune" => asked'[j].to \in Releases
    BY <1>2 DEF Take, TypeInv, TypeOK
  <2>6. QED
    BY <1>2, <2>4, <2>5 DEF Take, TypeInv, TypeOK, CmdsTyped
<1>3. ASSUME NEW i \in Installations, Stage(i) PROVE TypeInv'
  <2>1. cmd[i].to \in Releases
    BY <1>3 DEF Stage, At, TypeInv, Arrives, Prunes
  <2>2. CmdsTyped'
    BY <1>3, <2>1, <1>0, GotoFits DEF Stage, At, CmdsTyped
  <2>3. /\ staging' \in [Installations -> MaybeRelease]
        /\ half' \in [Installations -> SUBSET Releases]
        /\ UNCHANGED store
    BY <1>3, <2>1 DEF Stage, TypeInv, TypeOK, MaybeRelease
  <2>4. QED
    BY <1>3, <2>2, <2>3 DEF Stage, TypeInv, TypeOK, CmdsTyped
<1>4. ASSUME NEW i \in Installations, Land(i) PROVE TypeInv'
  <2>1. cmd[i].to \in Releases
    BY <1>4 DEF Land, At, TypeInv, Arrives, Prunes
  <2>2. CmdsTyped'
    BY <1>4, <2>1, <1>0, GotoFits DEF Land, At, CmdsTyped
  <2>3. staging' \in [Installations -> MaybeRelease] /\ half' \in [Installations -> SUBSET Releases]
    BY <1>4, <2>1 DEF Land, TypeInv, TypeOK, MaybeRelease
  <2>4. store' \in [Installations -> SUBSET Releases]
    <3>1. store \in [Installations -> SUBSET Releases]
      BY DEF TypeInv, TypeOK
    <3>2. QED
      BY <1>4, <2>1, <3>1 DEF Land
  <2>5. QED
    BY <1>4, <2>2, <2>3, <2>4 DEF Land, TypeInv, TypeOK, CmdsTyped
<1>5. ASSUME NEW i \in Installations, Candidate(i) PROVE TypeInv'
  <2>1. cmd[i].to \in Releases
    BY <1>5 DEF Candidate, At, TypeInv, Arrives, Prunes
  <2>2. CmdsTyped'
    BY <1>5, <1>0, EndFits DEF Candidate, CmdsTyped
  <2>3. roles' \in [Installations -> Roles]
    BY <1>5, <2>1 DEF Candidate, TypeInv, TypeOK, Roles, MaybeRelease
  <2>4. QED
    BY <1>5, <2>2, <2>3 DEF Candidate, TypeInv, TypeOK, CmdsTyped, Roles
<1>6. ASSUME NEW i \in Installations, FetchBegins(i) PROVE TypeInv'
  <2>1. ops' \in [Installations -> Nat] /\ (\A j \in Installations : ops'[j] <= MaxOps[j])
        /\ crashes' \in 0..MaxCrashes
    BY <1>6, SpendFits DEF FetchBegins
  <2>2. QED
    BY <1>6, <2>1 DEF FetchBegins, Spend, TypeInv, TypeOK, MaybeRelease
<1>7. ASSUME NEW i \in Installations, FetchEnds(i) PROVE TypeInv'
  <2>1. fetching[i] \in Releases
    BY <1>7 DEF FetchEnds, TypeInv, TypeOK, MaybeRelease
  <2>2. QED
    BY <1>7, <2>1 DEF FetchEnds, TypeInv, TypeOK, MaybeRelease
<1>8. ASSUME NEW i \in Installations, FetchRefused(i) PROVE TypeInv'
  <2> DEFINE c == [cmd[i] EXCEPT !.clear = FALSE]
  <2>1. ASSUME cmd[i] # None PROVE c \in Process /\ Arrives(c)
    BY <2>1 DEF TypeInv, TypeOK, Process, Arrives
  <2>2. ASSUME cmd[i] # None, Becomes(i, c) PROVE CmdsTyped'
    BY <2>1, <2>2, <1>0, BecomesFits DEF CmdsTyped
  <2>3. CmdsTyped'
    BY <1>8, <1>0, <2>2 DEF FetchRefused, CmdsTyped
  <2>4. QED
    BY <1>8, <2>3 DEF FetchRefused, TypeInv, TypeOK, CmdsTyped, MaybeRelease
<1>9. ASSUME NEW i \in Installations, FetchDies(i) PROVE TypeInv'
  <2>1. crashes' \in 0..MaxCrashes
    BY <1>9, BoundAssumption DEF FetchDies, TypeInv, TypeOK
  <2>2. QED
    BY <1>9, <2>1 DEF FetchDies, TypeInv, TypeOK, MaybeRelease
<1>10. ASSUME NEW i \in Installations, Ingest(i) PROVE TypeInv'
  <2> DEFINE c == [cmd[i] EXCEPT !.pc = "load",
                     !.clear = cmd[i].to \in store[i] /\ Clear(i, cmd[i].to),
                     !.left = (Aliases(cmd[i].to) \ names) \cup ({"digest"} \X Pulls[cmd[i].to])]
  <2>1. cmd[i] \in Process /\ cmd[i].to \in Releases
    BY <1>10 DEF Ingest, At, TypeInv, TypeOK, Arrives, Prunes
  <2>2. (Aliases(cmd[i].to) \ names) \cup ({"digest"} \X Pulls[cmd[i].to]) \subseteq Names
    BY <2>1, RefsTyped DEF RuntimeImageRefs
  <2>3. (cmd[i].to \in store[i] /\ Clear(i, cmd[i].to)) \in BOOLEAN
    OBVIOUS
  <2>4. c \in Process /\ Arrives(c)
    BY <2>1, <2>2, <2>3 DEF Process, Arrives
  <2>5. CmdsTyped'
    BY <1>10, <2>4, <1>0, BecomesFits DEF Ingest, CmdsTyped
  <2>6. QED
    BY <1>10, <2>5 DEF Ingest, TypeInv, TypeOK, CmdsTyped
<1>11. ASSUME NEW i \in Installations, Load(i) PROVE TypeInv'
  <2>1. PICK n \in cmd[i].left :
          names' = names \cup {n} /\ Becomes(i, [cmd[i] EXCEPT !.left = @ \ {n}])
    BY <1>11 DEF Load
  <2> DEFINE c == [cmd[i] EXCEPT !.left = @ \ {n}]
  <2>2. cmd[i] \in Process /\ c \in Process /\ Arrives(c)
    BY <1>11 DEF Load, At, TypeInv, TypeOK, Arrives, Process
  <2>3. CmdsTyped'
    BY <2>1, <2>2, <1>0, BecomesFits DEF CmdsTyped
  <2>4. names' \subseteq Names
    BY <2>1, <2>2 DEF TypeInv, TypeOK, Process
  <2>5. QED
    BY <1>11, <2>3, <2>4 DEF Load, TypeInv, TypeOK, CmdsTyped
<1>12. ASSUME NEW i \in Installations, Loaded(i) PROVE TypeInv'
  <2>1. cmd[i].to \in Releases
    BY <1>12 DEF Loaded, At, TypeInv, Arrives, Prunes
  <2>2. CmdsTyped'
    BY <1>12, <2>1, <1>0, GotoFits DEF Loaded, At, CmdsTyped
  <2>3. loaded' \subseteq Installations \X Releases
    BY <1>12, <2>1 DEF Loaded, TypeInv, TypeOK
  <2>4. QED
    BY <1>12, <2>2, <2>3 DEF Loaded, TypeInv, TypeOK, CmdsTyped
<1>13. ASSUME NEW i \in Installations, Start(i) PROVE TypeInv'
  <2>1. cmd[i].to \in Releases
    BY <1>13 DEF Start, At, TypeInv, Arrives, Prunes
  <2>2. CmdsTyped'
    BY <1>13, <2>1, <1>0, GotoFits DEF Start, At, CmdsTyped
  <2>3. names' \subseteq Names
    BY <1>13, <2>1, RefsTyped DEF Start, TypeInv, TypeOK
  <2>4. QED
    BY <1>13, <2>1, <2>2, <2>3 DEF Start, TypeInv, TypeOK, CmdsTyped, MaybeRelease
<1>14. ASSUME NEW i \in Installations, Record(i) PROVE TypeInv'
  <2>1. cmd[i].to \in Releases
    BY <1>14 DEF Record, At, TypeInv, Arrives, Prunes
  <2>2. CmdsTyped'
    BY <1>14, <2>1, <1>0, GotoFits, EndFits DEF Record, At, CmdsTyped
  <2>3. Promote(roles[i], cmd[i].to) \in Roles
    BY <2>1, PromoteTyped DEF TypeInv, TypeOK, Roles, MaybeRelease
  <2>4. Retire(Promote(roles[i], cmd[i].to), cmd[i].to) \in Roles
    BY <2>3 DEF Retire, Roles, MaybeRelease
  <2>5. roles' \in [Installations -> Roles]
    BY <1>14, <2>4, RolesStep DEF Record
  <2>6. QED
    BY <1>14, <2>2, <2>5 DEF Record, TypeInv, TypeOK, CmdsTyped, Roles
<1>15. ASSUME NEW i \in Installations, PointToPrevious(i) PROVE TypeInv'
  <2> DEFINE c == [cmd[i] EXCEPT !.pc = "load", !.left = {"digest"} \X Pulls[cmd[i].to]]
  <2>1. cmd[i] \in Process /\ cmd[i].to \in Releases
    BY <1>15 DEF PointToPrevious, At, TypeInv, TypeOK, Arrives, Prunes
  <2>2. {"digest"} \X Pulls[cmd[i].to] \subseteq Names
    BY <2>1, RefsTyped DEF RuntimeImageRefs
  <2>3. c \in Process /\ Arrives(c)
    BY <2>1, <2>2 DEF Process, Arrives
  <2>4. CmdsTyped'
    BY <1>15, <2>3, <1>0, BecomesFits DEF PointToPrevious, CmdsTyped
  <2>5. roles' \in [Installations -> Roles]
    BY <1>15, <2>1, PromoteTyped, RolesStep DEF PointToPrevious, TypeInv, TypeOK, Roles, MaybeRelease
  <2>6. QED
    BY <1>15, <2>4, <2>5 DEF PointToPrevious, TypeInv, TypeOK, CmdsTyped, Roles
<1>16. ASSUME NEW i \in Installations, Fail(i) PROVE TypeInv'
  <2>1. cmd[i] \in Process
    BY <1>16 DEF Fail, At, TypeInv, TypeOK
  <2>2. CmdsTyped'
    BY <1>16, <1>0, EndFits DEF Fail, CmdsTyped
  <2>3. roles' \in [Installations -> Roles]
    <3>1. Promote(roles[i], cmd[i].from) \in Roles
      BY <2>1, PromoteTyped DEF Process, TypeInv, TypeOK, Roles
    <3>2. roles' = roles \/ roles' = [roles EXCEPT ![i] = Promote(@, cmd[i].from)]
      BY <1>16 DEF Fail
    <3>3. QED
      BY <3>1, <3>2, RolesStep DEF TypeInv, TypeOK, Roles
  <2>4. running' \in [Installations -> MaybeRelease]
    BY <1>16, <2>1 DEF Fail, Process, TypeInv, TypeOK, MaybeRelease
  <2>5. names' \subseteq Names
    <3>1. cmd[i].from # None => RuntimeImageRefs(cmd[i].from) \subseteq Names
      BY <2>1, RefsTyped DEF Process, MaybeRelease
    <3>2. QED
      BY <1>16, <3>1 DEF Fail, TypeInv, TypeOK
  <2>6. staging' \in [Installations -> MaybeRelease] /\ half' \in [Installations -> SUBSET Releases]
    BY <1>16 DEF Fail, TypeInv, TypeOK, MaybeRelease
  <2>7. QED
    BY <1>16, <2>2, <2>3, <2>4, <2>5, <2>6 DEF Fail, TypeInv, TypeOK, CmdsTyped, Roles
<1>17. ASSUME NEW i \in Installations, ListReleases(i) PROVE TypeInv'
  <2> DEFINE idle == store[i] \ Exempt(i)
             pruned == {r \in idle : Cardinality({s \in idle : s > r}) >= Keep}
             c == [cmd[i] EXCEPT !.pc = "plan", !.go = pruned]
  <2>1. cmd[i] \in Process /\ pruned \subseteq Releases
    BY <1>17 DEF ListReleases, At, TypeInv, TypeOK
  <2> HIDE DEF pruned
  <2>2. c \in Process /\ Arrives(c)
    BY <2>1 DEF Process, Arrives, Prunes
  <2>3. ASSUME End(i) PROVE CmdsTyped'
    BY <2>3, <1>0, EndFits DEF CmdsTyped
  <2>4. ASSUME Becomes(i, c) PROVE CmdsTyped'
    BY <2>4, <2>2, <1>0, BecomesFits DEF CmdsTyped
  <2>5. CmdsTyped'
    BY <1>17, <2>3, <2>4 DEF ListReleases, End, pruned
  <2>6. QED
    BY <1>17, <2>5 DEF ListReleases, TypeInv, TypeOK, CmdsTyped
<1>18. ASSUME NEW i \in Installations, NEW j \in Installations, ReadStore(i, j) PROVE TypeInv'
  <2> DEFINE stays == (store[j] \ (IF i = j THEN cmd[i].go ELSE {}))
                      \cup half[j] \cup ({staging[j]} \ {None})
             c == [cmd[i] EXCEPT !.read = @ \cup {j}, !.referenced = @ \cup KeysOf(stays)]
  <2>1. cmd[i] \in Process /\ stays \subseteq Releases
    BY <1>18 DEF ReadStore, At, TypeInv, TypeOK, MaybeRelease
  <2>2. KeysOf(stays) \subseteq Keys
    BY <2>1, KeysTyped
  <2>3. Becomes(i, c)
    <3>1. stays = (store[j] \ (IF i = j THEN cmd[i].go ELSE {}))
                  \cup (half[j] \cup ({staging[j]} \ {None}))
      OBVIOUS
    <3>2. QED
      BY <1>18, <3>1 DEF ReadStore
  <2> HIDE DEF stays
  <2>4. c \in Process /\ Arrives(c)
    BY <1>18, <2>1, <2>2 DEF ReadStore, At, Process, Arrives, Prunes
  <2>5. CmdsTyped'
    BY <2>3, <2>4, <1>0, BecomesFits DEF CmdsTyped
  <2>6. QED
    BY <1>18, <2>5 DEF ReadStore, TypeInv, TypeOK, CmdsTyped
<1>19. ASSUME NEW i \in Installations, NEW j \in Installations, Withhold(i, j) PROVE TypeInv'
  <2>1. CmdsTyped'
    BY <1>19, <1>0, GotoFits DEF Withhold, Goto, At, Prunes, CmdsTyped
  <2>2. QED
    BY <1>19, <2>1 DEF Withhold, TypeInv, TypeOK, CmdsTyped
<1>20. ASSUME NEW i \in Installations, PlanImageRemoval(i) PROVE TypeInv'
  <2> DEFINE drop == Removable(UNION {RuntimeImageRefs(r) : r \in cmd[i].go}, cmd[i].referenced)
             c == [cmd[i] EXCEPT !.pc = "trees", !.drop = drop]
  <2>1. cmd[i] \in Process
    BY <1>20 DEF PlanImageRemoval, At, TypeInv, TypeOK
  <2>2. drop \subseteq Names
    BY <2>1, RefsTyped DEF Removable, Process
  <2> HIDE DEF drop
  <2>3. c \in Process /\ Arrives(c)
    BY <2>1, <2>2 DEF Process, Arrives, Prunes
  <2>4. CmdsTyped'
    BY <1>20, <2>3, <1>0, BecomesFits DEF PlanImageRemoval, CmdsTyped, drop
  <2>5. QED
    BY <1>20, <2>4 DEF PlanImageRemoval, TypeInv, TypeOK, CmdsTyped
<1>21. ASSUME NEW i \in Installations, RemoveTree(i) PROVE TypeInv'
  <2>1. ASSUME NEW r \in cmd[i].go,
               Becomes(i, [cmd[i] EXCEPT !.go = @ \ {r},
                                         !.pc = IF cmd[i].go = {r} THEN "images" ELSE @])
        PROVE  CmdsTyped'
    <3> DEFINE c == [cmd[i] EXCEPT !.go = @ \ {r}, !.pc = IF cmd[i].go = {r} THEN "images" ELSE @]
    <3>1. c \in Process /\ Arrives(c)
      BY <1>21 DEF RemoveTree, At, TypeInv, TypeOK, Process, Arrives, Prunes
    <3>2. QED
      BY <2>1, <3>1, <1>0, BecomesFits DEF CmdsTyped
  <2>2. CmdsTyped'
    BY <1>21, <2>1, <1>0, EndFits DEF RemoveTree, CmdsTyped
  <2>3. store' \in [Installations -> SUBSET Releases] /\ loaded' \subseteq Installations \X Releases
    BY <1>21 DEF RemoveTree, TypeInv, TypeOK
  <2>4. QED
    BY <1>21, <2>2, <2>3 DEF RemoveTree, TypeInv, TypeOK, CmdsTyped
<1>22. ASSUME NEW i \in Installations, RemoveImage(i) PROVE TypeInv'
  <2>1. PICK n \in cmd[i].drop : Becomes(i, [cmd[i] EXCEPT !.drop = @ \ {n}]) /\ names' \subseteq names
    BY <1>22 DEF RemoveImage
  <2> DEFINE c == [cmd[i] EXCEPT !.drop = @ \ {n}]
  <2>2. c \in Process /\ Arrives(c)
    BY <1>22 DEF RemoveImage, At, TypeInv, TypeOK, Process, Arrives
  <2>3. CmdsTyped'
    BY <2>1, <2>2, <1>0, BecomesFits DEF CmdsTyped
  <2>4. QED
    BY <1>22, <2>1, <2>3 DEF RemoveImage, TypeInv, TypeOK, CmdsTyped
<1>23. ASSUME NEW i \in Installations, PruneEnds(i) PROVE TypeInv'
  <2>1. CmdsTyped'
    BY <1>23, <1>0, EndFits DEF PruneEnds, CmdsTyped
  <2>2. QED
    BY <1>23, <2>1 DEF PruneEnds, TypeInv, TypeOK, CmdsTyped
<1>24. ASSUME NEW i \in Installations, Stop(i) PROVE TypeInv'
  <2>1. ops' \in [Installations -> Nat] /\ (\A j \in Installations : ops'[j] <= MaxOps[j])
        /\ crashes' \in 0..MaxCrashes
    BY <1>24, SpendFits DEF Stop
  <2>2. QED
    BY <1>24, <2>1 DEF Stop, Spend, TypeInv, TypeOK, MaybeRelease
<1>25. ASSUME NEW i \in Installations, Crash(i) PROVE TypeInv'
  <2>1. CmdsTyped'
    BY <1>25, <1>0, EndFits DEF Crash, CmdsTyped
  <2>2. crashes' \in 0..MaxCrashes
    BY <1>25, BoundAssumption DEF Crash, TypeInv, TypeOK
  <2>3. QED
    BY <1>25, <2>1, <2>2 DEF Crash, TypeInv, TypeOK, CmdsTyped
<1>26. CASE UNCHANGED vars
  BY <1>26 DEF vars, TypeInv, TypeOK
<1>27. QED
  BY <1>1, <1>2, <1>3, <1>4, <1>5, <1>6, <1>7, <1>8, <1>9, <1>10, <1>11, <1>12, <1>13, <1>14,
     <1>15, <1>16, <1>17, <1>18, <1>19, <1>20, <1>21, <1>22, <1>23, <1>24, <1>25, <1>26 DEF Next

\* Every variable has its type in every state (TypeOK), whatever the bounds.
THEOREM TypeCorrect == Spec => []TypeOK
<1>1. TypeInv => TypeOK
  BY DEF TypeInv
<1>2. QED
  BY <1>1, TypeInvInit, TypeInvStep, PTL DEF Spec
-----------------------------------------------------------------------------
(* The roles *)

Pruning == {"plan", "trees", "images"}

\* A prune that has made its list spares what has a role; by the time it goes on
\* to the images no directory is left to remove.
Spares(c, i) ==
  c # None => /\ c.pc \in {"plan", "trees"} => c.go \cap Exempt(i) = {}
              /\ c.pc = "images" => c.go = {}

PruneInv == \A i \in Installations : Spares(cmd[i], i)

\* Whoever changes the roles holds the lock, and is not pruning then.
LEMMA PruneInvQuiet ==
  ASSUME TypeInv, PruneInv, NEW i \in Installations, NEW c,
         c = None \/ c.pc \notin Pruning, Becomes(i, c),
         \A j \in Installations \ {i} : roles'[j] = roles[j]
  PROVE  PruneInv'
<1>1. \A j \in Installations : cmd'[j] = IF j = i THEN c ELSE cmd[j]
  BY DEF Becomes, TypeInv, TypeOK
<1>2. QED
  BY <1>1 DEF PruneInv, Spares, Exempt, Pruning

\* While the roles stand still, a prune may go on with the list it made.
LEMMA PruneInvGoesOn ==
  ASSUME TypeInv, PruneInv, NEW i \in Installations, NEW c, Spares(c, i), Becomes(i, c),
         UNCHANGED roles
  PROVE  PruneInv'
<1>1. \A j \in Installations : cmd'[j] = IF j = i THEN c ELSE cmd[j]
  BY DEF Becomes, TypeInv, TypeOK
<1>2. QED
  BY <1>1 DEF PruneInv, Spares, Exempt

LEMMA PruneInvInit == Init => PruneInv
  BY DEF Init, PruneInv, Spares

LEMMA PruneInvStep == TypeInv /\ PruneInv /\ [Next]_vars => PruneInv'
<1> SUFFICES ASSUME TypeInv, PruneInv, [Next]_vars PROVE PruneInv'
  OBVIOUS
<1> USE DEF Pruning
<1>0. \A i \in Installations : cmd[i] \in Process \cup {None}
  BY DEF TypeInv, TypeOK
<1>1. ASSUME NEW i \in Installations,
             Ask(i) \/ FetchBegins(i) \/ FetchEnds(i) \/ FetchDies(i) \/ Stop(i)
      PROVE  PruneInv'
  BY <1>1 DEF Ask, FetchBegins, FetchEnds, FetchDies, Stop, PruneInv, Spares, Exempt
<1>2. ASSUME NEW i \in Installations, Take(i) PROVE PruneInv'
  <2> DEFINE c == [op |-> asked[i].op, to |-> asked[i].to, from |-> asked[i].from,
                   pc |-> FirstStep(asked[i].op), clear |-> FALSE, left |-> {}, go |-> {},
                   drop |-> {}, referenced |-> {}, read |-> {}]
  <2>1. FirstStep(asked[i].op) \in {"list", "point", "stage"}
    BY DEF FirstStep
  <2>2. c.pc \notin Pruning
    BY <2>1
  <2>3. ASSUME Becomes(i, c) PROVE PruneInv'
    BY <1>2, <2>2, <2>3, PruneInvQuiet DEF Take
  <2>4. ASSUME UNCHANGED cmd PROVE PruneInv'
    BY <1>2, <2>4 DEF Take, PruneInv, Spares, Exempt
  <2>5. QED
    BY <1>2, <2>3, <2>4 DEF Take
<1>3. ASSUME NEW i \in Installations, cmd[i] \in Process,
             NEW pc \in {"land", "ingest", "start", "candidate", "list"},
             Goto(i, pc), \A j \in Installations \ {i} : roles'[j] = roles[j]
      PROVE  PruneInv'
  <2>1. [cmd[i] EXCEPT !.pc = pc].pc \notin Pruning
    BY <1>3 DEF Process
  <2>2. QED
    BY <1>3, <2>1, PruneInvQuiet DEF Goto
<1>4. ASSUME NEW i \in Installations, End(i), \A j \in Installations \ {i} : roles'[j] = roles[j]
      PROVE  PruneInv'
  BY <1>4, PruneInvQuiet DEF End
<1>5. ASSUME NEW i \in Installations, Stage(i) \/ Land(i) \/ Loaded(i) PROVE PruneInv'
  BY <1>5, <1>0, <1>3 DEF Stage, Land, Loaded, At
<1>6. ASSUME NEW i \in Installations, Start(i) PROVE PruneInv'
  <2>1. [cmd[i] EXCEPT !.pc = "record"].pc = "record"
    BY <1>6, <1>0 DEF Start, At, Process
  <2>2. QED
    BY <1>6, <2>1, PruneInvQuiet DEF Start, Goto
<1>7. ASSUME NEW i \in Installations, Candidate(i) \/ Record(i) PROVE PruneInv'
  <2>1. \A j \in Installations \ {i} : roles'[j] = roles[j]
    BY <1>7 DEF Candidate, Record, TypeInv, TypeOK
  <2>2. QED
    BY <1>7, <2>1, <1>0, <1>3, <1>4 DEF Candidate, Record, At
<1>8. ASSUME NEW i \in Installations, Fail(i) PROVE PruneInv'
  <2>1. \A j \in Installations \ {i} : roles'[j] = roles[j]
    BY <1>8 DEF Fail, TypeInv, TypeOK
  <2>2. QED
    BY <1>8, <2>1, <1>4 DEF Fail
<1>9. ASSUME NEW i \in Installations, PruneEnds(i) \/ Crash(i) PROVE PruneInv'
  BY <1>9, <1>4 DEF PruneEnds, Crash
<1>10. ASSUME NEW i \in Installations, FetchRefused(i) PROVE PruneInv'
  <2>1. ASSUME cmd[i] # None PROVE Spares([cmd[i] EXCEPT !.clear = FALSE], i)
    BY <2>1, <1>0 DEF PruneInv, Spares, Process
  <2>2. ASSUME cmd[i] # None, Becomes(i, [cmd[i] EXCEPT !.clear = FALSE]) PROVE PruneInv'
    BY <1>10, <2>1, <2>2, PruneInvGoesOn DEF FetchRefused
  <2>3. ASSUME UNCHANGED cmd PROVE PruneInv'
    BY <1>10, <2>3 DEF FetchRefused, PruneInv, Spares, Exempt
  <2>4. QED
    BY <1>10, <2>2, <2>3 DEF FetchRefused
<1>11. ASSUME NEW i \in Installations, Ingest(i) PROVE PruneInv'
  <2> DEFINE c == [cmd[i] EXCEPT !.pc = "load",
                     !.clear = cmd[i].to \in store[i] /\ Clear(i, cmd[i].to),
                     !.left = (Aliases(cmd[i].to) \ names) \cup ({"digest"} \X Pulls[cmd[i].to])]
  <2>1. c.pc = "load"
    BY <1>11, <1>0 DEF Ingest, At, Process
  <2>2. QED
    BY <1>11, <2>1, PruneInvQuiet DEF Ingest
<1>12. ASSUME NEW i \in Installations, Load(i) PROVE PruneInv'
  <2>1. PICK n \in cmd[i].left : Becomes(i, [cmd[i] EXCEPT !.left = @ \ {n}])
    BY <1>12 DEF Load
  <2>2. [cmd[i] EXCEPT !.left = @ \ {n}].pc = "load"
    BY <1>12, <1>0 DEF Load, At, Process
  <2>3. QED
    BY <1>12, <2>1, <2>2, PruneInvQuiet DEF Load
<1>13. ASSUME NEW i \in Installations, PointToPrevious(i) PROVE PruneInv'
  <2> DEFINE c == [cmd[i] EXCEPT !.pc = "load", !.left = {"digest"} \X Pulls[cmd[i].to]]
  <2>1. c.pc = "load"
    BY <1>13, <1>0 DEF PointToPrevious, At, Process
  <2>2. \A j \in Installations \ {i} : roles'[j] = roles[j]
    BY <1>13 DEF PointToPrevious, TypeInv, TypeOK
  <2>3. QED
    BY <1>13, <2>1, <2>2, PruneInvQuiet DEF PointToPrevious
<1>14. ASSUME NEW i \in Installations, ListReleases(i) PROVE PruneInv'
  <2> DEFINE idle == store[i] \ Exempt(i)
             pruned == {r \in idle : Cardinality({s \in idle : s > r}) >= Keep}
             c == [cmd[i] EXCEPT !.pc = "plan", !.go = pruned]
  <2>1. pruned \cap Exempt(i) = {}
    OBVIOUS
  <2>2. End(i) \/ Becomes(i, c)
    BY <1>14 DEF ListReleases
  <2> HIDE DEF pruned
  <2>3. Spares(c, i)
    BY <1>14, <1>0, <2>1 DEF ListReleases, At, Process, Spares
  <2>4. QED
    BY <1>14, <2>2, <2>3, <1>4, PruneInvGoesOn DEF ListReleases
<1>15. ASSUME NEW i \in Installations, NEW j \in Installations, ReadStore(i, j) PROVE PruneInv'
  <2>1. PICK s : Becomes(i, [cmd[i] EXCEPT !.read = @ \cup {j}, !.referenced = @ \cup s])
    BY <1>15 DEF ReadStore
  <2>2. Spares([cmd[i] EXCEPT !.read = @ \cup {j}, !.referenced = @ \cup s], i)
    BY <1>15, <1>0 DEF ReadStore, At, Process, PruneInv, Spares
  <2>3. QED
    BY <1>15, <2>1, <2>2, PruneInvGoesOn DEF ReadStore
<1>16. ASSUME NEW i \in Installations, NEW j \in Installations, Withhold(i, j) PROVE PruneInv'
  <2>1. Spares([cmd[i] EXCEPT !.pc = "trees"], i)
    BY <1>16, <1>0 DEF Withhold, At, Process, PruneInv, Spares
  <2>2. QED
    BY <1>16, <2>1, PruneInvGoesOn DEF Withhold, Goto
<1>17. ASSUME NEW i \in Installations, PlanImageRemoval(i) PROVE PruneInv'
  <2>1. PICK s : Becomes(i, [cmd[i] EXCEPT !.pc = "trees", !.drop = s])
    BY <1>17 DEF PlanImageRemoval
  <2>2. Spares([cmd[i] EXCEPT !.pc = "trees", !.drop = s], i)
    BY <1>17, <1>0 DEF PlanImageRemoval, At, Process, PruneInv, Spares
  <2>3. QED
    BY <1>17, <2>1, <2>2, PruneInvGoesOn DEF PlanImageRemoval
<1>18. ASSUME NEW i \in Installations, RemoveTree(i) PROVE PruneInv'
  <2>1. ASSUME NEW r \in cmd[i].go,
               Becomes(i, [cmd[i] EXCEPT !.go = @ \ {r},
                                         !.pc = IF cmd[i].go = {r} THEN "images" ELSE @])
        PROVE  PruneInv'
    <3> DEFINE c == [cmd[i] EXCEPT !.go = @ \ {r}, !.pc = IF cmd[i].go = {r} THEN "images" ELSE @]
    <3>1. cmd[i] \in Process /\ Spares(cmd[i], i) /\ cmd[i].pc = "trees"
      BY <1>18, <1>0 DEF RemoveTree, At, PruneInv
    <3>2. c.go = cmd[i].go \ {r} /\ c.pc = IF cmd[i].go = {r} THEN "images" ELSE "trees"
      BY <3>1 DEF Process
    <3>3. Spares(c, i)
      BY <1>18, <3>1, <3>2 DEF Spares, RemoveTree, At
    <3>4. QED
      BY <1>18, <2>1, <3>3, PruneInvGoesOn DEF RemoveTree
  <2>2. QED
    BY <1>18, <2>1, <1>4 DEF RemoveTree
<1>19. ASSUME NEW i \in Installations, RemoveImage(i) PROVE PruneInv'
  <2>1. PICK n \in cmd[i].drop : Becomes(i, [cmd[i] EXCEPT !.drop = @ \ {n}])
    BY <1>19 DEF RemoveImage
  <2>2. Spares([cmd[i] EXCEPT !.drop = @ \ {n}], i)
    BY <1>19, <1>0 DEF RemoveImage, At, Process, PruneInv, Spares
  <2>3. QED
    BY <1>19, <2>1, <2>2, PruneInvGoesOn DEF RemoveImage
<1>20. CASE UNCHANGED vars
  BY <1>20 DEF vars, PruneInv, Spares, Exempt
<1>21. QED
  BY <1>1, <1>2, <1>5, <1>6, <1>7, <1>8, <1>9, <1>10, <1>11, <1>12, <1>13, <1>14, <1>15, <1>16,
     <1>17, <1>18, <1>19, <1>20 DEF Next

\* No step removes the directory of a release with a role, but a refused fetch
\* of that release.
LEMMA RolesStayStep ==
  ASSUME TypeInv, PruneInv, [Next]_vars,
         NEW i \in Installations,
         NEW r \in {roles[i].current, roles[i].previous, roles[i].candidate} \cap store[i]
  PROVE  r \in store'[i] \/ (fetching[i] = r /\ fetching'[i] = None)
<1> USE DEF disk, spent
<1>1. ASSUME NEW j \in Installations, RemoveTree(j) PROVE r \in store'[i]
  <2>1. store' = store \/ \E s \in cmd[j].go : store' = [store EXCEPT ![j] = @ \ {s}]
    BY <1>1 DEF RemoveTree
  <2>2. cmd[j].go \cap Exempt(j) = {}
    BY <1>1 DEF RemoveTree, At, PruneInv, Spares
  <2>3. QED
    BY <2>1, <2>2 DEF Exempt, TypeInv, TypeOK
<1>2. ASSUME NEW j \in Installations, FetchRefused(j)
      PROVE  r \in store'[i] \/ (fetching[i] = r /\ fetching'[i] = None)
  BY <1>2 DEF FetchRefused, TypeInv, TypeOK
<1>3. ASSUME NEW j \in Installations, Land(j) \/ FetchEnds(j) PROVE r \in store'[i]
  <2>1. \E s : store' = [store EXCEPT ![j] = @ \cup {s}]
    BY <1>3 DEF Land, FetchEnds
  <2>2. store \in [Installations -> SUBSET Releases]
    BY DEF TypeInv, TypeOK
  <2>3. QED
    BY <2>1, <2>2
<1>4. ASSUME NEW j \in Installations, Stage(j) PROVE r \in store'[i]
  BY <1>4 DEF Stage
<1>5. ASSUME NEW j \in Installations,
             \/ Ask(j) \/ Take(j) \/ Candidate(j) \/ FetchBegins(j) \/ FetchDies(j)
             \/ Ingest(j) \/ Load(j) \/ Loaded(j) \/ Start(j) \/ Record(j)
             \/ PointToPrevious(j) \/ Fail(j) \/ ListReleases(j) \/ PlanImageRemoval(j)
             \/ RemoveImage(j) \/ PruneEnds(j) \/ Stop(j) \/ Crash(j)
             \/ \E k \in Installations : ReadStore(j, k) \/ Withhold(j, k)
      PROVE  UNCHANGED store
  BY <1>5 DEF Ask, Take, Candidate, FetchBegins, FetchDies, Ingest, Load, Loaded, Start, Record,
              PointToPrevious, Fail, ListReleases, PlanImageRemoval, RemoveImage, PruneEnds, Stop,
              Crash, ReadStore, Withhold
<1>6. CASE UNCHANGED vars
  BY <1>6 DEF vars
<1>7. QED
  BY <1>1, <1>2, <1>3, <1>4, <1>5, <1>6 DEF Next

\* Prune never takes the current, the previous or the staged release
\* (PruneReleases), however commands, fetches and crashes interleave (RolesStay).
THEOREM RolesAlwaysStay == Spec => RolesStay
<1>1. TypeInv /\ PruneInv /\ [Next]_vars
      => [\A i \in Installations :
            \A r \in {roles[i].current, roles[i].previous, roles[i].candidate} \cap store[i] :
              r \in store'[i] \/ (fetching[i] = r /\ fetching'[i] = None)]_vars
  BY RolesStayStep
<1>2. QED
  BY <1>1, TypeInvInit, TypeInvStep, PruneInvInit, PruneInvStep, PTL DEF Spec, RolesStay
-----------------------------------------------------------------------------
(* The images *)

Loading(i, r) == At(i, "load") /\ cmd[i].clear /\ cmd[i].to = r

\* A release the images of which are to stay: loaded, or being loaded with no
\* prune about that does not know of it.
Protected(i, r) == <<i, r>> \in loaded \/ Loading(i, r)

\* The keys of the names that command c would go on to remove, as far as it has
\* come, if nothing in i but what it has read there needed them.
Doomed(c, i) ==
  IF c = None THEN {}
  ELSE IF c.pc = "plan" THEN IF i \in c.read THEN KeysOf(c.go) \ c.referenced ELSE {}
  ELSE IF c.pc \in {"trees", "images"} THEN {ImageKey(n) : n \in c.drop}
  ELSE {}

\* The release is on the list of i's own prune, and its directory goes first.
Leaving(c, k, i, r) == c # None /\ k = i /\ c.pc \in {"plan", "trees"} /\ r \in c.go

\* No prune would remove a name of release r of i before its directory.
Harmless(c, k, i, r) == Leaving(c, k, i, r) \/ Doomed(c, i) \cap KeysOf({r}) = {}

\* A command that has not come to its plan has read and decided nothing.
Fresh(c) == c # None => /\ c.pc \notin Pruning => c.read = {}
                        /\ c.pc \notin {"trees", "images"} => c.drop = {}

SafeInv ==
  /\ \A i \in Installations, r \in Releases :
       Protected(i, r) => r \in store[i] /\ \A k \in Installations : Harmless(cmd[k], k, i, r)
  /\ \A i \in Installations : Fresh(cmd[i])

\* The names of a protected release are there, or still to load.
NamesInv ==
  \A i \in Installations, r \in Releases :
    /\ <<i, r>> \in loaded => RuntimeImageRefs(r) \subseteq names
    /\ Loading(i, r) => RuntimeImageRefs(r) \ cmd[i].left \subseteq names

LEMMA SafeInvInit == Init => SafeInv
<1> SUFFICES ASSUME Init PROVE SafeInv
  OBVIOUS
<1>1. \A i \in Installations : cmd[i] = None
  BY DEF Init
<1>2. ASSUME NEW i \in Installations, NEW r \in Releases, Protected(i, r) PROVE r \in store[i]
  BY <1>1, <1>2 DEF Init, Protected, Loading, At
<1>3. QED
  BY <1>1, <1>2 DEF SafeInv, Harmless, Doomed, Fresh

LEMMA NamesInvInit == Init => NamesInv
  BY DEF Init, NamesInv, Loading, At

\* A command comes to a point where it threatens nobody that it did not threaten
\* before, and nothing is newly protected.
LEMMA SafeInvKept ==
  ASSUME TypeInv, SafeInv, NEW i \in Installations, NEW c, Becomes(i, c), Fresh(c),
         \A k \in Installations, r \in Releases :
           Protected(k, r)' => /\ Protected(k, r)
                               /\ r \in store[k] => r \in store'[k]
                               /\ Harmless(cmd[i], i, k, r) => Harmless(c, i, k, r)
  PROVE  SafeInv'
<1>1. \A j \in Installations : cmd'[j] = IF j = i THEN c ELSE cmd[j]
  BY DEF Becomes, TypeInv, TypeOK
<1>2. ASSUME NEW k \in Installations, NEW r \in Releases, Protected(k, r)'
      PROVE  r \in store'[k] /\ \A j \in Installations : Harmless(cmd'[j], j, k, r)
  BY <1>1, <1>2 DEF SafeInv
<1>3. \A j \in Installations : Fresh(cmd'[j])
  BY <1>1 DEF SafeInv
<1>4. QED
  BY <1>2, <1>3 DEF SafeInv, Protected, Loading, At, Harmless, Leaving, Doomed, Fresh
\* A command outside a prune threatens nobody.
LEMMA SafeInvQuiet ==
  ASSUME TypeInv, SafeInv, NEW i \in Installations, NEW c, Becomes(i, c), Fresh(c),
         c = None \/ c.pc \notin Pruning,
         c # None /\ c.pc = "load" /\ c.clear => Loading(i, c.to),
         \A k \in Installations, r \in Releases : <<k, r>> \in loaded' => Protected(k, r),
         \A k \in Installations : store[k] \subseteq store'[k]
  PROVE  SafeInv'
<1>1. \A j \in Installations : cmd'[j] = IF j = i THEN c ELSE cmd[j]
  BY DEF Becomes, TypeInv, TypeOK
<1>2. \A k \in Installations, r \in Releases : Loading(k, r)' => Loading(k, r)
  BY <1>1 DEF Loading, At
<1>3. \A k \in Installations, r \in Releases : Protected(k, r)' => Protected(k, r)
  BY <1>2 DEF Protected
<1>4. \A k \in Installations, r \in Releases : Harmless(c, i, k, r)
  BY DEF Harmless, Doomed, Pruning
<1>5. QED
  BY <1>3, <1>4, SafeInvKept

\* In a prune, nothing is loaded by the installation that prunes.
LEMMA SafeInvPrunes ==
  ASSUME TypeInv, SafeInv, NEW i \in Installations, NEW c, Becomes(i, c), Fresh(c),
         c # None => c.pc \in Pruning,
         UNCHANGED <<store, loaded>>,
         \A k \in Installations, r \in Releases :
           Protected(k, r) /\ Harmless(cmd[i], i, k, r) => Harmless(c, i, k, r)
  PROVE  SafeInv'
<1>1. \A j \in Installations : cmd'[j] = IF j = i THEN c ELSE cmd[j]
  BY DEF Becomes, TypeInv, TypeOK
<1>2. \A k \in Installations, r \in Releases : Loading(k, r)' => Loading(k, r)
  BY <1>1 DEF Loading, At, Pruning
<1>3. \A k \in Installations, r \in Releases : Protected(k, r)' => Protected(k, r)
  BY <1>2 DEF Protected
<1>4. QED
  BY <1>3, SafeInvKept

\* While the commands stand still, so does what they threaten.
LEMMA SafeInvStands ==
  ASSUME SafeInv, UNCHANGED cmd, \A k \in Installations : store[k] \subseteq store'[k],
         UNCHANGED loaded
  PROVE  SafeInv'
  BY DEF SafeInv, Protected, Loading, At, Harmless, Leaving, Doomed, Fresh

\* A command that has ended, or only goes on to another point outside a prune.
LEMMA SafeInvEnds ==
  ASSUME TypeInv, SafeInv, NEW i \in Installations, End(i), UNCHANGED <<store, loaded>>
  PROVE  SafeInv'
  BY SafeInvQuiet DEF End, Fresh, Protected

LEMMA SafeInvGoes ==
  ASSUME TypeInv, SafeInv, NEW i \in Installations, cmd[i] # None, cmd[i].pc \notin Pruning,
         NEW pc \in {"land", "ingest", "start", "record", "candidate", "list"}, Goto(i, pc),
         \A k \in Installations, r \in Releases : <<k, r>> \in loaded' => Protected(k, r),
         \A k \in Installations : store[k] \subseteq store'[k]
  PROVE  SafeInv'
<1> DEFINE c == [cmd[i] EXCEPT !.pc = pc]
<1>1. cmd[i] \in Process /\ Fresh(cmd[i])
  BY DEF TypeInv, TypeOK, SafeInv
<1>2. c.pc = pc /\ c.read = cmd[i].read /\ c.drop = cmd[i].drop
  BY <1>1 DEF Process
<1>3. Fresh(c) /\ c.pc \notin Pruning /\ c.pc # "load"
  BY <1>1, <1>2 DEF Fresh, Pruning
<1>4. QED
  BY <1>3, SafeInvQuiet DEF Goto

\* A prune that may remove a name of a release is one that threatens it.
LEMMA ClearIsHarmless ==
  ASSUME TypeInv, NEW i \in Installations, NEW r \in Releases, Clear(i, r),
         NEW k \in Installations
  PROVE  Harmless(cmd[k], k, i, r)
  BY DEF Clear, Threatens, At, Harmless, Doomed

LEMMA SafeInvStep == TypeInv /\ PruneInv /\ SafeInv /\ [Next]_vars => SafeInv'
<1> SUFFICES ASSUME TypeInv, PruneInv, SafeInv, [Next]_vars PROVE SafeInv'
  OBVIOUS
<1> USE DEF disk, spent
<1>0. \A i \in Installations : cmd[i] \in Process \cup {None} /\ Fresh(cmd[i])
  BY DEF TypeInv, TypeOK, SafeInv
<1>1. ASSUME NEW i \in Installations, Ask(i) \/ FetchBegins(i) \/ FetchDies(i) \/ Stop(i)
      PROVE  SafeInv'
  BY <1>1, SafeInvStands DEF Ask, FetchBegins, FetchDies, Stop
<1>2. ASSUME NEW i \in Installations, FetchEnds(i) PROVE SafeInv'
  <2>1. \A k \in Installations : store[k] \subseteq store'[k]
    BY <1>2 DEF FetchEnds, TypeInv, TypeOK
  <2>2. QED
    BY <1>2, <2>1, SafeInvStands DEF FetchEnds
<1>3. ASSUME NEW i \in Installations, Take(i) PROVE SafeInv'
  <2> DEFINE c == [op |-> asked[i].op, to |-> asked[i].to, from |-> asked[i].from,
                   pc |-> FirstStep(asked[i].op), clear |-> FALSE, left |-> {}, go |-> {},
                   drop |-> {}, referenced |-> {}, read |-> {}]
  <2>1. FirstStep(asked[i].op) \in {"list", "point", "stage"}
    BY DEF FirstStep
  <2>2. c.pc \notin Pruning /\ c.pc # "load" /\ Fresh(c)
    BY <2>1 DEF Fresh, Pruning
  <2>3. ASSUME Becomes(i, c) PROVE SafeInv'
    BY <1>3, <2>2, <2>3, SafeInvQuiet DEF Take, Protected
  <2>4. ASSUME UNCHANGED cmd PROVE SafeInv'
    BY <1>3, <2>4, SafeInvStands DEF Take
  <2>5. QED
    BY <1>3, <2>3, <2>4 DEF Take
<1>4. ASSUME NEW i \in Installations, Stage(i) PROVE SafeInv'
  <2>1. \E pc \in {"land", "candidate", "ingest"} : Goto(i, pc)
    BY <1>4 DEF Stage
  <2>2. UNCHANGED <<store, loaded>> /\ cmd[i] # None /\ cmd[i].pc = "stage"
    BY <1>4 DEF Stage, At
  <2>3. QED
    BY <2>1, <2>2, SafeInvGoes DEF Protected, Pruning
<1>5. ASSUME NEW i \in Installations, Land(i) PROVE SafeInv'
  <2>1. \E pc \in {"candidate", "ingest"} : Goto(i, pc)
    BY <1>5 DEF Land
  <2>2. \A k \in Installations : store[k] \subseteq store'[k]
    <3>1. \E s : store' = [store EXCEPT ![i] = @ \cup s]
      BY <1>5 DEF Land
    <3>2. store \in [Installations -> SUBSET Releases]
      BY DEF TypeInv, TypeOK
    <3>3. QED
      BY <3>1, <3>2
  <2>3. UNCHANGED loaded /\ cmd[i] # None /\ cmd[i].pc = "land"
    BY <1>5 DEF Land, At
  <2>4. QED
    BY <2>1, <2>2, <2>3, SafeInvGoes DEF Protected, Pruning
<1>6. ASSUME NEW i \in Installations, Start(i) PROVE SafeInv'
  <2>1. UNCHANGED <<store, loaded>> /\ cmd[i] # None /\ cmd[i].pc = "start" /\ Goto(i, "record")
    BY <1>6 DEF Start, At
  <2>2. QED
    BY <2>1, SafeInvGoes DEF Protected, Pruning
<1>7. ASSUME NEW i \in Installations, Record(i) PROVE SafeInv'
  <2>1. UNCHANGED <<store, loaded>> /\ cmd[i] # None /\ cmd[i].pc = "record"
        /\ (End(i) \/ Goto(i, "list"))
    BY <1>7 DEF Record, At
  <2>2. QED
    BY <2>1, SafeInvGoes, SafeInvEnds DEF Protected, Pruning
<1>8. ASSUME NEW i \in Installations, Candidate(i) \/ Fail(i) \/ PruneEnds(i) \/ Crash(i)
      PROVE  SafeInv'
  BY <1>8, SafeInvEnds DEF Candidate, Fail, PruneEnds, Crash
<1>9. ASSUME NEW i \in Installations, FetchRefused(i) PROVE SafeInv'
  <2> DEFINE gone == fetching[i]
             c == [cmd[i] EXCEPT !.clear = FALSE]
  <2>1. \A k \in Installations, r \in Releases :
          <<k, r>> # <<i, gone>> => (r \in store[k] <=> r \in store'[k])
    BY <1>9 DEF FetchRefused, TypeInv, TypeOK
  <2>2. \A k \in Installations, r \in Releases :
          <<k, r>> \in loaded' <=> <<k, r>> \in loaded /\ <<k, r>> # <<i, gone>>
    BY <1>9 DEF FetchRefused
  <2>3. CASE cmd[i] # None /\ cmd[i].to = gone
    <3>1. cmd[i] \in Process /\ Fresh(cmd[i]) /\ Becomes(i, c)
      BY <1>9, <1>0, <2>3 DEF FetchRefused
    <3>2. c.pc = cmd[i].pc /\ c.to = cmd[i].to /\ ~c.clear /\ c.go = cmd[i].go /\ c.drop = cmd[i].drop
          /\ c.referenced = cmd[i].referenced /\ c.read = cmd[i].read
      BY <3>1 DEF Process
    <3>3. \A j \in Installations : cmd'[j] = IF j = i THEN c ELSE cmd[j]
      BY <3>1 DEF Becomes, TypeInv, TypeOK
    <3>4. ASSUME NEW k \in Installations, NEW r \in Releases, Protected(k, r)'
          PROVE  Protected(k, r) /\ <<k, r>> # <<i, gone>>
      <4>1. cmd'[k].clear /\ cmd'[k] # None /\ Loading(k, r)' => k # i
        BY <3>2, <3>3
      <4>2. Loading(k, r)' => k # i /\ Loading(k, r)
        BY <3>3, <4>1 DEF Loading, At
      <4>3. QED
        BY <3>4, <2>2, <4>2 DEF Protected
    <3>5. \A k \in Installations, r \in Releases :
            Harmless(cmd[i], i, k, r) => Harmless(c, i, k, r)
      BY <2>3, <3>2 DEF Harmless, Leaving, Doomed
    <3>6. Fresh(c)
      BY <2>3, <3>1, <3>2 DEF Fresh
    <3>7. QED
      BY <2>1, <3>1, <3>4, <3>5, <3>6, SafeInvKept
  <2>4. CASE ~(cmd[i] # None /\ cmd[i].to = gone)
    <3>1. UNCHANGED cmd
      BY <1>9, <2>4 DEF FetchRefused
    <3>2. ASSUME NEW k \in Installations, NEW r \in Releases, Protected(k, r)'
          PROVE  Protected(k, r) /\ <<k, r>> # <<i, gone>>
      BY <2>2, <2>4, <3>1, <3>2 DEF Protected, Loading, At
    <3>3. QED
      BY <2>1, <3>1, <3>2 DEF SafeInv, Harmless, Leaving, Doomed, Fresh
  <2>5. QED
    BY <2>3, <2>4
<1>10. ASSUME NEW i \in Installations, Ingest(i) PROVE SafeInv'
  <2> DEFINE c == [cmd[i] EXCEPT !.pc = "load",
                     !.clear = cmd[i].to \in store[i] /\ Clear(i, cmd[i].to),
                     !.left = (Aliases(cmd[i].to) \ names) \cup ({"digest"} \X Pulls[cmd[i].to])]
  <2>1. cmd[i] \in Process /\ cmd[i] # None /\ cmd[i].pc = "ingest" /\ Fresh(cmd[i]) /\ Becomes(i, c)
        /\ UNCHANGED <<store, loaded>>
    BY <1>10, <1>0 DEF Ingest, At
  <2>2. c.pc = "load" /\ c.to = cmd[i].to /\ c.read = cmd[i].read /\ c.drop = cmd[i].drop
        /\ (c.clear <=> cmd[i].to \in store[i] /\ Clear(i, cmd[i].to))
    BY <2>1 DEF Process
  <2> HIDE DEF c
  <2>3. \A j \in Installations : cmd'[j] = IF j = i THEN c ELSE cmd[j]
    BY <2>1 DEF Becomes, TypeInv, TypeOK
  <2>4. ASSUME NEW k \in Installations, NEW r \in Releases, Protected(k, r)'
        PROVE  Protected(k, r) \/ (k = i /\ r \in store[i] /\ Clear(i, r))
    <3>1. CASE <<k, r>> \in loaded'
      BY <2>1, <3>1 DEF Protected
    <3>2. CASE Loading(k, r)' /\ k = i
      BY <2>2, <2>3, <3>2 DEF Loading, At
    <3>3. CASE Loading(k, r)' /\ k # i
      BY <2>3, <3>3 DEF Protected, Loading, At
    <3>4. QED
      BY <2>4, <3>1, <3>2, <3>3 DEF Protected
  <2>5. \A j, k \in Installations, r \in Releases : Harmless(c, j, k, r)
    BY <2>2 DEF Harmless, Doomed
  <2>6. ASSUME NEW k \in Installations, NEW r \in Releases, Protected(k, r)'
        PROVE  r \in store'[k] /\ \A j \in Installations : Harmless(cmd'[j], j, k, r)
    BY <2>1, <2>3, <2>4, <2>5, <2>6, ClearIsHarmless DEF SafeInv
  <2>7. Fresh(c)
    BY <2>1, <2>2 DEF Fresh, Pruning
  <2>8. \A j \in Installations : Fresh(cmd'[j])
    BY <2>3, <2>7, <1>0
  <2>9. QED
    BY <2>6, <2>8 DEF SafeInv, Protected, Loading, At, Harmless, Leaving, Doomed, Fresh
<1>11. ASSUME NEW i \in Installations, Load(i) PROVE SafeInv'
  <2>1. PICK n \in cmd[i].left : Becomes(i, [cmd[i] EXCEPT !.left = @ \ {n}])
    BY <1>11 DEF Load
  <2> DEFINE c == [cmd[i] EXCEPT !.left = @ \ {n}]
  <2>2. cmd[i] \in Process /\ cmd[i] # None /\ cmd[i].pc = "load" /\ Fresh(cmd[i])
        /\ UNCHANGED <<store, loaded>>
    BY <1>11, <1>0 DEF Load, At
  <2>3. c.pc = "load" /\ c.to = cmd[i].to /\ c.clear = cmd[i].clear /\ c.read = cmd[i].read
        /\ c.drop = cmd[i].drop
    BY <2>2 DEF Process
  <2>4. Fresh(c) /\ (c.clear => Loading(i, c.to))
    BY <2>2, <2>3 DEF Fresh, Loading, At, Pruning
  <2>5. QED
    BY <2>1, <2>2, <2>3, <2>4, SafeInvQuiet DEF Protected, Pruning
<1>12. ASSUME NEW i \in Installations, Loaded(i) PROVE SafeInv'
  <2>1. cmd[i] # None /\ cmd[i].pc = "load" /\ Goto(i, "start") /\ UNCHANGED store
    BY <1>12 DEF Loaded, At
  <2>2. \A k \in Installations, r \in Releases : <<k, r>> \in loaded' => Protected(k, r)
    BY <1>12 DEF Loaded, Protected, Loading
  <2>3. QED
    BY <2>1, <2>2, SafeInvGoes DEF Pruning
<1>13. ASSUME NEW i \in Installations, PointToPrevious(i) PROVE SafeInv'
  <2> DEFINE c == [cmd[i] EXCEPT !.pc = "load", !.left = {"digest"} \X Pulls[cmd[i].to]]
  <2>1. cmd[i] \in Process /\ cmd[i] # None /\ cmd[i].pc = "point" /\ ~cmd[i].clear
        /\ Fresh(cmd[i]) /\ Becomes(i, c) /\ UNCHANGED <<store, loaded>>
    BY <1>13, <1>0 DEF PointToPrevious, At, TypeInv, Arrives
  <2>2. c.pc = "load" /\ ~c.clear /\ c.read = cmd[i].read /\ c.drop = cmd[i].drop
    BY <2>1 DEF Process
  <2>3. Fresh(c)
    BY <2>1, <2>2 DEF Fresh, Pruning
  <2>4. QED
    BY <2>1, <2>2, <2>3, SafeInvQuiet DEF Protected, Pruning
<1>14. ASSUME NEW i \in Installations, ListReleases(i) PROVE SafeInv'
  <2>1. PICK s : End(i) \/ Becomes(i, [cmd[i] EXCEPT !.pc = "plan", !.go = s])
    BY <1>14 DEF ListReleases
  <2> DEFINE c == [cmd[i] EXCEPT !.pc = "plan", !.go = s]
  <2>2. cmd[i] \in Process /\ cmd[i] # None /\ cmd[i].pc = "list" /\ Fresh(cmd[i])
        /\ UNCHANGED <<store, loaded>>
    BY <1>14, <1>0 DEF ListReleases, At
  <2>3. c.pc = "plan" /\ c.read = {} /\ c.drop = {}
    BY <2>2 DEF Process, Fresh, Pruning
  <2>4. Fresh(c) /\ \A k \in Installations, r \in Releases : Harmless(c, i, k, r)
    BY <2>3 DEF Fresh, Harmless, Doomed
  <2>5. ASSUME Becomes(i, c) PROVE SafeInv'
    BY <2>2, <2>3, <2>4, <2>5, SafeInvPrunes DEF Pruning
  <2>6. QED
    BY <2>1, <2>2, <2>5, SafeInvEnds
<1>15. ASSUME NEW i \in Installations, NEW j \in Installations, ReadStore(i, j) PROVE SafeInv'
  <2> DEFINE stays == (store[j] \ (IF i = j THEN cmd[i].go ELSE {}))
                      \cup (half[j] \cup ({staging[j]} \ {None}))
             c == [cmd[i] EXCEPT !.read = @ \cup {j}, !.referenced = @ \cup KeysOf(stays)]
  <2>1. cmd[i] \in Process /\ cmd[i] # None /\ cmd[i].pc = "plan" /\ Fresh(cmd[i]) /\ Becomes(i, c)
        /\ UNCHANGED <<store, loaded>>
    BY <1>15, <1>0 DEF ReadStore, At
  <2>2. store[j] \ (IF i = j THEN cmd[i].go ELSE {}) \subseteq stays
    OBVIOUS
  <2> HIDE DEF stays
  <2>3. c.pc = "plan" /\ c.read = cmd[i].read \cup {j} /\ c.drop = cmd[i].drop /\ c.go = cmd[i].go
        /\ c.referenced = cmd[i].referenced \cup KeysOf(stays)
    BY <2>1 DEF Process
  <2> HIDE DEF c
  <2>4. Fresh(c)
    BY <2>1, <2>3 DEF Fresh, Pruning
  <2>5. ASSUME NEW k \in Installations, NEW r \in Releases, Protected(k, r),
               Harmless(cmd[i], i, k, r)
        PROVE  Harmless(c, i, k, r)
    <3>1. CASE Leaving(cmd[i], i, k, r)
      BY <2>1, <2>3, <3>1 DEF Leaving, Harmless, Doomed
    <3>2. CASE k # j
      BY <2>1, <2>3, <2>5, <3>2 DEF Harmless, Leaving, Doomed
    <3>3. CASE k = j /\ ~Leaving(cmd[i], i, k, r)
      <4>1. r \in stays
        BY <2>1, <2>2, <2>5, <3>3 DEF SafeInv, Leaving
      <4>2. KeysOf({r}) \subseteq c.referenced
        BY <2>3, <4>1, KeysMonotone
      <4>3. QED
        BY <2>3, <4>2 DEF Harmless, Doomed
    <3>4. QED
      BY <3>1, <3>2, <3>3
  <2>6. QED
    BY <2>1, <2>3, <2>4, <2>5, SafeInvPrunes DEF Pruning
<1>16. ASSUME NEW i \in Installations, NEW j \in Installations, Withhold(i, j) PROVE SafeInv'
  <2> DEFINE c == [cmd[i] EXCEPT !.pc = "trees"]
  <2>1. cmd[i] \in Process /\ cmd[i] # None /\ cmd[i].pc = "plan" /\ Fresh(cmd[i]) /\ Becomes(i, c)
        /\ UNCHANGED <<store, loaded>>
    BY <1>16, <1>0 DEF Withhold, At, Goto
  <2>2. c.pc = "trees" /\ c.drop = {}
    BY <2>1 DEF Process, Fresh
  <2>3. Fresh(c) /\ \A k \in Installations, r \in Releases : Harmless(c, i, k, r)
    BY <2>2 DEF Fresh, Harmless, Doomed, Pruning
  <2>4. QED
    BY <2>1, <2>2, <2>3, SafeInvPrunes DEF Pruning
<1>17. ASSUME NEW i \in Installations, PlanImageRemoval(i) PROVE SafeInv'
  <2> DEFINE drop == Removable(UNION {RuntimeImageRefs(r) : r \in cmd[i].go}, cmd[i].referenced)
             c == [cmd[i] EXCEPT !.pc = "trees", !.drop = drop]
  <2>1. cmd[i] \in Process /\ cmd[i] # None /\ cmd[i].pc = "plan" /\ Becomes(i, c)
        /\ UNCHANGED <<store, loaded>> /\ cmd[i].read = Installations
    BY <1>17, <1>0 DEF PlanImageRemoval, At
  <2>2. {ImageKey(n) : n \in drop} = KeysOf(cmd[i].go) \ cmd[i].referenced
    BY DEF Removable, KeysOf
  <2> HIDE DEF drop
  <2>3. c.pc = "trees" /\ c.drop = drop /\ c.go = cmd[i].go
    BY <2>1 DEF Process
  <2> HIDE DEF c
  <2>4. Fresh(c)
    BY <2>3 DEF Fresh, Pruning
  <2>5. ASSUME NEW k \in Installations, NEW r \in Releases, Harmless(cmd[i], i, k, r)
        PROVE  Harmless(c, i, k, r)
    BY <2>1, <2>2, <2>3, <2>5 DEF Harmless, Leaving, Doomed
  <2>6. QED
    BY <2>1, <2>3, <2>4, <2>5, SafeInvPrunes DEF Pruning
<1>18. ASSUME NEW i \in Installations, RemoveTree(i) PROVE SafeInv'
  <2>1. ASSUME NEW r \in cmd[i].go,
               store' = [store EXCEPT ![i] = @ \ {r}],
               loaded' = loaded \ {<<i, r>>},
               Becomes(i, [cmd[i] EXCEPT !.go = @ \ {r},
                                         !.pc = IF cmd[i].go = {r} THEN "images" ELSE @])
        PROVE  SafeInv'
    <3> DEFINE c == [cmd[i] EXCEPT !.go = @ \ {r}, !.pc = IF cmd[i].go = {r} THEN "images" ELSE @]
    <3>1. cmd[i] \in Process /\ cmd[i] # None /\ cmd[i].pc = "trees" /\ Fresh(cmd[i])
      BY <1>18, <1>0 DEF RemoveTree, At
    <3>2. c.go = cmd[i].go \ {r} /\ c.drop = cmd[i].drop
          /\ c.pc = IF cmd[i].go = {r} THEN "images" ELSE "trees"
      BY <3>1 DEF Process
    <3> HIDE DEF c
    <3>3. \A j \in Installations : cmd'[j] = IF j = i THEN c ELSE cmd[j]
      BY <2>1 DEF Becomes, TypeInv, TypeOK, c
    <3>4. Fresh(c)
      BY <3>2 DEF Fresh, Pruning
    <3>5. ASSUME NEW k \in Installations, NEW s \in Releases, Protected(k, s)'
          PROVE  Protected(k, s) /\ <<k, s>> # <<i, r>>
      BY <2>1, <3>1, <3>2, <3>3, <3>5 DEF Protected, Loading, At
    <3>6. \A k \in Installations, s \in Releases :
            <<k, s>> # <<i, r>> => (s \in store[k] => s \in store'[k])
      BY <2>1 DEF TypeInv, TypeOK
    <3>7. ASSUME NEW k \in Installations, NEW s \in Releases, Harmless(cmd[i], i, k, s),
                 <<k, s>> # <<i, r>>
          PROVE  Harmless(c, i, k, s)
      BY <3>1, <3>2, <3>7 DEF Harmless, Leaving, Doomed
    <3>8. QED
      BY <2>1, <3>4, <3>5, <3>6, <3>7, SafeInvKept DEF c
  <2>2. QED
    BY <1>18, <2>1, SafeInvEnds DEF RemoveTree
<1>19. ASSUME NEW i \in Installations, RemoveImage(i) PROVE SafeInv'
  <2>1. PICK n \in cmd[i].drop : Becomes(i, [cmd[i] EXCEPT !.drop = @ \ {n}])
    BY <1>19 DEF RemoveImage
  <2> DEFINE c == [cmd[i] EXCEPT !.drop = @ \ {n}]
  <2>2. cmd[i] \in Process /\ cmd[i] # None /\ cmd[i].pc = "images" /\ UNCHANGED <<store, loaded>>
    BY <1>19, <1>0 DEF RemoveImage, At
  <2>3. c.pc = "images" /\ c.drop \subseteq cmd[i].drop
    BY <2>2 DEF Process
  <2> HIDE DEF c
  <2>4. Fresh(c)
    BY <2>3 DEF Fresh, Pruning
  <2>5. ASSUME NEW k \in Installations, NEW r \in Releases, Harmless(cmd[i], i, k, r)
        PROVE  Harmless(c, i, k, r)
    BY <2>2, <2>3, <2>5 DEF Harmless, Leaving, Doomed
  <2>6. QED
    BY <2>1, <2>2, <2>3, <2>4, <2>5, SafeInvPrunes DEF Pruning, c
<1>20. CASE UNCHANGED vars
  BY <1>20, SafeInvStands DEF vars
<1>21. QED
  BY <1>1, <1>2, <1>3, <1>4, <1>5, <1>6, <1>7, <1>8, <1>9, <1>10, <1>11, <1>12, <1>13, <1>14,
     <1>15, <1>16, <1>17, <1>18, <1>19, <1>20 DEF Next

-----------------------------------------------------------------------------

\* What a `docker image rm' takes is no name of a protected release.
LEMMA RemovedIsFree ==
  ASSUME TypeInv, PruneInv, SafeInv, NEW j \in Installations, RemoveImage(j),
         NEW i \in Installations, NEW r \in Releases, Protected(i, r),
         NEW m \in names, m \in RuntimeImageRefs(r)
  PROVE  m \in names'
<1> SUFFICES ASSUME m \notin names' PROVE FALSE
  OBVIOUS
<1>1. PICK n \in cmd[j].drop :
        names \ ({n} \cup (IF n[1] = "alias" THEN {<<"digest", n[2]>>} ELSE {})) \subseteq names'
  BY DEF RemoveImage
<1>2. ImageKey(m) = ImageKey(n)
  BY <1>1, TakenWith
<1>3. cmd[j] # None /\ cmd[j].pc = "images"
  BY DEF RemoveImage, At
<1>4. ImageKey(n) \in Doomed(cmd[j], i)
  BY <1>3 DEF Doomed
<1>5. ~Leaving(cmd[j], j, i, r)
  BY <1>3 DEF Leaving
<1>6. ImageKey(m) \in KeysOf({r})
  BY KeyOfRef
<1>7. QED
  BY <1>2, <1>4, <1>5, <1>6 DEF SafeInv, Harmless

LEMMA NamesInvStep == TypeInv /\ PruneInv /\ SafeInv /\ NamesInv /\ [Next]_vars => NamesInv'
<1> SUFFICES ASSUME TypeInv, PruneInv, SafeInv, NamesInv, [Next]_vars PROVE NamesInv'
  OBVIOUS
<1> USE DEF disk, spent
<1>0. \A i \in Installations : cmd[i] \in Process \cup {None}
  BY DEF TypeInv, TypeOK
<1>1. ASSUME names \subseteq names', loaded' \subseteq loaded,
             \A k \in Installations, r \in Releases :
               Loading(k, r)' => Loading(k, r) /\ (RuntimeImageRefs(r) \ cmd'[k].left \subseteq names'
                                                   \/ cmd'[k].left = cmd[k].left)
      PROVE  NamesInv'
  BY <1>1 DEF NamesInv
<1>2. ASSUME NEW i \in Installations, NEW c, Becomes(i, c), c = None \/ c.pc # "load",
             names \subseteq names', loaded' \subseteq loaded
      PROVE  NamesInv'
  <2>1. \A j \in Installations : cmd'[j] = IF j = i THEN c ELSE cmd[j]
    BY <1>2 DEF Becomes, TypeInv, TypeOK
  <2>2. QED
    BY <1>1, <1>2, <2>1 DEF Loading, At
<1>3. ASSUME NEW i \in Installations, cmd[i] \in Process,
             NEW pc \in {"land", "ingest", "start", "record", "candidate", "list", "trees"},
             Goto(i, pc), names \subseteq names', loaded' \subseteq loaded
      PROVE  NamesInv'
  <2>1. [cmd[i] EXCEPT !.pc = pc].pc # "load"
    BY <1>3 DEF Process
  <2>2. QED
    BY <1>2, <1>3, <2>1 DEF Goto
<1>4. ASSUME NEW i \in Installations, End(i), names \subseteq names', loaded' \subseteq loaded
      PROVE  NamesInv'
  BY <1>2, <1>4 DEF End
<1>5. ASSUME NEW i \in Installations,
             Ask(i) \/ FetchBegins(i) \/ FetchEnds(i) \/ FetchDies(i) \/ Stop(i)
      PROVE  NamesInv'
  BY <1>5 DEF Ask, FetchBegins, FetchEnds, FetchDies, Stop, NamesInv, Loading, At
<1>6. ASSUME NEW i \in Installations, Take(i) PROVE NamesInv'
  <2> DEFINE c == [op |-> asked[i].op, to |-> asked[i].to, from |-> asked[i].from,
                   pc |-> FirstStep(asked[i].op), clear |-> FALSE, left |-> {}, go |-> {},
                   drop |-> {}, referenced |-> {}, read |-> {}]
  <2>1. c.pc # "load"
    BY DEF FirstStep
  <2>2. UNCHANGED <<names, loaded>>
    BY <1>6 DEF Take
  <2>3. ASSUME UNCHANGED cmd PROVE NamesInv'
    BY <2>2, <2>3 DEF NamesInv, Loading, At
  <2>4. QED
    BY <1>6, <1>2, <2>1, <2>2, <2>3 DEF Take
<1>7. ASSUME NEW i \in Installations,
             Stage(i) \/ Land(i) \/ \E j \in Installations : Withhold(i, j)
      PROVE  NamesInv'
  BY <1>7, <1>0, <1>3 DEF Stage, Land, Withhold, At
<1>8. ASSUME NEW i \in Installations, Start(i) \/ Record(i) PROVE NamesInv'
  <2>1. cmd[i] \in Process /\ names \subseteq names' /\ loaded' = loaded
        /\ (Goto(i, "record") \/ Goto(i, "list") \/ End(i))
    BY <1>8, <1>0 DEF Start, Record, At
  <2>2. QED
    BY <1>3, <1>4, <2>1
<1>9. ASSUME NEW i \in Installations, Candidate(i) \/ Fail(i) \/ PruneEnds(i) \/ Crash(i)
      PROVE  NamesInv'
  <2>1. names \subseteq names' /\ loaded' = loaded /\ End(i)
    BY <1>9 DEF Candidate, Fail, PruneEnds, Crash
  <2>2. QED
    BY <1>4, <2>1
<1>10. ASSUME NEW i \in Installations, ListReleases(i) PROVE NamesInv'
  <2>1. PICK s : End(i) \/ Becomes(i, [cmd[i] EXCEPT !.pc = "plan", !.go = s])
    BY <1>10 DEF ListReleases
  <2>2. cmd[i] \in Process /\ UNCHANGED <<names, loaded>>
    BY <1>10, <1>0 DEF ListReleases, At
  <2>3. [cmd[i] EXCEPT !.pc = "plan", !.go = s].pc = "plan"
    BY <2>2 DEF Process
  <2>4. QED
    BY <1>2, <1>4, <2>1, <2>2, <2>3
<1>11. ASSUME NEW i \in Installations, NEW j \in Installations, ReadStore(i, j) PROVE NamesInv'
  <2>1. PICK s : Becomes(i, [cmd[i] EXCEPT !.read = @ \cup {j}, !.referenced = @ \cup s])
    BY <1>11 DEF ReadStore
  <2>2. cmd[i] \in Process /\ UNCHANGED <<names, loaded>> /\ cmd[i].pc = "plan"
    BY <1>11, <1>0 DEF ReadStore, At
  <2>3. [cmd[i] EXCEPT !.read = @ \cup {j}, !.referenced = @ \cup s].pc = "plan"
    BY <2>2 DEF Process
  <2>4. QED
    BY <1>2, <2>1, <2>2, <2>3
<1>12. ASSUME NEW i \in Installations, PlanImageRemoval(i) PROVE NamesInv'
  <2>1. PICK s : Becomes(i, [cmd[i] EXCEPT !.pc = "trees", !.drop = s])
    BY <1>12 DEF PlanImageRemoval
  <2>2. cmd[i] \in Process /\ UNCHANGED <<names, loaded>>
    BY <1>12, <1>0 DEF PlanImageRemoval, At
  <2>3. [cmd[i] EXCEPT !.pc = "trees", !.drop = s].pc = "trees"
    BY <2>2 DEF Process
  <2>4. QED
    BY <1>2, <2>1, <2>2, <2>3
<1>13. ASSUME NEW i \in Installations, RemoveTree(i) PROVE NamesInv'
  <2>1. cmd[i] \in Process /\ cmd[i].pc = "trees" /\ loaded' \subseteq loaded /\ UNCHANGED names
    BY <1>13, <1>0 DEF RemoveTree, At
  <2>2. ASSUME NEW r \in cmd[i].go,
               Becomes(i, [cmd[i] EXCEPT !.go = @ \ {r},
                                         !.pc = IF cmd[i].go = {r} THEN "images" ELSE @])
        PROVE  NamesInv'
    <3>1. [cmd[i] EXCEPT !.go = @ \ {r}, !.pc = IF cmd[i].go = {r} THEN "images" ELSE @].pc # "load"
      BY <2>1 DEF Process
    <3>2. QED
      BY <1>2, <2>1, <2>2, <3>1
  <2>3. QED
    BY <1>13, <1>4, <2>1, <2>2 DEF RemoveTree
<1>14. ASSUME NEW i \in Installations, FetchRefused(i) PROVE NamesInv'
  <2> DEFINE c == [cmd[i] EXCEPT !.clear = FALSE]
  <2>1. loaded' \subseteq loaded /\ UNCHANGED names
        /\ (UNCHANGED cmd \/ (cmd[i] # None /\ Becomes(i, c)))
    BY <1>14 DEF FetchRefused
  <2>2. ASSUME cmd[i] # None PROVE ~c.clear
    BY <1>0, <2>2 DEF Process
  <2>3. ASSUME cmd[i] # None, Becomes(i, c), NEW k \in Installations, NEW r \in Releases,
               Loading(k, r)'
        PROVE  Loading(k, r) /\ cmd'[k].left = cmd[k].left
    <3>1. \A j \in Installations : cmd'[j] = IF j = i THEN c ELSE cmd[j]
      BY <2>3 DEF Becomes, TypeInv, TypeOK
    <3>2. QED
      BY <2>2, <2>3, <3>1 DEF Loading, At
  <2>4. ASSUME UNCHANGED cmd PROVE NamesInv'
    BY <1>1, <2>1, <2>4 DEF Loading, At
  <2>5. QED
    BY <1>1, <2>1, <2>3, <2>4
<1>15. ASSUME NEW i \in Installations, Ingest(i) PROVE NamesInv'
  <2> DEFINE c == [cmd[i] EXCEPT !.pc = "load",
                     !.clear = cmd[i].to \in store[i] /\ Clear(i, cmd[i].to),
                     !.left = (Aliases(cmd[i].to) \ names) \cup ({"digest"} \X Pulls[cmd[i].to])]
  <2>1. cmd[i] \in Process /\ Becomes(i, c) /\ UNCHANGED <<names, loaded>>
    BY <1>15, <1>0 DEF Ingest, At
  <2>2. c.to = cmd[i].to
        /\ c.left = (Aliases(cmd[i].to) \ names) \cup ({"digest"} \X Pulls[cmd[i].to])
    BY <2>1 DEF Process
  <2> HIDE DEF c
  <2>3. \A j \in Installations : cmd'[j] = IF j = i THEN c ELSE cmd[j]
    BY <2>1 DEF Becomes, TypeInv, TypeOK
  <2>4. RuntimeImageRefs(cmd[i].to) \ c.left \subseteq names
    BY <2>2 DEF RuntimeImageRefs
  <2>5. ASSUME NEW k \in Installations, NEW r \in Releases, Loading(k, r)'
        PROVE  RuntimeImageRefs(r) \ cmd'[k].left \subseteq names
    BY <2>2, <2>3, <2>4, <2>5 DEF NamesInv, Loading, At
  <2>6. QED
    BY <2>1, <2>5 DEF NamesInv
<1>16. ASSUME NEW i \in Installations, Load(i) PROVE NamesInv'
  <2>1. PICK n \in cmd[i].left :
          names' = names \cup {n} /\ Becomes(i, [cmd[i] EXCEPT !.left = @ \ {n}])
    BY <1>16 DEF Load
  <2> DEFINE c == [cmd[i] EXCEPT !.left = @ \ {n}]
  <2>2. cmd[i] \in Process /\ UNCHANGED loaded
    BY <1>16, <1>0 DEF Load, At
  <2>3. c.pc = cmd[i].pc /\ c.to = cmd[i].to /\ c.clear = cmd[i].clear /\ c.left = cmd[i].left \ {n}
    BY <2>2 DEF Process
  <2> HIDE DEF c
  <2>4. \A j \in Installations : cmd'[j] = IF j = i THEN c ELSE cmd[j]
    BY <2>1 DEF Becomes, TypeInv, TypeOK, c
  <2>5. ASSUME NEW k \in Installations, NEW r \in Releases, Loading(k, r)'
        PROVE  RuntimeImageRefs(r) \ cmd'[k].left \subseteq names'
    <3>1. Loading(k, r)
      BY <1>16, <2>3, <2>4, <2>5 DEF Loading, At, Load
    <3>2. RuntimeImageRefs(r) \ cmd[k].left \subseteq names
      BY <3>1 DEF NamesInv
    <3>3. QED
      BY <2>1, <2>3, <2>4, <3>2
  <2>6. QED
    BY <2>1, <2>2, <2>5 DEF NamesInv
<1>17. ASSUME NEW i \in Installations, Loaded(i) PROVE NamesInv'
  <2>1. cmd[i] \in Process /\ cmd[i].left = {} /\ Goto(i, "start") /\ UNCHANGED names
        /\ (loaded' = loaded \/ (Loading(i, cmd[i].to) /\ loaded' = loaded \cup {<<i, cmd[i].to>>}))
    BY <1>17, <1>0 DEF Loaded, At, Loading
  <2>2. [cmd[i] EXCEPT !.pc = "start"].pc = "start"
    BY <2>1 DEF Process
  <2>3. \A j \in Installations : cmd'[j] = IF j = i THEN [cmd[i] EXCEPT !.pc = "start"] ELSE cmd[j]
    BY <2>1 DEF Goto, Becomes, TypeInv, TypeOK
  <2>4. \A k \in Installations, r \in Releases :
          Loading(k, r)' => RuntimeImageRefs(r) \ cmd'[k].left \subseteq names
    BY <2>2, <2>3 DEF Loading, At, NamesInv
  <2>5. \A k \in Installations, r \in Releases : <<k, r>> \in loaded' => RuntimeImageRefs(r) \subseteq names
    <3>1. ASSUME Loading(i, cmd[i].to), cmd[i].to \in Releases
          PROVE  RuntimeImageRefs(cmd[i].to) \subseteq names
      BY <2>1, <3>1 DEF NamesInv
    <3>2. QED
      BY <2>1, <3>1 DEF NamesInv
  <2>6. QED
    BY <2>1, <2>4, <2>5 DEF NamesInv
<1>18. ASSUME NEW i \in Installations, PointToPrevious(i) PROVE NamesInv'
  <2> DEFINE c == [cmd[i] EXCEPT !.pc = "load", !.left = {"digest"} \X Pulls[cmd[i].to]]
  <2>1. cmd[i] \in Process /\ ~cmd[i].clear /\ Becomes(i, c) /\ UNCHANGED <<names, loaded>>
    BY <1>18, <1>0 DEF PointToPrevious, At, TypeInv, Arrives
  <2>2. ~c.clear
    BY <2>1 DEF Process
  <2> HIDE DEF c
  <2>3. \A j \in Installations : cmd'[j] = IF j = i THEN c ELSE cmd[j]
    BY <2>1 DEF Becomes, TypeInv, TypeOK
  <2>4. QED
    BY <2>1, <2>2, <2>3 DEF NamesInv, Loading, At
<1>19. ASSUME NEW i \in Installations, RemoveImage(i) PROVE NamesInv'
  <2>1. PICK n \in cmd[i].drop : Becomes(i, [cmd[i] EXCEPT !.drop = @ \ {n}])
    BY <1>19 DEF RemoveImage
  <2>2. cmd[i] \in Process /\ cmd[i].pc = "images" /\ UNCHANGED loaded
    BY <1>19, <1>0 DEF RemoveImage, At
  <2>3. [cmd[i] EXCEPT !.drop = @ \ {n}].pc = "images"
    BY <2>2 DEF Process
  <2>4. \A j \in Installations : cmd'[j] = IF j = i THEN [cmd[i] EXCEPT !.drop = @ \ {n}] ELSE cmd[j]
    BY <2>1 DEF Becomes, TypeInv, TypeOK
  <2>5. \A k \in Installations, r \in Releases :
          Loading(k, r)' => Loading(k, r) /\ cmd'[k].left = cmd[k].left
    BY <2>3, <2>4 DEF Loading, At
  <2>6. ASSUME NEW k \in Installations, NEW r \in Releases, Protected(k, r),
               NEW m \in RuntimeImageRefs(r), m \in names
        PROVE  m \in names'
    BY <1>19, <2>6, RemovedIsFree
  <2>7. QED
    BY <2>2, <2>5, <2>6 DEF NamesInv, Protected
<1>20. CASE UNCHANGED vars
  BY <1>20 DEF vars, NamesInv, Loading, At
<1>21. QED
  BY <1>5, <1>6, <1>7, <1>8, <1>9, <1>10, <1>11, <1>12, <1>13, <1>14, <1>15, <1>16, <1>17, <1>18,
     <1>19, <1>20 DEF Next

\* No prune, of any installation at any moment, takes a name that a loaded
\* release of any installation needs (ImagesStay).
THEOREM ImagesAlwaysStay == Spec => []ImagesStay
<1>1. TypeInv /\ NamesInv => ImagesStay
  BY DEF TypeInv, TypeOK, NamesInv, ImagesStay
<1>2. QED
  BY <1>1, TypeInvInit, TypeInvStep, PruneInvInit, PruneInvStep, SafeInvInit, SafeInvStep,
     NamesInvInit, NamesInvStep, PTL DEF Spec
=============================================================================
