----------------------------- MODULE ImageStore -----------------------------
(***************************************************************************)
(* The release store of each installation on a machine and the image store  *)
(* of the container runtime, which the installations share:                 *)
(* internal/lifecycle/ops prune.go, fetch.go, ingest.go, update.go and      *)
(* rollback.go.  A command holds the deployment lock of its own             *)
(* installation only, `release fetch' holds none, and what a prune may      *)
(* remove from the image store is decided by reading every installation's   *)
(* release store.                                                           *)
(***************************************************************************)
EXTENDS Integers, FiniteSets

CONSTANTS
  Installations,
  Releases,    \* version numbers; each is one bundle
  Bundles,     \* Bundles[r]: images that travel in r's bundle, by key
  Pulls,       \* Pulls[r]: images r pulls from a registry, by key
  Keep,        \* releases retained beside those that have a role
  None,        \* no release, no command
  Installed,   \* Installed[i]: the store and the roles i starts with
  MaxOps,      \* bound: commands asked of each installation
  MaxCrashes   \* bound: commands killed

ASSUME ReleaseAssumption == Releases \subseteq Nat /\ None \notin Releases
ASSUME KeepAssumption == Keep \in Nat \ {0}
ASSUME InstalledAssumption ==
  \A i \in Installations : LET here == Installed[i] IN
    /\ here.store \subseteq Releases
    /\ here.roles \in [current : here.store \cup {None}, previous : here.store \cup {None},
                       candidate : {None}]
ASSUME BoundAssumption == MaxOps \in [Installations -> Nat] /\ MaxCrashes \in Nat

VARIABLES
  store,     \* releases whose directory is complete
  staging,   \* the release in a `.staging-' directory, or None
  half,      \* releases whose directory a fetch has half written, or left so
  roles,     \* the current and previous records and the update candidate
  running,   \* the release whose containers exist, or None
  names,     \* names in the runtime's image store
  asked,     \* what a command waiting for the lock decided to do, or None
  cmd,       \* the command that holds the lock, or None
  fetching,  \* what a `release fetch' is writing, or None
  loaded,    \* history: <<i, r>> whose images were loaded while no prune
             \* held a plan that could not know of them
  ops, crashes  \* what has been spent of the bounds

vars == <<store, staging, half, roles, running, names, asked, cmd, fetching,
          loaded, ops, crashes>>

disk == <<store, staging, half>>
spent == <<ops, crashes>>

MaybeRelease == Releases \cup {None}
Keys == UNION {Bundles[r] \cup Pulls[r] : r \in Releases}

\* A bundled image answers to its local alias, any other to its digest.
Names == {"alias", "digest"} \X Keys

\* Mutant: two spellings of one name.
ImageKey_AsString(name) == name

\* The name the daemon resolves a reference to.
ImageKey(name) == name[2]

Aliases(r) == {"alias"} \X Bundles[r]
RuntimeImageRefs(r) == Aliases(r) \cup ({"digest"} \X Pulls[r])
KeysOf(S) == {ImageKey(n) : n \in UNION {RuntimeImageRefs(r) : r \in S}}

Operations == {"update", "update-to", "rollback", "rollback-to", "follow", "prune"}

Plan == [op : Operations, to : MaybeRelease, from : MaybeRelease]

Process == [op : Operations, to : MaybeRelease, from : MaybeRelease,
            pc : {"stage", "land", "ingest", "point", "load", "start", "record",
                  "candidate", "list", "plan", "trees", "images"},
            clear : BOOLEAN,               \* history: no blind plan when loading began
            left : SUBSET Names,           \* names still to load
            go : SUBSET Releases,          \* directories still to remove
            drop : SUBSET Names,           \* names the plan would remove
            referenced : SUBSET Keys,      \* keys the directories read so far name
            read : SUBSET Installations]   \* stores the plan has read

\* Mutant: the newest stays anyway, and is taken for the current one.
Exempt_NoCurrent(i) == {roles[i].previous, roles[i].candidate}

Exempt(i) == {roles[i].current, roles[i].previous, roles[i].candidate}

\* Store.SetCurrentRelease
Promote(role, r) ==
  [role EXCEPT !.previous = IF role.current \notin {None, r} THEN role.current ELSE @,
               !.current  = r]

At(i, pc) == cmd[i] # None /\ cmd[i].pc = pc
Becomes(i, c) == cmd' = [cmd EXCEPT ![i] = c]
Goto(i, pc) == Becomes(i, [cmd[i] EXCEPT !.pc = pc])
End(i) == Becomes(i, None)
Spend(i) == ops[i] < MaxOps[i] /\ ops' = [ops EXCEPT ![i] = @ + 1] /\ UNCHANGED crashes

-----------------------------------------------------------------------------
(* Before the lock *)

\* Update, Rollback, FollowChannel and PruneReleasesLocked: what a command
\* reads and refuses before it waits for the lock.
MayAsk(i, op, r) ==
  LET here == roles[i] IN
  CASE op = "prune"       -> r = None
    [] op = "update"      -> r \in Releases /\ (here.current # None => r >= here.current)
    [] op = "update-to"   -> r \in store[i] /\ (here.current # None => r >= here.current)
    [] op = "follow"      -> r \in Releases /\ (here.current # None => r > here.current)
    [] op = "rollback"    -> /\ here.current \in store[i]
                             /\ r = here.previous /\ r \in store[i] \ {here.current}
    [] op = "rollback-to" -> here.current \in store[i] /\ r \in store[i] /\ r < here.current

Ask(i) == /\ asked[i] = None
          /\ Spend(i)
          /\ \E op \in Operations, r \in MaybeRelease :
               /\ MayAsk(i, op, r)
               /\ asked' = [asked EXCEPT ![i] = [op |-> op, to |-> r,
                                                 from |-> roles[i].current]]
          /\ UNCHANGED <<disk, roles, running, names, cmd, fetching, loaded>>

\* refuseMovedRelease, and Rollback's second read of the previous record.
StillSo(i, plan) ==
  /\ plan.op \notin {"prune", "follow"} => plan.from = roles[i].current
  /\ plan.op = "rollback" => plan.to = roles[i].previous

FirstStep(op) == CASE op = "prune" -> "list"
                   [] op \in {"rollback", "rollback-to"} -> "point"
                   [] OTHER -> "stage"

\* withLock, and the rechecks under it.
Take(i) ==
  /\ asked[i] # None /\ cmd[i] = None
  /\ asked' = [asked EXCEPT ![i] = None]
  /\ IF StillSo(i, asked[i])
     THEN Becomes(i, [op |-> asked[i].op, to |-> asked[i].to, from |-> asked[i].from,
                      pc |-> FirstStep(asked[i].op), clear |-> FALSE, left |-> {}, go |-> {},
                      drop |-> {}, referenced |-> {}, read |-> {}])
     ELSE UNCHANGED cmd
  /\ UNCHANGED <<disk, roles, running, names, fetching, loaded, spent>>

-----------------------------------------------------------------------------
(* A release arrives *)

\* stepStageUpdate, and FetchIntoStore for a followed channel.  Leftovers of
\* an earlier staging go first; `--to' has nothing to fetch from.
Stage(i) ==
  /\ At(i, "stage")
  /\ IF cmd[i].to \in store[i]
     THEN /\ Goto(i, IF cmd[i].op = "follow" THEN "candidate" ELSE "ingest")
          /\ UNCHANGED disk
     ELSE /\ cmd[i].op # "update-to"
          /\ Goto(i, "land")
          /\ UNCHANGED store
          /\ IF cmd[i].op = "follow"
             THEN half' = [half EXCEPT ![i] = @ \cup {cmd[i].to}] /\ UNCHANGED staging
             ELSE staging' = [staging EXCEPT ![i] = cmd[i].to] /\ UNCHANGED half
  /\ UNCHANGED <<roles, running, names, asked, fetching, loaded, spent>>

Land(i) ==
  /\ At(i, "land")
  /\ store' = [store EXCEPT ![i] = @ \cup {cmd[i].to}]
  /\ IF cmd[i].op = "follow"
     THEN /\ half' = [half EXCEPT ![i] = @ \ {cmd[i].to}]
          /\ Goto(i, "candidate")
          /\ UNCHANGED staging
     ELSE /\ staging' = [staging EXCEPT ![i] = None]
          /\ Goto(i, "ingest")
          /\ UNCHANGED half
  /\ UNCHANGED <<roles, running, names, asked, fetching, loaded, spent>>

\* stageUnderLock's last write.
Candidate(i) ==
  /\ At(i, "candidate")
  /\ roles' = [roles EXCEPT ![i].candidate = cmd[i].to]
  /\ End(i)
  /\ UNCHANGED <<disk, running, names, asked, fetching, loaded, spent>>

\* `release fetch': FetchIntoStore beside whatever holds the lock, straight
\* into the release's directory.
FetchBegins(i) ==
  /\ fetching[i] = None
  /\ Spend(i)
  /\ \E r \in Releases \ store[i] :
       /\ fetching' = [fetching EXCEPT ![i] = r]
       /\ half' = [half EXCEPT ![i] = @ \cup {r}]
  /\ UNCHANGED <<store, staging, roles, running, names, asked, cmd, loaded>>

FetchEnds(i) ==
  /\ fetching[i] # None
  /\ store' = [store EXCEPT ![i] = @ \cup {fetching[i]}]
  /\ half' = [half EXCEPT ![i] = @ \ {fetching[i]}]
  /\ fetching' = [fetching EXCEPT ![i] = None]
  /\ UNCHANGED <<staging, roles, running, names, asked, cmd, loaded, spent>>

\* The verifier refuses what is there, and it is removed, whoever wrote it.
FetchRefused(i) ==
  /\ fetching[i] # None
  /\ store' = [store EXCEPT ![i] = @ \ {fetching[i]}]
  /\ half' = [half EXCEPT ![i] = @ \ {fetching[i]}]
  /\ loaded' = loaded \ {<<i, fetching[i]>>}
  /\ IF cmd[i] # None /\ cmd[i].to = fetching[i]
     THEN Becomes(i, [cmd[i] EXCEPT !.clear = FALSE])
     ELSE UNCHANGED cmd
  /\ fetching' = [fetching EXCEPT ![i] = None]
  /\ UNCHANGED <<staging, roles, running, names, asked, spent>>

-----------------------------------------------------------------------------
(* Its images *)

\* The prune that holds j's lock may remove a name that release r of
\* installation i needs: it had read i's store before r was there.
Threatens(j, i, r) ==
  \/ /\ At(j, "plan") /\ i \in cmd[j].read
     /\ (KeysOf(cmd[j].go) \ cmd[j].referenced) \cap KeysOf({r}) # {}
  \/ /\ At(j, "trees") \/ At(j, "images")
     /\ {ImageKey(n) : n \in cmd[j].drop} \cap KeysOf({r}) # {}

Clear(i, r) == \A j \in Installations : ~Threatens(j, i, r)

\* stepIngestImages, pendingIngest: what of the bundle the runtime has not;
\* stepPullImages: every reference it pulls.
Ingest(i) ==
  /\ At(i, "ingest")
  /\ Becomes(i, [cmd[i] EXCEPT !.pc = "load",
                               !.clear = cmd[i].to \in store[i] /\ Clear(i, cmd[i].to),
                               !.left = (Aliases(cmd[i].to) \ names)
                                        \cup ({"digest"} \X Pulls[cmd[i].to])])
  /\ UNCHANGED <<disk, roles, running, names, asked, fetching, loaded, spent>>

Load(i) ==
  /\ At(i, "load") /\ cmd[i].left # {}
  /\ \E n \in cmd[i].left :
       /\ names' = names \cup {n}
       /\ Becomes(i, [cmd[i] EXCEPT !.left = @ \ {n}])
  /\ UNCHANGED <<disk, roles, running, asked, fetching, loaded, spent>>

Loaded(i) ==
  /\ At(i, "load") /\ cmd[i].left = {}
  /\ loaded' = IF cmd[i].clear THEN loaded \cup {<<i, cmd[i].to>>} ELSE loaded
  /\ Goto(i, "start")
  /\ UNCHANGED <<disk, roles, running, names, asked, fetching, spent>>

\* stepStartServices: an alias that is not there cannot be had from
\* anywhere; Compose pulls a digest that is missing.
Start(i) ==
  /\ At(i, "start")
  /\ Aliases(cmd[i].to) \subseteq names
  /\ names' = names \cup RuntimeImageRefs(cmd[i].to)
  /\ running' = [running EXCEPT ![i] = cmd[i].to]
  /\ Goto(i, "record")
  /\ UNCHANGED <<disk, roles, asked, fetching, loaded, spent>>

\* retireStagedCandidate
Retire(role, r) ==
  IF role.candidate # None /\ role.candidate <= r THEN [role EXCEPT !.candidate = None]
  ELSE role

\* stepRecordState; a sandbox's update goes on to prune.
Record(i) ==
  /\ At(i, "record")
  /\ roles' = [roles EXCEPT ![i] = Retire(Promote(@, cmd[i].to), cmd[i].to)]
  /\ \/ End(i)
     \/ cmd[i].op \in {"update", "update-to"} /\ Goto(i, "list")
  /\ UNCHANGED <<disk, running, names, asked, fetching, loaded, spent>>

\* A rollback's preflight wants the bundled images, and nothing looks for the
\* target's directory again; then the pointer moves, and images are pulled.
PointToPrevious(i) ==
  /\ At(i, "point")
  /\ Aliases(cmd[i].to) \subseteq names
  /\ roles' = [roles EXCEPT ![i] = Promote(@, cmd[i].to)]
  /\ Becomes(i, [cmd[i] EXCEPT !.pc = "load", !.left = {"digest"} \X Pulls[cmd[i].to]])
  /\ UNCHANGED <<disk, running, names, asked, fetching, loaded, spent>>

\* A step fails.  An update that touched the containers brings the release it
\* came from back up; a rollback puts its pointer back; a half-written
\* directory of a staged fetch goes.
Fail(i) ==
  /\ \E pc \in {"stage", "land", "ingest", "point", "load", "start", "record"} : At(i, pc)
  /\ End(i)
  /\ LET c == cmd[i]
         touched == c.pc \in {"start", "record"} IN
     /\ roles' = IF c.op \in {"rollback", "rollback-to"} /\ c.pc # "point"
                 THEN [roles EXCEPT ![i] = Promote(@, c.from)] ELSE roles
     /\ \/ /\ touched /\ c.op \in {"update", "update-to"} /\ c.from # None
           /\ Aliases(c.from) \subseteq names
           /\ running' = [running EXCEPT ![i] = c.from]
           /\ names' = names \cup RuntimeImageRefs(c.from)
        \/ /\ running' \in {running} \cup
                {[running EXCEPT ![i] = r] : r \in IF touched THEN {c.to, None} ELSE {}}
           /\ UNCHANGED names
  /\ staging' = [staging EXCEPT ![i] = None]
  /\ half' = IF cmd[i].op = "follow" THEN [half EXCEPT ![i] = @ \ {cmd[i].to}] ELSE half
  /\ UNCHANGED <<store, asked, fetching, loaded, spent>>

-----------------------------------------------------------------------------
(* Prune *)

\* InstalledReleases and the retention rule: the newest Keep of the releases
\* without a role stay.
ListReleases(i) ==
  /\ At(i, "list")
  /\ LET idle == store[i] \ Exempt(i)
         pruned == {r \in idle : Cardinality({s \in idle : s > r}) >= Keep} IN
     IF pruned = {} THEN End(i)
     ELSE Becomes(i, [cmd[i] EXCEPT !.pc = "plan", !.go = pruned])
  /\ UNCHANGED <<disk, roles, running, names, asked, fetching, loaded, spent>>

\* Mutant: only the installation's own store counts.
ReadStore_OwnOnly(i, j) ==
  /\ At(i, "plan") /\ j \notin cmd[i].read
  /\ Becomes(i, [cmd[i] EXCEPT !.read = @ \cup {j},
                               !.referenced = @ \cup
                                 KeysOf(IF i = j THEN store[j] \ cmd[i].go ELSE {})])
  /\ UNCHANGED <<disk, roles, running, names, asked, fetching, loaded, spent>>

\* referencedImages, one store: every directory counts, whatever its role; one
\* whose manifest does not load withholds every removal.
ReadStore(i, j) ==
  /\ At(i, "plan") /\ j \notin cmd[i].read
  /\ LET partial == half[j] \cup ({staging[j]} \ {None})
         stays == (store[j] \ (IF i = j THEN cmd[i].go ELSE {})) \cup partial IN
     Becomes(i, [cmd[i] EXCEPT !.read = @ \cup {j},
                               !.referenced = @ \cup KeysOf(stays)])
  /\ UNCHANGED <<disk, roles, running, names, asked, fetching, loaded, spent>>

Withhold(i, j) ==
  /\ At(i, "plan") /\ j \notin cmd[i].read
  /\ half[j] # {} \/ staging[j] # None
  /\ Goto(i, "trees")
  /\ UNCHANGED <<disk, roles, running, names, asked, fetching, loaded, spent>>

\* planImageRemoval: compared by the name the daemon resolves.
Removable(refs, referenced) == {n \in refs : ImageKey(n) \notin referenced}

PlanImageRemoval(i) ==
  /\ At(i, "plan") /\ cmd[i].read = Installations
  /\ Becomes(i, [cmd[i] EXCEPT !.pc = "trees",
                               !.drop = Removable(UNION {RuntimeImageRefs(r) : r \in cmd[i].go},
                                                  cmd[i].referenced)])
  /\ UNCHANGED <<disk, roles, running, names, asked, fetching, loaded, spent>>

\* Mutant: the images first.
RemoveTree_ImagesFirst(i) ==
  /\ At(i, "trees")
  /\ \/ \E n \in cmd[i].drop :
          /\ names' = names \ {n}
          /\ Becomes(i, [cmd[i] EXCEPT !.drop = @ \ {n}])
     \/ cmd[i].drop = {} /\ End(i) /\ UNCHANGED names
  /\ UNCHANGED <<disk, roles, running, asked, fetching, loaded, spent>>

\* PruneReleases: directories first.  One that cannot be removed ends it.
RemoveTree(i) ==
  /\ At(i, "trees")
  /\ \/ \E r \in cmd[i].go :
          /\ store' = [store EXCEPT ![i] = @ \ {r}]
          /\ loaded' = loaded \ {<<i, r>>}
          /\ Becomes(i, [cmd[i] EXCEPT !.go = @ \ {r},
                                       !.pc = IF cmd[i].go = {r} THEN "images" ELSE @])
     \/ End(i) /\ UNCHANGED <<store, loaded>>
  /\ UNCHANGED <<staging, half, roles, running, names, asked, fetching, spent>>

\* docker image rm: refused while a container uses it; an alias takes its
\* repository's digest reference with it.
RemoveImage(i) ==
  /\ At(i, "images") /\ cmd[i].drop # {}
  /\ \E n \in cmd[i].drop :
       /\ Becomes(i, [cmd[i] EXCEPT !.drop = @ \ {n}])
       /\ names' = IF \E j \in Installations :
                        running[j] # None /\ ImageKey(n) \in KeysOf({running[j]})
                   THEN names
                   ELSE names \ ({n} \cup (IF n[1] = "alias" THEN {<<"digest", n[2]>>} ELSE {}))
  /\ UNCHANGED <<disk, roles, running, asked, fetching, loaded, spent>>

\* Every name tried, or out of time.
PruneEnds(i) ==
  /\ At(i, "images")
  /\ End(i)
  /\ UNCHANGED <<disk, roles, running, names, asked, fetching, loaded, spent>>

-----------------------------------------------------------------------------
(* Everything else *)

\* The containers are gone: `morzer stop', or someone removed them.
Stop(i) ==
  /\ cmd[i] = None /\ running[i] # None
  /\ Spend(i)
  /\ running' = [running EXCEPT ![i] = None]
  /\ UNCHANGED <<disk, roles, names, asked, cmd, fetching, loaded>>

\* The process that holds the lock is killed: the lock is the kernel's.
Crash(i) ==
  /\ cmd[i] # None /\ crashes < MaxCrashes
  /\ crashes' = crashes + 1
  /\ End(i)
  /\ UNCHANGED <<disk, roles, running, names, asked, fetching, loaded, ops>>

\* A fetch is killed, or its source fails: what it wrote stays.
FetchDies(i) ==
  /\ fetching[i] # None /\ crashes < MaxCrashes
  /\ crashes' = crashes + 1
  /\ fetching' = [fetching EXCEPT ![i] = None]
  /\ UNCHANGED <<disk, roles, running, names, asked, cmd, loaded, ops>>

\* Every release that is there at the start was installed in its turn.
Init == /\ store = [i \in Installations |-> Installed[i].store]
        /\ staging = [i \in Installations |-> None]
        /\ half = [i \in Installations |-> {}]
        /\ roles = [i \in Installations |-> Installed[i].roles]
        /\ running = [i \in Installations |-> Installed[i].roles.current]
        /\ loaded = {e \in Installations \X Releases : e[2] \in Installed[e[1]].store}
        /\ names = UNION {RuntimeImageRefs(e[2]) : e \in loaded}
        /\ asked = [i \in Installations |-> None]
        /\ cmd = [i \in Installations |-> None]
        /\ fetching = [i \in Installations |-> None]
        /\ ops = [i \in Installations |-> 0]
        /\ crashes = 0

Next == \E i \in Installations :
          \/ Ask(i) \/ Take(i)
          \/ Stage(i) \/ Land(i) \/ Candidate(i)
          \/ FetchBegins(i) \/ FetchEnds(i) \/ FetchRefused(i) \/ FetchDies(i)
          \/ Ingest(i) \/ Load(i) \/ Loaded(i) \/ Start(i) \/ Record(i)
          \/ PointToPrevious(i) \/ Fail(i)
          \/ ListReleases(i) \/ PlanImageRemoval(i) \/ RemoveTree(i) \/ RemoveImage(i)
          \/ PruneEnds(i)
          \/ \E j \in Installations : ReadStore(i, j) \/ Withhold(i, j)
          \/ Stop(i) \/ Crash(i)

Spec == Init /\ [][Next]_vars

-----------------------------------------------------------------------------
(* Properties *)

\* Every variable has its type.
TypeOK ==
  /\ store \in [Installations -> SUBSET Releases]
  /\ staging \in [Installations -> MaybeRelease]
  /\ half \in [Installations -> SUBSET Releases]
  /\ roles \in [Installations -> [current : MaybeRelease, previous : MaybeRelease,
                                  candidate : MaybeRelease]]
  /\ running \in [Installations -> MaybeRelease]
  /\ names \subseteq Names
  /\ asked \in [Installations -> Plan \cup {None}]
  /\ cmd \in [Installations -> Process \cup {None}]
  /\ fetching \in [Installations -> MaybeRelease]
  /\ loaded \subseteq Installations \X Releases
  /\ ops \in [Installations -> Nat] /\ \A i \in Installations : ops[i] <= MaxOps[i]
  /\ crashes \in 0..MaxCrashes

\* A release whose images were loaded keeps every name the runtime resolves
\* for as long as its directory is there, whatever any installation prunes,
\* with one exception the design accepts: a prune that had read the stores
\* before the release was in them (prune.go, planImageRemoval).
ImagesStay == \A e \in loaded : RuntimeImageRefs(e[2]) \subseteq names

\* The directory of the current release, of the previous one and of the staged
\* candidate never goes, except to a `release fetch' of that very version that
\* ends refused (prune.go, PruneReleases; fetch.go).
RolesStay ==
  [][\A i \in Installations : \A r \in {roles[i].current, roles[i].previous, roles[i].candidate} \cap store[i] :
       r \in store'[i] \/ (fetching[i] = r /\ fetching'[i] = None)]_vars

=============================================================================
