--------------------------- MODULE ReleaseDeploy ---------------------------
(***************************************************************************)
(* The rollout of a tested commit, apps/api/app/services/deploy_release.py *)
(* (main and deploy): the api and web services on Render, the dataset      *)
(* release in Postgres, the aliases of the search index in Qdrant, and the *)
(* restoration of all of them, newest change first, when a step fails.     *)
(*                                                                         *)
(* A request to a provider may fail after it took effect.  A create or a   *)
(* rollback that failed has reached Render by then or never does.  Render  *)
(* builds at its own pace, and may build another commit.  The bundle       *)
(* loader shares the releases table; in this module it takes turns with    *)
(* the rollout (MCReleaseWriters lets them overlap).                       *)
(***************************************************************************)
EXTENDS DatasetReleases, Sequences, SequencesExt

CONSTANTS Old, New, Loaded, None   \* three releases, and no component

VARIABLES
    plan,     \* record["candidate"]: what the rollout promotes besides code
    live,     \* Render: what each service runs
    building, \* Render: the services with a deploy of the commit in flight
    aliases,  \* Qdrant: the release the alias mapping serves
    pc,       \* the coordinator
    at,       \* the component it works on
    changed,  \* components it may have changed, oldest first
    rollout,  \* record["rollout"]["status"], as saved
    failures  \* record["rollout"]["restoration_failures"]: its components

deployVars == <<plan, live, building, aliases, pc, at, changed, rollout, failures>>
vars == <<status, txn, plan, live, building, aliases, pc, at, changed,
          rollout, failures>>

Deployer == "deploy"
Loader == "load"
ASSUME ReleasesAssumption ==
    /\ Writers = {Deployer, Loader} /\ Versions = {Old, New, Loaded}
    /\ Cardinality(Versions) = 3

Services == {"api", "web"}
Components == Services \union {"data", "aliases"}
Code == {"old", "new", "other"}
Running == {"request", "wait", "data", "activating", "aliases", "smoke",
            "restore", "reactivating", "rollback"}

Init ==
    /\ WritersInit([v \in Versions |->
          IF v = Old THEN "active" ELSE IF v = New THEN "staged" ELSE "absent"])
    /\ plan \in [data : BOOLEAN, aliases : {"none", "same names", "new names"}]
    /\ live = [s \in Services |-> "old"]
    /\ building = {}
    /\ aliases = Old
    /\ pc = "idle"
    /\ at = None
    /\ changed = <<>>
    /\ rollout = "none"
    /\ failures = {}

---------------------------------------------------------------------------
(* Moving on *)

Goto(label, component) == pc' = label /\ at' = component
Change(component) == changed' = Append(changed, component)

(* The components in the order in which they are restored. *)
Undo(done) == Reverse(done)
UndoInOrder(done) == done
Order(done) == Undo(done)

Finish(failed) ==
    /\ rollout' = IF failed = {} THEN "restored" ELSE "restoration_failed"
    /\ Goto("ended", None)

(* The component at hand is done with, and the next one follows. *)
NextOf(todo) == Tail(todo)
OldestOf(todo) == Front(todo)
Remaining(todo) == NextOf(todo)

RestoreNext(failed) ==
    /\ failures' = failed
    /\ changed' = Remaining(changed)
    /\ IF Tail(changed) = <<>>
       THEN Finish(failed)
       ELSE Goto("restore", Head(Tail(changed))) /\ UNCHANGED rollout

(* The handler of any failure of the rollout. *)
Fail(done) ==
    /\ rollout' = "restoring"
    /\ changed' = Order(done)
    /\ Goto("restore", Head(Order(done)))
    /\ UNCHANGED failures

(* A component is restored, or its failure is recorded and the next one is *)
(* restored all the same.                                                  *)
Restored == RestoreNext(failures)
NotRestored == RestoreNext(failures \union {at})

AfterServices ==
    IF plan.data THEN Goto("data", "data")
    ELSE IF plan.aliases # "none" THEN Goto("aliases", "aliases")
    ELSE Goto("smoke", None)
AfterData ==
    IF plan.aliases # "none" THEN Goto("aliases", "aliases")
                             ELSE Goto("smoke", None)
---------------------------------------------------------------------------
(* The rollout *)

SnapshotHolds ==
    /\ live = [s \in Services |-> "old"] /\ building = {}
    /\ Active = {Old}
    /\ aliases = Old

(* main: a stale rollback snapshot stops the rollout before it begins. *)
Start ==
    /\ pc = "idle" /\ ~ Open(Loader)
    /\ IF SnapshotHolds
       THEN Goto("request", "api") /\ rollout' = "starting"
       ELSE Goto("refused", None) /\ UNCHANGED rollout
    /\ UNCHANGED <<status, txn, plan, live, building, aliases, changed, failures>>

Request ==
    /\ pc = "request"
    /\ \/ /\ building' = building \union {at}
          /\ Change(at) /\ Goto("wait", at)
          /\ UNCHANGED <<rollout, failures>>
       \/ /\ building' \in {building, building \union {at}}
          /\ Fail(Append(changed, at))
    /\ UNCHANGED <<status, txn, plan, live, aliases>>

(* The commit a deploy must have brought live. *)
RightCommit(s) == live[s] = "new"
AnyCommit(s) == live[s] # "old"
Deployed(s) == RightCommit(s)

(* wait_deploy gives up at its deadline, or when a poll fails. *)
GivesUp(s) == TRUE
WaitsForEver(s) == FALSE
TimesOut(s) == GivesUp(s)

Wait ==
    /\ pc = "wait"
    /\ \/ /\ at \notin building /\ Deployed(at)
          /\ IF at = "api" THEN Goto("request", "web") ELSE AfterServices
          /\ UNCHANGED <<rollout, changed, failures>>
       \/ /\ TimesOut(at) \/ (at \notin building /\ ~ Deployed(at))
          /\ Fail(changed)
    /\ UNCHANGED <<status, txn, plan, live, building, aliases>>

Activate ==
    /\ pc = "data"
    /\ Change("data")
    /\ BeginActivate(Deployer, New)
    /\ Goto("activating", "data")
    /\ UNCHANGED <<plan, live, building, aliases, rollout, failures>>

Activated ==
    /\ pc = "activating" /\ ~ Open(Deployer)
    /\ IF txn[Deployer].pc = "done"
       THEN AfterData /\ UNCHANGED <<rollout, changed, failures>>
       ELSE Fail(changed)
    /\ UNCHANGED <<status, txn, plan, live, building, aliases>>

(* switch_aliases moves every alias in one Qdrant transaction.  No alias   *)
(* bears the name of a collection here: the names are those of aliases.    *)
SwitchAliases ==
    /\ pc = "aliases"
    /\ \/ /\ plan.aliases = "same names" /\ aliases' = New
          /\ Change("aliases") /\ Goto("smoke", None)
          /\ UNCHANGED <<rollout, failures>>
       \/ /\ UNCHANGED aliases \/ (plan.aliases = "same names" /\ aliases' = New)
          /\ Fail(Append(changed, "aliases"))
    /\ UNCHANGED <<status, txn, plan, live, building>>

Expected == IF plan.data THEN New ELSE Old

Smoke ==
    /\ pc = "smoke"
    /\ \/ /\ Active = {Expected} /\ rollout' = "live" /\ Goto("ended", None)
          /\ UNCHANGED <<changed, failures>>
       \/ Fail(changed)
    /\ UNCHANGED <<status, txn, plan, live, building, aliases>>

---------------------------------------------------------------------------
(* The restoration *)

RestoreAliases ==
    /\ pc = "restore" /\ at = "aliases"
    /\ \/ aliases' = Old /\ Restored
       \/ aliases' \in {aliases, Old} /\ NotRestored
    /\ UNCHANGED <<status, txn, plan, live, building>>

RestoreData ==
    /\ pc = "restore" /\ at = "data"
    /\ BeginActivate(Deployer, Old)
    /\ Goto("reactivating", at)
    /\ UNCHANGED <<plan, live, building, aliases, changed, rollout, failures>>

DataRestored ==
    /\ pc = "reactivating" /\ ~ Open(Deployer)
    /\ \/ txn[Deployer].pc = "done" /\ Active = {Old} /\ Restored
       \/ NotRestored
    /\ UNCHANGED <<status, txn, plan, live, building, aliases>>

(* Whether a deploy that could not be cancelled is remembered. *)
Uncancelled(s) == {s}
Swallowed(s) == {}
CancelFailure(s) == Uncancelled(s)

(* In-flight deploys of the commit are cancelled before the rollback, and  *)
(* the rollback follows even when that fails.                              *)
CancelPending ==
    /\ pc = "restore" /\ at \in Services
    /\ Goto("rollback", at)
    /\ \/ building' = building \ {at} /\ UNCHANGED failures
       \/ /\ building' \in {building, building \ {at}}
          /\ failures' = failures \union CancelFailure(at)
    /\ UNCHANGED <<status, txn, plan, live, aliases, changed, rollout>>

Rollback ==
    /\ pc = "rollback"
    /\ \/ live' = [live EXCEPT ![at] = "old"] /\ Restored
       \/ live' \in {live, [live EXCEPT ![at] = "old"]} /\ NotRestored
    /\ UNCHANGED <<status, txn, plan, building, aliases>>

---------------------------------------------------------------------------
(* The world *)

(* A build ends: live with this commit, or with another, or failed. *)
BuildEnds(s) ==
    /\ s \in building
    /\ building' = building \ {s}
    /\ live' \in {live} \union {[live EXCEPT ![s] = c] : c \in {"new", "other"}}
    /\ UNCHANGED <<status, txn, plan, aliases, pc, at, changed, rollout, failures>>

(* The coordinator dies: its transaction is aborted, its record remains. *)
Crash ==
    /\ pc \in Running
    /\ pc' = "crashed"
    /\ IF Open(Deployer) THEN Abort(Deployer) ELSE UNCHANGED releaseVars
    /\ UNCHANGED <<plan, live, building, aliases, at, changed, rollout, failures>>

Load ==
    /\ pc \notin Running /\ txn[Loader].pc = "idle"
    /\ BeginLoad(Loader, Loaded)
    /\ UNCHANGED deployVars

Write(w) == WriterStep(w) /\ UNCHANGED deployVars

Coordinator ==
    \/ Start \/ Request \/ Wait \/ Activate \/ Activated \/ SwitchAliases
    \/ Smoke \/ RestoreAliases \/ RestoreData \/ DataRestored
    \/ CancelPending \/ Rollback \/ Write(Deployer)

Next ==
    \/ Coordinator
    \/ Crash
    \/ Load
    \/ Write(Loader)
    \/ \E s \in Services : BuildEnds(s)

(* The coordinator runs until it ends, and Postgres answers its            *)
(* transaction.  Nothing obliges Render to end a build.                    *)
Spec == Init /\ [][Next]_vars /\ WF_vars(Coordinator)

---------------------------------------------------------------------------
(* Properties *)

TypeOK ==
    /\ ReleasesTypeOK
    /\ live \in [Services -> Code]
    /\ building \subseteq Services
    /\ aliases \in {Old, New}
    /\ pc \in Running \union {"idle", "refused", "ended", "crashed"}
    /\ at \in Components \union {None}
    /\ changed \in Seq(Components) /\ IsInjective(changed)
    /\ rollout \in {"none", "starting", "live", "restoring", "restored",
                    "restoration_failed"}
    /\ failures \subseteq Components
    /\ pc \in {"restore", "rollback", "reactivating"} => at = Head(changed)

(* A rollout that reports "restored" has everything back as its snapshot   *)
(* had it, and no deploy of the commit is left that could still go live:   *)
(* whichever requests failed after they took effect, and whenever Render   *)
(* ended its builds.                                                       *)
RestoredMeansRestored ==
    [][(rollout' = "restored" /\ rollout # "restored") => SnapshotHolds']_vars

(* A rollout that reports "live" runs the tested commit on both services,  *)
(* with the release and the aliases it was to promote.                     *)
LiveMeansPromoted ==
    [][(rollout' = "live" /\ rollout # "live") =>
          /\ \A s \in Services : live'[s] = "new"
          /\ Active' = {Expected}
          /\ aliases' = IF plan.aliases = "none" THEN Old ELSE New]_vars

(* The candidate release and its aliases are served by the tested commit   *)
(* only, on the way out and on the way back, until a restoration fails.    *)
NewDataOnlyUnderNewCode ==
    (failures = {} /\ (New \in Active \/ aliases = New)) =>
        \A s \in Services : live[s] = "new"

(* Every rollout ends, or dies: a build that hangs cannot hold it. *)
RolloutEnds == (pc \in Running) ~> (pc \in {"ended", "crashed"})
=============================================================================
