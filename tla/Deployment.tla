------------------------------ MODULE Deployment ------------------------------
(***************************************************************************)
(* One named deployment over its life: deploy, undeploy, status and        *)
(* run_deployment of memory_bench_platform/deployment_lifecycle.py and     *)
(* deployment_run.py over the directory, the record state.json and the     *)
(* lock file of deployment_store.py, and over the Compose projects that    *)
(* Docker runs.  Each command is a process of its own; any call it makes   *)
(* may fail, a signal raises an exception in it, and it may be killed.     *)
(*                                                                         *)
(* A project of the deployment is a group of services started together:    *)
(* its containers are abstracted to one identity, the deploy that created  *)
(* them, or Foreign when something outside the platform recreated them.    *)
(* Hashes, ports, images and the preflight checks are left out; a drift    *)
(* they would report is the failure that Status may always have.           *)
(*                                                                         *)
(* A project in GoldenGroups builds or reuses the golden volume of module  *)
(* GoldenVolume, which another deployment may be building at the same      *)
(* time.                                                                   *)
(***************************************************************************)
EXTENDS GoldenVolume

CONSTANTS
    NumGroups,
    GoldenGroups,   \* the projects whose preparation names the golden volume
    Overlap,        \* whether deploy and undeploy may be running at the same time
    MaxDeploys,     \* bound: how often deploy is issued
    MaxForeign      \* bound: how often containers are recreated from outside

Groups == 1..NumGroups

ASSUME DeploymentAssumption ==
    /\ NumGroups \in Nat \ {0}
    /\ GoldenGroups \subseteq Groups
    /\ Overlap \in BOOLEAN
    /\ MaxRivals \in Nat
    /\ MaxDeploys \in Nat
    /\ MaxForeign \in Nat

None == 0                       \* no containers
Foreign == MaxDeploys + 1
Identities == 0..MaxDeploys
Containers == Identities \cup {Foreign}

VARIABLES
    dir,        \* the directory of the deployment; "torn" lacks compose files
    record,     \* state.json
    lock,       \* who holds the lock file
    up,         \* the containers of each project
    vol,        \* the data in the runtime volume of each project
    deploys,    \* how often deploy has created the directory
    dpc,        \* where deploy is
    dg,         \* the group it is at
    mem,        \* its DeploymentState in memory
    started,    \* len(started)
    failed,     \* rollback_errors is not empty
    mode,       \* golden_mode
    marker,     \* the marker it read in the golden volume
    upc,        \* where undeploy is
    ug,         \* the group it is at
    read,       \* the record it read
    replaced,   \* history: recorded containers were already replaced when it read
    rpc,        \* where run_deployment is
    foreign     \* how often containers were recreated from outside

store == <<dir, record>>
docker == <<up, vol>>
cloning == <<mode, marker>>
deployer == <<deploys, dpc, dg, mem, started, failed, cloning>>
undeployer == <<upc, ug, read, replaced>>
vars == <<store, lock, docker, deployer, undeployer, rpc,
                   foreign, goldens>>

NoRecord == [projects |-> 0, ids |-> [g \in Groups |-> None], ready |-> FALSE]

\* A DeploymentState names the projects of the first groups, and their containers.
States == [projects : 0..NumGroups, ids : [Groups -> Containers], ready : BOOLEAN]

TypeOK ==
    /\ dir \in {"none", "whole", "torn"}
    /\ record \in States
    /\ lock \in {"free", "undeploy", "run"}
    /\ up \in [Groups -> Containers]
    /\ vol \in [Groups -> Data]
    /\ deploys \in 0..MaxDeploys
    /\ dpc \in {"idle", "record", "look", "entries", "digest", "attached", "clone", "cloning",
                "cloned", "up", "verify", "prepare", "finalize", "seal", "save",
                "finish", "rollback"}
    /\ dg \in Groups
    /\ mem \in States
    /\ started \in 0..NumGroups
    /\ failed \in BOOLEAN
    /\ mode \in {"build", "reuse"}
    /\ marker \in {"none"} \cup Data
    /\ GoldenTypeOK
    /\ upc \in {"idle", "read", "check", "down"}
    /\ ug \in 0..(NumGroups + 1)
    /\ read \in States
    /\ replaced \in BOOLEAN
    /\ rpc \in {"idle", "status", "running"}
    /\ foreign \in 0..MaxForeign
    /\ lock = "undeploy" <=> upc # "idle"
    /\ lock = "run" <=> rpc # "idle"

Init ==
    /\ dir = "none"
    /\ record = NoRecord
    /\ lock = "free"
    /\ up = [g \in Groups |-> None]
    /\ vol = [g \in Groups |-> "absent"]
    /\ deploys = 0
    /\ dpc = "idle" /\ dg = 1 /\ mem = NoRecord /\ started = 0 /\ failed = FALSE
    /\ mode = "build" /\ marker = "none"
    /\ GoldenInit
    /\ upc = "idle" /\ ug = 0 /\ read = NoRecord /\ replaced = FALSE
    /\ rpc = "idle"
    /\ foreign = 0

-----------------------------------------------------------------------------
(* The store and Docker *)

HasRecord == record # NoRecord

\* write_atomic: the record is replaced as a whole, and never without its
\* directory.  A write that raises may have replaced it already.
Saves(state) == dir # "none" /\ record' = state
SaveRaises(state) == UNCHANGED record \/ Saves(state)

\* rmtree removes everything, or stops half-way at a file it cannot remove.
RemoveTree ==
    \/ dir' = "none" /\ record' = NoRecord
    \/ /\ dir # "none"
       /\ dir' \in {"torn", dir}
       /\ record' \in {record, NoRecord}

\* compose down -v, for which the compose file must be there.
Down(g) ==
    /\ dir = "whole"
    /\ up' = [up EXCEPT ![g] = None]
    /\ vol' = [vol EXCEPT ![g] = "absent"]
DownRaises(g) == UNCHANGED docker \/ Down(g)

-----------------------------------------------------------------------------
(* deploy: takes no lock, only the directory that must not exist yet *)

Create ==
    /\ dpc = "idle"
    /\ deploys < MaxDeploys
    /\ dir = "none"
    /\ Overlap \/ upc = "idle"
    /\ dir' = "whole"
    /\ deploys' = deploys + 1
    /\ mem' = NoRecord
    /\ dg' = 1
    /\ started' = 0
    /\ failed' = FALSE
    /\ dpc' = "record"
    /\ UNCHANGED <<record, lock, docker, cloning, undeployer, rpc,
                   foreign, goldens>>

AfterRecord == IF dg \in GoldenGroups THEN "look" ELSE "up"

\* Mutant: the record is saved only when the group is up and prepared.
RecordInMemory ==
    /\ dpc = "record"
    /\ mem' = [mem EXCEPT !.projects = dg]
    /\ dpc' = AfterRecord
    /\ UNCHANGED <<store, lock, docker, deploys, dg, started, failed, cloning, undeployer, rpc,
                   foreign, goldens>>

\* The compose file is written and the project recorded before it is started.
Record ==
    LET named == [mem EXCEPT !.projects = dg] IN
    /\ dpc = "record"
    /\ \/ mem' = named /\ Saves(named) /\ dpc' = AfterRecord
       \/ mem' = named /\ SaveRaises(named) /\ dpc' = "rollback"
       \/ UNCHANGED <<mem, record>> /\ dpc' = "rollback"
    /\ UNCHANGED <<dir, lock, docker, deploys, dg, started, failed, cloning, undeployer, rpc,
                   foreign, goldens>>

-----------------------------------------------------------------------------
(* _golden_before_deploy *)

LookBefore ==
    /\ dpc = "look"
    /\ vol[dg] = "absent"
    /\ IF golden.data = "absent" THEN mode' = "build" /\ dpc' = "up"
                                 ELSE mode' = "reuse" /\ dpc' = "entries"
    /\ UNCHANGED <<store, lock, docker, deploys, dg, mem, started, failed, marker, undeployer, rpc,
                   foreign, goldens>>

\* The entries are read, and with them the marker.
ReadEntries ==
    /\ dpc = "entries"
    /\ golden.marker # "torn"
    /\ marker' = golden.marker
    /\ dpc' = "digest"
    /\ UNCHANGED <<store, lock, docker, deploys, dg, mem, started, failed, mode, undeployer, rpc,
                   foreign, goldens>>

\* Then the digest of the data is taken, and both are classified.
ReadDigest ==
    /\ dpc = "digest"
    /\ Ready(marker, golden.data)
    /\ dpc' = "attached"
    /\ UNCHANGED <<store, lock, docker, deploys, dg, mem, started, failed, cloning, undeployer, rpc,
                   foreign, goldens>>

\* A command that raises may have created the volume, and nothing removes it.
CreateRuntime ==
    /\ dpc = "attached"
    /\ ~Attached
    /\ vol' = [vol EXCEPT ![dg] = "empty"]
    /\ dpc' \in {"clone", "rollback"}
    /\ UNCHANGED <<store, lock, up, deploys, dg, mem, started, failed, cloning, undeployer, rpc,
                   foreign, goldens>>

CloneStarts ==
    /\ dpc = "clone"
    /\ vol[dg] = "empty"
    /\ vol' = [vol EXCEPT ![dg] = "part"]
    /\ dpc' = "cloning"
    /\ UNCHANGED <<store, lock, up, deploys, dg, mem, started, failed, cloning, undeployer, rpc,
                   foreign, goldens>>

CloneEnds ==
    /\ dpc = "cloning"
    /\ vol' = [vol EXCEPT ![dg] = IF golden.data = marker THEN marker ELSE "mixed"]
    /\ dpc' = "cloned"
    /\ UNCHANGED <<store, lock, up, deploys, dg, mem, started, failed, cloning, undeployer, rpc,
                   foreign, goldens>>

\* The copy is classified like the golden volume.
CheckClone ==
    /\ dpc = "cloned"
    /\ Ready(marker, vol[dg])
    /\ dpc' = "up"
    /\ UNCHANGED <<store, lock, docker, deploys, dg, mem, started, failed, cloning, undeployer, rpc,
                   foreign, goldens>>

\* The runtime volume is removed once the copy may have begun, unless a helper
\* container still uses it.  The project does not count as started.
CloneFails ==
    /\ dpc \in {"look", "entries", "digest", "attached", "clone", "cloning", "cloned"}
    /\ dpc' = "rollback"
    /\ \/ UNCHANGED vol
       \/ dpc \in {"clone", "cloning", "cloned"} /\ vol' = [vol EXCEPT ![dg] = "absent"]
    /\ UNCHANGED <<store, lock, up, deploys, dg, mem, started, failed, cloning, undeployer, rpc,
                   foreign, goldens>>

BeforeDeploy ==
    \/ LookBefore \/ ReadEntries \/ ReadDigest \/ CreateRuntime \/ CloneStarts \/ CloneEnds
    \/ CheckClone \/ CloneFails

-----------------------------------------------------------------------------
(* deploy, from the start of a project on *)

\* compose up: containers and volumes that are there already are kept.
Starts ==
    /\ up' = [up EXCEPT ![dg] = IF @ = None THEN deploys ELSE @]
    /\ vol' = [vol EXCEPT ![dg] = IF @ = "absent" THEN "empty" ELSE @]

Up ==
    /\ dpc = "up"
    /\ \/ dir = "whole" /\ Starts /\ started' = dg /\ dpc' = "verify"
       \/ /\ started' = dg /\ dpc' = "rollback"
          /\ UNCHANGED docker \/ (dir = "whole" /\ Starts)
       \/ UNCHANGED <<docker, started>> /\ dpc' = "rollback"
    /\ UNCHANGED <<store, lock, deploys, dg, mem, failed, cloning, undeployer, rpc,
                   foreign, goldens>>

\* The identities of the containers are taken down, and the services verified.
Verify ==
    LET seen == [mem EXCEPT !.ids[dg] = up[dg]] IN
    /\ dpc = "verify"
    /\ \/ dir = "whole" /\ up[dg] # None /\ mem' = seen /\ dpc' = "prepare"
       \/ mem' \in {mem, seen} /\ dpc' = "rollback"
    /\ UNCHANGED <<store, lock, docker, deploys, dg, started, failed, cloning, undeployer, rpc,
                   foreign, goldens>>

Builds == dg \in GoldenGroups /\ mode = "build"
Reuses == dg \in GoldenGroups /\ mode = "reuse"

\* Seed, which a reused volume skips, and readiness, in the recorded containers.
\* A baseline that is to be sealed is not complete before it is compacted.
Prepare ==
    /\ dpc = "prepare"
    /\ \/ /\ up[dg] = mem.ids[dg]
          /\ vol' = [vol EXCEPT ![dg] = IF Reuses THEN @ ELSE IF Builds THEN "part" ELSE "ours"]
          /\ dpc' = IF Builds THEN "finalize" ELSE "save"
       \/ /\ dpc' = "rollback"
          /\ UNCHANGED vol \/ (~Reuses /\ vol' = [vol EXCEPT ![dg] = "part"])
    /\ UNCHANGED <<store, lock, up, deploys, dg, mem, started, failed, cloning, undeployer, rpc,
                   foreign, goldens>>

\* The compaction that completes the baseline; then memory and vector are
\* stopped, and the digest of their volume is taken.
FinalizeBaseline ==
    /\ dpc = "finalize"
    /\ \/ /\ up[dg] = mem.ids[dg]
          /\ vol' = [vol EXCEPT ![dg] = "ours"]
          /\ dpc' = "seal"
          /\ gpc' = [gpc EXCEPT !["ours"] = "claim"]
       \/ /\ dpc' = "rollback"
          /\ UNCHANGED <<vol, gpc>>
    /\ UNCHANGED <<store, lock, up, deploys, dg, mem, started, failed, cloning, undeployer, rpc,
                   foreign, golden, claim, helpers, rivals>>

\* _golden_after_seed, the steps that touch the golden volume.
SealStep ==
    /\ dpc = "seal"
    /\ BuildStep("ours") \/ BuildFails("ours")
    /\ UNCHANGED <<store, lock, docker, deployer, undeployer, rpc, foreign>>

\* The services are started again, in the same containers, and waited for.
Restart ==
    /\ dpc = "seal"
    /\ gpc["ours"] \in {"sealed", "failed"}
    /\ gpc' = [gpc EXCEPT !["ours"] = "idle"]
    /\ \/ gpc["ours"] = "sealed" /\ dir = "whole" /\ up[dg] = mem.ids[dg] /\ dpc' = "save"
       \/ dpc' = "rollback"
    /\ UNCHANGED <<store, lock, docker, deploys, dg, mem, started, failed, cloning, undeployer, rpc,
                   foreign, golden, claim, helpers, rivals>>

Save ==
    /\ dpc = "save"
    /\ \/ /\ Saves(mem)
          /\ IF dg < NumGroups THEN dg' = dg + 1 /\ dpc' = "record"
                               ELSE UNCHANGED dg /\ dpc' = "finish"
       \/ SaveRaises(mem) /\ UNCHANGED dg /\ dpc' = "rollback"
    /\ UNCHANGED <<dir, lock, docker, deploys, mem, started, failed, cloning, undeployer, rpc,
                   foreign, goldens>>

Finish ==
    /\ dpc = "finish"
    /\ mem' = [mem EXCEPT !.ready = TRUE]
    /\ \/ Saves(mem') /\ dpc' = "idle"
       \/ SaveRaises(mem') /\ dpc' = "rollback"
    /\ UNCHANGED <<dir, lock, docker, deploys, dg, started, failed, cloning, undeployer, rpc,
                   foreign, goldens>>

\* A started project is left to be taken down.
LeftToRollBack == started > 0

\* The projects started are taken down in reverse order, whatever fails.
Rollback ==
    /\ dpc = "rollback"
    /\ LeftToRollBack
    /\ started' = started - 1
    /\ \/ Down(started) /\ UNCHANGED failed
       \/ DownRaises(started) /\ failed' = TRUE
    /\ UNCHANGED <<store, lock, deploys, dpc, dg, mem, cloning, undeployer, rpc,
                   foreign, goldens>>

\* The record is kept, not ready, when something could not be taken down.
AfterRollback ==
    /\ dpc = "rollback"
    /\ started = 0
    /\ dpc' = "idle"
    /\ IF failed
       THEN mem' = [mem EXCEPT !.ready = FALSE] /\ SaveRaises(mem') /\ UNCHANGED dir
       ELSE RemoveTree /\ UNCHANGED mem
    /\ UNCHANGED <<lock, docker, deploys, dg, started, failed, cloning, undeployer, rpc,
                   foreign, goldens>>

\* Killed anywhere, or interrupted once more during the rollback.
DeployDies ==
    /\ dpc # "idle"
    /\ dpc' = "idle"
    /\ IF dpc = "seal" THEN BuildDies("ours") ELSE UNCHANGED goldens
    /\ UNCHANGED <<store, lock, docker, deploys, dg, mem, started, failed, cloning, undeployer, rpc,
                   foreign>>

-----------------------------------------------------------------------------
(* undeploy, under the lock *)

\* Mutant: a project that is gone already counts as replaced.
OwnedIfPresent(g) == read.ids[g] = None \/ up[g] = read.ids[g]

\* The ownership check of one project: containers that are gone already do not
\* stand in the way of a retry, and a project without recorded ones passes.
Owned(g) == read.ids[g] = None \/ up[g] \in {None, read.ids[g]}

Replaced(state) ==
    \E g \in 1..state.projects :
        state.ids[g] # None /\ up[g] \notin {None, state.ids[g]}

AskUndeploy ==
    /\ upc = "idle"
    /\ lock = "free"
    /\ Overlap \/ dpc = "idle"
    /\ lock' = "undeploy"
    /\ upc' = "read"
    /\ UNCHANGED <<store, docker, deployer, ug, read, replaced, rpc, foreign, goldens>>

\* The finally clause of undeploy; a kill releases the lock as well.
Unlock == lock' = "free" /\ upc' = "idle"

Read ==
    /\ upc = "read"
    /\ HasRecord
    /\ read' = record
    /\ replaced' = Replaced(record)
    /\ ug' = 1
    /\ upc' = "check"
    /\ UNCHANGED <<store, lock, docker, deployer, rpc, foreign, goldens>>

\* Mutant: only the first project is checked before the first is taken down.
CheckFirst ==
    /\ upc = "check"
    /\ dir = "whole"
    /\ Owned(1)
    /\ ug' = read.projects
    /\ upc' = "down"
    /\ UNCHANGED <<store, lock, docker, deployer, read, replaced, rpc, foreign, goldens>>

\* All projects are checked before the first one is taken down.
Check ==
    /\ upc = "check"
    /\ dir = "whole"
    /\ Owned(ug)
    /\ IF ug < read.projects THEN ug' = ug + 1 /\ UNCHANGED upc
                             ELSE ug' = read.projects /\ upc' = "down"
    /\ UNCHANGED <<store, lock, docker, deployer, read, replaced, rpc, foreign, goldens>>

TakeDown ==
    /\ upc = "down"
    /\ ug > 0
    /\ Down(ug)
    /\ ug' = ug - 1
    /\ UNCHANGED <<store, lock, deployer, upc, read, replaced, rpc, foreign, goldens>>

Remove ==
    /\ upc = "down"
    /\ ug = 0
    /\ RemoveTree
    /\ Unlock
    /\ UNCHANGED <<docker, deployer, ug, read, replaced, rpc, foreign, goldens>>

\* Refused, failed or killed, before the last step; compose down may have done
\* its work all the same.
UndeployFails ==
    /\ upc # "idle"
    /\ Unlock
    /\ UNCHANGED docker \/ (upc = "down" /\ ug > 0 /\ Down(ug))
    /\ UNCHANGED <<store, deployer, ug, read, replaced, rpc, foreign, goldens>>

-----------------------------------------------------------------------------
(* status and run_deployment, under the lock *)

AskRun ==
    /\ rpc = "idle"
    /\ lock = "free"
    /\ lock' = "run"
    /\ rpc' = "status"
    /\ UNCHANGED <<store, docker, deployer, undeployer, foreign, goldens>>

\* Mutant: the flag of the record is trusted.
StatusOfRecord == HasRecord /\ record.ready

\* status().ready: the recorded containers are the ones Docker has.
Status ==
    /\ HasRecord /\ record.ready
    /\ dir = "whole"
    /\ \A g \in 1..record.projects : up[g] = record.ids[g] /\ up[g] # None

StartRuns ==
    /\ rpc = "status"
    /\ Status
    /\ rpc' = "running"
    /\ UNCHANGED <<store, lock, docker, deployer, undeployer, foreign, goldens>>

\* Not ready, failed, ended or killed.  release_lock is called with a name that
\* the loop over pooled services may have overwritten (113); the lock is free all
\* the same when the process ends.
RunEnds ==
    /\ rpc # "idle"
    /\ rpc' = "idle"
    /\ lock' = "free"
    /\ UNCHANGED <<store, docker, deployer, undeployer, foreign, goldens>>

-----------------------------------------------------------------------------
\* Somebody recreates the containers of a project behind the platform's back.
Recreate(g) ==
    /\ foreign < MaxForeign
    /\ up[g] # None
    /\ foreign' = foreign + 1
    /\ up' = [up EXCEPT ![g] = Foreign]
    /\ UNCHANGED <<store, lock, vol, deployer, undeployer, rpc, goldens>>

\* The other deployment, while this one does not move.
Others == Rival /\ UNCHANGED <<store, lock, docker, deployer, undeployer, rpc, foreign>>

Deploy ==
    \/ Create \/ Record \/ BeforeDeploy \/ Up \/ Verify \/ Prepare
    \/ FinalizeBaseline \/ SealStep \/ Restart
    \/ Save \/ Finish \/ Rollback \/ AfterRollback

Undeploy == AskUndeploy \/ Read \/ Check \/ TakeDown \/ Remove

Next ==
    \/ Deploy \/ DeployDies
    \/ Undeploy \/ UndeployFails
    \/ AskRun \/ StartRuns \/ RunEnds
    \/ \E g \in Groups : Recreate(g)
    \/ Others

Spec == Init /\ [][Next]_vars

\* Commands end, and somebody keeps asking for undeploy.
Fairness ==
    /\ WF_vars(Deploy)
    /\ WF_vars(RunEnds)
    /\ SF_vars(AskUndeploy)
    /\ WF_vars(Read \/ Check \/ TakeDown \/ Remove)

FairSpec == Spec /\ Fairness

-----------------------------------------------------------------------------
(* Safety *)

\* Whatever fails or is killed, containers of the deployment never run without a
\* record that names their project, so undeploy can find them (deploy, 323-344
\* and 390-415; undeploy, 466-482).
ContainersAreRecorded ==
    \A g \in Groups : up[g] # None => HasRecord /\ g <= record.projects

\* The record and Docker fit together.
DeploymentInv == TypeOK /\ ContainersAreRecorded

\* An undeploy that finds a recorded container replaced takes nothing down, not
\* even the projects it still owns (undeploy, 471-479).
ReplacedIsLeftAlone == upc = "down" => ~replaced

\* Combinations start only on containers that are the recorded ones and hold a
\* complete baseline, and no command changes the record or takes a project down
\* while they run (run_deployment, 36-40; status, 432-463).  One case is left
\* out: deploy holds no lock, and when a signal reaches it after it has saved the
\* ready record it rolls back under a run that has begun meanwhile.
RunsOnPrepared ==
    [][ /\ rpc # "running" /\ rpc' = "running" =>
              \A g \in Groups : up[g] # None /\ up[g] = record.ids[g] /\ vol[g] \in Builders
        /\ rpc = "running" /\ rpc' = "running" /\ dpc # "rollback" =>
              /\ record.ready => UNCHANGED record
              /\ \A g \in Groups : up'[g] = None => up[g] = None
      ]_vars

\* Once a golden volume would be accepted for reuse, no step of any builder
\* changes it again, whoever was killed and whatever helper is still copying
\* (_golden_after_seed, 259-270; claim_golden; classify_volume).
SealedIsKept == [][Ready(golden.marker, golden.data) => golden' = golden]_vars

\* Once attempts to undeploy stop failing at what they call, asking again comes
\* to an end: what earlier attempts took down already does not block it, unless
\* removing the files failed half-way or containers were recreated from outside
\* (undeploy, 474-476; deploy, 397-411).
RetriesFinish ==
    <>[][~UndeployFails]_vars =>
        (HasRecord ~> (~HasRecord \/ dir = "torn" \/ foreign > 0))
=============================================================================
