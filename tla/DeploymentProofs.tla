--------------------------- MODULE DeploymentProofs ---------------------------
(***************************************************************************)
(* Machine-checked proofs about the deployments of module Deployment, for  *)
(* any number of projects, deploys, recreated containers and rival builds. *)
(*                                                                         *)
(* The golden volume: whoever is past "claim" owns the lock container, so the   *)
(* two builders are never past it together; whoever is past "look" is the  *)
(* one that creates the volume, so a volume that exists, even half-copied  *)
(* by a helper whose process is gone, is never written by a later builder; *)
(* and the marker is written last, when no helper is at work.              *)
(*                                                                         *)
(* The record and the containers, while deploy and undeploy do not         *)
(* overlap: a deploy that is under way has the directory to itself, so the *)
(* record names what is started, and the project that is started next, at  *)
(* every step; containers are only created for a project recorded without  *)
(* any, so that a recorded identity that does not fit was replaced from    *)
(* outside and stays replaced; and what undeploy has read is still the     *)
(* record when it acts on it.                                              *)
(***************************************************************************)
EXTENDS Deployment, TLAPS

Copying == {"check", "copy", "copying", "compare", "seal"}
Inside == {"create", "classify", "release"} \cup Copying
Owning == {"look"} \cup Inside

\* The lock container belongs to whoever is past claim_golden.
ClaimInv == \A b \in Builders : gpc[b] \in Owning => claim = b

\* The volume is created by the builder that found none, and by no other.
CreateInv ==
    /\ \A b \in Builders : gpc[b] = "create" => golden.data = "absent"
    /\ golden.data = "absent" =>
          /\ golden.marker = "none"
          /\ helpers = {}
          /\ \A b \in Builders : gpc[b] \notin Inside \ {"create"}

\* A helper left behind, and a marker, both keep later builders out.
SealInv ==
    /\ helpers # {} => \A b \in Builders : gpc[b] \notin Inside
    /\ golden.marker # "none" =>
          helpers = {} /\ \A b \in Builders : gpc[b] \notin Copying

GoldenInv == GoldenTypeOK /\ ClaimInv /\ CreateInv /\ SealInv

\* A step that leaves the volume, the lock and the helpers alone; at most it begins
\* or ends the work of a builder.
Elsewhere ==
    /\ UNCHANGED <<golden, claim, helpers, rivals>>
    /\ \E b \in Builders, to \in {"idle", "claim"} : gpc' \in {gpc, [gpc EXCEPT ![b] = to]}

AtGolden ==
    \/ \E b \in Builders : BuildStep(b) \/ BuildFails(b) \/ BuildDies(b) \/ HelperEnds(b)
    \/ RivalBuilds \/ Unclaim

-----------------------------------------------------------------------------
LEMMA InitGolden == Init => GoldenInv
  BY DeploymentAssumption
     DEF Init, GoldenInit, GoldenInv, GoldenTypeOK, ClaimInv, CreateInv, SealInv, Builders, Data,
         Owning, Inside, Copying, BuildSteps

\* Every step of the deployment is one of the golden volume's, or none of its business.
LEMMA StepsOfGolden == [Next]_vars => AtGolden \/ Elsewhere
<1> SUFFICES ASSUME [Next]_vars PROVE AtGolden \/ Elsewhere
  OBVIOUS
<1>a. "ours" \in Builders /\ "theirs" \in Builders
  BY DEF Builders
<1>1. ASSUME UNCHANGED goldens PROVE Elsewhere
  BY <1>1, <1>a DEF Elsewhere, goldens
<1>2. CASE SealStep
  BY <1>2, <1>a DEF SealStep, AtGolden
<1>3. CASE Restart
  BY <1>3, <1>a DEF Restart, Elsewhere
<1>4. CASE FinalizeBaseline
  BY <1>4, <1>a DEF FinalizeBaseline, Elsewhere
<1>5. CASE DeployDies
  BY <1>5, <1>1, <1>a DEF DeployDies, AtGolden
<1>6. CASE Others
  <2>1. CASE RivalEnds
    BY <2>1, <1>a DEF RivalEnds, Elsewhere
  <2> QED
    BY <1>6, <2>1, <1>a DEF Others, Rival, AtGolden
<1>7. CASE Create \/ Record \/ Up \/ Verify \/ Prepare \/ Save \/ Finish \/ Rollback
          \/ AfterRollback
  BY <1>7, <1>1 DEF Create, Record, Up, Verify, Prepare, Save, Finish, Rollback, AfterRollback
<1>8. CASE BeforeDeploy
  BY <1>8, <1>1
     DEF BeforeDeploy, LookBefore, ReadEntries, ReadDigest, CreateRuntime, CloneStarts, CloneEnds,
         CheckClone, CloneFails
<1>9. CASE Undeploy \/ UndeployFails
  BY <1>9, <1>1 DEF Undeploy, UndeployFails, AskUndeploy, Read, Check, TakeDown, Remove
<1>10. CASE AskRun \/ StartRuns \/ RunEnds \/ \E g \in Groups : Recreate(g)
  BY <1>10, <1>1 DEF AskRun, StartRuns, RunEnds, Recreate
<1>11. CASE UNCHANGED vars
  BY <1>11, <1>1 DEF vars
<1> QED
  BY <1>2, <1>3, <1>4, <1>5, <1>6, <1>7, <1>8, <1>9, <1>10, <1>11 DEF Next, Deploy

LEMMA ElsewhereKeeps == GoldenInv /\ Elsewhere => GoldenInv'
  BY DEF Elsewhere, GoldenInv, GoldenTypeOK, ClaimInv, CreateInv, SealInv, Builders, Data,
         Owning, Inside, Copying, BuildSteps

-----------------------------------------------------------------------------
LEMMA BuildStepKeeps ==
    ASSUME GoldenInv, NEW b \in Builders, BuildStep(b)
    PROVE  GoldenInv'
<1> USE DEF GoldenInv, GoldenTypeOK, ClaimInv, CreateInv, SealInv, Builders, Data, Owning, Inside,
            Copying, BuildSteps, At
<1>1. CASE Claim(b)
  BY <1>1 DEF Claim
<1>2. CASE Look(b)
  BY <1>2 DEF Look
<1>3. CASE CreateGolden(b)
  BY <1>3 DEF CreateGolden
<1>4. CASE CheckEmpty(b)
  BY <1>4 DEF CheckEmpty
<1>5. CASE CopyStarts(b)
  BY <1>5 DEF CopyStarts
<1>6. CASE CopyEnds(b)
  BY <1>6 DEF CopyEnds, Copied
<1>7. CASE Compare(b)
  BY <1>7 DEF Compare
<1>8. CASE Seal(b)
  BY <1>8 DEF Seal
<1>9. CASE Classify(b)
  BY <1>9 DEF Classify
<1>10. CASE Release(b)
  BY <1>10 DEF Release
<1> QED
  BY <1>1, <1>2, <1>3, <1>4, <1>5, <1>6, <1>7, <1>8, <1>9, <1>10 DEF BuildStep

LEMMA CutShortKeeps ==
    ASSUME GoldenInv, NEW b \in Builders, BuildFails(b) \/ BuildDies(b)
    PROVE  GoldenInv'
<1> USE DEF GoldenInv, GoldenTypeOK, ClaimInv, CreateInv, SealInv, Builders, Data, Owning, Inside,
            Copying, BuildSteps, CutShort
<1>1. CASE BuildFails(b)
  BY <1>1 DEF BuildFails
<1>2. CASE BuildDies(b)
  BY <1>2 DEF BuildDies
<1> QED
  BY <1>1, <1>2

LEMMA HelperKeeps ==
    ASSUME GoldenInv, NEW b \in Builders, HelperEnds(b)
    PROVE  GoldenInv'
  BY DEF GoldenInv, GoldenTypeOK, ClaimInv, CreateInv, SealInv, Builders, Data, Owning, Inside,
         Copying, BuildSteps, HelperEnds, Copied

LEMMA RivalKeeps == GoldenInv /\ (RivalBuilds \/ Unclaim) => GoldenInv'
<1> SUFFICES ASSUME GoldenInv, RivalBuilds \/ Unclaim PROVE GoldenInv'
  OBVIOUS
<1> USE DEF GoldenInv, GoldenTypeOK, ClaimInv, CreateInv, SealInv, Builders, Data, Owning, Inside,
            Copying, BuildSteps
<1>1. CASE RivalBuilds
  <2>1. rivals' \in 0..MaxRivals
    BY <1>1, DeploymentAssumption DEF RivalBuilds
  <2> QED
    BY <1>1, <2>1 DEF RivalBuilds, At
<1>2. CASE Unclaim
  BY <1>2 DEF Unclaim
<1> QED
  BY <1>1, <1>2

-----------------------------------------------------------------------------
\* The inductive invariant of the golden volume holds in every reachable state,
\* whatever deploy, undeploy, a run and the other deployment do.
THEOREM GoldenInvariance == Spec => []GoldenInv
<1>1. GoldenInv /\ [Next]_vars => GoldenInv'
  BY StepsOfGolden, ElsewhereKeeps, BuildStepKeeps, CutShortKeeps, HelperKeeps, RivalKeeps
     DEF AtGolden
<1> QED
  BY InitGolden, <1>1, PTL DEF Spec

\* Once a golden volume would be accepted for reuse no step changes it, for any
\* number of projects, deploys and rival builds (_golden_after_seed, 259-269).
THEOREM SealStays == Spec => SealedIsKept
<1>1. GoldenInv /\ [Next]_vars => [Ready(golden.marker, golden.data) => golden' = golden]_vars
  <2> SUFFICES ASSUME GoldenInv, [Next]_vars, Ready(golden.marker, golden.data)
               PROVE  golden' = golden
    OBVIOUS
  <2>1. golden.marker # "none"
    BY DEF Ready, Data, Builders
  <2>2. helpers = {} /\ \A b \in Builders : gpc[b] \notin Copying
    BY <2>1 DEF GoldenInv, SealInv
  <2>3. golden.data # "absent"
    BY DEF Ready
  <2>4. CASE Elsewhere
    BY <2>4 DEF Elsewhere
  <2>5. ASSUME NEW b \in Builders, BuildStep(b) PROVE golden' = golden
    BY <2>2, <2>3, <2>5
       DEF BuildStep, Claim, Look, CreateGolden, CheckEmpty, CopyStarts, CopyEnds, Compare, Seal,
           Classify, Release, At, Copying, GoldenInv, CreateInv
  <2>6. ASSUME NEW b \in Builders, BuildFails(b) \/ BuildDies(b) PROVE golden' = golden
    BY <2>2, <2>6 DEF BuildFails, BuildDies, CutShort, Copying
  <2>7. ASSUME NEW b \in Builders, HelperEnds(b) PROVE golden' = golden
    BY <2>2, <2>7 DEF HelperEnds
  <2>8. CASE RivalBuilds \/ Unclaim
    BY <2>8 DEF RivalBuilds, Unclaim
  <2> QED
    BY <2>4, <2>5, <2>6, <2>7, <2>8, StepsOfGolden DEF AtGolden
<1> QED
  BY GoldenInvariance, <1>1, PTL DEF Spec, SealedIsKept
-----------------------------------------------------------------------------
(* The record, the containers and the volumes *)

Preparing == {"look", "entries", "digest", "attached", "clone", "cloning", "cloned", "up"}
Running == {"verify", "prepare", "finalize", "seal", "save"}
Walking == {"record", "finish"} \cup Preparing \cup Running

\* Deploy and undeploy have the directory to themselves, and a record its directory.
AloneInv ==
    /\ dpc # "idle" => upc = "idle" /\ dir = "whole"
    /\ dir = "none" => record = NoRecord

\* Where deploy is, how many projects it has named, and how many it has started.
ProgressInv ==
    /\ dpc = "record" => mem.projects = dg - 1 /\ started = dg - 1
    /\ dpc \in Preparing => mem.projects = dg /\ started = dg - 1
    /\ dpc \in Running => mem.projects = dg /\ started = dg
    /\ dpc = "finish" => mem.projects = NumGroups /\ started = NumGroups /\ dg = NumGroups
    /\ dpc \in Walking => record.projects = mem.projects /\ ~mem.ready

\* What runs is recorded, and while deploy is under way it is also named in memory
\* and left to be rolled back.
RunningInv ==
    \A g \in Groups : up[g] # None =>
        /\ g <= record.projects
        /\ dpc # "idle" => g <= mem.projects /\ (g <= started \/ (dpc = "rollback" /\ failed))
        /\ upc = "down" => g <= ug

\* Recorded containers are gone, still there, or replaced from outside.
Fits(state) ==
    \A g \in Groups : state.ids[g] # None => up[g] \in {None, Foreign, state.ids[g]}

\* A project is recorded without containers until they have been looked at.
IdsInv ==
    /\ Fits(record)
    /\ dpc # "idle" => Fits(mem)
    /\ dpc \in Walking =>
          \A g \in Groups : g > started => record.ids[g] = None /\ mem.ids[g] = None

\* What undeploy has read is the record, and a replaced container stays ahead of it.
UndeployInv ==
    /\ upc \in {"check", "down"} => read = record
    /\ upc = "down" => ~replaced
    /\ upc = "check" /\ replaced =>
          \E g \in Groups : /\ ug <= g /\ g <= read.projects
                            /\ read.ids[g] \notin {None, Foreign} /\ up[g] = Foreign

\* A marker that parses names a complete baseline.
MarkerInv ==
    /\ golden.marker \in {"none", "torn"} \cup Builders
    /\ marker \in {"none"} \cup Builders

\* The volumes of the projects behind deploy are complete, and so is the one it is
\* at once a copy was checked or the baseline finished.
VolumeInv ==
    /\ dpc \in Walking => \A g \in Groups : g < dg => vol[g] \in Builders
    /\ dpc \in {"seal", "save", "finish"} => vol[dg] \in Builders
    /\ dpc \in {"up", "verify", "prepare"} /\ Reuses => vol[dg] \in Builders

\* A record says ready of all projects, and of complete baselines only.
ReadyInv ==
    record.ready =>
        /\ record.projects = NumGroups
        /\ dpc \in {"idle", "rollback"}
        /\ \A g \in Groups : up[g] # None => vol[g] \in Builders

RecordInv ==
    /\ TypeOK /\ AloneInv /\ ProgressInv /\ RunningInv /\ IdsInv /\ UndeployInv
    /\ MarkerInv /\ VolumeInv /\ ReadyInv

-----------------------------------------------------------------------------
LEMMA InitRecord == Init => RecordInv
<1> SUFFICES ASSUME Init PROVE RecordInv
  OBVIOUS
<1>1. NoRecord \in States /\ NoRecord.projects = 0 /\ NoRecord.ready = FALSE
      /\ \A g \in Groups : NoRecord.ids[g] = None
  BY DeploymentAssumption DEF NoRecord, States, Containers, Identities, None
<1>2. GoldenTypeOK
  BY InitGolden DEF GoldenInv
<1>3. up \in [Groups -> Containers] /\ vol \in [Groups -> Data]
  BY DeploymentAssumption DEF Init, Containers, Identities, None, Data
<1>4. dg \in Groups /\ deploys \in 0..MaxDeploys /\ foreign \in 0..MaxForeign
      /\ started \in 0..NumGroups /\ ug \in 0..(NumGroups + 1)
  BY DeploymentAssumption DEF Init, Groups
<1>5. TypeOK
  BY <1>1, <1>2, <1>3, <1>4 DEF Init, TypeOK
<1> QED
  BY <1>1, <1>5, DeploymentAssumption
     DEF Init, GoldenInit, RecordInv, AloneInv, ProgressInv, RunningInv, IdsInv, Fits, UndeployInv,
         MarkerInv, VolumeInv, ReadyInv, Walking, Preparing, Running, Groups

\* What the updates that deploy makes to its DeploymentState change, and what they do not.
LEMMA Naming ==
    ASSUME NEW s \in States, NEW g \in Groups
    PROVE  LET named == [s EXCEPT !.projects = g] IN
           named \in States /\ named.projects = g /\ named.ids = s.ids /\ named.ready = s.ready
  BY DeploymentAssumption DEF States, Groups

LEMMA Seeing ==
    ASSUME NEW s \in States, NEW g \in Groups, NEW c \in Containers
    PROVE  LET seen == [s EXCEPT !.ids[g] = c] IN
           /\ seen \in States /\ seen.projects = s.projects /\ seen.ready = s.ready
           /\ seen.ids = [s.ids EXCEPT ![g] = c]
<1>1. [s EXCEPT !.ids[g] = c] = [s EXCEPT !.ids = [s.ids EXCEPT ![g] = c]]
  BY DEF States
<1>2. s.ids \in [Groups -> Containers]
  BY DEF States
<1>3. [s.ids EXCEPT ![g] = c] \in [Groups -> Containers]
  BY <1>2
<1> QED
  BY <1>1, <1>3 DEF States

LEMMA Knowing ==
    ASSUME NEW s \in States, NEW r \in BOOLEAN
    PROVE  LET known == [s EXCEPT !.ready = r] IN
           known \in States /\ known.projects = s.projects /\ known.ids = s.ids /\ known.ready = r
  BY DEF States

-----------------------------------------------------------------------------
(* What each action of deploy, undeploy, a run and the outside world keeps *)

LEMMA CreateKeeps ==
    ASSUME ~Overlap, RecordInv, GoldenTypeOK', Create
    PROVE  RecordInv'
<1> USE DeploymentAssumption DEF RecordInv, Create, docker, cloning, undeployer, goldens
<1>0. NoRecord \in States /\ NoRecord.projects = 0 /\ NoRecord.ready = FALSE
      /\ \A g \in Groups : NoRecord.ids[g] = None
  BY DEF NoRecord, States, Containers, Identities, None
<1>1. TypeOK'
  <2>1. record' \in States /\ mem' \in States /\ read' \in States
    BY <1>0 DEF TypeOK, States, Groups
  <2>2. /\ dg' \in Groups /\ started' \in 0..NumGroups /\ deploys' \in 0..MaxDeploys
       /\ ug' \in 0..(NumGroups + 1) /\ foreign' \in 0..MaxForeign
    BY <1>0 DEF TypeOK, States, Groups
  <2> QED
    BY <1>0, <2>1, <2>2 DEF TypeOK
<1>2. AloneInv'
  BY DEF AloneInv
<1>3. ProgressInv'
  BY <1>0 DEF ProgressInv, AloneInv, Preparing, Running
<1>4. RunningInv'
  BY <1>0 DEF RunningInv, AloneInv
<1>5. IdsInv'
  BY <1>0 DEF IdsInv, Fits, AloneInv
<1>6. VolumeInv'
  BY <1>0 DEF VolumeInv, Groups
<1>7. ReadyInv'
  BY <1>0 DEF ReadyInv, AloneInv
<1>8. UndeployInv' /\ MarkerInv'
  BY DEF UndeployInv, MarkerInv
<1> QED
  BY <1>1, <1>2, <1>3, <1>4, <1>5, <1>6, <1>7, <1>8

LEMMA RecordKeeps ==
    ASSUME ~Overlap, RecordInv, GoldenTypeOK', Record
    PROVE  RecordInv'
<1> USE DeploymentAssumption DEF RecordInv, Record, Saves, SaveRaises, docker, cloning,
        undeployer, goldens, AfterRecord
<1>0. /\ mem \in States /\ dg \in Groups
      /\ LET named == [mem EXCEPT !.projects = dg] IN
         named \in States /\ named.projects = dg /\ named.ids = mem.ids /\ named.ready = mem.ready
  <2>1. mem \in States /\ dg \in Groups
    BY DEF TypeOK
  <2> QED
    BY <2>1, Naming
<1>1. TypeOK'
  BY <1>0 DEF TypeOK
<1>2. AloneInv'
  BY DEF AloneInv
<1>3. ProgressInv'
  BY <1>0 DEF ProgressInv, Walking, Preparing, Running
<1>4. RunningInv'
  BY <1>0 DEF RunningInv, ProgressInv, States, Groups
<1>5. IdsInv'
  BY <1>0 DEF IdsInv, Fits, Walking
<1>6. UndeployInv'
  BY <1>0 DEF UndeployInv, AloneInv
<1>7. VolumeInv'
  BY <1>0 DEF VolumeInv, Reuses, Walking
<1>8. ReadyInv'
  BY <1>0 DEF ReadyInv, ProgressInv, Walking
<1>9. MarkerInv'
  BY DEF MarkerInv
<1> QED
  BY <1>1, <1>2, <1>3, <1>4, <1>5, <1>6, <1>7, <1>8, <1>9

LEMMA LookKeeps ==
    ASSUME ~Overlap, RecordInv, GoldenTypeOK', LookBefore
    PROVE  RecordInv'
<1> USE DeploymentAssumption DEF RecordInv, LookBefore, store, docker, cloning, undeployer,
        goldens
<1>1. TypeOK'
  BY DEF TypeOK
<1>2. AloneInv'
  BY DEF AloneInv
<1>3. ProgressInv'
  BY DEF ProgressInv, Walking, Preparing, Running
<1>4. RunningInv'
  BY DEF RunningInv
<1>5. IdsInv'
  BY DEF IdsInv, Fits, Walking, Preparing
<1>6. VolumeInv'
  BY DEF VolumeInv, Reuses, Walking, Preparing
<1>7. ReadyInv'
  BY DEF ReadyInv
<1>8. UndeployInv' /\ MarkerInv'
  BY DEF UndeployInv, MarkerInv
<1> QED
  BY <1>1, <1>2, <1>3, <1>4, <1>5, <1>6, <1>7, <1>8

LEMMA EntriesKeeps ==
    ASSUME ~Overlap, RecordInv, GoldenTypeOK', ReadEntries \/ ReadDigest
    PROVE  RecordInv'
<1> USE DeploymentAssumption DEF RecordInv, ReadEntries, ReadDigest, store, docker, cloning,
        undeployer, goldens
<1>1. TypeOK'
  BY DEF TypeOK, GoldenTypeOK
<1>2. AloneInv'
  BY DEF AloneInv
<1>3. ProgressInv'
  BY DEF ProgressInv, Walking, Preparing, Running
<1>4. RunningInv'
  BY DEF RunningInv
<1>5. IdsInv'
  BY DEF IdsInv, Fits, Walking, Preparing
<1>6. MarkerInv'
  BY DEF MarkerInv
<1>7. VolumeInv'
  BY DEF VolumeInv, Walking, Preparing
<1>8. ReadyInv'
  BY DEF ReadyInv
<1>9. UndeployInv'
  BY DEF UndeployInv
<1> QED
  BY <1>1, <1>2, <1>3, <1>4, <1>5, <1>6, <1>7, <1>8, <1>9

LEMMA CloneKeeps ==
    ASSUME ~Overlap, RecordInv, GoldenTypeOK', CreateRuntime \/ CloneStarts \/ CloneEnds
    PROVE  RecordInv'
<1> USE DeploymentAssumption DEF RecordInv, CreateRuntime, CloneStarts, CloneEnds, store, docker,
        cloning, undeployer, goldens
<1>1. TypeOK'
  BY DEF TypeOK, Data, GoldenTypeOK
<1>2. AloneInv'
  BY DEF AloneInv
<1>3. ProgressInv'
  BY DEF ProgressInv, Walking, Preparing, Running
<1>4. RunningInv'
  BY DEF RunningInv
<1>5. IdsInv'
  BY DEF IdsInv, Fits, Walking, Preparing
<1>6. VolumeInv'
  BY DEF VolumeInv, TypeOK, Groups, Walking, Preparing
<1>7. ReadyInv'
  BY DEF ReadyInv
<1>8. UndeployInv' /\ MarkerInv'
  BY DEF UndeployInv, MarkerInv
<1> QED
  BY <1>1, <1>2, <1>3, <1>4, <1>5, <1>6, <1>7, <1>8

LEMMA CheckCloneKeeps ==
    ASSUME ~Overlap, RecordInv, GoldenTypeOK', CheckClone
    PROVE  RecordInv'
<1> USE DeploymentAssumption DEF RecordInv, CheckClone, store, docker, cloning, undeployer,
        goldens
<1>1. TypeOK'
  BY DEF TypeOK
<1>2. AloneInv'
  BY DEF AloneInv
<1>3. ProgressInv'
  BY DEF ProgressInv, Walking, Preparing, Running
<1>4. RunningInv'
  BY DEF RunningInv
<1>5. IdsInv'
  BY DEF IdsInv, Fits, Walking, Preparing
<1>6. VolumeInv'
  <2>1. vol[dg] \in Builders
    BY DEF Ready, MarkerInv, Data
  <2>2. \A g \in Groups : g < dg => vol[g] \in Builders
    BY DEF VolumeInv, Walking, Preparing
  <2>3. ~record.ready
    BY DEF ReadyInv
  <2> QED
    BY <2>1, <2>2, <2>3 DEF VolumeInv, ReadyInv, Reuses
<1>7. ReadyInv'
  BY DEF ReadyInv
<1>8. UndeployInv' /\ MarkerInv'
  BY DEF UndeployInv, MarkerInv
<1> QED
  BY <1>1, <1>2, <1>3, <1>4, <1>5, <1>6, <1>7, <1>8

LEMMA CloneFailsKeeps ==
    ASSUME ~Overlap, RecordInv, GoldenTypeOK', CloneFails
    PROVE  RecordInv'
<1> USE DeploymentAssumption DEF RecordInv, CloneFails, store, docker, cloning, undeployer,
        goldens
<1>1. TypeOK'
  BY DEF TypeOK, Data
<1>2. AloneInv'
  BY DEF AloneInv
<1>3. ProgressInv'
  BY DEF ProgressInv, Walking, Preparing, Running
<1>4. RunningInv'
  BY DEF RunningInv
<1>5. IdsInv'
  BY DEF IdsInv, Fits, Walking, Preparing
<1>6. VolumeInv'
  BY DEF VolumeInv, Walking, Preparing, Running
<1>7. ReadyInv'
  BY DEF ReadyInv
<1>8. UndeployInv' /\ MarkerInv'
  BY DEF UndeployInv, MarkerInv
<1> QED
  BY <1>1, <1>2, <1>3, <1>4, <1>5, <1>6, <1>7, <1>8

LEMMA UpKeeps ==
    ASSUME ~Overlap, RecordInv, GoldenTypeOK', Up
    PROVE  RecordInv'
<1> USE DeploymentAssumption DEF RecordInv, Up, Starts, store, docker, cloning, undeployer,
        goldens
<1>1. TypeOK'
  <2>1. up' \in [Groups -> Containers] /\ vol' \in [Groups -> Data]
    BY DEF TypeOK, Containers, Identities, Data
  <2>2. /\ dg' \in Groups /\ started' \in 0..NumGroups /\ deploys' \in 0..MaxDeploys
       /\ ug' \in 0..(NumGroups + 1) /\ foreign' \in 0..MaxForeign
    BY DEF TypeOK, States, Groups
  <2> QED
    BY <2>1, <2>2 DEF TypeOK
<1>2. AloneInv'
  BY DEF AloneInv
<1>3. ProgressInv'
  BY DEF ProgressInv, Walking, Preparing, Running
<1>4. RunningInv'
  BY DEF RunningInv, TypeOK, AloneInv, ProgressInv, States, Walking, Preparing
<1>5. IdsInv'
  <2>1. /\ \A g \in Groups \ {dg} : up'[g] = up[g]
        /\ dpc = "up" /\ started' \in {started, dg} /\ started = dg - 1
        /\ record.ids[dg] = None /\ mem.ids[dg] = None
    BY DEF TypeOK, ProgressInv, IdsInv, Walking, Preparing, Groups
  <2>2. UNCHANGED <<record, mem>> /\ dpc' \in {"verify", "rollback"}
    OBVIOUS
  <2>3. IdsInv /\ started \in Int /\ dg \in Int
    BY DEF TypeOK, Groups
  <2> HIDE DEF RecordInv, Up, Starts, store, docker, cloning, undeployer, goldens
  <2>4. Fits(record)'
    BY <2>1, <2>2, <2>3 DEF IdsInv, Fits
  <2>5. Fits(mem)'
    BY <2>1, <2>2, <2>3 DEF IdsInv, Fits
  <2>6. \A g \in Groups : g > started' => record'.ids[g] = None /\ mem'.ids[g] = None
    BY <2>1, <2>2, <2>3 DEF IdsInv, Walking, Preparing, Groups
  <2> QED
    BY <2>4, <2>5, <2>6 DEF IdsInv
<1>6. UndeployInv'
  BY DEF UndeployInv, AloneInv
<1>7. VolumeInv'
  BY DEF VolumeInv, Reuses, TypeOK, Builders, Walking, Preparing
<1>8. ReadyInv'
  BY DEF ReadyInv
<1>9. MarkerInv'
  BY DEF MarkerInv
<1> QED
  BY <1>1, <1>2, <1>3, <1>4, <1>5, <1>6, <1>7, <1>8, <1>9

LEMMA VerifyKeeps ==
    ASSUME ~Overlap, RecordInv, GoldenTypeOK', Verify
    PROVE  RecordInv'
<1> USE DeploymentAssumption DEF RecordInv, Verify, store, docker, cloning, undeployer, goldens
<1>0. /\ mem \in States /\ dg \in Groups /\ up[dg] \in Containers
      /\ mem.ids \in [Groups -> Containers]
      /\ LET seen == [mem EXCEPT !.ids[dg] = up[dg]] IN
         /\ seen \in States /\ seen.projects = mem.projects /\ seen.ready = mem.ready
         /\ seen.ids = [mem.ids EXCEPT ![dg] = up[dg]]
  <2>1. /\ mem \in States /\ dg \in Groups /\ up[dg] \in Containers
        /\ mem.ids \in [Groups -> Containers]
    BY DEF TypeOK, States
  <2> QED
    BY <2>1, Seeing
<1>1. TypeOK'
  BY <1>0 DEF TypeOK
<1>2. AloneInv'
  BY DEF AloneInv
<1>3. ProgressInv'
  BY <1>0 DEF ProgressInv, Walking, Preparing, Running
<1>4. RunningInv'
  BY <1>0 DEF RunningInv
<1>5. IdsInv'
  <2>1. /\ \A g \in Groups : mem'.ids[g] = mem.ids[g] \/ (g = dg /\ mem'.ids[g] = up[g])
        /\ UNCHANGED <<record, up, started>>
        /\ dpc = "verify" /\ started = dg
    BY <1>0 DEF ProgressInv, Running
  <2> QED
    BY <2>1 DEF TypeOK, IdsInv, Fits, Walking, Running
<1>6. VolumeInv'
  BY <1>0 DEF VolumeInv, Reuses, Walking, Running
<1>7. ReadyInv'
  BY DEF ReadyInv
<1>8. UndeployInv' /\ MarkerInv'
  BY DEF UndeployInv, MarkerInv
<1> QED
  BY <1>1, <1>2, <1>3, <1>4, <1>5, <1>6, <1>7, <1>8

LEMMA PrepareKeeps ==
    ASSUME ~Overlap, RecordInv, GoldenTypeOK', Prepare
    PROVE  RecordInv'
<1> USE DeploymentAssumption DEF RecordInv, Prepare, Builds, Reuses, store, docker, cloning,
        undeployer, goldens
<1>1. TypeOK'
  BY DEF TypeOK, Data, Builders
<1>2. AloneInv'
  BY DEF AloneInv
<1>3. ProgressInv'
  BY DEF ProgressInv, Walking, Preparing, Running
<1>4. RunningInv'
  BY DEF RunningInv
<1>5. IdsInv'
  BY DEF IdsInv, Fits, Walking, Running
<1>6. VolumeInv'
  BY DEF VolumeInv, TypeOK, ProgressInv, Builders, Walking, Running
<1>7. ReadyInv'
  BY DEF ReadyInv
<1>8. UndeployInv' /\ MarkerInv'
  BY DEF UndeployInv, MarkerInv
<1> QED
  BY <1>1, <1>2, <1>3, <1>4, <1>5, <1>6, <1>7, <1>8

LEMMA FinalizeKeeps ==
    ASSUME ~Overlap, RecordInv, GoldenTypeOK', FinalizeBaseline
    PROVE  RecordInv'
<1> USE DeploymentAssumption DEF RecordInv, FinalizeBaseline, store, docker, cloning, undeployer,
        goldens
<1>1. TypeOK'
  BY DEF TypeOK, Data, Builders
<1>2. AloneInv'
  BY DEF AloneInv
<1>3. ProgressInv'
  BY DEF ProgressInv, Walking, Preparing, Running
<1>4. RunningInv'
  BY DEF RunningInv
<1>5. IdsInv'
  BY DEF IdsInv, Fits, Walking, Running
<1>6. VolumeInv'
  BY DEF VolumeInv, TypeOK, Builders, Walking, Running
<1>7. ReadyInv'
  BY DEF ReadyInv
<1>8. UndeployInv' /\ MarkerInv'
  BY DEF UndeployInv, MarkerInv
<1> QED
  BY <1>1, <1>2, <1>3, <1>4, <1>5, <1>6, <1>7, <1>8

LEMMA RestartKeeps ==
    ASSUME ~Overlap, RecordInv, GoldenTypeOK', Restart
    PROVE  RecordInv'
<1> USE DeploymentAssumption DEF RecordInv, Restart, store, docker, cloning, undeployer, goldens
<1>1. TypeOK'
  BY DEF TypeOK
<1>2. AloneInv'
  BY DEF AloneInv
<1>3. ProgressInv'
  BY DEF ProgressInv, Walking, Preparing, Running
<1>4. RunningInv'
  BY DEF RunningInv
<1>5. IdsInv'
  BY DEF IdsInv, Fits, Walking, Running
<1>6. VolumeInv'
  BY DEF VolumeInv, Walking, Running
<1>7. ReadyInv'
  BY DEF ReadyInv
<1>8. UndeployInv' /\ MarkerInv'
  BY DEF UndeployInv, MarkerInv
<1> QED
  BY <1>1, <1>2, <1>3, <1>4, <1>5, <1>6, <1>7, <1>8

LEMMA SaveKeeps ==
    ASSUME ~Overlap, RecordInv, GoldenTypeOK', Save
    PROVE  RecordInv'
<1> USE DeploymentAssumption DEF RecordInv, Save, Saves, SaveRaises, docker, cloning, undeployer,
        goldens
<1>1. TypeOK'
  BY DEF TypeOK, Groups
<1>2. AloneInv'
  BY DEF AloneInv
<1>3. ProgressInv'
  BY DEF ProgressInv, TypeOK, Walking, Preparing, Running
<1>4. RunningInv'
  BY DEF RunningInv
<1>5. IdsInv'
  BY DEF IdsInv, Fits, Walking, Running
<1>6. UndeployInv'
  BY DEF UndeployInv, AloneInv
<1>7. VolumeInv'
  BY DEF VolumeInv, TypeOK, Groups, Walking, Running
<1>8. ReadyInv'
  BY DEF ReadyInv, ProgressInv, Walking, Running
<1>9. MarkerInv'
  BY DEF MarkerInv
<1> QED
  BY <1>1, <1>2, <1>3, <1>4, <1>5, <1>6, <1>7, <1>8, <1>9

LEMMA FinishKeeps ==
    ASSUME ~Overlap, RecordInv, GoldenTypeOK', Finish
    PROVE  RecordInv'
<1> USE DeploymentAssumption DEF RecordInv, Finish, Saves, SaveRaises, docker, cloning,
        undeployer, goldens
<1>0. /\ mem \in States /\ dg \in Groups
      /\ \A r \in BOOLEAN :
            LET known == [mem EXCEPT !.ready = r] IN
            known \in States /\ known.projects = mem.projects /\ known.ids = mem.ids
            /\ known.ready = r
  <2>1. mem \in States /\ dg \in Groups
    BY DEF TypeOK
  <2> QED
    BY <2>1, Knowing
<1>1. TypeOK'
  BY <1>0 DEF TypeOK
<1>2. AloneInv'
  BY DEF AloneInv
<1>3. ProgressInv'
  BY <1>0 DEF ProgressInv, Walking, Preparing, Running
<1>4. RunningInv'
  BY <1>0 DEF RunningInv
<1>5. IdsInv'
  BY <1>0 DEF IdsInv, Fits, Walking
<1>6. UndeployInv'
  BY <1>0 DEF UndeployInv, AloneInv
<1>7. VolumeInv'
  BY <1>0 DEF VolumeInv, Walking
<1>8. ReadyInv'
  BY <1>0 DEF ReadyInv, ProgressInv, VolumeInv, States, Groups, Walking
<1>9. MarkerInv'
  BY DEF MarkerInv
<1> QED
  BY <1>1, <1>2, <1>3, <1>4, <1>5, <1>6, <1>7, <1>8, <1>9

LEMMA RollbackKeeps ==
    ASSUME ~Overlap, RecordInv, GoldenTypeOK', Rollback
    PROVE  RecordInv'
<1> USE DeploymentAssumption DEF RecordInv, Rollback, LeftToRollBack, Down, DownRaises, store,
        docker, cloning, undeployer, goldens
<1>1. TypeOK'
  <2>1. up' \in [Groups -> Containers] /\ vol' \in [Groups -> Data]
    BY DEF TypeOK, Containers, Identities, None, Data
  <2>2. /\ dg' \in Groups /\ started' \in 0..NumGroups /\ deploys' \in 0..MaxDeploys
       /\ ug' \in 0..(NumGroups + 1) /\ foreign' \in 0..MaxForeign
    BY DEF TypeOK, States, Groups
  <2> QED
    BY <2>1, <2>2 DEF TypeOK
<1>2. ProgressInv'
  BY DEF ProgressInv, Preparing, Running
<1>3. RunningInv'
  BY DEF RunningInv, TypeOK, Groups
<1>4. IdsInv'
  BY DEF IdsInv, Fits, TypeOK, Walking, Preparing, Running
<1>5. UndeployInv'
  BY DEF UndeployInv, AloneInv
<1>6. VolumeInv'
  BY DEF VolumeInv, Walking, Preparing, Running
<1>7. ReadyInv'
  BY DEF ReadyInv, TypeOK
<1>8. AloneInv' /\ MarkerInv'
  BY DEF AloneInv, MarkerInv
<1> QED
  BY <1>1, <1>2, <1>3, <1>4, <1>5, <1>6, <1>7, <1>8

LEMMA AfterRollbackKeeps ==
    ASSUME ~Overlap, RecordInv, GoldenTypeOK', AfterRollback
    PROVE  RecordInv'
<1> USE DeploymentAssumption DEF RecordInv, AfterRollback, RemoveTree, SaveRaises, Saves, docker,
        cloning, undeployer, goldens
<1>a. /\ mem \in States /\ dg \in Groups
      /\ \A r \in BOOLEAN :
            LET known == [mem EXCEPT !.ready = r] IN
            known \in States /\ known.projects = mem.projects /\ known.ids = mem.ids
            /\ known.ready = r
  <2>1. mem \in States /\ dg \in Groups
    BY DEF TypeOK
  <2> QED
    BY <2>1, Knowing
<1>b. NoRecord \in States /\ NoRecord.projects = 0 /\ NoRecord.ready = FALSE
      /\ \A g \in Groups : NoRecord.ids[g] = None
  BY DEF NoRecord, States, Containers, Identities, None
<1>0. /\ mem' \in States /\ record' \in {record, NoRecord, mem'}
      /\ NoRecord \in States
  BY <1>a, <1>b
<1>1. TypeOK'
  BY <1>0 DEF TypeOK
<1>2. AloneInv'
  BY DEF AloneInv
<1>3. ProgressInv'
  BY <1>0 DEF ProgressInv, Walking, Preparing, Running
<1>4. RunningInv'
  <2>1. CASE failed
    BY <1>a, <2>1 DEF TypeOK, RunningInv, AloneInv
  <2>2. CASE ~failed
    <3>1. \A g \in Groups : up[g] = None
      BY <2>2 DEF RunningInv, Groups
    <3> QED
      BY <3>1 DEF RunningInv
  <2> QED
    BY <2>1, <2>2 DEF TypeOK
<1>5. IdsInv'
  BY <1>0 DEF IdsInv, Fits, NoRecord, States, Containers, Identities, Walking, Preparing, Running
<1>6. UndeployInv'
  BY <1>0 DEF UndeployInv, AloneInv
<1>7. VolumeInv'
  BY <1>0 DEF VolumeInv, Walking, Preparing, Running
<1>8. ReadyInv'
  BY <1>0 DEF ReadyInv, NoRecord, States
<1>9. MarkerInv'
  BY DEF MarkerInv
<1> QED
  BY <1>1, <1>2, <1>3, <1>4, <1>5, <1>6, <1>7, <1>8, <1>9

LEMMA AskKeeps ==
    ASSUME ~Overlap, RecordInv, GoldenTypeOK', AskUndeploy
    PROVE  RecordInv'
<1> USE DeploymentAssumption DEF RecordInv, AskUndeploy, store, docker, deployer, cloning, goldens
<1>1. TypeOK'
  BY DEF TypeOK
<1>2. AloneInv'
  BY DEF AloneInv
<1>3. RunningInv'
  BY DEF RunningInv
<1>4. UndeployInv'
  BY DEF UndeployInv
<1>5. ProgressInv' /\ IdsInv' /\ MarkerInv' /\ VolumeInv' /\ ReadyInv'
  BY DEF ProgressInv, IdsInv, Fits, MarkerInv, VolumeInv, ReadyInv
<1> QED
  BY <1>1, <1>2, <1>3, <1>4, <1>5

LEMMA ReadKeeps ==
    ASSUME ~Overlap, RecordInv, GoldenTypeOK', Read
    PROVE  RecordInv'
<1> USE DeploymentAssumption DEF RecordInv, Read, HasRecord, Replaced, store, docker, deployer,
        cloning, goldens
<1>1. TypeOK'
  BY DEF TypeOK
<1>2. AloneInv'
  BY DEF AloneInv
<1>3. RunningInv'
  BY DEF RunningInv
<1>4. UndeployInv'
  BY DEF UndeployInv, TypeOK, IdsInv, Fits, States, Groups
<1>5. ProgressInv' /\ IdsInv' /\ MarkerInv' /\ VolumeInv' /\ ReadyInv'
  BY DEF ProgressInv, IdsInv, Fits, MarkerInv, VolumeInv, Reuses, ReadyInv
<1> QED
  BY <1>1, <1>2, <1>3, <1>4, <1>5

LEMMA CheckKeeps ==
    ASSUME ~Overlap, RecordInv, GoldenTypeOK', Check
    PROVE  RecordInv'
<1> USE DeploymentAssumption DEF RecordInv, Check, Owned, store, docker, deployer, cloning,
        goldens
<1>1. TypeOK'
  BY DEF TypeOK, States
<1>2. AloneInv'
  BY DEF AloneInv
<1>3. RunningInv'
  BY DEF RunningInv, UndeployInv
<1>4. UndeployInv'
  BY DEF UndeployInv, TypeOK, States, Groups, None, Foreign
<1>5. ProgressInv' /\ IdsInv' /\ MarkerInv' /\ VolumeInv' /\ ReadyInv'
  BY DEF ProgressInv, IdsInv, Fits, MarkerInv, VolumeInv, Reuses, ReadyInv
<1> QED
  BY <1>1, <1>2, <1>3, <1>4, <1>5

LEMMA TakeDownKeeps ==
    ASSUME ~Overlap, RecordInv, GoldenTypeOK', TakeDown \/ UndeployFails
    PROVE  RecordInv'
<1> USE DeploymentAssumption DEF RecordInv, TakeDown, UndeployFails, Unlock, Down, store, docker,
        deployer, cloning, goldens
<1>1. TypeOK'
  <2>1. up' \in [Groups -> Containers] /\ vol' \in [Groups -> Data]
    <3>1. /\ up' = up \/ up' = [up EXCEPT ![ug] = None]
          /\ vol' = vol \/ vol' = [vol EXCEPT ![ug] = "absent"]
      OBVIOUS
    <3>2. up \in [Groups -> Containers] /\ vol \in [Groups -> Data]
      BY DEF TypeOK
    <3>3. None \in Containers /\ "absent" \in Data
      BY DEF None, Containers, Identities, Data
    <3> QED
      BY <3>1, <3>2, <3>3
  <2>2. ug' \in 0..(NumGroups + 1)
    <3>1. ug \in 0..(NumGroups + 1) /\ NumGroups \in Nat
      BY DEF TypeOK
    <3>2. ug' = ug \/ (ug > 0 /\ ug' = ug - 1)
      OBVIOUS
    <3> QED
      BY <3>1, <3>2
  <2>3. /\ UNCHANGED <<dg, started, deploys, foreign>>
        /\ dg \in Groups /\ started \in 0..NumGroups /\ deploys \in 0..MaxDeploys
        /\ foreign \in 0..MaxForeign
    BY DEF TypeOK
  <2> QED
    BY <2>1, <2>2, <2>3 DEF TypeOK
<1>2. AloneInv'
  BY DEF AloneInv
<1>3. RunningInv'
  BY DEF RunningInv, TypeOK, Groups
<1>4. IdsInv'
  BY DEF IdsInv, Fits, TypeOK
<1>5. UndeployInv'
  BY DEF UndeployInv
<1>6. VolumeInv'
  BY DEF VolumeInv, AloneInv, Walking, Preparing, Running
<1>7. ReadyInv'
  BY DEF ReadyInv, TypeOK
<1>8. ProgressInv' /\ MarkerInv'
  BY DEF ProgressInv, MarkerInv
<1> QED
  BY <1>1, <1>2, <1>3, <1>4, <1>5, <1>6, <1>7, <1>8

LEMMA RemoveKeeps ==
    ASSUME ~Overlap, RecordInv, GoldenTypeOK', Remove
    PROVE  RecordInv'
<1> USE DeploymentAssumption DEF RecordInv, Remove, Unlock, RemoveTree, store, docker, deployer,
        cloning, goldens
<1>0. NoRecord \in States /\ NoRecord.projects = 0 /\ NoRecord.ready = FALSE
      /\ \A g \in Groups : NoRecord.ids[g] = None
  BY DEF NoRecord, States, Containers, Identities, None
<1>1. TypeOK'
  BY <1>0 DEF TypeOK
<1>2. AloneInv'
  BY DEF AloneInv
<1>3. ProgressInv'
  BY <1>0 DEF ProgressInv, AloneInv, Walking, Preparing, Running
<1>4. RunningInv'
  BY <1>0 DEF RunningInv
<1>5. IdsInv'
  BY <1>0 DEF IdsInv, Fits
<1>6. UndeployInv'
  BY DEF UndeployInv
<1>7. ReadyInv'
  BY <1>0 DEF ReadyInv
<1>8. MarkerInv' /\ VolumeInv'
  BY DEF MarkerInv, VolumeInv, Reuses
<1> QED
  BY <1>1, <1>2, <1>3, <1>4, <1>5, <1>6, <1>7, <1>8

LEMMA RunKeeps ==
    ASSUME ~Overlap, RecordInv, GoldenTypeOK', AskRun \/ StartRuns \/ RunEnds
    PROVE  RecordInv'
<1> USE DeploymentAssumption DEF RecordInv, AskRun, StartRuns, RunEnds, store, docker, deployer,
        undeployer, cloning, goldens
<1>1. TypeOK'
  BY DEF TypeOK
<1>2. AloneInv' /\ ProgressInv' /\ RunningInv' /\ IdsInv' /\ UndeployInv' /\ MarkerInv'
      /\ VolumeInv' /\ ReadyInv'
  BY DEF AloneInv, ProgressInv, RunningInv, IdsInv, Fits, UndeployInv, MarkerInv, VolumeInv,
         Reuses, ReadyInv
<1> QED
  BY <1>1, <1>2

LEMMA RecreateKeeps ==
    ASSUME ~Overlap, RecordInv, GoldenTypeOK', NEW h \in Groups, Recreate(h)
    PROVE  RecordInv'
<1> USE DeploymentAssumption DEF RecordInv, Recreate, store, docker, deployer, undeployer,
        cloning, goldens
<1>1. TypeOK'
  <2>1. up' \in [Groups -> Containers] /\ vol' \in [Groups -> Data]
    BY DEF TypeOK, Containers
  <2>2. /\ dg' \in Groups /\ started' \in 0..NumGroups /\ deploys' \in 0..MaxDeploys
       /\ ug' \in 0..(NumGroups + 1) /\ foreign' \in 0..MaxForeign
    BY DEF TypeOK, States, Groups
  <2> QED
    BY <2>1, <2>2 DEF TypeOK
<1>2. RunningInv'
  BY DEF RunningInv
<1>3. IdsInv'
  BY DEF IdsInv, Fits
<1>4. UndeployInv'
  BY DEF UndeployInv
<1>5. ReadyInv'
  BY DEF ReadyInv
<1>6. AloneInv' /\ ProgressInv' /\ MarkerInv' /\ VolumeInv'
  BY DEF AloneInv, ProgressInv, MarkerInv, VolumeInv, Reuses
<1> QED
  BY <1>1, <1>2, <1>3, <1>4, <1>5, <1>6

\* A deploy that is killed leaves everything else where it is.
LEMMA DiesKeeps ==
    ASSUME RecordInv, GoldenTypeOK', golden'.marker \in {"none", "torn"} \cup Builders, DeployDies
    PROVE  RecordInv'
<1> USE DEF RecordInv, DeployDies, store, docker, cloning, undeployer, goldens
<1>1. TypeOK'
  BY DEF TypeOK
<1>2. AloneInv' /\ ProgressInv' /\ MarkerInv'
  BY DEF AloneInv, ProgressInv, MarkerInv, Walking, Preparing, Running
<1>3. RunningInv' /\ IdsInv' /\ UndeployInv'
  BY DEF RunningInv, IdsInv, Fits, UndeployInv, Walking, Preparing, Running
<1>4. VolumeInv' /\ ReadyInv'
  BY DEF VolumeInv, ReadyInv, Walking, Preparing, Running
<1> QED
  BY <1>1, <1>2, <1>3, <1>4

\* A step of the golden volume's alone leaves everything else where it is.
LEMMA GoldenStepKeeps ==
    ASSUME RecordInv, GoldenTypeOK', golden'.marker \in {"none", "torn"} \cup Builders,
           UNCHANGED <<store, lock, docker, deployer, undeployer, rpc, foreign>>
    PROVE  RecordInv'
<1> USE DEF RecordInv, store, docker, deployer, cloning, undeployer
<1>1. TypeOK'
  BY DEF TypeOK
<1>2. AloneInv' /\ ProgressInv' /\ MarkerInv'
  BY DEF AloneInv, ProgressInv, MarkerInv
<1>3. RunningInv' /\ IdsInv' /\ UndeployInv'
  BY DEF RunningInv, IdsInv, Fits, UndeployInv
<1>4. VolumeInv' /\ ReadyInv'
  BY DEF VolumeInv, ReadyInv, Reuses
<1> QED
  BY <1>1, <1>2, <1>3, <1>4

\* Only Seal writes a marker that parses, and it names a builder.
LEMMA MarkerKeeps ==
    ASSUME MarkerInv, GoldenTypeOK, AtGolden \/ Elsewhere
    PROVE  golden'.marker \in {"none", "torn"} \cup Builders
<1> USE DEF MarkerInv, GoldenTypeOK
<1>1. CASE Elsewhere
  BY <1>1 DEF Elsewhere
<1>2. ASSUME NEW b \in Builders, BuildStep(b)
      PROVE  golden'.marker \in {"none", "torn"} \cup Builders
  BY <1>2 DEF BuildStep, Claim, Look, CreateGolden, CheckEmpty, CopyStarts, CopyEnds, Copied,
              Compare, Seal, Classify, Release
<1>3. ASSUME NEW b \in Builders, BuildFails(b) \/ BuildDies(b) \/ HelperEnds(b)
      PROVE  golden'.marker \in {"none", "torn"} \cup Builders
  BY <1>3 DEF BuildFails, BuildDies, HelperEnds, CutShort, Copied
<1>4. CASE RivalBuilds \/ Unclaim
  BY <1>4 DEF RivalBuilds, Unclaim
<1> QED
  BY <1>1, <1>2, <1>3, <1>4 DEF AtGolden

LEMMA RecordStep ==
    ASSUME ~Overlap, RecordInv, GoldenTypeOK', [Next]_vars
    PROVE  RecordInv'
<1>1. golden'.marker \in {"none", "torn"} \cup Builders
  BY StepsOfGolden, MarkerKeeps DEF RecordInv, TypeOK
<1>2. CASE Create \/ Record \/ BeforeDeploy
  BY <1>2, CreateKeeps, RecordKeeps, LookKeeps, EntriesKeeps, CloneKeeps, CheckCloneKeeps,
     CloneFailsKeeps DEF BeforeDeploy
<1>3. CASE Up \/ Verify \/ Prepare \/ FinalizeBaseline \/ Restart
  BY <1>3, UpKeeps, VerifyKeeps, PrepareKeeps, FinalizeKeeps, RestartKeeps
<1>4. CASE Save \/ Finish \/ Rollback \/ AfterRollback
  BY <1>4, SaveKeeps, FinishKeeps, RollbackKeeps, AfterRollbackKeeps
<1>5. CASE DeployDies
  BY <1>1, <1>5, DiesKeeps
<1>6. CASE Undeploy \/ UndeployFails
  BY <1>6, AskKeeps, ReadKeeps, CheckKeeps, TakeDownKeeps, RemoveKeeps DEF Undeploy
<1>7. CASE AskRun \/ StartRuns \/ RunEnds \/ \E h \in Groups : Recreate(h)
  BY <1>7, RunKeeps, RecreateKeeps
<1>8. CASE SealStep \/ Others \/ UNCHANGED vars
  <2>1. UNCHANGED <<store, lock, docker, deployer, undeployer, rpc, foreign>>
    BY <1>8 DEF SealStep, Others, vars
  <2> QED
    BY <1>1, <2>1, GoldenStepKeeps
<1> QED
  BY <1>2, <1>3, <1>4, <1>5, <1>6, <1>7, <1>8 DEF Next, Deploy

-----------------------------------------------------------------------------
\* The inductive invariant of the record, the containers and the volumes holds in
\* every reachable state, for any number of projects, deploys, recreated containers
\* and rival builds, as long as deploy and undeploy do not overlap.
THEOREM RecordInvariance == ASSUME ~Overlap PROVE Spec => []RecordInv
<1>1. GoldenInv => GoldenTypeOK
  BY DEF GoldenInv
<1>2. RecordInv /\ GoldenTypeOK' /\ [Next]_vars => RecordInv'
  BY RecordStep
<1> QED
  BY InitRecord, GoldenInvariance, <1>1, <1>2, PTL DEF Spec

\* Whatever fails or is killed, containers never run without a record that names
\* their project, so undeploy can find them (deploy, 323-344 and 390-415).
THEOREM TheRecordIsKept == ASSUME ~Overlap PROVE Spec => []DeploymentInv
<1>1. RecordInv => DeploymentInv
  <2> SUFFICES ASSUME RecordInv, NEW g \in Groups, up[g] # None
               PROVE  TypeOK /\ HasRecord /\ g <= record.projects
    BY DEF DeploymentInv, ContainersAreRecorded, RecordInv
  <2>1. TypeOK /\ g <= record.projects
    BY DEF RecordInv, RunningInv
  <2>2. record.projects # 0
    BY <2>1 DEF TypeOK, States, Groups
  <2> QED
    BY <2>1, <2>2 DEF HasRecord, NoRecord
<1> QED
  BY RecordInvariance, <1>1, PTL

\* An undeploy that finds a recorded container replaced takes nothing down, not
\* even the projects it still owns (undeploy, 471-479).
THEOREM NothingForeignIsTakenDown == ASSUME ~Overlap PROVE Spec => []ReplacedIsLeftAlone
<1>1. RecordInv => ReplacedIsLeftAlone
  BY DEF RecordInv, UndeployInv, ReplacedIsLeftAlone
<1> QED
  BY RecordInvariance, <1>1, PTL

\* Who begins a run, who writes the record, and who touches the containers.
LEMMA Writers ==
    ASSUME Next
    PROVE  /\ rpc' = "running" => rpc = "running" \/ StartRuns
           /\ UNCHANGED record \/ Record \/ Save \/ Finish \/ AfterRollback \/ Remove
           /\ \/ UNCHANGED up \/ Up \/ Rollback \/ TakeDown \/ UndeployFails
              \/ \E h \in Groups : Recreate(h)
<1> USE DEF store, docker, goldens
<1>1. CASE BeforeDeploy
  BY <1>1
     DEF BeforeDeploy, LookBefore, ReadEntries, ReadDigest, CreateRuntime, CloneStarts, CloneEnds,
         CheckClone, CloneFails
<1>2. CASE Create \/ Record \/ Up \/ Verify \/ Prepare
  BY <1>2 DEF Create, Record, Up, Verify, Prepare
<1>3. CASE FinalizeBaseline \/ SealStep \/ Restart \/ DeployDies
  BY <1>3 DEF FinalizeBaseline, SealStep, Restart, DeployDies
<1>4. CASE Save \/ Finish \/ Rollback \/ AfterRollback
  BY <1>4 DEF Save, Finish, Rollback, AfterRollback
<1>5. CASE Undeploy \/ UndeployFails
  BY <1>5 DEF Undeploy, AskUndeploy, Read, Check, TakeDown, Remove, UndeployFails
<1>6. CASE AskRun \/ StartRuns \/ RunEnds \/ Others \/ \E h \in Groups : Recreate(h)
  BY <1>6 DEF AskRun, StartRuns, RunEnds, Others, Recreate
<1> QED
  BY <1>1, <1>2, <1>3, <1>4, <1>5, <1>6 DEF Next, Deploy

\* Combinations start on the recorded containers and on complete baselines, and no
\* command changes the record or takes a project down while they run
\* (run_deployment, 36-40; status, 432-463).
THEOREM RunsArePrepared == ASSUME ~Overlap PROVE Spec => RunsOnPrepared
<1> DEFINE Prepared ==
        /\ rpc # "running" /\ rpc' = "running" =>
              \A g \in Groups : up[g] # None /\ up[g] = record.ids[g] /\ vol[g] \in Builders
        /\ rpc = "running" /\ rpc' = "running" /\ dpc # "rollback" =>
              /\ record.ready => UNCHANGED record
              /\ \A g \in Groups : up'[g] = None => up[g] = None
<1>1. RecordInv /\ [Next]_vars => [Prepared]_vars
  <2> SUFFICES ASSUME RecordInv, Next PROVE Prepared
    OBVIOUS
  <2>1. ASSUME rpc # "running", rpc' = "running"
        PROVE  \A g \in Groups : up[g] # None /\ up[g] = record.ids[g] /\ vol[g] \in Builders
    <3>1. StartRuns
      BY <2>1, Writers
    <3>2. record.ready /\ record.projects = NumGroups
          /\ \A g \in Groups : up[g] # None => vol[g] \in Builders
      BY <3>1 DEF StartRuns, Status, RecordInv, ReadyInv
    <3> QED
      BY <3>1, <3>2 DEF StartRuns, Status, Groups
  <2>2. ASSUME rpc = "running", rpc' = "running", dpc # "rollback"
        PROVE  /\ record.ready => UNCHANGED record
               /\ \A g \in Groups : up'[g] = None => up[g] = None
    <3>1. upc = "idle" /\ lock # "free"
      BY <2>2 DEF RecordInv, TypeOK
    <3>2. record.ready => dpc = "idle"
      BY <2>2 DEF RecordInv, ReadyInv
    <3>3. record.ready => UNCHANGED record
      BY <2>2, <3>1, <3>2, Writers DEF Record, Save, Finish, AfterRollback, Remove
    <3>4. UNCHANGED up \/ Up \/ \E h \in Groups : Recreate(h)
      BY <2>2, <3>1, Writers DEF Rollback, TakeDown, UndeployFails
    <3>5. CASE Up
      <4>1. up \in [Groups -> Containers]
        BY DEF RecordInv, TypeOK
      <4>2. UNCHANGED up \/ up' = [up EXCEPT ![dg] = IF up[dg] = None THEN deploys ELSE up[dg]]
        BY <3>5 DEF Up, Starts, docker
      <4>3. \A g \in Groups : up[g] # None => up'[g] = up[g]
        BY <4>1, <4>2
      <4> QED
        BY <3>3, <4>3
    <3>6. ASSUME NEW h \in Groups, Recreate(h)
          PROVE  \A g \in Groups : up'[g] = None => up[g] = None
      <4>1. up \in [Groups -> Containers] /\ up' = [up EXCEPT ![h] = Foreign]
        BY <3>6 DEF Recreate, RecordInv, TypeOK
      <4>2. Foreign # None
        BY DeploymentAssumption DEF Foreign, None
      <4> QED
        BY <4>1, <4>2
    <3> QED
      BY <3>3, <3>4, <3>5, <3>6
  <2> QED
    BY <2>1, <2>2
<1> QED
  BY RecordInvariance, <1>1, PTL DEF Spec, RunsOnPrepared
=============================================================================
