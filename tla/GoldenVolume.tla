----------------------------- MODULE GoldenVolume -----------------------------
(***************************************************************************)
(* The golden volume of a vector database: the sealed copy of a prepared   *)
(* baseline that later deployments start from (_golden_after_seed of       *)
(* deployment_lifecycle.py, deployment_golden.py, and the volume commands  *)
(* of deployment_docker.py).  It is built by whoever deploys first.  Two   *)
(* deployments may build at the same time, a process may be killed between *)
(* any two commands, and the helper container that copies may outlive the  *)
(* process that started it.                                                *)
(*                                                                         *)
(* The data of a volume is abstracted to the baseline it is a complete     *)
(* copy of, and a digest to the data it was taken of.  The fields of the   *)
(* manifest that describe the baseline agree in all deployments here; one  *)
(* that disagrees is refused like a volume without a manifest.             *)
(***************************************************************************)
EXTENDS Integers

CONSTANT MaxRivals      \* bound: how often the other deployment builds

Builders == {"ours", "theirs"}

\* A complete baseline is named for its builder; two seeds never agree byte by byte.
Data == {"absent", "empty", "part", "mixed"} \cup Builders

VARIABLES
    golden,     \* the golden volume: its data, and the digest its marker holds
    claim,      \* whose lock container exists
    gpc,        \* where _golden_after_seed of each builder is
    helpers,    \* builders whose helper container goes on copying without them
    rivals      \* how often the other deployment has built

goldens == <<golden, claim, gpc, helpers, rivals>>

BuildSteps == {"claim", "look", "create", "check", "copy", "copying", "compare", "seal",
               "classify", "release"}

GoldenTypeOK ==
    /\ golden \in [data : Data, marker : {"none", "torn"} \cup Data]
    /\ claim \in {"free"} \cup Builders
    /\ gpc \in [Builders -> {"idle", "sealed", "failed"} \cup BuildSteps]
    /\ helpers \subseteq Builders
    /\ rivals \in 0..MaxRivals

GoldenInit ==
    /\ golden = [data |-> "absent", marker |-> "none"]
    /\ claim = "free"
    /\ gpc = [b \in Builders |-> "idle"]
    /\ helpers = {}
    /\ rivals = 0

-----------------------------------------------------------------------------
\* classify_volume of what was read: a marker that parses, next to some data,
\* whose digest is the one taken of the data.
Ready(m, data) == m \in Data /\ data \notin {"absent", "empty"} /\ data = m

\* A container of any kind has the volume mounted.
Attached == helpers # {} \/ \E b \in Builders : gpc[b] \in BuildSteps \ {"claim", "look", "create"}

At(b, from, to) == gpc[b] = from /\ gpc' = [gpc EXCEPT ![b] = to]

\* Mutant: the lock container has no fixed name, so creating it always succeeds.
ClaimAnyway(b) ==
    /\ At(b, "claim", "look")
    /\ claim' = b
    /\ UNCHANGED <<golden, helpers, rivals>>

\* docker create --name: the daemon refuses a second container of that name.
Claim(b) ==
    /\ At(b, "claim", "look")
    /\ claim = "free"
    /\ claim' = b
    /\ UNCHANGED <<golden, helpers, rivals>>

Look(b) ==
    /\ At(b, "look", "create")
    /\ golden.data = "absent"
    /\ UNCHANGED <<golden, claim, helpers, rivals>>

\* docker volume create leaves an existing volume as it is.
CreateGolden(b) ==
    /\ At(b, "create", "check")
    /\ golden' = [golden EXCEPT !.data = IF @ = "absent" THEN "empty" ELSE @]
    /\ UNCHANGED <<claim, helpers, rivals>>

CheckEmpty(b) ==
    /\ At(b, "check", "copy")
    /\ golden.data = "empty" /\ golden.marker = "none"
    /\ UNCHANGED <<golden, claim, helpers, rivals>>

CopyStarts(b) ==
    /\ At(b, "copy", "copying")
    /\ golden' = [golden EXCEPT !.data = IF @ = "empty" THEN "part" ELSE "mixed"]
    /\ UNCHANGED <<claim, helpers, rivals>>

Copied(b) == golden' = [golden EXCEPT !.data = IF @ = "part" THEN b ELSE "mixed"]

CopyEnds(b) ==
    /\ At(b, "copying", "compare")
    /\ Copied(b)
    /\ UNCHANGED <<claim, helpers, rivals>>

\* The digest of the copy against the one taken of the runtime volume.
Compare(b) ==
    /\ At(b, "compare", "seal")
    /\ golden.data = b
    /\ UNCHANGED <<golden, claim, helpers, rivals>>

\* The marker is written in place, with the digest of the runtime volume.
Seal(b) ==
    /\ At(b, "seal", "classify")
    /\ golden' = [golden EXCEPT !.marker = b]
    /\ UNCHANGED <<claim, helpers, rivals>>

Classify(b) ==
    /\ At(b, "classify", "release")
    /\ Ready(golden.marker, b)
    /\ UNCHANGED <<golden, claim, helpers, rivals>>

Release(b) ==
    /\ At(b, "release", "sealed")
    /\ claim' = IF claim = b THEN "free" ELSE claim
    /\ UNCHANGED <<golden, helpers, rivals>>

\* What a command cut short may leave: a torn marker, a helper still copying.
CutShort(b) ==
    /\ \/ UNCHANGED golden
       \/ gpc[b] = "seal" /\ golden' = [golden EXCEPT !.marker = "torn"]
    /\ \/ UNCHANGED helpers
       \/ gpc[b] = "copying" /\ helpers' = helpers \cup {b}

\* A check that fails, a command that raises or runs into its timeout, or a
\* signal; the finally clause removes the lock container, unless that fails.
BuildFails(b) ==
    /\ gpc[b] \in BuildSteps
    /\ gpc' = [gpc EXCEPT ![b] = "failed"]
    /\ CutShort(b)
    /\ \/ UNCHANGED claim
       \/ claim = b /\ claim' = "free"
       \/ gpc[b] = "claim" /\ claim = "free" /\ claim' = b
    /\ UNCHANGED rivals

\* The process is killed: its lock container stays.
BuildDies(b) ==
    /\ gpc[b] # "idle"
    /\ gpc' = [gpc EXCEPT ![b] = "idle"]
    /\ CutShort(b)
    /\ UNCHANGED <<claim, rivals>>

\* A helper left alone comes to its end.
HelperEnds(b) ==
    /\ b \in helpers
    /\ helpers' = helpers \ {b}
    /\ Copied(b)
    /\ UNCHANGED <<claim, gpc, rivals>>

BuildStep(b) ==
    \/ Claim(b) \/ Look(b) \/ CreateGolden(b) \/ CheckEmpty(b) \/ CopyStarts(b) \/ CopyEnds(b)
    \/ Compare(b) \/ Seal(b) \/ Classify(b) \/ Release(b)

-----------------------------------------------------------------------------
(* The other deployment, and the operator *)

\* It found no golden volume, started its services and seeded them.
RivalBuilds ==
    /\ rivals < MaxRivals
    /\ golden.data = "absent"
    /\ At("theirs", "idle", "claim")
    /\ rivals' = rivals + 1
    /\ UNCHANGED <<golden, claim, helpers>>

RivalEnds ==
    /\ gpc["theirs"] \in {"sealed", "failed"}
    /\ gpc' = [gpc EXCEPT !["theirs"] = "idle"]
    /\ UNCHANGED <<golden, claim, helpers, rivals>>

\* The operator removes a lock container left behind, having made sure that
\* nothing is being built (docs/deployment-yaml.md).
Unclaim ==
    /\ claim # "free"
    /\ \A b \in Builders : gpc[b] = "idle"
    /\ claim' = "free"
    /\ UNCHANGED <<golden, gpc, helpers, rivals>>

Rival ==
    \/ RivalBuilds \/ RivalEnds \/ Unclaim
    \/ BuildStep("theirs") \/ BuildFails("theirs") \/ BuildDies("theirs")
    \/ \E b \in Builders : HelperEnds(b)
=============================================================================
