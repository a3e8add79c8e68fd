-------------------------- MODULE InstanceLifecycle --------------------------
(***************************************************************************)
(* The instances of a multi-user replay, from set-up to clean-up:          *)
(* run_multi_user of memory_bench_platform/multi_user_replay.py with the   *)
(* InstanceRuntime of multi_user_runtime.py and the memory plugin it       *)
(* prepares and restores.  One thread drives all instances; at any call it *)
(* makes a request may fail, a managed instance may exit by itself, and a  *)
(* signal may arrive.                                                      *)
(*                                                                         *)
(* The three phases of requests are one step each: MultiUserReplay is      *)
(* about what happens inside them.                                         *)
(***************************************************************************)
EXTENDS ReplayInstances

CONSTANTS
    Managed,        \* the instances whose process the platform starts
    OpenClaw,       \* mode "openclaw": a plugin is prepared and restored
    MaxSignals      \* bound: how many signals arrive

ASSUME InstanceAssumption ==
    /\ NumInstances \in Nat \ {0}
    /\ Managed \subseteq Instances
    /\ OpenClaw \in BOOLEAN
    /\ MaxSignals \in Nat

VARIABLES
    main,           \* where run_multi_user is
    at,             \* the instance being set up, switched or stopped
    step,           \* the call it is in, for that instance
    state,          \* runtime.state
    group,          \* the process group of a managed instance
    scratch,        \* the scratch directory, with the snapshot of the plugin
    prepared,       \* runtime.prepared
    plugin,         \* the plugin configuration: original or changed
    phase,          \* the phase the plugin was switched to last
    cleanupFailed,  \* runtime.cleanup_failed
    served,         \* the phases each instance got requests in
    interrupted,    \* replay.interrupted
    raising,        \* a KeyboardInterrupt waits for a finally clause of stop()
    signals         \* how many signals have arrived

instanceVars == <<main, at, step, state, group, scratch, prepared, plugin, phase,
                  cleanupFailed, served, interrupted, raising, signals>>

world == <<state, group, scratch, prepared, plugin, phase, cleanupFailed, served>>

Running == {"setup", "add", "drain", "switch", "search"}

InstanceTypeOK ==
    /\ main \in Running \cup {"stopping", "reported", "died"}
    /\ at \in 0..(NumInstances + 1)
    /\ step \in {"process", "health", "scratch", "prepare", "probe", "phase",
                 "finalize", "kill", "remove"}
    /\ state \in [Instances -> {"pending", "ready", "setup_failed", "phase_failed"}]
    /\ group \in [Instances -> {"none", "alive", "orphans", "gone"}]
    /\ scratch \in [Instances -> {"none", "present", "removed"}]
    /\ prepared \in [Instances -> BOOLEAN]
    /\ plugin \in [Instances -> {"original", "changed"}]
    /\ phase \in [Instances -> {"none", "ingest", "qa"}]
    /\ cleanupFailed \in [Instances -> BOOLEAN]
    /\ served \in [Instances -> SUBSET {"add", "drain", "search"}]
    /\ interrupted \in BOOLEAN
    /\ raising \in BOOLEAN
    /\ signals \in 0..MaxSignals

InstanceInit ==
    /\ main = "setup"
    /\ at = 1
    /\ step = "process"
    /\ state = [i \in Instances |-> "pending"]
    /\ group = [i \in Instances |-> "none"]
    /\ scratch = [i \in Instances |-> "none"]
    /\ prepared = [i \in Instances |-> FALSE]
    /\ plugin = [i \in Instances |-> "original"]
    /\ phase = [i \in Instances |-> "none"]
    /\ cleanupFailed = [i \in Instances |-> FALSE]
    /\ served = [i \in Instances |-> {}]
    /\ interrupted = FALSE
    /\ raising = FALSE
    /\ signals = 0

Ready == {i \in Instances : state[i] = "ready"}

-----------------------------------------------------------------------------
(* Set-up *)

Setting(s) == main = "setup" /\ at \in Instances /\ step = s

NextSetup ==
    /\ step' = "process"
    /\ IF at < NumInstances THEN at' = at + 1 /\ main' = main ELSE at' = 1 /\ main' = "add"

\* Any call of start() or the set_phase after it raises.
SetupFails ==
    /\ main = "setup"
    /\ NextSetup
    /\ state' = [state EXCEPT ![at] = "setup_failed"]

StartProcess ==
    /\ Setting("process")
    /\ \/ /\ step' = "health"
          /\ group' = [group EXCEPT ![at] = IF at \in Managed THEN "alive" ELSE @]
          /\ UNCHANGED <<main, at, state>>
       \/ at \in Managed /\ SetupFails /\ UNCHANGED group
    /\ UNCHANGED <<scratch, prepared, plugin, phase, cleanupFailed, served, interrupted,
                   raising, signals>>

\* The health check is repeated until it passes, the process exits or time is up.
Health ==
    /\ Setting("health")
    /\ \/ step' = "scratch" /\ UNCHANGED <<main, at, state>>
       \/ SetupFails
    /\ UNCHANGED <<group, scratch, prepared, plugin, phase, cleanupFailed, served,
                   interrupted, raising, signals>>

\* Without OpenClaw start() ends here, and set_phase does nothing.
MakeScratch ==
    /\ Setting("scratch")
    /\ \/ /\ scratch' = [scratch EXCEPT ![at] = "present"]
          /\ IF OpenClaw
             THEN step' = "prepare" /\ UNCHANGED <<main, at, state>>
             ELSE NextSetup /\ state' = [state EXCEPT ![at] = "ready"]
       \/ SetupFails /\ UNCHANGED scratch
    /\ UNCHANGED <<group, prepared, plugin, phase, cleanupFailed, served, interrupted,
                   raising, signals>>

\* Mutant: the mark is made only once prepare has succeeded.
PrepareMarksLate ==
    /\ Setting("prepare")
    /\ \/ /\ plugin' = [plugin EXCEPT ![at] = "changed"]
          /\ prepared' = [prepared EXCEPT ![at] = TRUE]
          /\ step' = "probe" /\ UNCHANGED <<main, at, state>>
       \/ /\ \E p \in {"original", "changed"} : plugin' = [plugin EXCEPT ![at] = p]
          /\ UNCHANGED prepared
          /\ SetupFails
    /\ UNCHANGED <<group, scratch, phase, cleanupFailed, served, interrupted, raising, signals>>

\* prepared is set first; a prepare that fails may have changed the plugin.
Prepare ==
    /\ Setting("prepare")
    /\ prepared' = [prepared EXCEPT ![at] = TRUE]
    /\ \/ /\ plugin' = [plugin EXCEPT ![at] = "changed"]
          /\ step' = "probe" /\ UNCHANGED <<main, at, state>>
       \/ /\ \E p \in {"original", "changed"} : plugin' = [plugin EXCEPT ![at] = p]
          /\ SetupFails
    /\ UNCHANGED <<group, scratch, phase, cleanupFailed, served, interrupted, raising, signals>>

Probe ==
    /\ Setting("probe")
    /\ \/ /\ step' = "phase"
          /\ state' = [state EXCEPT ![at] = "ready"]
          /\ UNCHANGED <<main, at>>
       \/ SetupFails
    /\ UNCHANGED <<group, scratch, prepared, plugin, phase, cleanupFailed, served,
                   interrupted, raising, signals>>

\* Mutant: an instance whose plugin could not be switched stays ready.
EnterIngestRegardless ==
    /\ Setting("phase")
    /\ \E p \in {"ingest", "none"} : phase' = [phase EXCEPT ![at] = p]
    /\ NextSetup
    /\ UNCHANGED <<state, group, scratch, prepared, plugin, cleanupFailed, served,
                   interrupted, raising, signals>>

EnterIngest ==
    /\ Setting("phase")
    /\ \/ phase' = [phase EXCEPT ![at] = "ingest"] /\ NextSetup /\ UNCHANGED state
       \/ SetupFails /\ UNCHANGED phase
    /\ UNCHANGED <<group, scratch, prepared, plugin, cleanupFailed, served, interrupted,
                   raising, signals>>

-----------------------------------------------------------------------------
(* The phases of requests *)

Then(p) ==
    CASE p = "add"    -> IF OpenClaw THEN "drain" ELSE "switch"
      [] p = "drain"  -> "switch"
      [] p = "search" -> "stopping"

ToStopping == main' = "stopping" /\ at' = NumInstances /\ step' = "finalize"

Phase(p) ==
    /\ main = p
    /\ served' = [i \in Instances |-> IF i \in Ready THEN served[i] \cup {p} ELSE served[i]]
    /\ IF p = "search" THEN ToStopping ELSE main' = Then(p) /\ UNCHANGED <<at, step>>
    /\ UNCHANGED <<state, group, scratch, prepared, plugin, phase, cleanupFailed,
                   interrupted, raising, signals>>

\* set_phase("qa") of the instance, if it is ready; a failure takes it out.
EnterQa ==
    /\ main = "switch"
    /\ at \in Instances
    /\ IF state[at] = "ready"
       THEN \/ phase' = [phase EXCEPT ![at] = "qa"] /\ UNCHANGED state
            \/ /\ OpenClaw
               /\ state' = [state EXCEPT ![at] = "phase_failed"]
               /\ UNCHANGED phase
       ELSE UNCHANGED <<state, phase>>
    /\ IF at < NumInstances THEN at' = at + 1 /\ main' = main ELSE at' = 1 /\ main' = "search"
    /\ UNCHANGED <<step, group, scratch, prepared, plugin, cleanupFailed, served,
                   interrupted, raising, signals>>

\* Anything raised during set-up or a phase that is not a failed set-up: a
\* signal, or an error of the scheduler itself.
InterruptRun ==
    /\ main \in Running
    /\ signals < MaxSignals
    /\ signals' = signals + 1
    /\ interrupted' = TRUE
    /\ ToStopping
    /\ \/ UNCHANGED <<prepared, plugin>>
       \/ /\ Setting("prepare")
          /\ prepared' = [prepared EXCEPT ![at] = TRUE]
          /\ \E p \in {"original", "changed"} : plugin' = [plugin EXCEPT ![at] = p]
    /\ UNCHANGED <<state, group, scratch, phase, cleanupFailed, served, raising>>

-----------------------------------------------------------------------------
(* Clean-up, in reverse order *)

Stopping(s) == main = "stopping" /\ at \in Instances /\ step = s

Finalize ==
    /\ Stopping("finalize")
    /\ step' = "kill"
    /\ \/ ~prepared[at] /\ UNCHANGED <<plugin, cleanupFailed>>
       \/ /\ prepared[at]
          /\ plugin' = [plugin EXCEPT ![at] = "original"]
          /\ UNCHANGED cleanupFailed
       \/ /\ prepared[at]
          /\ cleanupFailed' = [cleanupFailed EXCEPT ![at] = TRUE]
          /\ UNCHANGED plugin
    /\ UNCHANGED <<main, at, state, group, scratch, prepared, phase, served, interrupted,
                   raising, signals>>

\* stop() is left: for the next instance, or for good when a signal is on its way.
LeaveStop ==
    IF raising
    THEN main' = "died" /\ UNCHANGED <<at, step>>
    ELSE at' = at - 1 /\ step' = "finalize" /\ UNCHANGED main

\* An exception inside stop() replaces a signal on its way, and is remembered.
StopRaises ==
    /\ cleanupFailed' = [cleanupFailed EXCEPT ![at] = TRUE]
    /\ raising' = FALSE
    /\ at' = at - 1
    /\ step' = "finalize"
    /\ UNCHANGED main

\* SIGTERM and then SIGKILL go to the whole group, and the leader is reaped; a
\* leader that does not go within the time limit makes wait() raise.
Kill ==
    /\ Stopping("kill")
    /\ \/ /\ group' = [group EXCEPT ![at] = IF @ = "none" THEN @ ELSE "gone"]
          /\ step' = "remove"
          /\ UNCHANGED <<main, at, cleanupFailed, raising>>
       \/ group[at] = "alive" /\ StopRaises /\ UNCHANGED group
    /\ UNCHANGED <<state, scratch, prepared, plugin, phase, served, interrupted, signals>>

RemoveScratch ==
    /\ Stopping("remove")
    /\ \/ /\ scratch' = [scratch EXCEPT ![at] =
                IF @ = "present" /\ ~cleanupFailed[at] THEN "removed" ELSE @]
          /\ LeaveStop
          /\ UNCHANGED <<cleanupFailed, raising>>
       \/ /\ scratch[at] = "present" /\ ~cleanupFailed[at]
          /\ StopRaises
          /\ UNCHANGED scratch
    /\ UNCHANGED <<state, group, prepared, plugin, phase, served, interrupted, signals>>

\* A signal in finalize lets stop() go on to its finally clause before it is
\* raised again; after that it ends stop() at once.
InterruptStop ==
    /\ main = "stopping"
    /\ at \in Instances
    /\ signals < MaxSignals
    /\ signals' = signals + 1
    /\ IF step = "finalize" /\ prepared[at]
       THEN raising' = TRUE /\ step' = "kill" /\ UNCHANGED main
       ELSE main' = "died" /\ UNCHANGED <<raising, step>>
    /\ UNCHANGED <<at, world, interrupted>>

ReportRun ==
    /\ main = "stopping"
    /\ at = 0
    /\ main' = "reported"
    /\ UNCHANGED <<at, step, world, interrupted, raising, signals>>

-----------------------------------------------------------------------------
\* The leader of a managed instance exits by itself, with or without children.
Exit(i) ==
    /\ main \notin {"reported", "died"}
    /\ group[i] = "alive"
    /\ \E g \in {"orphans", "gone"} : group' = [group EXCEPT ![i] = g]
    /\ UNCHANGED <<main, at, step, state, scratch, prepared, plugin, phase, cleanupFailed,
                   served, interrupted, raising, signals>>

RunEnded == main \in {"reported", "died"} /\ UNCHANGED instanceVars

Main ==
    \/ StartProcess \/ Health \/ MakeScratch \/ Prepare \/ Probe \/ EnterIngest
    \/ Phase("add") \/ Phase("drain") \/ EnterQa \/ Phase("search")
    \/ Finalize \/ Kill \/ RemoveScratch \/ ReportRun

InstanceNext ==
    \/ Main
    \/ InterruptRun
    \/ InterruptStop
    \/ \E i \in Instances : Exit(i)
    \/ RunEnded

InstanceSpec == InstanceInit /\ [][InstanceNext]_instanceVars

-----------------------------------------------------------------------------
(* Safety *)

\* A run that reports has stopped what it started and restored what it changed,
\* or says of the instance that its clean-up failed and keeps the snapshot that
\* undoes the change (InstanceRuntime.stop; run_multi_user, 411-415).
NothingLeftBehind ==
    main = "reported" => \A i \in Instances :
        /\ ~cleanupFailed[i] =>
              group[i] \in {"none", "gone"} /\ plugin[i] = "original" /\ scratch[i] # "present"
        /\ plugin[i] = "changed" => scratch[i] = "present"

\* Requests reach an instance only in the phase its plugin is in, and an instance
\* that failed its set-up, its isolation probe or a switch gets no more of them
\* (run_multi_user, 378-407).
ServedInPhase ==
    OpenClaw => \A i \in Instances :
        /\ main \in {"add", "drain"} /\ i \in Ready => phase[i] = "ingest"
        /\ main = "search" /\ i \in Ready => phase[i] = "qa"
        /\ served[i] # {} => prepared[i] /\ state[i] \in {"ready", "phase_failed"}

\* An instance is used as what it was set up to be.
InstanceInv == InstanceTypeOK /\ ServedInPhase

\* Mutant: the states of the instances are not looked at.
CompletedIfClean ==
    /\ ~interrupted
    /\ \A i \in Instances : ~cleanupFailed[i]

\* The overall status of the report, if no request failed.
Completed ==
    /\ ~interrupted
    /\ Ready = Instances
    /\ \A i \in Instances : ~cleanupFailed[i]

\* A report that says "completed" is of a run in which every instance took part
\* in every phase and none was left changed (Replay.report, 300-332).
CompletedIsComplete ==
    main = "reported" /\ Completed => \A i \in Instances :
        /\ {"add", "search"} \cup (IF OpenClaw THEN {"drain"} ELSE {}) \subseteq served[i]
        /\ plugin[i] = "original"
        /\ group[i] \in {"none", "gone"}

-----------------------------------------------------------------------------
(* What the documentation says of the recovery snapshot, and the code does not do *)

\* docs/multi-user-replay.md 138: the snapshot of the plugin is removed after a
\* finalize that succeeded and kept when it failed, so that it can be restored.
SnapshotKeptForRecovery ==
    \A i \in Instances : plugin[i] = "changed" => scratch[i] = "present"
=============================================================================
