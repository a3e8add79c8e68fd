---------------------------- MODULE PhaseProfiler ----------------------------
(***************************************************************************)
(* The perf collectors of one run (ProfilerSession of profiling_perf.py)   *)
(* and the phase windows they are bracketed by (PhaseSink of               *)
(* profiling_phase.py).  A phase is opened by starting a collector for     *)
(* each target in turn and closed by stopping them in turn; the program    *)
(* that owns the phases composes these steps with its own.                 *)
(*                                                                         *)
(* The collectors are processes in sessions of their own, "perf ... sleep  *)
(* infinity": nobody but stop_phase ends them, not even the end of the     *)
(* program.                                                                *)
(***************************************************************************)
EXTENDS Integers, Sequences, FiniteSets, SequencesExt

CONSTANTS
    Targets,      \* the resolved targets, in the order of the configuration
    Profiled,     \* config.phases
    RecordPhases  \* the phases perf record runs in besides perf stat

ASSUME ProfilerAssumption ==
    /\ Targets \in Seq(STRING) /\ IsInjective(Targets)
    /\ RecordPhases \subseteq Profiled

VARIABLES
    mode,     \* config.mode
    handles,  \* ProfilerSession.handles: the state of each collector
    procs,    \* the perf processes that run
    overflow, \* handles whose record watcher saw perf.data outgrow its limit
    window,   \* phase_events.jsonl: the state of the event of each phase
    invalid,  \* PhaseSink.invalid_profile
    turn,     \* the target start_phase or stop_phase has reached
    cut       \* a stop_phase was left before it had reached every handle

profiler == <<mode, handles, procs, overflow, window, invalid, turn, cut>>

Ids == Range(Targets)
Modes == {"required", "best_effort"}
HandleStates ==
    {"absent", "probing", "skipped", "failed", "running", "completed", "invalid"}
WindowStates == {"none", "completed", "failed", "interrupted", "not_applicable"}
Unusable == {"failed", "invalid"}

\* One line of phase_events.jsonl for each target.
WriteEvent(p, state) == window' = [window EXCEPT ![p] = state]

Kinds(p) == IF p \in RecordPhases THEN {"stat", "record"} ELSE {"stat"}

\* SIGINT, and SIGKILL when that is not heeded.
StopProcesses(t, p) == procs' = {x \in procs : <<x[2], x[3]>> # <<t, p>>}

ProfilerInit ==
    /\ mode \in Modes
    /\ handles = [h \in Ids \X Profiled |-> "absent"]
    /\ procs = {} /\ overflow = {}
    /\ window = [p \in Profiled |-> "none"]
    /\ invalid = FALSE /\ turn = 1 /\ cut = FALSE

ProfilerTypeOK ==
    /\ mode \in Modes
    /\ handles \in [Ids \X Profiled -> HandleStates]
    /\ procs \subseteq {"stat", "record"} \X Ids \X Profiled
    /\ overflow \subseteq Ids \X Profiled
    /\ window \in [Profiled -> WindowStates]
    /\ {invalid, cut} \subseteq BOOLEAN
    /\ turn \in 1..Len(Targets) + 1

(***************************************************************************)
(* start_phase.  One step is the round of its loop for one target; "raise" *)
(* says that the round ended with an exception.                            *)
(***************************************************************************)
Target == Targets[turn]
StartDone == turn > Len(Targets)

\* The probe finds a collector that cannot be used: skipped, or drifted.
NotReady(p, state, raise) ==
    /\ state \in {"skipped", "invalid"}
    /\ raise = (mode = "required")
    /\ handles' = [handles EXCEPT ![<<Target, p>>] = state]
    /\ turn' = turn + 1
    /\ UNCHANGED procs

\* perf stat, then perf record, is started and found alive.
Started(p) ==
    /\ handles' = [handles EXCEPT ![<<Target, p>>] = "running"]
    /\ procs' = procs \cup {<<k, Target, p>> : k \in Kinds(p)}
    /\ turn' = turn + 1

\* perf stat or perf record dies at once: what has been started is stopped.
\* A perf stat that does not heed the signal is killed, and that raises too.
StartFails(p, raise) ==
    /\ \/ /\ handles' = [handles EXCEPT ![<<Target, p>>] = "failed"]
          /\ raise = (mode = "required")
       \/ /\ handles' = [handles EXCEPT ![<<Target, p>>] = "probing"]
          /\ raise
    /\ turn' = turn + 1
    /\ UNCHANGED procs

\* Ctrl-C while a collector is being started: both processes may run.
StartInterrupted(p) ==
    /\ handles' = [handles EXCEPT ![<<Target, p>>] = "probing"]
    /\ \E started \in {{}, {"stat"}, Kinds(p)} :
           procs' = procs \cup {<<k, Target, p>> : k \in started}
    /\ turn' = turn + 1

(***************************************************************************)
(* stop_phase.  One step is the round of its loop for one handle.          *)
(***************************************************************************)
\* The watcher of the record process interrupts it once its file is too big.
RecordOverflows(t, p) ==
    /\ <<"record", t, p>> \in procs
    /\ overflow' = overflow \cup {<<t, p>>}
    /\ procs' = procs \ {<<"record", t, p>>}
    /\ UNCHANGED <<mode, handles, window, invalid, turn, cut>>

\* The counters are all there, counted for long enough and, for a top-down
\* profile, add up; or they are not.
CounterVerdicts == {"completed", "invalid"}

\* What the output of a collector is worth: a running one is completed when
\* its counters can be used; its target may have been restarted meanwhile.
Verdicts(t, p) ==
    IF <<t, p>> \in overflow THEN {"invalid"}
    ELSE IF handles[<<t, p>>] = "running" THEN CounterVerdicts \cup Unusable
    ELSE {handles[<<t, p>>], "failed", "invalid"}

\* A handle no process was started for keeps its state.
Untouched(t, p) == handles[<<t, p>>] \in {"absent", "skipped", "invalid"}

StopCollector(p, verdict) ==
    /\ IF Untouched(Target, p)
         THEN verdict = handles[<<Target, p>>]
         ELSE verdict \in Verdicts(Target, p)
    /\ handles' = [handles EXCEPT ![<<Target, p>>] = verdict]
    /\ StopProcesses(Target, p)
    /\ turn' = turn + 1

\* An error while the output of a collector is written, or Ctrl-C, after its
\* processes got their signal: the handles that follow are not reached.
StopIsCut(p) ==
    /\ ~Untouched(Target, p)
    /\ StopProcesses(Target, p)
    /\ cut' = TRUE
=============================================================================
