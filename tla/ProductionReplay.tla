-------------------------- MODULE ProductionReplay --------------------------
(***************************************************************************)
(* The replay of recorded HTTP traffic against a memory backend            *)
(* (production-http-replay/scripts/run_replay.py): all add requests, then  *)
(* all search requests, each phase by a pool of workers and, under a       *)
(* profile, inside the window of its collectors (PhaseProfiler).           *)
(*                                                                         *)
(* The main thread goes from one value of at to the next; the workers'     *)
(* requests, the backend and the log it traces them in move on their own.  *)
(***************************************************************************)
EXTENDS PhaseProfiler, FiniteSetsExt

CONSTANTS
    NumAdds, NumSearches, \* lines of the two files of the dataset
    AddWorkers, SearchWorkers, \* config.add_concurrency, search_concurrency
    MaxTrouble            \* bound on failures and on others' use of the log

ASSUME ReplayAssumption ==
    /\ {NumAdds, NumSearches, AddWorkers, SearchWorkers} \subseteq Nat \ {0}
    /\ MaxTrouble \in Nat

Adds == {"add"} \X (1..NumAdds)
Searches == {"search"} \X (1..NumSearches)
Records == Adds \cup Searches
Foreign == <<"other", 0>>   \* a trace line of somebody else's request

VARIABLES
    at,       \* where the main thread is
    phase,    \* the phase it is in
    error,    \* the exception that is on its way up
    read,     \* records of the current phase its iterator has given
    broken,   \* the loop over the pool was left by an exception
    call,     \* what the worker of each record is doing
    outcome,  \* the status of the event of each record
    store,    \* what has become of each add in the backend
    log,      \* the trace file of the backend
    held,     \* the file the cursor has open, once another took its name
    cursor,   \* its offset
    files,    \* request_events.jsonl and production_replay_summary.json
    imported, \* perf_trace_events.jsonl: <<>>, or <<the request ids of its lines>>,
              \* each by the number of the line it was made of
    faults, lossy \* history: trouble so far; the log was cut or replaced twice

main == <<at, phase, error>>
pool == <<read, broken, call, outcome>>
trace == <<log, held, cursor, lossy>>
replay == <<main, pool, store, trace, files, imported, faults>>
vars == <<profiler, replay>>

None == "none"
NoFiles == [written |-> FALSE, events |-> {}, summary |-> None, dataset |-> None, trace |-> None]
InPhase(p) == IF p = "ingest" THEN Adds ELSE Searches
Workers(p) == IF p = "ingest" THEN AddWorkers ELSE SearchWorkers
Nth(p, n) == <<IF p = "ingest" THEN "add" ELSE "search", n>>
InFlight == {r \in Records : call[r] \notin {"unread", "done", "collected"}}
Collected == {r \in Records : call[r] = "collected"}
DatasetState == IF \A r \in Adds : outcome[r] = "ok"
                  THEN "complete" ELSE "partially_written"

Trouble == faults < MaxTrouble /\ faults' = faults + 1
Fine == faults' = faults

Init ==
    /\ ProfilerInit
    /\ at = "prepare" /\ phase = "ingest" /\ error = None
    /\ read = 0 /\ broken = FALSE
    /\ call = [r \in Records |-> "unread"]
    /\ outcome = [r \in Records |-> None]
    /\ store = [r \in Adds |-> "absent"]
    /\ log = <<Foreign>> /\ held = <<>> /\ cursor = 0 /\ lossy = FALSE
    /\ files = NoFiles /\ imported = <<>> /\ faults = 0

(***************************************************************************)
(* The way in: the profile, the cursor, the dataset.                       *)
(***************************************************************************)
\* The end of the trace file as it is.
CaptureCursor == cursor' = Len(log)

\* prepare_phase_sink probes every target a profile requires.
Prepare ==
    /\ at = "prepare"
    /\ \/ Fine /\ at' = "validate" /\ CaptureCursor /\ UNCHANGED error
       \/ Trouble /\ mode = "required" /\ at' = "over" /\ error' = "failed"
          /\ UNCHANGED cursor
    /\ UNCHANGED <<profiler, phase, pool, store, log, held, lossy, files,
                   imported>>

\* Both files are read to their ends before anything is sent.
Validate ==
    /\ at = "validate"
    /\ \/ Fine /\ at' = "begin" /\ UNCHANGED error
       \/ Trouble /\ at' = "import" /\ error' = "failed"
    /\ UNCHANGED <<profiler, phase, pool, store, trace, files, imported>>

\* measured: a phase outside the profile is run as it is, and drain, which
\* the adds themselves wait for, only leaves an empty window.
Begin ==
    /\ at = "begin"
    /\ Fine
    /\ IF phase = "drain"
         THEN /\ at' = "begin" /\ phase' = "recall"
              /\ IF phase \in Profiled THEN WriteEvent(phase, "not_applicable")
                                       ELSE UNCHANGED window
              /\ UNCHANGED turn
         ELSE /\ at' = IF phase \in Profiled THEN "collect" ELSE "operate"
              /\ turn' = 1
              /\ UNCHANGED <<phase, window>>
    /\ UNCHANGED <<mode, handles, procs, overflow, invalid, cut, error, pool,
                   store, trace, files, imported>>

\* start_phase for the next target; an exception leads to stop_phase.
StartCollector ==
    /\ at = "collect" /\ ~StartDone
    /\ \/ /\ Fine /\ Started(phase)
          /\ UNCHANGED <<at, error>>
       \/ \E raise \in BOOLEAN :
             /\ Trouble
             /\ \/ \E state \in {"skipped", "invalid"} :
                       NotReady(phase, state, raise)
                \/ StartFails(phase, raise)
             /\ at' = IF raise THEN "abandon" ELSE at
             /\ error' = IF raise THEN "failed" ELSE error
       \/ /\ Trouble /\ StartInterrupted(phase)
          /\ at' = "abandon" /\ error' = "interrupted"
    /\ UNCHANGED <<mode, overflow, window, invalid, cut, phase, pool, store,
                   trace, files, imported>>

\* The exception clause of start_phase begins with the first handle.
Abandon ==
    /\ at = "abandon" /\ Fine
    /\ at' = "stop" /\ turn' = 1
    /\ UNCHANGED <<mode, handles, procs, overflow, window, invalid, cut, phase,
                   error, pool, store, trace, files, imported>>

Operate ==
    /\ at = "collect" /\ StartDone /\ Fine
    /\ at' = "operate"
    /\ UNCHANGED <<profiler, phase, error, pool, store, trace, files, imported>>

(***************************************************************************)
(* The pool of one phase: at most Workers requests at a time, one more for *)
(* each that is done.                                                      *)
(***************************************************************************)
Outstanding == {r \in InPhase(phase) : call[r] \notin {"unread", "collected"}}

Feed ==
    /\ at = "operate" /\ ~broken
    /\ read < Cardinality(InPhase(phase))
    /\ Cardinality(Outstanding) < Workers(phase)
    /\ read' = read + 1
    /\ Fine
    /\ call' = [call EXCEPT ![Nth(phase, read + 1)] = "sent"]
    /\ UNCHANGED <<profiler, main, broken, outcome, store, trace, files,
                   imported>>

\* The file cannot be read on, or Ctrl-C in wait: the loop is left, and the
\* executor waits for the requests that run.
BreakLoop ==
    /\ at = "operate" /\ ~broken
    /\ Trouble
    /\ broken' = TRUE
    /\ error' \in {"failed", "interrupted"}
    /\ UNCHANGED <<profiler, at, phase, read, call, outcome, store, trace, files,
                   imported>>

Collect(r) ==
    /\ at = "operate" /\ ~broken /\ call[r] = "done"
    /\ Fine
    /\ call' = [call EXCEPT ![r] = "collected"]
    /\ UNCHANGED <<profiler, main, read, broken, outcome, store, trace, files,
                   imported>>

Finish(r, status) ==
    /\ call' = [call EXCEPT ![r] = "done"]
    /\ outcome' = [outcome EXCEPT ![r] = status]

\* The first call of _run_add: finished at once, accepted with the task to ask
\* for, or an error, an answer without ids or an exception.
AnswerAdd(r) ==
    /\ r \in Adds /\ call[r] = "sent"
    /\ \/ /\ Fine /\ Finish(r, "ok")
          /\ store' = [store EXCEPT ![r] = "done"] /\ log' = Append(log, r)
       \/ /\ Fine /\ call' = [call EXCEPT ![r] = "polling"]
          /\ store' = [store EXCEPT ![r] = "accepted"] /\ log' = Append(log, r)
          /\ UNCHANGED outcome
       \/ /\ Trouble /\ Finish(r, "failed")
          /\ \/ UNCHANGED <<store, log>>
             \/ /\ store' = [store EXCEPT ![r] = "accepted"]
                /\ log' = Append(log, r)
    /\ UNCHANGED <<profiler, main, read, broken, held, cursor, lossy, files,
                   imported>>

\* A status answer before the deadline; one that says running changes nothing.
PollAdd(r) ==
    /\ r \in Adds /\ call[r] = "polling"
    /\ \/ Fine /\ store[r] = "done" /\ Finish(r, "ok")
       \/ Fine /\ store[r] = "failed" /\ Finish(r, "failed")
       \/ Trouble /\ Finish(r, "failed")
    /\ UNCHANGED <<profiler, main, read, broken, store, trace, files, imported>>

\* Mutant: the deadline is looked at when an answer is final only.
GiveUpAnswered(r) ==
    /\ r \in Adds /\ call[r] = "polling" /\ store[r] # "accepted"
    /\ Fine
    /\ Finish(r, "failed")
    /\ UNCHANGED <<profiler, main, read, broken, store, trace, files, imported>>

\* The drain deadline: whatever is answered after it comes too late.
GiveUp(r) ==
    /\ r \in Adds /\ call[r] = "polling"
    /\ Fine
    /\ Finish(r, "failed")
    /\ UNCHANGED <<profiler, main, read, broken, store, trace, files, imported>>

AnswerSearch(r) ==
    /\ r \in Searches /\ call[r] = "sent"
    /\ \/ Fine /\ Finish(r, "ok") /\ log' = Append(log, r)
       \/ Trouble /\ Finish(r, "failed") /\ UNCHANGED log
    /\ UNCHANGED <<profiler, main, read, broken, store, held, cursor, lossy,
                   files, imported>>

\* The pool is left when its loop is over and no request runs.
LeavePool ==
    /\ at = "operate" /\ InFlight = {}
    /\ \/ broken
       \/ read = Cardinality(InPhase(phase)) /\ Outstanding = {}
    /\ Fine
    /\ read' = 0 /\ broken' = FALSE
    /\ at' = IF phase \in Profiled THEN "window"
             ELSE IF error = None THEN "decide" ELSE "import"
    /\ UNCHANGED <<profiler, phase, error, call, outcome, store, trace, files,
                   imported>>

(***************************************************************************)
(* The backend and its log.                                                *)
(***************************************************************************)
BackendStep(r) ==
    /\ store[r] = "accepted"
    /\ \/ Fine /\ store' = [store EXCEPT ![r] = "done"]
       \/ Trouble /\ store' = [store EXCEPT ![r] = "failed"]
    /\ UNCHANGED <<profiler, main, pool, trace, files, imported>>

\* Somebody else's line; a new file under the name; the file cut to nothing.
LogChanges ==
    /\ at \notin {"prepare", "over"}
    /\ Trouble
    /\ \/ log' = Append(log, Foreign) /\ UNCHANGED <<held, lossy>>
       \/ /\ log' = <<>>
          /\ held' = IF held = <<>> THEN log ELSE held
          /\ lossy' = (lossy \/ held # <<>>)
       \/ log' = <<>> /\ lossy' = TRUE /\ UNCHANGED held
    /\ UNCHANGED <<profiler, main, pool, store, cursor, files, imported>>

(***************************************************************************)
(* After the pool: the window's event, the collectors, the decision.       *)
(***************************************************************************)
WriteWindow ==
    /\ at = "window"
    /\ at' = "stop" /\ turn' = 1
    /\ \/ /\ Fine
          /\ WriteEvent(phase, IF error = None THEN "completed" ELSE error)
          /\ UNCHANGED error
       \/ Trouble /\ error' = "failed" /\ UNCHANGED window
    /\ UNCHANGED <<mode, handles, procs, overflow, invalid, cut, phase, pool,
                   store, trace, files, imported>>

StopPhase ==
    /\ at = "stop" /\ turn <= Len(Targets)
    /\ \/ /\ \E verdict \in HandleStates :
                 /\ StopCollector(phase, verdict)
                 /\ IF \/ verdict \in {"completed", handles[<<Target, phase>>]}
                       \/ <<Target, phase>> \in overflow
                      THEN Fine ELSE Trouble
          /\ UNCHANGED <<at, error, cut>>
       \/ /\ Trouble /\ StopIsCut(phase)
          /\ at' = "import" /\ error' \in {"failed", "interrupted"}
          /\ UNCHANGED <<handles, turn>>
    /\ UNCHANGED <<mode, overflow, window, invalid, phase, pool, store, trace,
                   files, imported>>

PhaseStopped ==
    /\ at = "stop" /\ turn > Len(Targets) /\ Fine
    /\ invalid' = (invalid \/ \E t \in Ids : handles[<<t, phase>>] \in Unusable)
    /\ at' = IF error = None THEN "decide" ELSE "import"
    /\ UNCHANGED <<mode, handles, procs, overflow, window, turn, cut, phase,
                   error, pool, store, trace, files, imported>>

\* Mutant: the profile is looked at after the first phase only.
MayGoOnLater == ~(mode = "required" /\ invalid /\ phase = "ingest")

\* fail_invalid: a required profile that became invalid ends the replay.
MayGoOn == ~(mode = "required" /\ invalid)

\* request_events.jsonl, and then the summary of it.
WithEvents == [files EXCEPT !.written = TRUE, !.events = Collected]
Summary(kind, attribution) ==
    [WithEvents EXCEPT !.summary = kind, !.dataset = DatasetState,
                       !.trace = attribution]

\* The end with what there is, the next phase, or the results.
Decide ==
    /\ at = "decide" /\ Fine
    /\ IF ~MayGoOn
         THEN /\ files' = Summary("partial", "exploratory")
              /\ error' = "failed" /\ at' = "import"
              /\ UNCHANGED phase
         ELSE /\ phase' = IF phase = "ingest" THEN "drain" ELSE phase
              /\ at' = IF phase = "ingest" THEN "begin" ELSE "publish"
              /\ UNCHANGED <<error, files>>
    /\ UNCHANGED <<profiler, pool, store, trace, imported>>

\* The events, then the trace file, then the summary of both.
Validated == Collected # {} /\ Collected \subseteq Range(log)

Publish ==
    /\ at = "publish"
    /\ at' = "import"
    /\ \/ /\ Fine
          /\ files' = Summary("full",
                 IF Validated THEN "validated" ELSE "exploratory")
          /\ UNCHANGED error
       \/ Trouble /\ files' = Summary("full", "exploratory") /\ UNCHANGED error
       \/ /\ Trouble /\ files' = WithEvents
          /\ error' = "failed"
    /\ UNCHANGED <<profiler, phase, pool, store, trace, imported>>

\* Mutant: the file is opened by its name again.
LinesReadByName == SubSeq(log, cursor + 1, Len(log))

\* import_trace reads what follows the cursor in the file it holds and, when
\* that file lost its name or was cut, the file that has the name now.
LinesRead ==
    IF held # <<>> THEN SubSeq(held, cursor + 1, Len(held)) \o log
    ELSE IF Len(log) < cursor THEN log
    ELSE SubSeq(log, cursor + 1, Len(log))

InScope(r) == r \in Records /\ (files.written => r \in files.events)
\* The lines import_trace keeps: the spans of this run, in the order they have there.
Kept == [i \in {j \in DOMAIN LinesRead : InScope(LinesRead[j])} |-> LinesRead[i]]

Import ==
    /\ at = "import"
    /\ at' = "over"
    /\ \/ Fine /\ imported' = <<Kept>> /\ UNCHANGED error
       \/ /\ Trouble /\ UNCHANGED imported
          /\ error' = IF error = None THEN "failed" ELSE error
    /\ UNCHANGED <<profiler, phase, pool, store, trace, files>>

Done == at = "over" /\ UNCHANGED vars

Overflow ==
    /\ at = "operate"
    /\ Trouble
    /\ \E t \in Ids : phase \in Profiled /\ RecordOverflows(t, phase)
    /\ UNCHANGED <<main, pool, store, trace, files, imported>>

MainStep ==
    \/ Prepare \/ Validate \/ Begin \/ StartCollector \/ Abandon \/ Operate
    \/ Feed \/ LeavePool \/ WriteWindow \/ StopPhase \/ PhaseStopped
    \/ Decide \/ Publish \/ Import \/ \E r \in Records : Collect(r)
WorkerStep(r) ==
    AnswerAdd(r) \/ PollAdd(r) \/ GiveUp(r) \/ AnswerSearch(r)

Next ==
    \/ MainStep
    \/ \E r \in Records : WorkerStep(r)
    \/ \E r \in Adds : BackendStep(r)
    \/ BreakLoop \/ LogChanges \/ Overflow
    \/ Done

Spec == Init /\ [][Next]_vars
FairSpec ==
    /\ Spec /\ WF_vars(MainStep)
    /\ \A r \in Records : WF_vars(WorkerStep(r))

-----------------------------------------------------------------------------
TypeOK ==
    /\ ProfilerTypeOK
    /\ at \in {"prepare", "validate", "begin", "collect", "abandon", "operate",
               "window", "stop", "decide", "publish", "import", "over"}
    /\ phase \in {"ingest", "drain", "recall"}
    /\ error \in {None, "failed", "interrupted"}
    /\ read \in 0..Cardinality(Records) /\ broken \in BOOLEAN
    /\ call \in [Records -> {"unread", "sent", "polling", "done", "collected"}]
    /\ outcome \in [Records -> {None, "ok", "failed"}]
    /\ store \in [Adds -> {"absent", "accepted", "done", "failed"}]
    /\ faults \in 0..MaxTrouble /\ lossy \in BOOLEAN

\* A collector runs inside its own phase only, so that none of them disturbs a
\* later phase or outlives the replay, whatever fails or is interrupted while
\* collectors are started, requests run or the window is written; only a
\* stop_phase that is itself cut short leaves any.  And requests are sent while
\* the collectors of their phase are all decided, the running ones alive.
CollectorsAreBracketed ==
    /\ \A x \in procs :
           \/ cut
           \/ x[3] = phase /\ at \in {"collect", "abandon", "operate",
                                      "window", "stop"}
    /\ at = "operate" /\ phase \in Profiled =>
           \A t \in Ids :
               /\ handles[<<t, phase>>] \notin {"absent", "probing"}
               /\ handles[<<t, phase>>] = "running" <=>
                      <<"stat", t, phase>> \in procs

\* What the summary says: a full one counts every request of both files; a
\* dataset called complete has been stored by the backend to the last add,
\* before any search was sent; and under a required profile each of the phases
\* with requests it asks for was measured by every collector.
SummaryIsHonest ==
    /\ files.summary = "full" =>
          /\ files.events = Records
          /\ mode = "required" =>
                \A t \in Ids, p \in Profiled \cap {"ingest", "recall"} :
                    handles[<<t, p>>] = "completed" /\ window[p] = "completed"
    /\ files.dataset = "complete" => \A r \in Adds : store[r] = "done"
    /\ files.trace = "validated" => \A r \in Records : outcome[r] # None

\* What is measured, and what is said of it.
ReplayInv == TypeOK /\ CollectorsAreBracketed /\ SummaryIsHonest

\* The imported trace is this run's: every span its requests left behind, once
\* and in order, and nobody else's, when the file was not cut and got a new
\* successor at most once while the run went on.
ImportIsExact ==
    \A lines \in Range(imported) :
        /\ IsInjective(lines) /\ Range(lines) \subseteq Records
        /\ ~lossy => Range(lines) = {r \in Range(held \o log) : InScope(r)}

\* The replay ends although the backend may never finish what it accepted.
EventuallyOver == <>(at = "over")
=============================================================================
