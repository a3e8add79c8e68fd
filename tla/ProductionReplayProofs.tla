------------------------ MODULE ProductionReplayProofs ------------------------
(***************************************************************************)
(* What is proved of the replay of module ProductionReplay, for any number *)
(* of requests, workers and targets, any profile and any bound on trouble. *)
(*                                                                         *)
(* Collectors: start_phase has decided the targets before turn, stop_phase *)
(* has stopped them, and between phases none runs unless a stop was cut.   *)
(* Requests: the records of a phase are sent in the order of its file, and *)
(* a pool that is left without an exception has collected all.  Spans: a   *)
(* request that is answered leaves its span at the end of the log, once,   *)
(* and nobody's request is before the cursor.                              *)
(***************************************************************************)
EXTENDS ProductionReplay, FiniteSetTheorems, SequenceTheorems, TLAPS

Line == Records \cup {Foreign}
\* The two phases that have requests; drain has a window only.
Sending == {"ingest", "recall"}
Bracket == {"collect", "abandon", "window", "stop"}
Places == {"prepare", "validate", "begin", "collect", "abandon", "operate",
           "window", "stop", "decide", "publish", "import", "over"}

-----------------------------------------------------------------------------
\* The types, one variable at a time.
MainTypes ==
    /\ at \in Places /\ phase \in {"ingest", "drain", "recall"}
    /\ error \in {None, "failed", "interrupted"}
PoolTypes ==
    /\ read \in Nat /\ broken \in BOOLEAN
    /\ call \in [Records -> {"unread", "sent", "polling", "done", "collected"}]
    /\ outcome \in [Records -> {None, "ok", "failed"}]
    /\ store \in [Adds -> {"absent", "accepted", "done", "failed"}]
LogTypes ==
    /\ log \in Seq(Line) /\ held \in Seq(Line) /\ cursor \in Nat /\ lossy \in BOOLEAN
FileTypes ==
    /\ files \in [written : BOOLEAN, events : SUBSET Records, summary : {None, "full", "partial"},
                  dataset : {None, "complete", "partially_written"},
                  trace : {None, "validated", "exploratory"}]
    /\ imported # <<>> => at = "over"
Types ==
    /\ ProfilerTypeOK /\ MainTypes /\ PoolTypes /\ LogTypes /\ FileTypes
    /\ faults \in 0..MaxTrouble

\* Where the main thread can be in which phase, and with an exception or without.
PlaceInv ==
    /\ at \in Bracket => phase \in Profiled
    /\ phase = "drain" => at \in {"begin", "import", "over"}
    /\ at \in {"prepare", "validate"} => phase = "ingest"
    /\ at = "publish" => phase = "recall"
    /\ at \in {"prepare", "validate", "begin", "collect", "decide", "publish"} => error = None
    /\ at = "abandon" => error # None
    /\ at = "operate" => broken = (error # None)
    /\ at # "operate" => read = 0 /\ ~broken
    /\ cut => at \in {"import", "over"}
    /\ files # NoFiles => at \in {"import", "over"}
    /\ files.summary = "full" => phase = "recall"

(***************************************************************************)
(* The collectors.                                                         *)
(***************************************************************************)
\* Between phases no collector runs; stop_phase leaves those it has not reached.
ProcsInv ==
    ~cut => \A x \in procs :
        /\ x[3] = phase /\ at \in {"collect", "abandon", "operate", "window", "stop"}
        /\ at = "stop" => \E i \in turn..Len(Targets) : x[2] = Targets[i]

\* start_phase has decided the targets before turn, all of them when requests are
\* sent; the running ones are alive.
Decided(t) ==
    /\ handles[<<t, phase>>] \in {"skipped", "failed", "running", "invalid"}
    /\ handles[<<t, phase>>] = "running" <=> <<"stat", t, phase>> \in procs
    /\ mode = "required" => handles[<<t, phase>>] = "running"
StartInv ==
    /\ at = "collect" =>
          \A i \in DOMAIN Targets :
             IF i < turn THEN Decided(Targets[i])
             ELSE <<"stat", Targets[i], phase>> \notin procs
    /\ at = "operate" /\ phase \in Profiled => \A t \in Ids : Decided(t)

\* A required profile: as long as nothing went wrong, what is stopped was running.
Measured(p) ==
    window[p] = "completed" /\ \A t \in Ids : handles[<<t, p>>] = "completed"
StopInv ==
    mode = "required" /\ error = None =>
        /\ at = "window" => \A t \in Ids : handles[<<t, phase>>] = "running"
        /\ at = "stop" =>
              /\ window[phase] = "completed"
              /\ \A i \in DOMAIN Targets : handles[<<Targets[i], phase>>] \in
                    IF i < turn THEN {"completed", "failed", "invalid"} ELSE {"running"}
        /\ at = "decide" /\ phase \in Profiled /\ ~invalid => Measured(phase)

MeasuredInv ==
    mode = "required" =>
        /\ phase # "ingest" /\ "ingest" \in Profiled => Measured("ingest")
        /\ (at = "publish" \/ files.summary = "full") /\ "recall" \in Profiled =>
              Measured("recall")

(***************************************************************************)
(* The requests.                                                           *)
(***************************************************************************)
\* A pool sends the records of its phase in the order of its file.
PoolInv ==
    /\ at = "operate" =>
          /\ read <= Cardinality(InPhase(phase))
          /\ \A r \in InPhase(phase) : call[r] # "unread" <=> r[2] <= read
    /\ at # "operate" => \A r \in Records : call[r] \notin {"sent", "polling"}
    /\ phase # "recall" \/ at \in {"begin", "collect", "abandon"} =>
          \A r \in Searches : call[r] = "unread"
    /\ phase = "ingest" /\ at \in {"prepare", "validate", "begin", "collect", "abandon"} =>
          \A r \in Adds : call[r] = "unread"

\* A phase that is over without an exception has collected all its records.
CollectedInv ==
    /\ phase # "ingest" => \A r \in Adds : call[r] = "collected"
    /\ error = None /\ at \in {"window", "stop", "decide", "publish"} =>
          \A r \in InPhase(phase) : call[r] = "collected"

\* A request has a status once it is done, and what finished well is stored.
OutcomeInv ==
    /\ \A r \in Records : outcome[r] # None <=> call[r] \in {"done", "collected"}
    /\ \A r \in Adds : outcome[r] = "ok" => store[r] = "done"

(***************************************************************************)
(* The spans.                                                              *)
(***************************************************************************)
Logged == Range(held) \cup Range(log)
Base == IF held = <<>> THEN log ELSE held
Once(s) == \A i, j \in DOMAIN s : s[i] = s[j] /\ s[i] \in Records => i = j
LogInv ==
    /\ Once(log) /\ Once(held) /\ Range(held) \cap Range(log) \subseteq {Foreign}
    /\ \A r \in Records : r \in Logged => call[r] \notin {"unread", "sent"}
    /\ at = "prepare" => log = <<Foreign>> /\ held = <<>> /\ ~lossy /\ cursor = 0
    /\ ~lossy => /\ cursor <= Len(Base)
                 /\ \A i \in 1..cursor : Base[i] = Foreign
                 /\ held = <<>> => log # <<>>

ReplayIndInv ==
    /\ Types /\ PlaceInv /\ ProcsInv /\ StartInv /\ StopInv /\ MeasuredInv
    /\ PoolInv /\ CollectedInv /\ OutcomeInv /\ LogInv
    /\ SummaryIsHonest /\ ImportIsExact

-----------------------------------------------------------------------------
\* The data: how many requests a phase has, and which they are.
LEMMA RecordFacts ==
    /\ IsFiniteSet(Adds) /\ Cardinality(Adds) = NumAdds
    /\ IsFiniteSet(Searches) /\ Cardinality(Searches) = NumSearches
    /\ IsFiniteSet(Records) /\ Foreign \notin Records /\ Adds \cap Searches = {}
<1>1. ASSUME NEW n \in Nat, NEW kind
      PROVE  IsFiniteSet({kind} \X (1..n)) /\ Cardinality({kind} \X (1..n)) = n
  <2>1. IsFiniteSet(1..n) /\ Cardinality(1..n) = n
    BY FS_Interval
  <2>2. IsFiniteSet({kind}) /\ Cardinality({kind}) = 1
    BY FS_Singleton
  <2>3. /\ IsFiniteSet({kind} \X (1..n))
        /\ Cardinality({kind} \X (1..n)) = Cardinality({kind}) * Cardinality(1..n)
    BY <2>1, <2>2, FS_Product
  <2> QED
    BY <2>1, <2>2, <2>3
<1>2. NumAdds \in Nat /\ NumSearches \in Nat
  BY ReplayAssumption
<1>3. /\ IsFiniteSet(Adds) /\ Cardinality(Adds) = NumAdds
      /\ IsFiniteSet(Searches) /\ Cardinality(Searches) = NumSearches
  BY <1>1, <1>2 DEF Adds, Searches
<1>4. IsFiniteSet(Records)
  BY <1>3, FS_Union DEF Records
<1>5. Foreign \notin Records /\ Adds \cap Searches = {}
  BY DEF Foreign, Records, Adds, Searches
<1> QED
  BY <1>3, <1>4, <1>5

LEMMA PhaseFacts ==
    ASSUME NEW p \in Sending
    PROVE  /\ InPhase(p) \subseteq Records /\ Cardinality(InPhase(p)) \in Nat
           /\ Cardinality(InPhase(p)) <= Cardinality(Records) /\ Cardinality(Records) \in Nat
           /\ \A n \in 1..Cardinality(InPhase(p)) : Nth(p, n) \in InPhase(p) /\ Nth(p, n)[2] = n
           /\ \A r \in InPhase(p) : /\ r[2] \in 1..Cardinality(InPhase(p)) /\ r = Nth(p, r[2])
<1>1. NumAdds \in Nat /\ NumSearches \in Nat
  BY ReplayAssumption
<1>2. InPhase(p) \in {Adds, Searches} /\ InPhase(p) \in SUBSET Records
  BY DEF InPhase, Records
<1>3. IsFiniteSet(InPhase(p)) /\ Cardinality(InPhase(p)) \in Nat
  BY <1>1, <1>2, RecordFacts
<1>4. /\ Cardinality(InPhase(p)) <= Cardinality(Records)
      /\ Cardinality(Records) \in Nat
  BY <1>2, RecordFacts, FS_Subset, FS_CardinalityType
<1>5. CASE p = "ingest"
  <2>1. Cardinality(InPhase(p)) = NumAdds
    BY <1>5, RecordFacts DEF InPhase
  <2> QED
    BY <1>1, <1>2, <1>4, <1>5, <2>1 DEF InPhase, Nth, Adds
<1>6. CASE p = "recall"
  <2>1. Cardinality(InPhase(p)) = NumSearches
    BY <1>6, RecordFacts DEF InPhase
  <2> QED
    BY <1>1, <1>2, <1>4, <1>6, <2>1 DEF InPhase, Nth, Searches
<1> QED
  BY <1>5, <1>6 DEF Sending

\* The targets, each of which has one place in their order.
LEMMA TargetFacts ==
    /\ Len(Targets) \in Nat /\ DOMAIN Targets = 1..Len(Targets)
    /\ \A i, j \in DOMAIN Targets : Targets[i] = Targets[j] => i = j
    /\ \A i \in DOMAIN Targets : Targets[i] \in Ids
    /\ \A t \in Ids : \E i \in DOMAIN Targets : t = Targets[i]
  BY ProfilerAssumption DEF IsInjective, Ids, Range

(***************************************************************************)
(* Which steps change what.                                                *)
(***************************************************************************)
LEMMA ModeFrame == ASSUME [Next]_vars PROVE mode' = mode
  BY DEF Next, vars, MainStep, WorkerStep, Prepare, Validate, Begin, StartCollector,
         Abandon, Operate, Feed, LeavePool, WriteWindow, StopPhase, PhaseStopped, Decide,
         Publish, Import, Collect, AnswerAdd, PollAdd, GiveUp, AnswerSearch, BackendStep,
         BreakLoop, LogChanges, Overflow, Done, RecordOverflows, main, pool, trace, replay,
         profiler

LEMMA HandlesFrame == ASSUME [Next]_vars PROVE UNCHANGED handles \/ StartCollector \/ StopPhase
  BY DEF Next, vars, MainStep, WorkerStep, Prepare, Validate, Begin, Abandon, Operate, Feed,
         LeavePool, WriteWindow, PhaseStopped, Decide, Publish, Import, Collect, AnswerAdd,
         PollAdd, GiveUp, AnswerSearch, BackendStep, BreakLoop, LogChanges, Overflow, Done,
         RecordOverflows, main, pool, trace, replay, profiler

LEMMA ProcsFrame ==
    ASSUME [Next]_vars PROVE UNCHANGED procs \/ StartCollector \/ StopPhase \/ Overflow
  BY DEF Next, vars, MainStep, WorkerStep, Prepare, Validate, Begin, Abandon, Operate, Feed,
         LeavePool, WriteWindow, PhaseStopped, Decide, Publish, Import, Collect, AnswerAdd,
         PollAdd, GiveUp, AnswerSearch, BackendStep, BreakLoop, LogChanges, Done,
         RecordOverflows, main, pool, trace, replay, profiler

LEMMA OverflowFrame == ASSUME [Next]_vars PROVE UNCHANGED overflow \/ Overflow
  BY DEF Next, vars, MainStep, WorkerStep, Prepare, Validate, Begin, StartCollector,
         Abandon, Operate, Feed, LeavePool, WriteWindow, StopPhase, PhaseStopped, Decide,
         Publish, Import, Collect, AnswerAdd, PollAdd, GiveUp, AnswerSearch, BackendStep,
         BreakLoop, LogChanges, Done, RecordOverflows, main, pool, trace, replay, profiler

LEMMA WindowFrame == ASSUME [Next]_vars PROVE UNCHANGED window \/ Begin \/ WriteWindow
  BY DEF Next, vars, MainStep, WorkerStep, Prepare, Validate, StartCollector, Abandon,
         Operate, Feed, LeavePool, StopPhase, PhaseStopped, Decide, Publish, Import,
         Collect, AnswerAdd, PollAdd, GiveUp, AnswerSearch, BackendStep, BreakLoop,
         LogChanges, Overflow, Done, RecordOverflows, main, pool, trace, replay, profiler

LEMMA TurnFrame ==
    ASSUME [Next]_vars
    PROVE  UNCHANGED turn \/ Begin \/ StartCollector \/ Abandon \/ WriteWindow \/ StopPhase
  BY DEF Next, vars, MainStep, WorkerStep, Prepare, Validate, Operate, Feed, LeavePool,
         PhaseStopped, Decide, Publish, Import, Collect, AnswerAdd, PollAdd, GiveUp,
         AnswerSearch, BackendStep, BreakLoop, LogChanges, Overflow, Done, RecordOverflows,
         main, pool, trace, replay, profiler

LEMMA InvalidFrame == ASSUME [Next]_vars PROVE UNCHANGED invalid \/ PhaseStopped
  BY DEF Next, vars, MainStep, WorkerStep, Prepare, Validate, Begin, StartCollector,
         Abandon, Operate, Feed, LeavePool, WriteWindow, StopPhase, Decide, Publish, Import,
         Collect, AnswerAdd, PollAdd, GiveUp, AnswerSearch, BackendStep, BreakLoop,
         LogChanges, Overflow, Done, RecordOverflows, main, pool, trace, replay, profiler

LEMMA CutFrame == ASSUME [Next]_vars PROVE UNCHANGED cut \/ StopPhase
  BY DEF Next, vars, MainStep, WorkerStep, Prepare, Validate, Begin, StartCollector,
         Abandon, Operate, Feed, LeavePool, WriteWindow, PhaseStopped, Decide, Publish,
         Import, Collect, AnswerAdd, PollAdd, GiveUp, AnswerSearch, BackendStep, BreakLoop,
         LogChanges, Overflow, Done, RecordOverflows, main, pool, trace, replay, profiler

LEMMA MainFrame ==
    ASSUME [Next]_vars
    PROVE  \/ UNCHANGED main
           \/ Prepare \/ Validate \/ Begin \/ StartCollector \/ Abandon \/ Operate \/ BreakLoop
           \/ LeavePool \/ WriteWindow \/ StopPhase \/ PhaseStopped \/ Decide \/ Publish \/ Import
  BY DEF Next, vars, MainStep, WorkerStep, Feed, Collect, AnswerAdd, PollAdd, GiveUp,
         AnswerSearch, BackendStep, LogChanges, Overflow, Done, RecordOverflows, main, pool,
         trace, replay, profiler

LEMMA ReadFrame == ASSUME [Next]_vars PROVE UNCHANGED read \/ Feed \/ LeavePool
  BY DEF Next, vars, MainStep, WorkerStep, Prepare, Validate, Begin, StartCollector,
         Abandon, Operate, WriteWindow, StopPhase, PhaseStopped, Decide, Publish, Import,
         Collect, AnswerAdd, PollAdd, GiveUp, AnswerSearch, BackendStep, BreakLoop,
         LogChanges, Overflow, Done, RecordOverflows, main, pool, trace, replay, profiler

LEMMA BrokenFrame == ASSUME [Next]_vars PROVE UNCHANGED broken \/ BreakLoop \/ LeavePool
  BY DEF Next, vars, MainStep, WorkerStep, Prepare, Validate, Begin, StartCollector,
         Abandon, Operate, Feed, WriteWindow, StopPhase, PhaseStopped, Decide, Publish,
         Import, Collect, AnswerAdd, PollAdd, GiveUp, AnswerSearch, BackendStep, LogChanges,
         Overflow, Done, RecordOverflows, main, pool, trace, replay, profiler

\* What becomes of a request: it is sent, answered, given up or collected.
LEMMA CallFrame ==
    ASSUME [Next]_vars
    PROVE  \/ UNCHANGED <<call, outcome>>
           \/ Feed \/ \E r \in Records : Collect(r) \/ WorkerStep(r)
  BY DEF Next, vars, MainStep, Prepare, Validate, Begin, StartCollector, Abandon, Operate,
         LeavePool, WriteWindow, StopPhase, PhaseStopped, Decide, Publish, Import,
         BackendStep, BreakLoop, LogChanges, Overflow, Done, RecordOverflows, main, pool,
         trace, replay, profiler

LEMMA OutcomeFrame ==
    ASSUME [Next]_vars PROVE UNCHANGED outcome \/ \E r \in Records : WorkerStep(r)
  BY DEF Next, vars, MainStep, Prepare, Validate, Begin, StartCollector, Abandon, Operate,
         Feed, LeavePool, WriteWindow, StopPhase, PhaseStopped, Decide, Publish, Import,
         Collect, BackendStep, BreakLoop, LogChanges, Overflow, Done, RecordOverflows, main,
         pool, trace, replay, profiler

LEMMA StoreFrame ==
    ASSUME [Next]_vars
    PROVE  \/ UNCHANGED store \/ \E r \in Records : AnswerAdd(r)
           \/ \E r \in Adds : BackendStep(r)
  BY DEF Next, vars, MainStep, WorkerStep, Prepare, Validate, Begin, StartCollector,
         Abandon, Operate, Feed, LeavePool, WriteWindow, StopPhase, PhaseStopped, Decide,
         Publish, Import, Collect, PollAdd, GiveUp, AnswerSearch, BreakLoop, LogChanges,
         Overflow, Done, RecordOverflows, main, pool, trace, replay, profiler

LEMMA LogFrame ==
    ASSUME [Next]_vars
    PROVE  \/ UNCHANGED <<log, held, lossy>> \/ LogChanges
           \/ \E r \in Records : AnswerAdd(r) \/ AnswerSearch(r)
  BY DEF Next, vars, MainStep, WorkerStep, Prepare, Validate, Begin, StartCollector,
         Abandon, Operate, Feed, LeavePool, WriteWindow, StopPhase, PhaseStopped, Decide,
         Publish, Import, Collect, PollAdd, GiveUp, BackendStep, BreakLoop, Overflow, Done,
         RecordOverflows, main, pool, trace, replay, profiler

LEMMA CursorFrame == ASSUME [Next]_vars PROVE UNCHANGED cursor \/ Prepare
  BY DEF Next, vars, MainStep, WorkerStep, Validate, Begin, StartCollector, Abandon,
         Operate, Feed, LeavePool, WriteWindow, StopPhase, PhaseStopped, Decide, Publish,
         Import, Collect, AnswerAdd, PollAdd, GiveUp, AnswerSearch, BackendStep, BreakLoop,
         LogChanges, Overflow, Done, RecordOverflows, main, pool, trace, replay, profiler

LEMMA FilesFrame == ASSUME [Next]_vars PROVE UNCHANGED files \/ Decide \/ Publish
  BY DEF Next, vars, MainStep, WorkerStep, Prepare, Validate, Begin, StartCollector,
         Abandon, Operate, Feed, LeavePool, WriteWindow, StopPhase, PhaseStopped, Import,
         Collect, AnswerAdd, PollAdd, GiveUp, AnswerSearch, BackendStep, BreakLoop,
         LogChanges, Overflow, Done, RecordOverflows, main, pool, trace, replay, profiler

LEMMA ImportedFrame == ASSUME [Next]_vars PROVE UNCHANGED imported \/ Import
  BY DEF Next, vars, MainStep, WorkerStep, Prepare, Validate, Begin, StartCollector,
         Abandon, Operate, Feed, LeavePool, WriteWindow, StopPhase, PhaseStopped, Decide,
         Publish, Collect, AnswerAdd, PollAdd, GiveUp, AnswerSearch, BackendStep, BreakLoop,
         LogChanges, Overflow, Done, RecordOverflows, main, pool, trace, replay, profiler

LEMMA FaultsFrame ==
    ASSUME [Next]_vars PROVE UNCHANGED faults \/ (faults < MaxTrouble /\ faults' = faults + 1)
  BY DEF Next, vars, MainStep, WorkerStep, Prepare, Validate, Begin, StartCollector,
         Abandon, Operate, Feed, LeavePool, WriteWindow, StopPhase, PhaseStopped, Decide,
         Publish, Import, Collect, AnswerAdd, PollAdd, GiveUp, AnswerSearch, BackendStep,
         BreakLoop, LogChanges, Overflow, Done, RecordOverflows, main, pool, trace, replay,
         profiler, Trouble, Fine

-----------------------------------------------------------------------------
(***************************************************************************)
(* The types.                                                              *)
(***************************************************************************)
\* The target a step of start_phase or stop_phase is about.
LEMMA TargetStep ==
    ASSUME ReplayIndInv, (at = "collect" /\ ~StartDone) \/ (at = "stop" /\ turn <= Len(Targets))
    PROVE  /\ turn \in DOMAIN Targets /\ Target \in Ids /\ phase \in Profiled
           /\ <<Target, phase>> \in Ids \X Profiled
           /\ turn + 1 \in 1..Len(Targets) + 1
<1>1. turn \in 1..Len(Targets)
  BY TargetFacts DEF ReplayIndInv, Types, ProfilerTypeOK, StartDone
<1>2. phase \in Profiled
  BY DEF ReplayIndInv, PlaceInv, Bracket
<1> QED
  BY <1>1, <1>2, TargetFacts DEF Target

\* A step of start_phase: the state of the collector, and the processes that run.
Starts(state, kinds) ==
    /\ handles' = [handles EXCEPT ![<<Target, phase>>] = state]
    /\ procs' = procs \cup {<<k, Target, phase>> : k \in kinds}
    /\ \/ /\ at' = "collect" /\ error' = None
          /\ state \in {"skipped", "failed", "running", "invalid"}
          /\ mode = "required" => state = "running"
          /\ state = "running" <=> "stat" \in kinds
       \/ at' = "abandon" /\ error' \in {"failed", "interrupted"}

LEMMA StartStep ==
    ASSUME ReplayIndInv, StartCollector
    PROVE  /\ at = "collect" /\ ~StartDone /\ error = None /\ phase \in Profiled
           /\ turn' = turn + 1 /\ UNCHANGED <<mode, phase, overflow, window, invalid, cut>>
           /\ \E state \in HandleStates, kinds \in SUBSET {"stat", "record"} : Starts(state, kinds)
<1>1. at = "collect" /\ ~StartDone /\ error = None /\ phase \in Profiled /\ mode \in Modes
  BY DEF ReplayIndInv, PlaceInv, Bracket, StartCollector, Types, ProfilerTypeOK
<1>2. turn' = turn + 1 /\ UNCHANGED <<mode, phase, overflow, window, invalid, cut>>
  BY DEF StartCollector, Started, NotReady, StartFails, StartInterrupted
<1>3. "stat" \in Kinds(phase) /\ Kinds(phase) \in SUBSET {"stat", "record"}
  BY DEF Kinds
<1>4. \/ Started(phase) /\ UNCHANGED <<at, error>>
      \/ \E raise \in BOOLEAN :
            /\ \/ \E state \in {"skipped", "invalid"} : NotReady(phase, state, raise)
               \/ StartFails(phase, raise)
            /\ at' = IF raise THEN "abandon" ELSE at
            /\ error' = IF raise THEN "failed" ELSE error
      \/ StartInterrupted(phase) /\ at' = "abandon" /\ error' = "interrupted"
  BY DEF StartCollector
<1>5. CASE Started(phase) /\ UNCHANGED <<at, error>>
  <2>1. Starts("running", Kinds(phase))
    BY <1>1, <1>3, <1>5 DEF Started, Starts
  <2> QED
    BY <1>1, <1>2, <1>3, <2>1 DEF HandleStates
<1>6. ASSUME NEW raise \in BOOLEAN, NEW state \in {"skipped", "invalid"},
             NotReady(phase, state, raise), at' = IF raise THEN "abandon" ELSE at,
             error' = IF raise THEN "failed" ELSE error
      PROVE  Starts(state, {})
  BY <1>1, <1>6 DEF Starts, NotReady
<1>7. ASSUME NEW raise \in BOOLEAN,
             StartFails(phase, raise), at' = IF raise THEN "abandon" ELSE at,
             error' = IF raise THEN "failed" ELSE error
      PROVE  Starts("failed", {}) \/ Starts("probing", {})
  BY <1>1, <1>7 DEF Starts, StartFails
<1>8. ASSUME StartInterrupted(phase), at' = "abandon", error' = "interrupted"
      PROVE  Starts("probing", {}) \/ Starts("probing", {"stat"})
                 \/ Starts("probing", Kinds(phase))
  BY <1>8 DEF Starts, StartInterrupted
<1>9. {"skipped", "invalid", "failed", "probing"} \subseteq HandleStates
  BY DEF HandleStates
<1>10. \E state \in HandleStates, kinds \in SUBSET {"stat", "record"} : Starts(state, kinds)
  BY <1>3, <1>4, <1>5, <1>6, <1>7, <1>8, <1>9
<1> QED
  BY <1>1, <1>2, <1>10

\* A step of stop_phase: the state of the collector, whose processes are gone.
LEMMA StopStep ==
    ASSUME ReplayIndInv, StopPhase
    PROVE  /\ at = "stop" /\ turn <= Len(Targets) /\ phase \in Profiled
           /\ UNCHANGED <<mode, phase, overflow, window, invalid>>
           /\ procs' = {x \in procs : <<x[2], x[3]>> # <<Target, phase>>}
           /\ \/ /\ UNCHANGED <<at, error, cut>> /\ turn' = turn + 1
                 /\ \E verdict \in HandleStates :
                       /\ handles' = [handles EXCEPT ![<<Target, phase>>] = verdict]
                       /\ handles[<<Target, phase>>] = "running" =>
                             verdict \in {"completed", "failed", "invalid"}
              \/ /\ cut' = TRUE /\ at' = "import" /\ error' \in {"failed", "interrupted"}
                 /\ UNCHANGED <<handles, turn>>
<1>1. at = "stop" /\ turn <= Len(Targets) /\ phase \in Profiled
  BY DEF ReplayIndInv, PlaceInv, Bracket, StopPhase
<1>2. UNCHANGED <<mode, phase, overflow, window, invalid>>
  BY DEF StopPhase
<1>3. procs' = {x \in procs : <<x[2], x[3]>> # <<Target, phase>>}
  BY DEF StopPhase, StopCollector, StopIsCut, StopProcesses
<1>4. ASSUME NEW verdict \in HandleStates, StopCollector(phase, verdict)
      PROVE  /\ handles' = [handles EXCEPT ![<<Target, phase>>] = verdict]
             /\ turn' = turn + 1
             /\ handles[<<Target, phase>>] = "running" =>
                   verdict \in {"completed", "failed", "invalid"}
  BY <1>4 DEF StopCollector, Untouched, Verdicts, CounterVerdicts, Unusable
<1>5. ASSUME StopIsCut(phase) PROVE cut' = TRUE
  BY <1>5 DEF StopIsCut
<1> QED
  BY <1>1, <1>2, <1>3, <1>4, <1>5 DEF StopPhase

LEMMA HandlesType ==
    ASSUME ReplayIndInv, [Next]_vars PROVE handles' \in [Ids \X Profiled -> HandleStates]
<1>1. handles \in [Ids \X Profiled -> HandleStates]
  BY DEF ReplayIndInv, Types, ProfilerTypeOK
<1>2. CASE StartCollector
  BY <1>1, <1>2, StartStep DEF Starts
<1>3. CASE StopPhase
  BY <1>1, <1>3, StopStep
<1> QED
  BY <1>1, <1>2, <1>3, HandlesFrame

\* The record watcher takes a record process away.
LEMMA OverflowStep ==
    ASSUME ReplayIndInv, Overflow
    PROVE  /\ at = "operate"
           /\ \E t \in Ids : /\ procs' = procs \ {<<"record", t, phase>>}
                             /\ overflow' = overflow \cup {<<t, phase>>} /\ phase \in Profiled
  BY DEF Overflow, RecordOverflows

LEMMA ProcsType ==
    ASSUME ReplayIndInv, [Next]_vars
    PROVE  procs' \subseteq {"stat", "record"} \X Ids \X Profiled
<1>1. procs \subseteq {"stat", "record"} \X Ids \X Profiled
  BY DEF ReplayIndInv, Types, ProfilerTypeOK
<1>2. CASE StartCollector
  <2>1. PICK kinds \in SUBSET {"stat", "record"} :
               procs' = procs \cup {<<k, Target, phase>> : k \in kinds}
    BY <1>2, StartStep DEF Starts
  <2>2. Target \in Ids /\ phase \in Profiled
    BY <1>2, StartStep, TargetStep
  <2> QED
    BY <1>1, <2>1, <2>2
<1>3. CASE StopPhase
  BY <1>1, <1>3, StopStep
<1>4. CASE Overflow
  BY <1>1, <1>4, OverflowStep
<1> QED
  BY <1>1, <1>2, <1>3, <1>4, ProcsFrame

LEMMA ProfilerTypes == ASSUME ReplayIndInv, [Next]_vars PROVE ProfilerTypeOK'
<1> USE DEF ReplayIndInv, Types, ProfilerTypeOK
<1>1. mode' \in Modes
  BY ModeFrame
<1>2. overflow' \subseteq Ids \X Profiled
  BY OverflowFrame, OverflowStep
<1>3. window' \in [Profiled -> WindowStates]
  <2>1. CASE Begin
    BY <2>1 DEF Begin, WriteEvent, WindowStates
  <2>2. CASE WriteWindow
    BY <2>2 DEF WriteWindow, WriteEvent, WindowStates, MainTypes, None
  <2> QED
    BY <2>1, <2>2, WindowFrame
<1>4. {invalid, cut}' \subseteq BOOLEAN
  BY InvalidFrame, CutFrame, StopStep DEF PhaseStopped
<1>5. turn' \in 1..Len(Targets) + 1
  <2>1. 1 \in 1..Len(Targets) + 1
    BY TargetFacts
  <2>2. CASE StartCollector
    BY <2>2, StartStep, TargetStep
  <2>3. CASE StopPhase
    BY <2>3, StopStep, TargetStep
  <2> QED
    BY <2>1, <2>2, <2>3, TurnFrame DEF Begin, Abandon, WriteWindow
<1>6. handles' \in [Ids \X Profiled -> HandleStates]
  BY HandlesType
<1>7. procs' \subseteq {"stat", "record"} \X Ids \X Profiled
  BY ProcsType
<1> QED
  BY <1>1, <1>2, <1>3, <1>4, <1>5, <1>6, <1>7

LEMMA MainTypesKeep == ASSUME ReplayIndInv, [Next]_vars PROVE MainTypes'
<1> USE DEF ReplayIndInv, Types, MainTypes, Places
<1>1. CASE StartCollector
  BY <1>1, StartStep DEF Starts
<1>2. CASE StopPhase
  BY <1>2, StopStep
<1>3. CASE UNCHANGED main \/ Prepare \/ Validate \/ Begin \/ Abandon \/ Operate \/ BreakLoop
  BY <1>3 DEF main, Prepare, Validate, Begin, Abandon, Operate, BreakLoop
<1>4. CASE LeavePool \/ WriteWindow \/ PhaseStopped \/ Decide \/ Publish \/ Import
  BY <1>4 DEF LeavePool, WriteWindow, PhaseStopped, Decide, Publish, Import
<1> QED
  BY <1>1, <1>2, <1>3, <1>4, MainFrame

\* What the workers do with a request, and the status they give it.
LEMMA WorkerStepIs ==
    ASSUME NEW r, WorkerStep(r)
    PROVE  /\ r \in Records /\ call[r] \in {"sent", "polling"}
           /\ UNCHANGED <<profiler, main, read, broken, held, cursor, lossy, files, imported>>
           /\ \/ /\ call' = [call EXCEPT ![r] = "done"]
                 /\ \E status \in {"ok", "failed"} : outcome' = [outcome EXCEPT ![r] = status]
              \/ /\ call' = [call EXCEPT ![r] = "polling"] /\ UNCHANGED outcome
                 /\ r \in Adds /\ call[r] = "sent"
           /\ \/ UNCHANGED log
              \/ log' = Append(log, r) /\ call[r] = "sent"
           /\ \/ UNCHANGED store
              \/ /\ r \in Adds /\ call[r] = "sent"
                 /\ \E state \in {"accepted", "done"} : store' = [store EXCEPT ![r] = state]
<1> USE DEF WorkerStep, Finish, Fine, Trouble, Records, trace
<1>1. CASE AnswerAdd(r)
  BY <1>1 DEF AnswerAdd
<1>2. CASE PollAdd(r)
  BY <1>2 DEF PollAdd
<1>3. CASE GiveUp(r)
  BY <1>3 DEF GiveUp
<1>4. CASE AnswerSearch(r)
  BY <1>4 DEF AnswerSearch
<1> QED
  BY <1>1, <1>2, <1>3, <1>4

LEMMA PoolTypesKeep == ASSUME ReplayIndInv, [Next]_vars PROVE PoolTypes'
<1> USE DEF ReplayIndInv, Types, PoolTypes
<1>1. read' \in Nat
  <2>1. read \in Nat
    OBVIOUS
  <2>2. (Feed => read' = read + 1) /\ (LeavePool => read' = 0)
    BY DEF Feed, LeavePool
  <2> HIDE DEF ReplayIndInv
  <2> QED
    BY <2>1, <2>2, ReadFrame
<1>2. broken' \in BOOLEAN
  BY BrokenFrame DEF LeavePool, BreakLoop
<1>3. /\ call' \in [Records -> {"unread", "sent", "polling", "done", "collected"}]
      /\ outcome' \in [Records -> {None, "ok", "failed"}]
  <2>1. CASE Feed
    BY <2>1 DEF Feed
  <2>2. CASE \E r \in Records : Collect(r)
    BY <2>2 DEF Collect
  <2>3. CASE \E r \in Records : WorkerStep(r)
    BY <2>3, WorkerStepIs
  <2> QED
    BY <2>1, <2>2, <2>3, CallFrame
<1>4. store' \in [Adds -> {"absent", "accepted", "done", "failed"}]
  <2>1. CASE \E r \in Records : AnswerAdd(r)
    BY <2>1 DEF AnswerAdd
  <2>2. CASE \E r \in Adds : BackendStep(r)
    BY <2>2 DEF BackendStep
  <2> QED
    BY <2>1, <2>2, StoreFrame
<1> QED
  BY <1>1, <1>2, <1>3, <1>4

\* What the log and the held file become.
LEMMA LogStep ==
    ASSUME ReplayIndInv, [Next]_vars
    PROVE  \/ UNCHANGED <<log, held, lossy>>
           \/ /\ UNCHANGED <<held, lossy>>
              /\ \E r \in Records : WorkerStep(r) /\ log' = Append(log, r) /\ call[r] = "sent"
           \/ UNCHANGED <<held, lossy>> /\ log' = Append(log, Foreign) /\ LogChanges
           \/ log' = <<>> /\ held = <<>> /\ held' = log /\ UNCHANGED lossy /\ LogChanges
           \/ log' = <<>> /\ UNCHANGED held /\ lossy' = TRUE /\ LogChanges
<1>1. CASE LogChanges
  BY <1>1 DEF LogChanges, ReplayIndInv, Types, LogTypes
<1>2. ASSUME NEW r \in Records, AnswerAdd(r) \/ AnswerSearch(r)
      PROVE  \/ UNCHANGED <<log, held, lossy>>
             \/ /\ UNCHANGED <<held, lossy>>
                /\ WorkerStep(r) /\ log' = Append(log, r) /\ call[r] = "sent"
  <2>1. WorkerStep(r)
    BY <1>2 DEF WorkerStep
  <2> QED
    BY <2>1, WorkerStepIs
<1> QED
  BY <1>1, <1>2, LogFrame

LEMMA LogTypesKeep == ASSUME ReplayIndInv, [Next]_vars PROVE LogTypes'
<1> USE DEF ReplayIndInv, Types, LogTypes, Line
<1>1. log' \in Seq(Line) /\ held' \in Seq(Line) /\ lossy' \in BOOLEAN
  <2>1. Foreign \in Line /\ \A r \in Records : r \in Line
    OBVIOUS
  <2>2. \A x \in Line : Append(log, x) \in Seq(Line)
    OBVIOUS
  <2>3. <<>> \in Seq(Line)
    OBVIOUS
  <2>4. log \in Seq(Line) /\ held \in Seq(Line) /\ lossy \in BOOLEAN
    OBVIOUS
  <2> HIDE DEF Line, ReplayIndInv, Types, LogTypes
  <2> QED
    BY <2>1, <2>2, <2>3, <2>4, LogStep DEF ReplayIndInv
<1>2. cursor' \in Nat
  BY CursorFrame DEF Prepare, CaptureCursor
<1> QED
  BY <1>1, <1>2

\* The main thread does nothing more.
LEMMA OverStays == ASSUME [Next]_vars, at = "over" PROVE UNCHANGED main
<1>1. ~(Prepare \/ Validate \/ Begin \/ Abandon \/ Operate \/ BreakLoop \/ LeavePool)
  BY DEF Prepare, Validate, Begin, Abandon, Operate, BreakLoop, LeavePool
<1>2. ~(StartCollector \/ StopPhase \/ WriteWindow \/ PhaseStopped \/ Decide \/ Publish \/ Import)
  BY DEF StartCollector, StopPhase, WriteWindow, PhaseStopped, Decide, Publish, Import
<1> QED
  BY <1>1, <1>2, MainFrame

LEMMA FileTypesKeep == ASSUME ReplayIndInv, [Next]_vars PROVE FileTypes'
<1> USE DEF ReplayIndInv, Types, FileTypes
<1>1. Collected \in SUBSET Records /\ DatasetState \in {"complete", "partially_written"}
  BY DEF Collected, DatasetState
<1>2. files' \in [written : BOOLEAN, events : SUBSET Records,
                  summary : {None, "full", "partial"},
                  dataset : {None, "complete", "partially_written"},
                  trace : {None, "validated", "exploratory"}]
  <2>1. CASE Decide
    BY <1>1, <2>1 DEF Decide, Summary, WithEvents
  <2>2. CASE Publish
    BY <1>1, <2>2 DEF Publish, Summary, WithEvents
  <2> QED
    BY <2>1, <2>2, FilesFrame
<1>3. imported' # <<>> => at' = "over"
  <2>1. CASE Import
    BY <2>1 DEF Import
  <2>2. CASE UNCHANGED imported /\ at # "over"
    BY <2>2
  <2>3. CASE UNCHANGED imported /\ at = "over"
    BY <2>3, OverStays DEF main
  <2> QED
    BY <2>1, <2>2, <2>3, ImportedFrame
<1> QED
  BY <1>2, <1>3

LEMMA TypesKeep == ASSUME ReplayIndInv, [Next]_vars PROVE Types'
<1>1. faults' \in 0..MaxTrouble
  BY ReplayAssumption, FaultsFrame DEF ReplayIndInv, Types
<1> QED
  BY <1>1, ProfilerTypes, MainTypesKeep, PoolTypesKeep, LogTypesKeep, FileTypesKeep DEF Types

-----------------------------------------------------------------------------
(***************************************************************************)
(* The way of the main thread.                                             *)
(***************************************************************************)
LEMMA PlaceKeep == ASSUME ReplayIndInv, [Next]_vars PROVE PlaceInv'
<1> USE DEF PlaceInv, Bracket, None
<1> DEFINE InvR == Types /\ PlaceInv
<1>0. InvR
  BY DEF ReplayIndInv
<1>1. CASE StartCollector
  <2>1. UNCHANGED <<files, read, broken>>
    BY <1>1 DEF StartCollector, pool
  <2> QED
    BY <1>0, <1>1, <2>1, StartStep DEF Starts
<1>2. CASE StopPhase
  <2>1. UNCHANGED <<files, read, broken>>
    BY <1>2 DEF StopPhase, pool
  <2>2. /\ at = "stop" /\ UNCHANGED phase
        /\ \/ UNCHANGED <<at, error, cut>>
           \/ at' = "import" /\ error' \in {"failed", "interrupted"}
    BY <1>2, StopStep
  <2> QED
    BY <1>0, <2>1, <2>2
<1>3. CASE Prepare \/ Validate
  BY <1>0, <1>3 DEF Prepare, Validate, pool, profiler
<1>11. CASE Begin
  BY <1>0, <1>11 DEF Begin, pool, Types, MainTypes, PoolTypes
<1>12. CASE Abandon \/ Operate
  BY <1>0, <1>12 DEF Abandon, Operate, pool, profiler, Types, PoolTypes
<1>4. CASE BreakLoop
  BY <1>0, <1>4 DEF BreakLoop, profiler, Types, MainTypes
<1>5. CASE LeavePool
  BY <1>0, <1>5 DEF LeavePool, profiler, Types, MainTypes
<1>6. CASE WriteWindow \/ PhaseStopped
  BY <1>0, <1>6 DEF WriteWindow, PhaseStopped, pool, profiler, Types, MainTypes
<1>7. CASE Decide
  BY <1>0, <1>7 DEF Decide, Summary, WithEvents, pool, profiler, Types, MainTypes, FileTypes,
       None
<1>8. CASE Publish
  BY <1>0, <1>8 DEF Publish, Summary, WithEvents, pool, profiler, Types, MainTypes, FileTypes
<1>9. CASE Import
  BY <1>0, <1>9 DEF Import, pool, profiler, Types, MainTypes
<1>10. CASE UNCHANGED main
  <2>1. UNCHANGED <<at, phase, error>>
    BY <1>10 DEF main
  <2>2. ~(BreakLoop /\ at # "operate") /\ ~(Feed /\ at # "operate") /\ ~(LeavePool /\ UNCHANGED at)
    BY DEF BreakLoop, Feed, LeavePool
  <2>3. UNCHANGED cut
    BY <2>1, CutFrame, StopStep
  <2>4. UNCHANGED files
    BY <2>1, FilesFrame, <1>0 DEF Decide, Publish
  <2>5. UNCHANGED broken
    <3>1. BreakLoop => error' # error
      BY <1>0 DEF BreakLoop, None
    <3> QED
      BY <2>1, <2>2, <3>1, BrokenFrame
  <2>6. at # "operate" => UNCHANGED read
    BY <2>1, <2>2, ReadFrame
  <2> QED
    BY <1>0, <2>1, <2>3, <2>4, <2>5, <2>6
<1> QED
  BY <1>1, <1>2, <1>3, <1>4, <1>5, <1>6, <1>7, <1>8, <1>9, <1>10, <1>11, <1>12, MainFrame

-----------------------------------------------------------------------------
(***************************************************************************)
(* The collectors.                                                         *)
(***************************************************************************)
LEMMA ProcsKeep == ASSUME ReplayIndInv, [Next]_vars PROVE ProcsInv'
<1> SUFFICES ASSUME ~cut', NEW x \in procs'
             PROVE  /\ x[3] = phase'
                    /\ at' \in {"collect", "abandon", "operate", "window", "stop"}
                    /\ at' = "stop" => \E i \in turn'..Len(Targets) : x[2] = Targets[i]
  BY DEF ProcsInv
<1>1. ~cut
  BY CutFrame, StopStep
<1>2. \A y \in procs :
          /\ y[3] = phase /\ at \in {"collect", "abandon", "operate", "window", "stop"}
          /\ at = "stop" => \E i \in turn..Len(Targets) : y[2] = Targets[i]
  BY <1>1 DEF ReplayIndInv, ProcsInv
<1>3. \A y \in procs : y[2] \in Ids /\ y[3] \in Profiled
  BY DEF ReplayIndInv, Types, ProfilerTypeOK
<1>4. turn \in 1..Len(Targets) + 1
  BY DEF ReplayIndInv, Types, ProfilerTypeOK
<1>5. CASE StartCollector
  <2>1. x[3] = phase
    BY <1>2, <1>5, StartStep DEF Starts
  <2> QED
    BY <1>5, <2>1, StartStep DEF Starts
<1>6. CASE StopPhase
  <2>1. /\ x \in procs /\ <<x[2], x[3]>> # <<Target, phase>>
        /\ at = "stop" /\ turn' = turn + 1 /\ UNCHANGED <<at, phase>>
    BY <1>6, StopStep
  <2>2. PICK i \in turn..Len(Targets) : x[2] = Targets[i]
    BY <1>2, <2>1
  <2>3. i # turn /\ x[3] = phase
    BY <1>2, <2>1, <2>2 DEF Target
  <2>4. i \in turn'..Len(Targets)
    BY <1>4, <2>1, <2>3, TargetFacts
  <2> QED
    BY <2>1, <2>2, <2>3, <2>4
<1>7. ASSUME ~StartCollector, ~StopPhase
      PROVE  x \in procs
  BY <1>7, ProcsFrame, OverflowStep
<1>8. CASE Abandon \/ WriteWindow
  <2>1. at' = "stop" /\ turn' = 1 /\ UNCHANGED phase /\ x \in procs
    BY <1>8 DEF Abandon, WriteWindow
  <2>2. \E i \in DOMAIN Targets : x[2] = Targets[i]
    BY <1>3, <2>1, TargetFacts
  <2> QED
    BY <1>2, <2>1, <2>2, TargetFacts
<1>9. CASE ~StopPhase /\ at \in {"prepare", "validate", "begin", "decide", "publish", "import", "over"}
  <2>1. ~StartCollector /\ procs = {}
    BY <1>2, <1>9 DEF StartCollector
  <2> QED
    BY <1>7, <1>9, <2>1
<1>10. CASE PhaseStopped
  <2>1. at = "stop" /\ turn > Len(Targets) /\ x \in procs
    BY <1>10 DEF PhaseStopped
  <2> QED
    BY <1>2, <1>4, <2>1, TargetFacts
<1>11. CASE Operate
  BY <1>2, <1>11 DEF Operate, profiler
<1>12. CASE BreakLoop
  BY <1>2, <1>12 DEF BreakLoop, profiler
<1>13. CASE LeavePool
  BY <1>2, <1>3, <1>13 DEF LeavePool, profiler
<1>14. CASE UNCHANGED main /\ ~StartCollector /\ ~StopPhase /\ ~Begin /\ ~Abandon /\ ~WriteWindow
  <2>1. UNCHANGED <<at, phase, turn>>
    BY <1>14, TurnFrame DEF main
  <2> QED
    BY <1>2, <1>7, <1>14, <2>1
<1>15. Prepare \/ Validate \/ Begin \/ Decide \/ Publish \/ Import =>
           at \in {"prepare", "validate", "begin", "decide", "publish", "import", "over"}
  BY DEF Prepare, Validate, Begin, Decide, Publish, Import
<1>16. UNCHANGED main /\ Begin => at \in {"begin"}
  BY DEF Begin
<1> QED
  BY <1>5, <1>6, <1>8, <1>9, <1>10, <1>11, <1>12, <1>13, <1>14, <1>15, <1>16, MainFrame

\* Between two phases no process of the coming phase runs, nor of any other.
LEMMA NobodyRuns ==
    ASSUME ReplayIndInv, at \in {"prepare", "validate", "begin", "decide", "publish"}
    PROVE  procs = {}
  BY DEF ReplayIndInv, ProcsInv, PlaceInv

LEMMA StartKeep == ASSUME ReplayIndInv, [Next]_vars PROVE StartInv'
<1>1. CASE StartCollector /\ at' = "collect"
  <2>1. PICK state \in {"skipped", "failed", "running", "invalid"},
             kinds \in SUBSET {"stat", "record"} :
           /\ handles' = [handles EXCEPT ![<<Target, phase>>] = state]
           /\ procs' = procs \cup {<<k, Target, phase>> : k \in kinds}
           /\ mode = "required" => state = "running"
           /\ state = "running" <=> "stat" \in kinds
    BY <1>1, StartStep DEF Starts
  <2>2. /\ turn \in DOMAIN Targets /\ turn' = turn + 1 /\ UNCHANGED <<mode, phase>>
        /\ handles \in [Ids \X Profiled -> HandleStates] /\ <<Target, phase>> \in Ids \X Profiled
    BY <1>1, StartStep, TargetStep DEF ReplayIndInv, Types, ProfilerTypeOK
  <2>3. \A i \in DOMAIN Targets :
            IF i < turn THEN Decided(Targets[i]) ELSE <<"stat", Targets[i], phase>> \notin procs
    BY <1>1, StartStep DEF ReplayIndInv, StartInv
  <2>4. ASSUME NEW i \in DOMAIN Targets, i # turn
        PROVE  /\ handles'[<<Targets[i], phase>>] = handles[<<Targets[i], phase>>]
               /\ <<"stat", Targets[i], phase>> \in procs' <=>
                      <<"stat", Targets[i], phase>> \in procs
    <3>1. Targets[i] # Target
      BY <2>2, <2>4, TargetFacts DEF Target
    <3> QED
      BY <2>1, <2>2, <3>1, TargetFacts
  <2>5. ASSUME NEW i \in DOMAIN Targets, i < turn
        PROVE  Decided(Targets[i])'
    BY <2>2, <2>3, <2>4, <2>5, TargetFacts DEF Decided
  <2>6. ASSUME NEW i \in DOMAIN Targets, i = turn
        PROVE  Decided(Targets[i])'
    <3>1. handles'[<<Targets[i], phase>>] = state
      BY <2>1, <2>2, <2>6 DEF Target
    <3>2. <<"stat", Targets[i], phase>> \notin procs
      BY <2>2, <2>3, <2>6, TargetFacts
    <3>3. <<"stat", Targets[i], phase>> \in procs' <=> "stat" \in kinds
      BY <2>1, <2>6, <3>2 DEF Target
    <3> QED
      BY <2>1, <2>2, <3>1, <3>3 DEF Decided
  <2>7. ASSUME NEW i \in DOMAIN Targets, ~(i < turn')
        PROVE  <<"stat", Targets[i], phase'>> \notin procs'
    <3>1. i # turn /\ ~(i < turn)
      BY <2>2, <2>7, TargetFacts
    <3> QED
      BY <2>2, <2>3, <2>4, <2>7, <3>1
  <2>8. \A i \in DOMAIN Targets : i < turn' => i < turn \/ i = turn
    BY <2>2, TargetFacts
  <2> QED
    BY <1>1, <2>5, <2>6, <2>7, <2>8 DEF StartInv
<1>2. CASE StartCollector /\ at' # "collect"
  BY <1>2, StartStep DEF Starts, StartInv
<1>3. CASE Begin
  <2>1. (procs' = {} /\ turn' = 1) \/ at' # "collect"
    BY <1>3, NobodyRuns DEF Begin
  <2>2. at' = "operate" => phase' \notin Profiled
    BY <1>3 DEF Begin
  <2> QED
    BY <2>1, <2>2, TargetFacts DEF StartInv
<1>4. CASE Operate
  <2>1. /\ UNCHANGED <<mode, handles, procs, turn, phase>> /\ turn > Len(Targets)
        /\ at = "collect" /\ at' = "operate" /\ turn \in Nat
    BY <1>4 DEF Operate, profiler, StartDone, ReplayIndInv, Types, ProfilerTypeOK
  <2>2. \A i \in DOMAIN Targets : Decided(Targets[i])
    <3>1. \A i \in DOMAIN Targets : i < turn
      BY <2>1, TargetFacts
    <3> QED
      BY <2>1, <3>1 DEF ReplayIndInv, StartInv
  <2>3. \A t \in Ids : Decided(t)
    BY <2>2, TargetFacts
  <2>4. ASSUME NEW t \in Ids PROVE Decided(t)'
    BY <2>1, <2>3 DEF Decided
  <2> QED
    BY <2>1, <2>4 DEF StartInv
<1>5. CASE Overflow
  <2>1. /\ at = "operate" /\ UNCHANGED <<at, phase, mode, handles>>
        /\ \E t \in Ids : procs' = procs \ {<<"record", t, phase>>}
    BY <1>5, OverflowStep DEF Overflow, RecordOverflows, main
  <2>2. ASSUME NEW t \in Ids, Decided(t) PROVE Decided(t)'
    BY <2>1, <2>2 DEF Decided
  <2> QED
    BY <2>1, <2>2 DEF StartInv, ReplayIndInv
<1>6. CASE /\ ~StartCollector /\ ~StopPhase /\ ~Overflow /\ ~Begin /\ ~Abandon /\ ~WriteWindow
           /\ UNCHANGED <<at, phase>>
  <2>1. UNCHANGED <<mode, handles, procs, turn, at, phase>>
    BY <1>6, ModeFrame, HandlesFrame, ProcsFrame, TurnFrame
  <2>2. ASSUME NEW t, Decided(t) PROVE Decided(t)'
    BY <2>1, <2>2 DEF Decided
  <2> QED
    BY <2>1, <2>2 DEF StartInv, ReplayIndInv
<1>7. CASE at' \notin {"collect", "operate"}
  BY <1>7 DEF StartInv
<1>8. /\ StopPhase => at' \notin {"collect", "operate"}
      /\ Abandon \/ WriteWindow => at' \notin {"collect", "operate"}
  BY StopStep DEF Abandon, WriteWindow
<1>9. ASSUME ~StartCollector, ~Begin, ~Operate, at' \in {"collect", "operate"}
      PROVE  UNCHANGED <<at, phase>>
  <2>1. CASE Prepare \/ Validate \/ LeavePool \/ WriteWindow \/ Abandon \/ PhaseStopped
    BY <1>9, <2>1 DEF Prepare, Validate, LeavePool, WriteWindow, Abandon, PhaseStopped
  <2>2. CASE Decide \/ Publish \/ Import \/ BreakLoop
    BY <1>9, <2>2 DEF Decide, Publish, Import, BreakLoop
  <2> QED
    BY <1>8, <1>9, <2>1, <2>2, MainFrame DEF main
<1> QED
  BY <1>1, <1>2, <1>3, <1>4, <1>5, <1>6, <1>7, <1>8, <1>9

\* Only the collectors and the window of the phase in hand change.
LEMMA OtherPhases ==
    ASSUME ReplayIndInv, [Next]_vars, NEW p \in Profiled,
           p # phase \/ at \in {"operate", "decide", "publish", "import", "over"}
    PROVE  Measured(p) => Measured(p)'
<1> SUFFICES ASSUME Measured(p)
             PROVE  window'[p] = "completed" /\ \A t \in Ids : handles'[<<t, p>>] = "completed"
  BY DEF Measured
<1>1. /\ handles \in [Ids \X Profiled -> HandleStates] /\ window \in [Profiled -> WindowStates]
      /\ window[p] = "completed" /\ \A t \in Ids : handles[<<t, p>>] = "completed"
  BY DEF ReplayIndInv, Types, ProfilerTypeOK, Measured
<1>2. \A t \in Ids : handles'[<<t, p>>] = "completed"
  <2> SUFFICES ASSUME NEW t \in Ids PROVE handles'[<<t, p>>] = "completed"
    OBVIOUS
  <2>1. CASE UNCHANGED handles
    BY <1>1, <2>1
  <2>2. ASSUME at \in {"collect", "stop"},
               NEW state, handles' = [handles EXCEPT ![<<Target, phase>>] = state]
        PROVE  handles'[<<t, p>>] = "completed"
    BY <1>1, <2>2
  <2> QED
    BY <2>1, <2>2, HandlesFrame, StartStep, StopStep DEF Starts
<1>3. window'[p] = "completed"
  <2>1. CASE UNCHANGED window
    BY <1>1, <2>1
  <2>2. CASE Begin
    BY <1>1, <2>2 DEF Begin, WriteEvent
  <2>3. CASE WriteWindow
    BY <1>1, <2>3 DEF WriteWindow, WriteEvent
  <2> QED
    BY <2>1, <2>2, <2>3, WindowFrame
<1> QED
  BY <1>2, <1>3

LEMMA MeasuredKeep == ASSUME ReplayIndInv, [Next]_vars PROVE MeasuredInv'
<1> SUFFICES ASSUME mode' = "required"
             PROVE  /\ phase' # "ingest" /\ "ingest" \in Profiled => Measured("ingest")'
                    /\ (at' = "publish" \/ files'.summary = "full") /\ "recall" \in Profiled =>
                          Measured("recall")'
  BY DEF MeasuredInv
<1>1. mode = "required"
  BY ModeFrame
<1>2. /\ phase # "ingest" /\ "ingest" \in Profiled => Measured("ingest")
      /\ (at = "publish" \/ files.summary = "full") /\ "recall" \in Profiled =>
            Measured("recall")
  BY <1>1 DEF ReplayIndInv, MeasuredInv
<1>3. CASE Decide
  <2>1. at = "decide" /\ error = None
    BY <1>3 DEF Decide, ReplayIndInv, PlaceInv
  <2>2. ~invalid /\ phase \in Profiled => Measured(phase)
    BY <1>1, <2>1 DEF ReplayIndInv, StopInv
  <2>3. phase \in {"ingest", "recall"}
    BY <2>1 DEF ReplayIndInv, PlaceInv, Types, MainTypes
  <2>4. \A p \in Profiled : Measured(p) => Measured(p)'
    BY <2>1, OtherPhases
  <2>5. CASE ~MayGoOn
    <3>1. files'.summary # "full" /\ at' # "publish" /\ UNCHANGED phase
      BY <1>3, <2>5 DEF Decide, Summary, WithEvents, ReplayIndInv, Types, FileTypes
    <3> QED
      BY <1>2, <2>4, <3>1
  <2>6. CASE MayGoOn
    <3>1. ~invalid /\ files' = files
      BY <1>1, <1>3, <2>6 DEF MayGoOn, Decide
    <3>2. /\ phase' # "ingest" => phase \in {"ingest", "recall"}
          /\ at' = "publish" => phase = "recall"
      BY <1>3, <2>3, <2>6 DEF Decide
    <3> QED
      BY <1>2, <2>2, <2>3, <2>4, <3>1, <3>2
  <2> QED
    BY <2>5, <2>6
<1>4. CASE Publish
  <2>1. at = "publish" /\ UNCHANGED phase
    BY <1>4 DEF Publish
  <2> QED
    BY <1>2, <2>1, OtherPhases
<1>5. CASE ~Decide /\ ~Publish
  <2>1. UNCHANGED files
    BY <1>5, FilesFrame
  <2>2. phase' # "ingest" => phase # "ingest"
    <3>1. CASE Prepare \/ Validate \/ Begin \/ Abandon \/ Operate \/ BreakLoop
      BY <3>1 DEF Prepare, Validate, Begin, Abandon, Operate, BreakLoop
    <3>2. CASE LeavePool \/ WriteWindow \/ PhaseStopped \/ Import
      BY <3>2 DEF LeavePool, WriteWindow, PhaseStopped, Import
    <3> QED
      BY <1>5, <3>1, <3>2, StartStep, StopStep, MainFrame DEF main
  <2>3. at' = "publish" => at = "publish"
    <3>1. CASE Prepare \/ Validate \/ Begin \/ Abandon \/ Operate \/ BreakLoop
      BY <3>1 DEF Prepare, Validate, Begin, Abandon, Operate, BreakLoop
    <3>2. CASE LeavePool \/ WriteWindow \/ PhaseStopped \/ Import
      BY <3>2 DEF LeavePool, WriteWindow, PhaseStopped, Import
    <3> QED
      BY <1>5, <3>1, <3>2, StartStep, StopStep, MainFrame DEF main, Starts
  <2>4. files.summary = "full" => at \in {"import", "over"}
    BY DEF ReplayIndInv, PlaceInv, NoFiles, None
  <2>5. phase # "ingest" /\ "ingest" \in Profiled => Measured("ingest")'
    BY <1>2, OtherPhases
  <2>6. (at = "publish" \/ files.summary = "full") /\ "recall" \in Profiled => Measured("recall")'
    BY <1>2, <2>4, OtherPhases
  <2> QED
    BY <2>1, <2>2, <2>3, <2>5, <2>6
<1> QED
  BY <1>3, <1>4, <1>5

LEMMA StopKeep == ASSUME ReplayIndInv, [Next]_vars PROVE StopInv'
<1> SUFFICES ASSUME mode' = "required", error' = None
             PROVE  /\ at' = "window" => \A t \in Ids : handles'[<<t, phase'>>] = "running"
                    /\ at' = "stop" =>
                          /\ window'[phase'] = "completed"
                          /\ \A i \in DOMAIN Targets : handles'[<<Targets[i], phase'>>] \in
                                IF i < turn' THEN {"completed", "failed", "invalid"}
                                ELSE {"running"}
                    /\ at' = "decide" /\ phase' \in Profiled /\ ~invalid' => Measured(phase)'
  BY DEF StopInv
<1>1. mode = "required"
  BY ModeFrame
<1>2. error = None =>
        /\ at = "window" => \A t \in Ids : handles[<<t, phase>>] = "running"
        /\ at = "stop" =>
              /\ window[phase] = "completed"
              /\ \A i \in DOMAIN Targets : handles[<<Targets[i], phase>>] \in
                    IF i < turn THEN {"completed", "failed", "invalid"} ELSE {"running"}
        /\ at = "decide" /\ phase \in Profiled /\ ~invalid => Measured(phase)
  BY <1>1 DEF ReplayIndInv, StopInv
<1>3. /\ handles \in [Ids \X Profiled -> HandleStates] /\ window \in [Profiled -> WindowStates]
      /\ turn \in Nat /\ turn >= 1
  BY DEF ReplayIndInv, Types, ProfilerTypeOK
<1>4. CASE LeavePool
  <2>1. /\ at = "operate" /\ at' \notin {"stop"} /\ UNCHANGED <<phase, handles, error>>
        /\ at' = "window" => phase \in Profiled
        /\ at' = "decide" => phase \notin Profiled
    BY <1>4 DEF LeavePool, profiler
  <2>2. phase \in Profiled => \A t \in Ids : handles[<<t, phase>>] = "running"
    BY <1>1, <2>1 DEF ReplayIndInv, StartInv, Decided
  <2> QED
    BY <2>1, <2>2
<1>5. CASE WriteWindow
  <2>1. /\ at = "window" /\ at' = "stop" /\ turn' = 1 /\ UNCHANGED <<phase, handles>>
        /\ phase \in Profiled
    BY <1>5 DEF WriteWindow, ReplayIndInv, PlaceInv, Bracket
  <2>2. error = None /\ window' = [window EXCEPT ![phase] = "completed"]
    BY <1>5 DEF WriteWindow, WriteEvent, None
  <2>3. \A t \in Ids : handles[<<t, phase>>] = "running"
    BY <1>2, <2>1, <2>2
  <2>4. \A i \in DOMAIN Targets : ~(i < 1) /\ Targets[i] \in Ids
    BY TargetFacts
  <2> QED
    BY <1>3, <2>1, <2>2, <2>3, <2>4
<1>6. CASE StopPhase
  <2>1. PICK verdict \in HandleStates :
           /\ at = "stop" /\ UNCHANGED <<at, error, phase, window>> /\ turn' = turn + 1
           /\ handles' = [handles EXCEPT ![<<Target, phase>>] = verdict]
           /\ handles[<<Target, phase>>] = "running" => verdict \in {"completed", "failed", "invalid"}
    BY <1>6, StopStep DEF None
  <2>2. turn \in DOMAIN Targets /\ <<Target, phase>> \in Ids \X Profiled
    BY <1>6, StopStep, TargetStep
  <2>3. ASSUME NEW i \in DOMAIN Targets
        PROVE  handles'[<<Targets[i], phase>>] \in
                   IF i < turn' THEN {"completed", "failed", "invalid"} ELSE {"running"}
    <3>1. handles[<<Targets[i], phase>>] \in
              IF i < turn THEN {"completed", "failed", "invalid"} ELSE {"running"}
      BY <1>2, <2>1
    <3>2. CASE i = turn
      <4>1. handles[<<Target, phase>>] = "running"
        BY <1>3, <3>1, <3>2 DEF Target
      <4>2. handles'[<<Targets[i], phase>>] = verdict /\ i < turn'
        BY <1>3, <2>1, <2>2, <3>2 DEF Target
      <4> QED
        BY <2>1, <4>1, <4>2
    <3>3. CASE i # turn
      <4>1. Targets[i] # Target
        BY <2>2, <3>3, TargetFacts DEF Target
      <4>2. handles'[<<Targets[i], phase>>] = handles[<<Targets[i], phase>>]
        BY <1>3, <2>1, <4>1, TargetStep, TargetFacts, <2>2
      <4>3. i < turn' <=> i < turn
        BY <1>3, <2>1, <3>3, TargetFacts
      <4> QED
        BY <3>1, <4>2, <4>3
    <3> QED
      BY <3>2, <3>3
  <2> QED
    BY <1>2, <2>1, <2>3
<1>7. CASE PhaseStopped
  <2>1. /\ at = "stop" /\ turn > Len(Targets) /\ at' \in {"decide", "import"}
        /\ UNCHANGED <<phase, error, handles, window>>
        /\ ~invalid' => \A t \in Ids : handles[<<t, phase>>] \notin {"failed", "invalid"}
    BY <1>7 DEF PhaseStopped, Unusable
  <2>2. \A i \in DOMAIN Targets : i < turn
    BY <1>3, <2>1, TargetFacts
  <2>3. \A t \in Ids : handles[<<t, phase>>] \in {"completed", "failed", "invalid"}
    BY <1>2, <2>1, <2>2, TargetFacts
  <2>4. window[phase] = "completed"
    BY <1>2, <2>1
  <2> QED
    BY <2>1, <2>3, <2>4 DEF Measured
<1>8. CASE at' \notin {"window", "stop", "decide"}
  BY <1>8
<1>9. CASE UNCHANGED main /\ at \in {"window", "stop", "decide"} /\ ~StopPhase
  <2>1. UNCHANGED <<at, phase, error>>
    BY <1>9 DEF main
  <2>2. UNCHANGED <<handles, window, turn, invalid>>
    <3>1. ~Begin /\ ~StartCollector /\ ~Abandon /\ ~WriteWindow /\ ~PhaseStopped
      BY <1>9, <2>1 DEF Begin, StartCollector, Abandon, WriteWindow, PhaseStopped
    <3> QED
      BY <1>9, <3>1, HandlesFrame, WindowFrame, TurnFrame, InvalidFrame
  <2>3. Measured(phase) => Measured(phase)'
    BY <2>1, <2>2 DEF Measured
  <2> QED
    BY <1>2, <2>1, <2>2, <2>3
<1>10. Abandon => error' # None
  BY DEF Abandon, ReplayIndInv, PlaceInv
<1>11. ~UNCHANGED main /\ ~LeavePool /\ ~WriteWindow /\ ~StopPhase /\ ~PhaseStopped /\ ~Abandon =>
           at' \notin {"window", "stop", "decide"}
  <2>1. Prepare \/ Validate \/ Begin \/ Operate \/ BreakLoop =>
           at' \notin {"window", "stop", "decide"}
    BY DEF Prepare, Validate, Begin, Operate, BreakLoop
  <2>2. Decide \/ Publish \/ Import => at' \notin {"window", "stop", "decide"}
    BY DEF Decide, Publish, Import
  <2> QED
    BY <2>1, <2>2, StartStep, MainFrame DEF Starts
<1>12. UNCHANGED main => UNCHANGED at
  BY DEF main
<1> QED
  BY <1>4, <1>5, <1>6, <1>7, <1>8, <1>9, <1>10, <1>11, <1>12

-----------------------------------------------------------------------------
(***************************************************************************)
(* The requests.                                                           *)
(***************************************************************************)
\* The phases come in their order, and the first places of one before its pool.
LEMMA Moves ==
    ASSUME ReplayIndInv, [Next]_vars
    PROVE  /\ \/ UNCHANGED phase
              \/ /\ phase = "ingest" /\ at = "decide" /\ error = None
                 /\ phase' = "drain" /\ at' = "begin"
              \/ phase = "drain" /\ at = "begin" /\ phase' = "recall" /\ at' = "begin"
           /\ at' \in {"prepare", "validate", "begin", "collect", "abandon"} =>
                 \/ at \in {"prepare", "validate", "begin", "collect", "abandon"}
                 \/ at = "decide" /\ phase' = "drain"
           /\ at' = "operate" => at \in {"begin", "collect", "operate"} /\ UNCHANGED phase
           /\ at = "operate" /\ at' # "operate" => LeavePool
           /\ at' \in {"window", "decide"} => at \in {"operate", "stop", at'} /\ UNCHANGED phase
           /\ at' = "stop" /\ error' = None => at \in {"window", "stop"} /\ UNCHANGED <<phase, error>>
           /\ at' = "publish" => at \in {"decide", "publish"} /\ UNCHANGED phase
<1>0. /\ phase = "drain" => at \in {"begin", "import", "over"}
      /\ phase \in {"ingest", "drain", "recall"} /\ at \in Places
      /\ at \in {"window", "stop"} => phase \in Profiled
      /\ at = "abandon" => error # None
      /\ at = "decide" => error = None
  BY DEF ReplayIndInv, PlaceInv, Bracket, Types, MainTypes
<1> USE DEF Places, None
<1>1. CASE StartCollector
  <2>1. at = "collect" /\ at' \in {"collect", "abandon"} /\ UNCHANGED phase
    BY <1>1, StartStep DEF Starts
  <2> QED
    BY <2>1
<1>2. CASE StopPhase
  <2>1. /\ at = "stop" /\ UNCHANGED phase
        /\ \/ UNCHANGED <<at, error>>
           \/ at' = "import"
    BY <1>2, StopStep
  <2> QED
    BY <2>1
<1>3. CASE Prepare \/ Validate
  BY <1>0, <1>3 DEF Prepare, Validate
<1>4. CASE Begin
  BY <1>0, <1>4 DEF Begin
<1>5. CASE Abandon \/ Operate
  BY <1>0, <1>5 DEF Abandon, Operate
<1>6. CASE BreakLoop \/ LeavePool
  BY <1>0, <1>6 DEF BreakLoop, LeavePool
<1>7. CASE WriteWindow \/ PhaseStopped
  BY <1>0, <1>7 DEF WriteWindow, PhaseStopped
<1>8. CASE Decide
  BY <1>0, <1>8 DEF Decide
<1>9. CASE Publish \/ Import
  BY <1>0, <1>9 DEF Publish, Import
<1>10. CASE UNCHANGED main
  BY <1>0, <1>10 DEF main
<1> QED
  BY <1>1, <1>2, <1>3, <1>4, <1>5, <1>6, <1>7, <1>8, <1>9, <1>10, MainFrame

\* Once the pool is left nothing takes the exception back.
LEMMA ErrorStays ==
    ASSUME ReplayIndInv, [Next]_vars, at \in {"window", "stop", "decide", "publish"},
           error' = None
    PROVE  error = None
<1>1. at \in {"decide", "publish"} => error = None
  BY DEF ReplayIndInv, PlaceInv
<1>2. ~Prepare /\ ~Validate /\ ~Begin /\ ~Abandon /\ ~Operate /\ ~BreakLoop /\ ~LeavePool
  BY DEF Prepare, Validate, Begin, Abandon, Operate, BreakLoop, LeavePool
<1>3. ~StartCollector /\ ~Import
  BY DEF StartCollector, Import
<1>4. WriteWindow \/ PhaseStopped => error = None
  BY DEF WriteWindow, PhaseStopped, None
<1>5. StopPhase => error = None
  BY StopStep DEF None
<1> QED
  BY <1>1, <1>2, <1>3, <1>4, <1>5, MainFrame DEF main, Decide, Publish

\* What a step does to one request: nothing, or while the pool runs, its next step.
LEMMA CallMove ==
    ASSUME ReplayIndInv, [Next]_vars, NEW r \in Records
    PROVE  \/ call'[r] = call[r] /\ outcome'[r] = outcome[r]
           \/ /\ at = "operate" /\ UNCHANGED <<at, phase, error>>
              /\ \/ /\ r = Nth(phase, read + 1) /\ r \in InPhase(phase) /\ call[r] = "unread"
                    /\ call'[r] = "sent" /\ outcome'[r] = outcome[r] /\ Feed
                 \/ call[r] = "done" /\ call'[r] = "collected" /\ outcome'[r] = outcome[r]
                 \/ call[r] = "sent" /\ call'[r] = "polling" /\ outcome'[r] = outcome[r]
                 \/ /\ call[r] \in {"sent", "polling"} /\ call'[r] = "done"
                    /\ outcome'[r] \in {"ok", "failed"}
<1>1. /\ call \in [Records -> {"unread", "sent", "polling", "done", "collected"}]
      /\ outcome \in [Records -> {None, "ok", "failed"}]
  BY DEF ReplayIndInv, Types, PoolTypes
<1>2. CASE UNCHANGED <<call, outcome>>
  BY <1>2
<1>3. CASE Feed
  <2>1. /\ at = "operate" /\ UNCHANGED <<at, phase, error, outcome>>
        /\ read < Cardinality(InPhase(phase)) /\ read \in Nat
        /\ call' = [call EXCEPT ![Nth(phase, read + 1)] = "sent"]
    BY <1>3 DEF Feed, main, ReplayIndInv, Types, PoolTypes
  <2>2. phase \in Sending
    BY <2>1 DEF ReplayIndInv, PlaceInv, Types, MainTypes, Sending
  <2>3. /\ Nth(phase, read + 1) \in InPhase(phase) /\ Nth(phase, read + 1)[2] = read + 1
    BY <2>1, <2>2, PhaseFacts
  <2>4. call[Nth(phase, read + 1)] = "unread"
    <3>1. /\ \A x \in InPhase(phase) : call[x] # "unread" <=> x[2] <= read
          /\ ~(read + 1 <= read)
      BY <2>1 DEF ReplayIndInv, PoolInv
    <3> QED
      BY <2>3, <3>1
  <2> QED
    BY <1>1, <1>3, <2>1, <2>3, <2>4
<1>4. ASSUME NEW x \in Records, Collect(x)
      PROVE  /\ at = "operate" /\ UNCHANGED <<at, phase, error, outcome>>
             /\ call[x] = "done" /\ call' = [call EXCEPT ![x] = "collected"]
  BY <1>4 DEF Collect, main
<1>5. ASSUME NEW x \in Records, WorkerStep(x)
      PROVE  /\ at = "operate" /\ UNCHANGED <<at, phase, error>>
             /\ call[x] \in {"sent", "polling"}
  <2>1. call[x] \in {"sent", "polling"} /\ UNCHANGED <<at, phase, error>>
    BY <1>5, WorkerStepIs DEF main
  <2> QED
    BY <2>1 DEF ReplayIndInv, PoolInv
<1>6. CASE \E x \in Records : Collect(x)
  BY <1>1, <1>4, <1>6
<1>7. CASE \E x \in Records : WorkerStep(x)
  <2>1. PICK x \in Records : WorkerStep(x)
    BY <1>7
  <2>2. \/ /\ call' = [call EXCEPT ![x] = "done"]
           /\ \E status \in {"ok", "failed"} : outcome' = [outcome EXCEPT ![x] = status]
        \/ call' = [call EXCEPT ![x] = "polling"] /\ UNCHANGED outcome /\ call[x] = "sent"
    BY <2>1, WorkerStepIs
  <2> QED
    BY <1>1, <1>5, <2>1, <2>2
<1> QED
  BY <1>2, <1>3, <1>6, <1>7, CallFrame

LEMMA PoolKeep == ASSUME ReplayIndInv, [Next]_vars PROVE PoolInv'
<1>0. read \in Nat /\ phase \in {"ingest", "drain", "recall"}
  BY DEF ReplayIndInv, Types, PoolTypes, MainTypes
<1>1. ASSUME at' = "operate", at = "operate"
      PROVE  /\ read' <= Cardinality(InPhase(phase'))
             /\ \A r \in InPhase(phase') : call'[r] # "unread" <=> r[2] <= read'
  <2>1. phase \in Sending /\ UNCHANGED phase
    BY <1>0, <1>1, Moves DEF ReplayIndInv, PlaceInv, Sending
  <2>2. /\ read <= Cardinality(InPhase(phase))
        /\ \A r \in InPhase(phase) : call[r] # "unread" <=> r[2] <= read
    BY <1>1 DEF ReplayIndInv, PoolInv
  <2>3. CASE Feed
    <3>1. /\ read' = read + 1 /\ read < Cardinality(InPhase(phase))
          /\ call' = [call EXCEPT ![Nth(phase, read + 1)] = "sent"]
          /\ call \in [Records -> {"unread", "sent", "polling", "done", "collected"}]
      BY <2>3 DEF Feed, ReplayIndInv, Types, PoolTypes
    <3>2. ASSUME NEW r \in InPhase(phase)
          PROVE  call'[r] # "unread" <=> r[2] <= read'
      <4>1. r \in Records /\ r[2] \in Nat /\ r = Nth(phase, r[2])
        BY <2>1, <3>2, PhaseFacts
      <4>2. CASE r[2] = read + 1
        BY <1>0, <3>1, <4>1, <4>2
      <4>3. CASE r[2] # read + 1
        <5>1. Nth(phase, read + 1)[2] = read + 1
          BY <1>0, <2>1, <3>1, PhaseFacts
        <5>2. call'[r] = call[r]
          BY <3>1, <4>1, <4>3, <5>1
        <5> QED
          BY <1>0, <2>2, <3>1, <3>2, <4>1, <4>3, <5>2
      <4> QED
        BY <4>2, <4>3
    <3> QED
      BY <1>0, <2>1, <3>1, <3>2, PhaseFacts
  <2>4. CASE ~Feed
    <3>1. ~LeavePool
      BY <1>1 DEF LeavePool
    <3>2. UNCHANGED read
      BY <2>4, <3>1, ReadFrame
    <3>3. \A r \in InPhase(phase) : call'[r] # "unread" <=> call[r] # "unread"
      BY <2>1, <2>4, CallMove, PhaseFacts
    <3> QED
      BY <2>1, <2>2, <3>2, <3>3
  <2> QED
    BY <2>3, <2>4
<1>2. ASSUME at' = "operate", at # "operate"
      PROVE  /\ read' <= Cardinality(InPhase(phase'))
             /\ \A r \in InPhase(phase') : call'[r] # "unread" <=> r[2] <= read'
  <2>1. at \in {"begin", "collect"} /\ UNCHANGED phase /\ read = 0
    BY <1>2, Moves DEF ReplayIndInv, PlaceInv
  <2>2. ~Feed /\ ~LeavePool
    BY <1>2 DEF Feed, LeavePool
  <2>3. read' = 0
    BY <2>1, <2>2, ReadFrame
  <2>4. phase \in Sending
    <3>1. phase = "drain" => at' # "operate"
      <4>1. phase = "drain" => at = "begin"
        BY <1>0, <2>1 DEF ReplayIndInv, PlaceInv
      <4>2. at = "begin" /\ phase = "drain" /\ Begin => at' = "begin"
        BY DEF Begin
      <4>3. at = "begin" /\ ~Begin => at' # "operate"
        <5>1. at = "begin" => /\ ~StartCollector /\ ~StopPhase /\ ~Prepare /\ ~Validate
                              /\ ~Abandon /\ ~Operate /\ ~BreakLoop /\ ~LeavePool
          BY DEF StartCollector, StopPhase, Prepare, Validate, Abandon, Operate, BreakLoop,
                 LeavePool
        <5>2. at = "begin" => /\ ~WriteWindow /\ ~PhaseStopped /\ ~Decide /\ ~Publish /\ ~Import
          BY DEF WriteWindow, PhaseStopped, Decide, Publish, Import
        <5> QED
          BY <5>1, <5>2, MainFrame DEF main
      <4> QED
        BY <4>1, <4>2, <4>3
    <3> QED
      BY <1>0, <1>2, <3>1 DEF Sending
  <2>5. \A r \in InPhase(phase) : call[r] = "unread"
    BY <2>1, <2>4 DEF Sending, InPhase, ReplayIndInv, PoolInv
  <2>6. \A r \in InPhase(phase) : call'[r] = "unread" /\ r[2] \in Nat /\ r[2] >= 1
    BY <1>2, <2>4, <2>5, CallMove, PhaseFacts
  <2>7. Cardinality(InPhase(phase)) \in Nat
    BY <2>4, PhaseFacts
  <2> QED
    BY <2>1, <2>3, <2>6, <2>7
<1>3. ASSUME at' # "operate", NEW r \in Records
      PROVE  call'[r] \notin {"sent", "polling"}
  <2>1. CASE at = "operate"
    <3>1. LeavePool
      BY <1>3, <2>1, Moves
    <3>2. call' = call /\ InFlight = {}
      BY <3>1 DEF LeavePool
    <3>3. call[r] \notin {"sent", "polling"}
      BY <3>2 DEF InFlight
    <3> QED
      BY <3>2, <3>3
  <2>2. CASE at # "operate"
    BY <2>2, CallMove DEF ReplayIndInv, PoolInv
  <2> QED
    BY <2>1, <2>2
<1>4. ASSUME phase' # "recall" \/ at' \in {"begin", "collect", "abandon"}, NEW r \in Searches
      PROVE  call'[r] = "unread"
  <2>1. phase # "recall" \/ at \in {"begin", "collect", "abandon"}
    BY <1>4, Moves DEF ReplayIndInv, PlaceInv
  <2>2. call[r] = "unread" /\ r \in Records
    BY <2>1 DEF ReplayIndInv, PoolInv, Records
  <2>3. r \in InPhase(phase) => at # "operate"
    <3>1. r \notin Adds
      BY RecordFacts
    <3> QED
      BY <2>1, <3>1, <1>0 DEF InPhase, ReplayIndInv, PlaceInv
  <2> QED
    BY <2>2, <2>3, CallMove
<1>5. ASSUME phase' = "ingest", at' \in {"prepare", "validate", "begin", "collect", "abandon"},
             NEW r \in Adds
      PROVE  call'[r] = "unread"
  <2>1. phase = "ingest" /\ at \in {"prepare", "validate", "begin", "collect", "abandon"}
    BY <1>5, Moves
  <2>2. call[r] = "unread" /\ r \in Records
    BY <2>1 DEF ReplayIndInv, PoolInv, Records
  <2> QED
    BY <2>1, <2>2, CallMove
<1> QED
  BY <1>1, <1>2, <1>3, <1>4, <1>5 DEF PoolInv

LEMMA CollectedKeep == ASSUME ReplayIndInv, [Next]_vars PROVE CollectedInv'
<1>0. \A r \in Records : call[r] = "collected" => call'[r] = "collected"
  BY CallMove
<1>1. ASSUME phase' # "ingest", NEW r \in Adds PROVE call'[r] = "collected"
  <2>1. phase # "ingest" => call[r] = "collected"
    BY DEF ReplayIndInv, CollectedInv
  <2>2. phase = "ingest" /\ at = "decide" /\ error = None => call[r] = "collected"
    BY DEF ReplayIndInv, CollectedInv, InPhase
  <2> QED
    BY <1>0, <1>1, <2>1, <2>2, Moves DEF Records
<1>2. ASSUME error' = None, at' \in {"window", "stop", "decide", "publish"},
             NEW r \in InPhase(phase')
      PROVE  call'[r] = "collected"
  <2>1. phase \in Sending /\ UNCHANGED phase /\ r \in InPhase(phase)
    BY <1>2, Moves DEF ReplayIndInv, PlaceInv, Types, MainTypes, Sending
  <2>2. r \in Records
    BY <2>1, PhaseFacts
  <2>3. CASE LeavePool
    <3>1. /\ at = "operate" /\ error = None /\ call' = call
          /\ broken \/ (read = Cardinality(InPhase(phase)) /\ Outstanding = {})
      BY <1>2, <2>3 DEF LeavePool
    <3>2. ~broken
      BY <3>1 DEF ReplayIndInv, PlaceInv
    <3>3. call[r] \in {"unread", "collected"}
      BY <2>1, <3>1, <3>2 DEF Outstanding
    <3>4. call[r] # "unread"
      BY <2>1, <3>1, <3>2, PhaseFacts DEF ReplayIndInv, PoolInv
    <3> QED
      BY <3>1, <3>3, <3>4
  <2>4. CASE ~LeavePool
    <3>1. at \in {"window", "stop", "decide", "publish"}
      BY <1>2, <2>4, Moves
    <3>2. error = None
      BY <1>2, <3>1, ErrorStays
    <3> QED
      BY <1>0, <2>1, <2>2, <3>1, <3>2 DEF ReplayIndInv, CollectedInv
  <2> QED
    BY <2>3, <2>4
<1> QED
  BY <1>1, <1>2 DEF CollectedInv

LEMMA OutcomeKeep == ASSUME ReplayIndInv, [Next]_vars PROVE OutcomeInv'
<1>1. ASSUME NEW r \in Records
      PROVE  outcome'[r] # None <=> call'[r] \in {"done", "collected"}
  <2>1. outcome[r] # None <=> call[r] \in {"done", "collected"}
    BY DEF ReplayIndInv, OutcomeInv
  <2> QED
    BY <2>1, CallMove DEF None
<1>2. ASSUME NEW r \in Adds, outcome'[r] = "ok" PROVE store'[r] = "done"
  <2>0. /\ r \in Records /\ outcome \in [Records -> {None, "ok", "failed"}]
        /\ store \in [Adds -> {"absent", "accepted", "done", "failed"}]
        /\ outcome[r] = "ok" => store[r] = "done" /\ call[r] \in {"done", "collected"}
    BY DEF ReplayIndInv, OutcomeInv, Types, PoolTypes, Records, None
  <2>1. ASSUME NEW x \in Records, AnswerAdd(x) PROVE store'[r] = "done"
    <3>1. CASE x = r
      <4>1. call[r] = "sent"
        BY <2>1, <3>1 DEF AnswerAdd
      <4> QED
        BY <1>2, <2>0, <2>1, <3>1, <4>1 DEF AnswerAdd, Finish
    <3>2. CASE x # r
      <4>1. outcome'[r] = outcome[r] /\ store'[r] = store[r]
        BY <2>0, <2>1, <3>2 DEF AnswerAdd, Finish
      <4> QED
        BY <1>2, <2>0, <4>1
    <3> QED
      BY <3>1, <3>2
  <2>2. ASSUME NEW x \in Records, PollAdd(x) PROVE store'[r] = "done"
    <3>1. CASE x = r
      BY <1>2, <2>0, <2>2, <3>1 DEF PollAdd, Finish
    <3>2. CASE x # r
      BY <1>2, <2>0, <2>2, <3>2 DEF PollAdd, Finish
    <3> QED
      BY <3>1, <3>2
  <2>3. ASSUME NEW x \in Records, GiveUp(x) \/ AnswerSearch(x) PROVE store'[r] = "done"
    <3>1. UNCHANGED store
      BY <2>3 DEF GiveUp, AnswerSearch
    <3>2. outcome'[r] = outcome[r]
      BY <1>2, <2>0, <2>3, RecordFacts DEF GiveUp, AnswerSearch, Finish
    <3> QED
      BY <1>2, <2>0, <3>1, <3>2
  <2>4. ASSUME NEW x \in Adds, BackendStep(x) PROVE store'[r] = "done"
    <3>1. UNCHANGED outcome
      BY <2>4 DEF BackendStep, pool
    <3> QED
      BY <1>2, <2>0, <2>4, <3>1 DEF BackendStep
  <2>5. CASE /\ ~ \E x \in Records : WorkerStep(x)
             /\ ~ \E x \in Adds : BackendStep(x)
    <3>1. ~ \E x \in Records : AnswerAdd(x)
      BY <2>5 DEF WorkerStep
    <3>2. UNCHANGED <<store, outcome>>
      BY <2>5, <3>1, StoreFrame, OutcomeFrame
    <3> QED
      BY <1>2, <2>0, <3>2
  <2> QED
    BY <2>1, <2>2, <2>3, <2>4, <2>5 DEF WorkerStep
<1> QED
  BY <1>1, <1>2 DEF OutcomeInv

-----------------------------------------------------------------------------
(***************************************************************************)
(* The spans, and what is said of them.                                    *)
(***************************************************************************)
\* A line more at the end of a sequence of lines.
LEMMA AppendFacts ==
    ASSUME NEW s \in Seq(Line), NEW x \in Line
    PROVE  /\ Append(s, x) \in Seq(Line) /\ Append(s, x) # <<>>
           /\ Range(Append(s, x)) = Range(s) \cup {x}
           /\ Len(Append(s, x)) = Len(s) + 1
           /\ \A i \in 1..Len(s) : Append(s, x)[i] = s[i]
           /\ Once(s) /\ (x \notin Records \/ x \notin Range(s)) => Once(Append(s, x))
<1>1. /\ Append(s, x) \in Seq(Line) /\ Append(s, x) # <<>>
      /\ Len(Append(s, x)) = Len(s) + 1 /\ Len(s) \in Nat
      /\ DOMAIN s = 1..Len(s) /\ DOMAIN Append(s, x) = 1..(Len(s) + 1)
      /\ \A i \in 1..Len(s) : Append(s, x)[i] = s[i]
      /\ Append(s, x)[Len(s) + 1] = x
  OBVIOUS
<1>2. Range(Append(s, x)) = Range(s) \cup {x}
  BY <1>1 DEF Range
<1>3. ASSUME Once(s), x \notin Records \/ x \notin Range(s) PROVE Once(Append(s, x))
  <2> SUFFICES ASSUME NEW i \in 1..(Len(s) + 1), NEW j \in 1..(Len(s) + 1),
                      Append(s, x)[i] = Append(s, x)[j], Append(s, x)[i] \in Records
               PROVE  i = j
    BY <1>1 DEF Once
  <2>1. CASE i \in 1..Len(s) /\ j \in 1..Len(s)
    BY <1>1, <1>3, <2>1 DEF Once
  <2>2. CASE i = Len(s) + 1 /\ j = Len(s) + 1
    BY <2>2
  <2>3. ASSUME NEW k \in 1..Len(s), s[k] = x, x \in Records PROVE FALSE
    BY <1>1, <1>3, <2>3 DEF Range
  <2> QED
    BY <1>1, <2>1, <2>2, <2>3
<1> QED
  BY <1>1, <1>2, <1>3

\* What the invariant says of an empty sequence, and of the first line.
LEMMA EmptyFacts == <<>> \in Seq(Line) /\ Range(<<>>) = {} /\ Once(<<>>) /\ Len(<<>>) = 0
  BY DEF Range, Once

LEMMA OnceKeep ==
    ASSUME ReplayIndInv, [Next]_vars
    PROVE  /\ Once(log)' /\ Once(held)' /\ (Range(held) \cap Range(log))' \subseteq {Foreign}
           /\ \A r \in Records : r \in Logged' => call'[r] \notin {"unread", "sent"}
<1>1. /\ Once(log) /\ Once(held) /\ Range(held) \cap Range(log) \subseteq {Foreign}
      /\ \A r \in Records : r \in Logged => call[r] \notin {"unread", "sent"}
      /\ log \in Seq(Line) /\ held \in Seq(Line)
  BY DEF ReplayIndInv, LogInv, Types, LogTypes
<1>2. Foreign \in Line /\ Foreign \notin Records /\ \A r \in Records : r \in Line
  BY RecordFacts DEF Line
<1>3. \A r \in Records : call[r] \notin {"unread", "sent"} => call'[r] \notin {"unread", "sent"}
  BY CallMove
<1>4. CASE UNCHANGED <<log, held, lossy>>
  BY <1>1, <1>3, <1>4 DEF Once, Logged, Range
<1>5. ASSUME NEW r \in Records, held' = held,
             WorkerStep(r), log' = Append(log, r), call[r] = "sent"
      PROVE  /\ Once(log)' /\ Once(held)' /\ (Range(held) \cap Range(log))' \subseteq {Foreign}
             /\ \A x \in Records : x \in Logged' => call'[x] \notin {"unread", "sent"}
  <2>1. r \notin Logged
    BY <1>1, <1>5
  <2>2. Range(log') = Range(log) \cup {r} /\ Once(log')
    BY <1>1, <1>2, <1>5, <2>1, AppendFacts DEF Logged
  <2>3. call'[r] \notin {"unread", "sent"}
    BY <1>5, WorkerStepIs DEF ReplayIndInv, Types, PoolTypes
  <2>4. Range(held') = Range(held) /\ Once(held')
    BY <1>1, <1>5
  <2> QED
    BY <1>1, <1>3, <2>1, <2>2, <2>3, <2>4 DEF Logged, Once
<1>6. CASE UNCHANGED <<held, lossy>> /\ log' = Append(log, Foreign)
  <2>1. Range(log') = Range(log) \cup {Foreign} /\ Once(log')
    BY <1>1, <1>2, <1>6, AppendFacts
  <2>2. Range(held') = Range(held) /\ Once(held')
    BY <1>1, <1>6
  <2> QED
    BY <1>1, <1>2, <1>3, <2>1, <2>2 DEF Logged, Once
<1>7. CASE log' = <<>> /\ held' \in {log, held}
  <2>1. Range(log') = {} /\ Once(log')
    BY <1>7, EmptyFacts
  <2>2. Once(held') /\ Range(held') \subseteq Logged
    BY <1>1, <1>7 DEF Logged
  <2> QED
    BY <1>1, <1>3, <2>1, <2>2 DEF Logged, Once
<1> QED
  BY <1>4, <1>5, <1>6, <1>7, LogStep

LEMMA LogKeep == ASSUME ReplayIndInv, [Next]_vars PROVE LogInv'
<1>1. log \in Seq(Line) /\ held \in Seq(Line) /\ cursor \in Nat
  BY DEF ReplayIndInv, Types, LogTypes
<1>2. ASSUME at' = "prepare"
      PROVE  log' = <<Foreign>> /\ held' = <<>> /\ ~lossy' /\ cursor' = 0
  <2>1. at = "prepare" /\ ~Prepare
    <3>1. at' = "prepare" => UNCHANGED main
      <4>1. Prepare \/ Validate \/ Begin \/ Abandon \/ Operate \/ LeavePool => at' # "prepare"
        BY DEF Prepare, Validate, Begin, Abandon, Operate, LeavePool
      <4>2. StopPhase \/ StartCollector => at' # "prepare"
        BY StartStep, StopStep DEF Starts
      <4>3. WriteWindow \/ PhaseStopped \/ Decide \/ Publish \/ Import \/ BreakLoop => at' # "prepare"
        BY DEF WriteWindow, PhaseStopped, Decide, Publish, Import, BreakLoop
      <4> QED
        BY <4>1, <4>2, <4>3, MainFrame
    <3>2. Prepare => at' # "prepare"
      BY DEF Prepare
    <3> QED
      BY <1>2, <3>1, <3>2 DEF main
  <2>2. UNCHANGED <<log, held, lossy>>
    <3>1. ~LogChanges
      BY <2>1 DEF LogChanges
    <3>2. \A r \in Records : call[r] # "sent"
      BY <2>1 DEF ReplayIndInv, PoolInv
    <3> QED
      BY <3>1, <3>2, LogStep
  <2>3. UNCHANGED cursor
    BY <2>1, CursorFrame
  <2> QED
    BY <2>1, <2>2, <2>3 DEF ReplayIndInv, LogInv
<1>3. ASSUME ~lossy'
      PROVE  /\ cursor' <= Len(Base') /\ \A i \in 1..cursor' : Base'[i] = Foreign
             /\ held' = <<>> => log' # <<>>
  <2>0. ~lossy
    BY <1>3, LogStep
  <2>1. /\ cursor <= Len(Base) /\ \A i \in 1..cursor : Base[i] = Foreign
        /\ held = <<>> => log # <<>>
        /\ Base \in Seq(Line)
    BY <1>1, <2>0 DEF ReplayIndInv, LogInv, Base
  <2>2. CASE Prepare
    <3>1. log = <<Foreign>> /\ held = <<>> /\ UNCHANGED <<log, held>>
      BY <2>2 DEF Prepare, ReplayIndInv, LogInv
    <3>2. cursor' = Len(log) \/ cursor' = cursor
      BY <2>2 DEF Prepare, CaptureCursor
    <3>3. Len(log) = 1 /\ log[1] = Foreign /\ log # <<>> /\ Base = log /\ Base' = log
      BY <3>1 DEF Base
    <3> QED
      BY <2>1, <3>1, <3>2, <3>3
  <2>3. CASE ~Prepare
    <3>0. cursor' = cursor
      BY <2>3, CursorFrame
    <3>1. CASE UNCHANGED <<log, held, lossy>>
      BY <2>1, <3>0, <3>1 DEF Base
    <3>2. ASSUME NEW x \in Line, log' = Append(log, x), held' = held
          PROVE  /\ cursor' <= Len(Base') /\ \A i \in 1..cursor' : Base'[i] = Foreign
                 /\ held' = <<>> => log' # <<>>
      <4>1. CASE held = <<>>
        <5>1. Base = log /\ Base' = Append(log, x)
          BY <3>2, <4>1 DEF Base
        <5> QED
          BY <1>1, <2>1, <3>0, <3>2, <5>1, AppendFacts
      <4>2. CASE held # <<>>
        <5>1. Base = held /\ Base' = held
          BY <3>2, <4>2 DEF Base
        <5> QED
          BY <2>1, <3>0, <3>2, <4>2, <5>1
      <4> QED
        BY <4>1, <4>2
    <3>3. CASE log' = <<>> /\ held = <<>> /\ held' = log
      <4>1. Base = log /\ Base' = log /\ log # <<>>
        BY <2>1, <3>3 DEF Base
      <4> QED
        BY <2>1, <3>0, <3>3, <4>1
    <3>4. Foreign \in Line /\ \A r \in Records : r \in Line
      BY DEF Line
    <3> QED
      BY <1>3, <3>1, <3>2, <3>3, <3>4, LogStep
  <2> QED
    BY <2>2, <2>3
<1> QED
  BY <1>2, <1>3, OnceKeep DEF LogInv

LEMMA SummaryKeep == ASSUME ReplayIndInv, [Next]_vars PROVE SummaryIsHonest'
<1>0. /\ SummaryIsHonest
      /\ files # NoFiles => at \in {"import", "over"}
      /\ files \in [written : BOOLEAN, events : SUBSET Records,
                    summary : {None, "full", "partial"},
                    dataset : {None, "complete", "partially_written"},
                    trace : {None, "validated", "exploratory"}]
  BY DEF ReplayIndInv, PlaceInv, Types, FileTypes
<1>1. at = "publish" => Collected = Records /\ phase = "recall"
  <2>1. at = "publish" => phase = "recall" /\ error = None
    BY DEF ReplayIndInv, PlaceInv
  <2>2. at = "publish" => \A r \in Adds \cup Searches : call[r] = "collected"
    BY <2>1 DEF ReplayIndInv, CollectedInv, InPhase
  <2> QED
    BY <2>1, <2>2 DEF Collected, Records
<1>2. files'.summary = "full" => files'.events = Records
  <2>1. CASE UNCHANGED files
    BY <1>0, <2>1 DEF SummaryIsHonest
  <2>2. CASE Decide
    BY <1>0, <2>2 DEF Decide, Summary, WithEvents, SummaryIsHonest
  <2>3. CASE Publish
    BY <1>0, <1>1, <2>3 DEF Publish, Summary, WithEvents
  <2> QED
    BY <2>1, <2>2, <2>3, FilesFrame
<1>3. ASSUME files'.summary = "full", mode' = "required",
             NEW t \in Ids, NEW p \in Profiled \cap {"ingest", "recall"}
      PROVE  handles'[<<t, p>>] = "completed" /\ window'[p] = "completed"
  <2>1. phase' = "recall"
    BY <1>3, PlaceKeep DEF PlaceInv
  <2>2. Measured(p)'
    <3>1. CASE p = "ingest"
      BY <1>3, <2>1, <3>1, MeasuredKeep DEF MeasuredInv, Measured
    <3>2. CASE p = "recall"
      BY <1>3, <2>1, <3>2, MeasuredKeep DEF MeasuredInv, Measured
    <3> QED
      BY <3>1, <3>2
  <2> QED
    BY <1>3, <2>2 DEF Measured
<1>4. ASSUME files'.dataset = "complete", NEW r \in Adds PROVE store'[r] = "done"
  <2>1. store \in [Adds -> {"absent", "accepted", "done", "failed"}]
    BY DEF ReplayIndInv, Types, PoolTypes
  <2>2. files' # files => store[r] = "done" /\ UNCHANGED store
    <3>1. Decide \/ Publish => UNCHANGED store
      BY DEF Decide, Publish
    <3>2. files' # files => DatasetState = "complete"
      <4>1. CASE Decide
        BY <1>0, <1>4, <4>1 DEF Decide, Summary, WithEvents
      <4>2. CASE Publish
        <5>1. files = NoFiles
          BY <1>0, <4>2 DEF Publish
        <5> QED
          BY <1>0, <1>4, <4>2, <5>1 DEF Publish, Summary, WithEvents, NoFiles, None
      <4> QED
        BY <4>1, <4>2, FilesFrame
    <3>3. DatasetState = "complete" => outcome[r] = "ok"
      BY DEF DatasetState
    <3> QED
      BY <3>1, <3>2, <3>3, FilesFrame DEF ReplayIndInv, OutcomeInv
  <2>3. files' = files => store[r] = "done" /\ at \in {"import", "over"}
    BY <1>0, <1>4 DEF SummaryIsHonest, NoFiles, None
  <2>4. at \in {"import", "over"} /\ store[r] = "done" => store'[r] = "done"
    <3>1. at \in {"import", "over"} => ~ \E x \in Records : AnswerAdd(x)
      BY DEF AnswerAdd, ReplayIndInv, PoolInv
    <3>2. ASSUME NEW x \in Adds, BackendStep(x), store[r] = "done" PROVE store'[r] = "done"
      BY <2>1, <3>2 DEF BackendStep
    <3> QED
      BY <3>1, <3>2, StoreFrame
  <2> QED
    BY <2>2, <2>3, <2>4
<1>5. ASSUME files'.trace = "validated", NEW r \in Records PROVE outcome'[r] # None
  <2>1. outcome[r] # None
    <3>1. CASE UNCHANGED files
      BY <1>0, <1>5, <3>1 DEF SummaryIsHonest
    <3>2. CASE Decide
      BY <1>0, <1>5, <3>2 DEF Decide, Summary, WithEvents, SummaryIsHonest
    <3>3. CASE Publish
      <4>1. at = "publish"
        BY <3>3 DEF Publish
      <4>2. call[r] = "collected"
        BY <1>1, <4>1 DEF Collected
      <4> QED
        BY <4>2 DEF ReplayIndInv, OutcomeInv
    <3> QED
      BY <3>1, <3>2, <3>3, FilesFrame
  <2> QED
    BY <2>1, CallMove DEF ReplayIndInv, OutcomeInv, None
<1> QED
  BY <1>2, <1>3, <1>4, <1>5 DEF SummaryIsHonest

\* What a read from a place in a sequence gives.
LEMMA ShiftFacts ==
    ASSUME NEW n \in Nat, NEW c \in Nat, NEW m \in Nat, m = IF c < n THEN n - c ELSE 0
    PROVE  /\ \A i \in 1..m : c + i \in 1..n /\ i \in Nat
           /\ \A i \in 1..n : i > c => i - c \in 1..m /\ c + (i - c) = i
  OBVIOUS

LEMMA SuffixFacts ==
    ASSUME NEW s \in Seq(Line), NEW c \in Nat
    PROVE  /\ SubSeq(s, c + 1, Len(s)) \in Seq(Line)
           /\ Range(SubSeq(s, c + 1, Len(s))) \subseteq Range(s)
           /\ \A i \in DOMAIN s : i > c => s[i] \in Range(SubSeq(s, c + 1, Len(s)))
           /\ Once(s) => Once(SubSeq(s, c + 1, Len(s)))
<1> DEFINE t == SubSeq(s, c + 1, Len(s))
           n == Len(s)
           m == Len(t)
<1>1. /\ t \in Seq(Line) /\ DOMAIN s = 1..n /\ DOMAIN t = 1..m /\ n \in Nat /\ m \in Nat
      /\ m = IF c < n THEN n - c ELSE 0
      /\ \A i \in 1..m : t[i] = s[c + i]
  OBVIOUS
<1> HIDE DEF t, n, m
<1>2. /\ \A i \in 1..m : c + i \in 1..n /\ i \in Nat
      /\ \A i \in 1..n : i > c => i - c \in 1..m /\ c + (i - c) = i
  BY <1>1, ShiftFacts
<1>3. \A i \in 1..n : i > c => i - c \in 1..m /\ t[i - c] = s[i]
  BY <1>1, <1>2
<1>4. Range(t) \subseteq Range(s)
  <2>1. ASSUME NEW i \in 1..m PROVE t[i] \in {s[k] : k \in DOMAIN s}
    <3>1. c + i \in DOMAIN s /\ t[i] = s[c + i]
      BY <1>1, <1>2
    <3> QED
      BY <3>1
  <2> QED
    BY <1>1, <2>1 DEF Range
<1>5. \A i \in DOMAIN s : i > c => s[i] \in Range(t)
  BY <1>1, <1>3 DEF Range
<1>6. ASSUME Once(s), NEW i \in 1..m, NEW j \in 1..m, t[i] = t[j], t[i] \in Records
      PROVE  i = j
  <2>1. c + i = c + j
    BY <1>1, <1>2, <1>6 DEF Once
  <2>2. i \in Nat /\ j \in Nat
    BY <1>2, <1>6
  <2> QED
    BY <2>1, <2>2
<1> QED
  BY <1>1, <1>4, <1>5, <1>6 DEF t, n, Once

LEMMA JoinFacts ==
    ASSUME NEW s \in Seq(Line), NEW t \in Seq(Line)
    PROVE  /\ s \o t \in Seq(Line) /\ Range(s \o t) = Range(s) \cup Range(t)
           /\ Once(s) /\ Once(t) /\ Range(s) \cap Range(t) \subseteq {Foreign} => Once(s \o t)
<1>1. /\ s \o t \in Seq(Line) /\ Len(s) \in Nat /\ Len(t) \in Nat
      /\ DOMAIN s = 1..Len(s) /\ DOMAIN t = 1..Len(t)
      /\ DOMAIN (s \o t) = 1..(Len(s) + Len(t))
      /\ \A i \in 1..Len(s) : (s \o t)[i] = s[i]
      /\ \A i \in (Len(s) + 1)..(Len(s) + Len(t)) : (s \o t)[i] = t[i - Len(s)]
  OBVIOUS
<1>2. \A i \in 1..Len(t) : (s \o t)[Len(s) + i] = t[i]
  BY <1>1
<1>3. Range(s \o t) = Range(s) \cup Range(t)
  <2>1. ASSUME NEW x \in Range(s \o t) PROVE x \in Range(s) \cup Range(t)
    <3>1. PICK i \in 1..(Len(s) + Len(t)) : x = (s \o t)[i]
      BY <1>1, <2>1 DEF Range
    <3>2. \/ i \in 1..Len(s)
          \/ i - Len(s) \in 1..Len(t) /\ i \in (Len(s) + 1)..(Len(s) + Len(t))
      BY <1>1
    <3> QED
      BY <1>1, <3>1, <3>2 DEF Range
  <2>2. Range(s) \subseteq Range(s \o t)
    BY <1>1 DEF Range
  <2>3. ASSUME NEW i \in 1..Len(t) PROVE t[i] \in Range(s \o t)
    <3>1. Len(s) + i \in 1..(Len(s) + Len(t))
      BY <1>1
    <3> QED
      BY <1>1, <1>2, <3>1 DEF Range
  <2> QED
    BY <1>1, <2>1, <2>2, <2>3 DEF Range
<1>4. ASSUME Once(s), Once(t), Range(s) \cap Range(t) \subseteq {Foreign},
             NEW i \in 1..(Len(s) + Len(t)), NEW j \in 1..(Len(s) + Len(t)),
             (s \o t)[i] = (s \o t)[j], (s \o t)[i] \in Records
      PROVE  i = j
  <2>1. ASSUME NEW a \in 1..Len(s), NEW b \in 1..Len(t), s[a] = t[b], s[a] \in Records
        PROVE  FALSE
    <3>1. s[a] \in Range(s) \cap Range(t)
      BY <1>1, <2>1 DEF Range
    <3> QED
      BY <1>4, <2>1, <3>1, RecordFacts
  <2>2. CASE i \in 1..Len(s) /\ j \in 1..Len(s)
    BY <1>1, <1>4, <2>2 DEF Once
  <2>3. CASE i \notin 1..Len(s) /\ j \notin 1..Len(s)
    <3>1. /\ i - Len(s) \in 1..Len(t) /\ j - Len(s) \in 1..Len(t)
          /\ (s \o t)[i] = t[i - Len(s)] /\ (s \o t)[j] = t[j - Len(s)]
      BY <1>1, <2>3
    <3>2. i - Len(s) = j - Len(s)
      BY <1>1, <1>4, <3>1 DEF Once
    <3> QED
      BY <1>1, <3>2
  <2>4. CASE i \in 1..Len(s) /\ j \notin 1..Len(s)
    <3>1. j - Len(s) \in 1..Len(t) /\ (s \o t)[j] = t[j - Len(s)] /\ (s \o t)[i] = s[i]
      BY <1>1, <2>4
    <3> QED
      BY <1>4, <2>1, <2>4, <3>1
  <2>5. CASE i \notin 1..Len(s) /\ j \in 1..Len(s)
    <3>1. i - Len(s) \in 1..Len(t) /\ (s \o t)[i] = t[i - Len(s)] /\ (s \o t)[j] = s[j]
      BY <1>1, <2>5
    <3> QED
      BY <1>4, <2>1, <2>5, <3>1
  <2> QED
    BY <2>2, <2>3, <2>4, <2>5
<1> QED
  BY <1>1, <1>3, <1>4 DEF Once

\* What import_trace reads: of a file nobody cut every line of this run's requests.
LEMMA ReadIsAll ==
    ASSUME ReplayIndInv
    PROVE  /\ Once(LinesRead) /\ Range(LinesRead) \subseteq Range(held \o log)
           /\ ~lossy => \A r \in Records : r \in Range(held \o log) => r \in Range(LinesRead)
<1>1. /\ log \in Seq(Line) /\ held \in Seq(Line) /\ cursor \in Nat
      /\ Once(log) /\ Once(held) /\ Range(held) \cap Range(log) \subseteq {Foreign}
      /\ ~lossy => cursor <= Len(Base) /\ \A i \in 1..cursor : Base[i] = Foreign
  BY DEF ReplayIndInv, Types, LogTypes, LogInv
<1>2. Range(held \o log) = Range(held) \cup Range(log) /\ Foreign \notin Records
  BY <1>1, JoinFacts, RecordFacts
<1>3. CASE held # <<>>
  <2> DEFINE rest == SubSeq(held, cursor + 1, Len(held))
  <2>1. /\ rest \in Seq(Line) /\ Range(rest) \subseteq Range(held) /\ Once(rest)
        /\ \A i \in DOMAIN held : i > cursor => held[i] \in Range(rest)
    BY <1>1, SuffixFacts
  <2> HIDE DEF rest
  <2>2. LinesRead = rest \o log /\ Base = held
    BY <1>3 DEF LinesRead, Base, rest
  <2>3. Range(rest) \cap Range(log) \subseteq {Foreign}
    BY <1>1, <2>1
  <2>4. Once(LinesRead) /\ Range(LinesRead) = Range(rest) \cup Range(log)
    BY <1>1, <2>1, <2>2, <2>3, JoinFacts
  <2>5. ASSUME ~lossy, NEW r \in Records, r \in Range(held) PROVE r \in Range(rest)
    <3>1. PICK i \in 1..Len(held) : r = held[i]
      BY <1>1, <2>5 DEF Range
    <3>2. i > cursor
      BY <1>1, <1>2, <2>2, <2>5, <3>1
    <3> QED
      BY <1>1, <2>1, <3>1, <3>2
  <2> QED
    BY <1>2, <2>1, <2>4, <2>5
<1>4. CASE held = <<>> /\ Len(log) < cursor
  <2>1. LinesRead = log /\ Base = log
    BY <1>4 DEF LinesRead, Base
  <2> QED
    BY <1>1, <1>2, <1>4, <2>1, EmptyFacts
<1>5. CASE held = <<>> /\ ~(Len(log) < cursor)
  <2> DEFINE rest == SubSeq(log, cursor + 1, Len(log))
  <2>1. /\ rest \in Seq(Line) /\ Range(rest) \subseteq Range(log) /\ Once(rest)
        /\ \A i \in DOMAIN log : i > cursor => log[i] \in Range(rest)
    BY <1>1, SuffixFacts
  <2> HIDE DEF rest
  <2>2. LinesRead = rest /\ Base = log
    BY <1>5 DEF LinesRead, Base, rest
  <2>3. Range(held \o log) = Range(log)
    BY <1>2, <1>5, EmptyFacts
  <2>4. ASSUME ~lossy, NEW r \in Records, r \in Range(log) PROVE r \in Range(rest)
    <3>1. PICK i \in 1..Len(log) : r = log[i]
      BY <1>1, <2>4 DEF Range
    <3>2. i > cursor
      BY <1>1, <1>2, <2>2, <2>4, <3>1
    <3> QED
      BY <1>1, <2>1, <3>1, <3>2
  <2> QED
    BY <2>1, <2>2, <2>3, <2>4
<1> QED
  BY <1>3, <1>4, <1>5

LEMMA ImportKeep == ASSUME ReplayIndInv, [Next]_vars PROVE ImportIsExact'
<1>1. ImportIsExact /\ (imported # <<>> => at = "over")
  BY DEF ReplayIndInv, Types, FileTypes
<1>2. CASE UNCHANGED imported
  <2>1. CASE imported = <<>>
    BY <1>2, <2>1, EmptyFacts DEF ImportIsExact
  <2>2. CASE imported # <<>>
    <3>1. at = "over"
      BY <1>1, <2>2
    <3>2. UNCHANGED <<log, held, lossy>>
      <4>1. ~LogChanges
        BY <3>1 DEF LogChanges
      <4>2. \A r \in Records : call[r] # "sent"
        BY <3>1 DEF ReplayIndInv, PoolInv
      <4> QED
        BY <4>1, <4>2, LogStep
    <3>3. UNCHANGED files
      BY <3>1, FilesFrame DEF Decide, Publish
    <3> QED
      BY <1>1, <1>2, <3>2, <3>3 DEF ImportIsExact, InScope
  <2> QED
    BY <2>1, <2>2
<1>3. CASE Import /\ imported' = <<Kept>>
  <2>1. UNCHANGED <<log, held, lossy, files>>
    BY <1>3 DEF Import, trace
  <2>2. Range(imported') = {Kept}
    BY <1>3 DEF Range
  <2>3. /\ DOMAIN Kept = {j \in DOMAIN LinesRead : InScope(LinesRead[j])}
        /\ \A i \in DOMAIN Kept : Kept[i] = LinesRead[i]
    BY DEF Kept
  <2>4. IsInjective(Kept)
    BY <2>3, ReadIsAll DEF IsInjective, Once, InScope
  <2>5. Range(Kept) = {r \in Range(LinesRead) : InScope(r)}
    BY <2>3 DEF Range
  <2>6. Range(Kept) \subseteq Records
    BY <2>5 DEF InScope
  <2>7. ~lossy => Range(Kept) = {r \in Range(held \o log) : InScope(r)}
    BY <2>5, ReadIsAll DEF InScope
  <2>8. \A r : InScope(r)' <=> InScope(r)
    BY <2>1 DEF InScope
  <2> QED
    BY <2>1, <2>2, <2>4, <2>6, <2>7, <2>8 DEF ImportIsExact, InScope
<1>4. Import => imported' = <<Kept>> \/ UNCHANGED imported
  BY DEF Import
<1> QED
  BY <1>2, <1>3, <1>4, ImportedFrame

-----------------------------------------------------------------------------
(***************************************************************************)
(* The theorems.                                                           *)
(***************************************************************************)
LEMMA ProfilerStarts == ASSUME Init PROVE ProfilerTypeOK
<1> USE DEF Init, ProfilerInit
<1>1. mode \in Modes /\ procs = {} /\ overflow = {} /\ {invalid, cut} \subseteq BOOLEAN
  OBVIOUS
<1>2. handles \in [Ids \X Profiled -> HandleStates] /\ window \in [Profiled -> WindowStates]
  BY DEF HandleStates, WindowStates
<1>3. turn \in 1..Len(Targets) + 1
  BY TargetFacts
<1> QED
  BY <1>1, <1>2, <1>3 DEF ProfilerTypeOK

LEMMA TypesStart == ASSUME Init PROVE Types
<1>1. MainTypes /\ FileTypes
  BY DEF Init, MainTypes, FileTypes, Places, NoFiles, None
<1>2. PoolTypes
  BY DEF Init, PoolTypes, None
<1>3. LogTypes
  <2>1. Foreign \in Line
    BY DEF Line
  <2>2. <<Foreign>> \in Seq(Line) /\ <<>> \in Seq(Line)
    BY <2>1
  <2> QED
    BY <2>2 DEF Init, LogTypes
<1>4. faults \in 0..MaxTrouble
  BY ReplayAssumption DEF Init
<1> QED
  BY <1>1, <1>2, <1>3, <1>4, ProfilerStarts DEF Types

LEMMA InvStarts == ASSUME Init PROVE ReplayIndInv
<1> USE DEF None
<1>1. /\ at = "prepare" /\ phase = "ingest" /\ error = None /\ read = 0 /\ broken = FALSE
      /\ procs = {} /\ cut = FALSE /\ invalid = FALSE
      /\ call = [r \in Records |-> "unread"] /\ outcome = [r \in Records |-> None]
      /\ log = <<Foreign>> /\ held = <<>> /\ cursor = 0 /\ lossy = FALSE
      /\ files = NoFiles /\ imported = <<>>
  BY DEF Init, ProfilerInit
<1>2. files.summary = None /\ files.dataset = None /\ files.trace = None
  BY <1>1 DEF NoFiles
<1>3. PlaceInv /\ ProcsInv /\ StartInv /\ StopInv
  BY <1>1, <1>2 DEF PlaceInv, Bracket, ProcsInv, StartInv, StopInv
<1>4. MeasuredInv /\ SummaryIsHonest
  BY <1>1, <1>2 DEF MeasuredInv, SummaryIsHonest
<1>5. PoolInv /\ CollectedInv
  BY <1>1 DEF PoolInv, CollectedInv, Records
<1>6. OutcomeInv
  BY <1>1 DEF OutcomeInv, Records
<1>7. LogInv
  <2>1. Len(log) = 1 /\ log \in Seq(Line) /\ log[1] = Foreign /\ DOMAIN log = {1} /\ log # <<>>
    BY <1>1 DEF Line
  <2>2. Range(log) = {Foreign} /\ Once(log)
    BY <2>1, RecordFacts DEF Range, Once
  <2>3. Range(held) = {} /\ Once(held)
    BY <1>1, EmptyFacts
  <2>4. \A r \in Records : r \notin Logged
    BY <2>2, <2>3, RecordFacts DEF Logged
  <2>5. cursor <= Len(Base) /\ \A i \in 1..cursor : Base[i] = Foreign
    BY <1>1, <2>1 DEF Base
  <2> QED
    BY <1>1, <2>1, <2>2, <2>3, <2>4, <2>5 DEF LogInv
<1>8. ImportIsExact
  BY <1>1, EmptyFacts DEF ImportIsExact
<1> QED
  BY <1>3, <1>4, <1>5, <1>6, <1>7, <1>8, TypesStart DEF ReplayIndInv

LEMMA InvStays == ASSUME ReplayIndInv, [Next]_vars PROVE ReplayIndInv'
  BY TypesKeep, PlaceKeep, ProcsKeep, StartKeep, StopKeep, MeasuredKeep, PoolKeep,
     CollectedKeep, OutcomeKeep, LogKeep, SummaryKeep, ImportKeep DEF ReplayIndInv

\* What the runs check of the collectors follows.
LEMMA InvGives == ASSUME ReplayIndInv PROVE ReplayInv
<1> USE DEF ReplayIndInv
<1>1. read \in 0..Cardinality(Records)
  <2>1. CASE at = "operate"
    <3>1. phase \in Sending
      BY <2>1 DEF Types, MainTypes, PlaceInv, Sending
    <3>2. read \in Nat /\ read <= Cardinality(InPhase(phase))
      BY <2>1 DEF PoolInv, Types, PoolTypes
    <3> QED
      BY <3>1, <3>2, PhaseFacts
  <2>2. CASE at # "operate"
    <3>1. Cardinality(Records) \in Nat
      BY RecordFacts, FS_CardinalityType
    <3> QED
      BY <2>2, <3>1 DEF PlaceInv
  <2> QED
    BY <2>1, <2>2
<1>2. TypeOK
  BY <1>1 DEF TypeOK, Types, MainTypes, PoolTypes, LogTypes, Places
<1>3. CollectorsAreBracketed
  <2>1. ASSUME NEW x \in procs
        PROVE  \/ cut
               \/ x[3] = phase /\ at \in {"collect", "abandon", "operate", "window", "stop"}
    BY DEF ProcsInv
  <2>2. ASSUME at = "operate", phase \in Profiled, NEW t \in Ids
        PROVE  /\ handles[<<t, phase>>] \notin {"absent", "probing"}
               /\ handles[<<t, phase>>] = "running" <=> <<"stat", t, phase>> \in procs
    BY <2>2 DEF StartInv, Decided
  <2> QED
    BY <2>1, <2>2 DEF CollectorsAreBracketed
<1> QED
  BY <1>2, <1>3 DEF ReplayInv

\* What the proof rests on holds in every reachable state: how far start_phase,
\* the pool and stop_phase are, what each of them leaves to the next, and what the
\* backend has written to its log.
THEOREM ReplayInductive == Spec => []ReplayIndInv
<1>1. Init => ReplayIndInv
  BY InvStarts
<1>2. ReplayIndInv /\ [Next]_vars => ReplayIndInv'
  BY InvStays
<1> QED
  BY <1>1, <1>2, PTL DEF Spec

\* Collectors run inside their own phase only and are all decided while requests
\* are sent, and the summary says of the requests, the dataset and the profile what
\* is so, whatever fails or is interrupted on the way.
THEOREM ReplayIsHonest == Spec => []ReplayInv
<1>1. ReplayIndInv => ReplayInv
  BY InvGives
<1> QED
  BY <1>1, ReplayInductive, PTL

\* The imported trace has every span of this run's requests once and no other, as
\* long as the backend's file was not cut or replaced twice.
THEOREM ImportHolds == Spec => []ImportIsExact
<1>1. ReplayIndInv => ImportIsExact
  BY DEF ReplayIndInv
<1> QED
  BY <1>1, ReplayInductive, PTL
=============================================================================
