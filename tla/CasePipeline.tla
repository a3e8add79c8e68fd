---------------------------- MODULE CasePipeline ----------------------------
(***************************************************************************)
(* What a composed benchmark plan does to the memory it measures: the      *)
(* cases composer.py writes for a sample, executed step by step by         *)
(* workflow.py (_execute_case) against an external memory backend.         *)
(*                                                                         *)
(* A checkpoint of the timeline becomes one setup case, which ingests the  *)
(* events since the last checkpoint, commits them and waits until they are *)
(* searchable, and one case per question.  The setup of a checkpoint       *)
(* depends on the questions of the one before it.  In the integration      *)
(* "backend_direct" the plan calls the memory; in "agent_plugin" an agent  *)
(* with a memory plugin is spoken to, and whether the plugin captures what *)
(* it hears is a matter of the phase it was switched to.                   *)
(*                                                                         *)
(* The order of groups is the one WorkflowScheduler establishes: a setup   *)
(* runs alone, the questions of a checkpoint run together.                 *)
(***************************************************************************)
EXTENDS Integers, Sequences, FiniteSets, FiniteSetsExt

CONSTANTS
    Samples,
    NoSample,
    Events,
    Questions,          \* the questions of every checkpoint
    NumCheckpoints,     \* checkpoints of all samples, in order of their cases
    SampleOf,           \* the sample of each checkpoint
    Pending,            \* pending_events: what a checkpoint adds to its sample
    QaConcurrency,
    MaxRetries,         \* bound on default_retry_limit
    Thresholds          \* evaluation_validity a run may have, in percent

Checkpoints == 1..NumCheckpoints
Setup == "setup"

ASSUME CheckpointAssumption ==
    /\ NumCheckpoints \in Nat
    /\ SampleOf \in [Checkpoints -> Samples]
    /\ NoSample \notin Samples
    /\ IsFiniteSet(Questions) /\ Setup \notin Questions
    /\ \A k \in Checkpoints : Pending[k] \in Seq(Events)
    /\ \A j, k \in Checkpoints : j <= k /\ SampleOf[j] = SampleOf[k] =>
          \A i \in j..k : SampleOf[i] = SampleOf[j]

\* pending_events is emptied at each checkpoint: an event of the timeline is added
\* by one of them, and once.
ASSUME EventAssumption ==
    \A j, k \in Checkpoints : \A i \in DOMAIN Pending[j], m \in DOMAIN Pending[k] :
        Pending[j][i] = Pending[k][m] => j = k /\ i = m

ASSUME LimitAssumption ==
    /\ QaConcurrency \in Nat \ {0} /\ MaxRetries \in Nat
    /\ Thresholds \subseteq [coverage : 0..100, ready : 0..100, failures : 0..100]

Setups == Checkpoints \X {Setup}
Asked  == Checkpoints \X Questions
Cases  == Setups \cup Asked

-----------------------------------------------------------------------------
VARIABLES
    plan,       \* integration, commit, async, failFast and retries of the run
    status,     \* what became of each case
    at,         \* the step a case is at or failed at, 0 when it ran none
    attempt,    \* of that step
    kind,       \* case_failure_kind
    verdict,    \* handed to the judge, or the label given in its place
    report,     \* the evaluation summary of the run, once it is written
    store,      \* external: the backend's state of each event
    delivered,  \* external: how often each event was written to the backend
    home,       \* external: the namespace each event was written under
    written,    \* external: the questions that were captured as memories
    config      \* external: the plugin's capture, recall and agent_prefix

run == <<status, at, attempt, kind, verdict>>
memory == <<store, delivered, home, written>>
vars == <<plan, run, report, memory, config>>

Labels == {"runtime-error", "runtime-not-ready"}
NoReport == [valid |-> FALSE]

TypeOK ==
    /\ plan \in [integration : {"backend_direct", "agent_plugin"},
                 commit : BOOLEAN, async : BOOLEAN, failFast : BOOLEAN,
                 retries : 0..MaxRetries]
    /\ status \in [Cases -> {"waiting", "running", "passed", "failed"}]
    /\ at \in [Cases -> Nat]
    /\ attempt \in [Cases -> 0..(MaxRetries + 1)]
    /\ kind \in [Cases -> {"none"} \cup Labels]
    /\ verdict \in [Cases -> {"none", "judge"} \cup Labels]
    /\ store \in [Events -> {"absent", "stored", "indexing", "ready", "failed"}]
    /\ delivered \in [Events -> Nat]
    /\ home \in [Events -> Samples \cup {NoSample}]
    /\ written \subseteq Asked
    /\ config \in [capture : BOOLEAN, recall : BOOLEAN,
                   prefix : Samples \cup {NoSample}]
    /\ report \in {NoReport} \cup [minimum : Thresholds, valid : BOOLEAN,
                                   passed : Nat, failed : Nat, silent : Nat]

\* A backend that is not asynchronous has an event ready when the call
\* returns; one that is supports the readiness probe.  The user's own plugin
\* configuration is unknown, and is what a run starts from.
Init ==
    /\ plan \in [integration : {"backend_direct", "agent_plugin"},
                 commit : BOOLEAN, async : BOOLEAN, failFast : BOOLEAN,
                 retries : 0..MaxRetries]
    /\ status = [c \in Cases |-> "waiting"]
    /\ at = [c \in Cases |-> 0]
    /\ attempt = [c \in Cases |-> 0]
    /\ kind = [c \in Cases |-> "none"]
    /\ verdict = [c \in Cases |-> "none"]
    /\ report = NoReport
    /\ store = [e \in Events |-> "absent"]
    /\ delivered = [e \in Events |-> 0]
    /\ home = [e \in Events |-> NoSample]
    /\ written = {}
    /\ config = [capture |-> TRUE, recall |-> TRUE, prefix |-> NoSample]

-----------------------------------------------------------------------------
(* The plan *)

Direct == plan.integration = "backend_direct"

FirstOfSample(k) == k = 1 \/ SampleOf[k - 1] # SampleOf[k]

\* depends_on_cases: previous_checkpoint_cases, or the setup of a question.
DependsOn(c) ==
    IF c[2] # Setup THEN {<<c[1], Setup>>}
    ELSE IF FirstOfSample(c[1]) THEN {}
    ELSE IF Questions = {} THEN {<<c[1] - 1, Setup>>}
    ELSE {c[1] - 1} \X Questions

Once(op) == <<[op |-> op]>>
ForEach(op, k) ==
    [i \in DOMAIN Pending[k] |-> [op |-> op, event |-> Pending[k][i]]]
When(needed, steps) == IF needed THEN steps ELSE <<>>

\* Mutant: the readiness barrier is taken to be implied by the commit.
CommitIsEnough(k) ==
    ForEach("ingest", k) \o When(plan.commit, ForEach("commit", k))
        \o When(plan.async /\ ~plan.commit, ForEach("wait", k))

\* Three barriers: every event is ingested before one is committed, and every
\* one is committed before one is waited for.
Barriers(k) ==
    ForEach("ingest", k) \o When(plan.commit, ForEach("commit", k))
        \o When(plan.async, ForEach("wait", k))

SetupSteps(k) ==
    IF Direct THEN Barriers(k)
    ELSE When(FirstOfSample(k), Once("validate") \o Once("prepare"))
            \o Once("ingest_phase") \o Barriers(k) \o Once("qa_phase")

\* In every chain a step depends on the one before it, and every gate is hard.
Steps(c) ==
    IF c[2] = Setup THEN SetupSteps(c[1])
    ELSE IF Direct THEN Once("recall") \o Once("answer") ELSE Once("answer")

\* max_attempts: is_memory_ingest holds only for a call of the memory itself.
MaxAttempts(step) == IF Direct /\ step.op = "ingest" THEN 1 ELSE 1 + plan.retries

-----------------------------------------------------------------------------
(* The execution of a case *)

Finished(c) == status[c] \in {"passed", "failed"}

\* A setup has no group key: it runs alone, before the questions that share one.
Before(c) ==
    {d \in Cases : d[1] < c[1] \/ (d[1] = c[1] /\ d[2] = Setup /\ c[2] # Setup)}

Unmet(c) == {d \in DependsOn(c) : status[d] # "passed"}

\* agent_plugin refuses a qa_concurrency other than 1.
Workers == IF Direct THEN QaConcurrency ELSE 1

MayStart(c) ==
    /\ status[c] = "waiting"
    /\ \A d \in Before(c) : Finished(d)
    /\ Cardinality({d \in Cases : status[d] = "running"}) < Workers

\* readiness_failed looks for a wait-ready among the steps whose record is
\* failed or has gate_passed false, which a skipped step's record has too.
LabelOf(steps) ==
    IF \E i \in DOMAIN steps : steps[i].op = "wait"
    THEN "runtime-not-ready" ELSE "runtime-error"

WorstOf(kinds) ==
    IF "runtime-not-ready" \in kinds THEN "runtime-not-ready" ELSE "runtime-error"

Start(c) ==
    /\ MayStart(c)
    /\ Unmet(c) = {}
    /\ status' = [status EXCEPT ![c] = "running"]
    /\ at' = [at EXCEPT ![c] = 1]
    /\ attempt' = [attempt EXCEPT ![c] = 1]
    /\ UNCHANGED <<plan, report, kind, verdict, memory, config>>

Skip(c) ==
    /\ MayStart(c)
    /\ Unmet(c) # {}
    /\ status' = [status EXCEPT ![c] = "failed"]
    /\ kind' = [kind EXCEPT ![c] = LabelOf(Steps(c))]
    /\ verdict' = IF c[2] = Setup THEN verdict
                  ELSE [verdict EXCEPT ![c] = WorstOf({kind[d] : d \in Unmet(c)})]
    /\ UNCHANGED <<plan, report, at, attempt, memory, config>>

Finish(c) ==
    /\ status[c] = "running"
    /\ at[c] > Len(Steps(c))
    /\ status' = [status EXCEPT ![c] = "passed"]
    /\ verdict' = IF c[2] = Setup THEN verdict ELSE [verdict EXCEPT ![c] = "judge"]
    /\ UNCHANGED <<plan, report, at, attempt, kind, memory, config>>

Pass(c) ==
    /\ at' = [at EXCEPT ![c] = @ + 1]
    /\ attempt' = [attempt EXCEPT ![c] = 1]
    /\ UNCHANGED <<plan, report, status, kind, verdict>>

\* The records that failed: this one, and unless fail_fast left the loop those
\* of the steps skipped after it.
Broken(c) == SubSeq(Steps(c), at[c], IF plan.failFast THEN at[c] ELSE Len(Steps(c)))

Fail(c) ==
    /\ UNCHANGED <<plan, report, at>>
    /\ \/ /\ attempt[c] < MaxAttempts(Steps(c)[at[c]])
          /\ attempt' = [attempt EXCEPT ![c] = @ + 1]
          /\ UNCHANGED <<status, kind, verdict>>
       \/ /\ attempt[c] >= MaxAttempts(Steps(c)[at[c]])
          /\ status' = [status EXCEPT ![c] = "failed"]
          /\ kind' = [kind EXCEPT ![c] = LabelOf(Broken(c))]
          /\ verdict' = IF c[2] = Setup THEN verdict
                        ELSE [verdict EXCEPT ![c] = LabelOf(Broken(c))]
          /\ UNCHANGED attempt

AtStep(c, op) ==
    /\ status[c] = "running"
    /\ at[c] \in DOMAIN Steps(c)
    /\ Steps(c)[at[c]].op = op

EventOf(c) == Steps(c)[at[c]].event

\* The call did what it was asked and may still fail, or it did nothing.
Call(c, Done, Nothing) ==
    \/ Done /\ (Pass(c) \/ Fail(c))
    \/ Nothing /\ Fail(c)

-----------------------------------------------------------------------------
(* The steps, and what they do to the backend and the plugin *)

\* The session is indexed once nothing has to be committed first.
Accepted == IF plan.async THEN "indexing" ELSE "ready"

Write(e, namespace) ==
    /\ delivered' = [delivered EXCEPT ![e] = @ + 1]
    /\ home' = [home EXCEPT ![e] = namespace]
    /\ store' = [store EXCEPT ![e] = IF plan.commit THEN "stored" ELSE Accepted]
    /\ UNCHANGED <<written, config>>

\* The memory takes the scope from the call.
IngestDirect(c) ==
    /\ Direct
    /\ AtStep(c, "ingest")
    /\ Call(c, Write(EventOf(c), SampleOf[c[1]]), UNCHANGED <<memory, config>>)

\* The agent's plugin captures the turn if it is told to capture.
IngestByAgent(c) ==
    /\ ~Direct
    /\ AtStep(c, "ingest")
    /\ Call(c,
            IF config.capture THEN Write(EventOf(c), config.prefix)
                              ELSE UNCHANGED <<memory, config>>,
            UNCHANGED <<memory, config>>)

\* A second commit of a session returns the operation of the first.
Commit(c) ==
    /\ AtStep(c, "commit")
    /\ LET e == EventOf(c) IN
       Call(c,
            /\ store' = IF store[e] = "stored" THEN [store EXCEPT ![e] = Accepted]
                                               ELSE store
            /\ UNCHANGED <<delivered, home, written, config>>,
            UNCHANGED <<memory, config>>)

Index(e) ==
    /\ store[e] = "indexing"
    /\ store' \in {[store EXCEPT ![e] = r] : r \in {"ready", "failed"}}
    /\ UNCHANGED <<plan, run, report, delivered, home, written, config>>

\* Mutant: a poll ends only when the backend says how it ended.
NeverGivesUp(e) == store[e] = "failed"

\* A probe may raise, the time may be up, the backend may report failure.
GivesUp(e) == TRUE

WaitReady(c) ==
    /\ AtStep(c, "wait")
    /\ \/ store[EventOf(c)] \in {"ready", "absent"} /\ Pass(c)
       \/ GivesUp(EventOf(c)) /\ Fail(c)
    /\ UNCHANGED <<memory, config>>

Validate(c) ==
    /\ AtStep(c, "validate")
    /\ Pass(c) \/ Fail(c)
    /\ UNCHANGED <<memory, config>>

Prepare(c) ==
    /\ AtStep(c, "prepare")
    /\ Call(c,
            config' = [config EXCEPT !.prefix = SampleOf[c[1]]] /\ UNCHANGED memory,
            UNCHANGED <<memory, config>>)

\* Each field is a command of its own, so a phase may be switched half-way.
IngestPhase(c) ==
    /\ AtStep(c, "ingest_phase")
    /\ UNCHANGED memory
    /\ \/ config' = [config EXCEPT !.capture = TRUE] /\ Fail(c)
       \/ Call(c, config' = [config EXCEPT !.capture = TRUE, !.recall = FALSE],
                  UNCHANGED config)

\* Mutant: the questions may recall, and capturing is left as it is.
RecallToo == [config EXCEPT !.recall = TRUE]

ReadOnly == [config EXCEPT !.capture = FALSE, !.recall = TRUE]

QaPhase(c) ==
    /\ AtStep(c, "qa_phase")
    /\ UNCHANGED memory
    /\ \/ config' = [config EXCEPT !.capture = FALSE] /\ Fail(c)
       \/ Call(c, config' = ReadOnly, UNCHANGED config)

Recall(c) ==
    /\ AtStep(c, "recall")
    /\ Pass(c) \/ Fail(c)
    /\ UNCHANGED <<memory, config>>

Answer(c) ==
    /\ AtStep(c, "answer")
    /\ Call(c,
            /\ written' = IF ~Direct /\ config.capture THEN written \cup {c} ELSE written
            /\ UNCHANGED <<store, delivered, home, config>>,
            UNCHANGED <<memory, config>>)

Operate(c) ==
    \/ IngestDirect(c) \/ IngestByAgent(c) \/ Commit(c) \/ WaitReady(c)
    \/ Validate(c) \/ Prepare(c) \/ IngestPhase(c) \/ QaPhase(c)
    \/ Recall(c) \/ Answer(c)

Execute(c) == Start(c) \/ Skip(c) \/ Operate(c) \/ Finish(c)

-----------------------------------------------------------------------------
(* The judge and the summary of the run *)

\* What the judge said in the end.  It is asked up to three times within its
\* deadline while it is busy or out of reach; an error that another call would
\* not help, or a reply that holds no JSON, ends the asking at once.  A grade
\* that is left out is wrong, as an empty answer is without being sent.
Replies == {"correct", "wrong", "none"}

\* Mutant: an answer the judge has no grade for is a wrong answer.
NoGradeIsWrong(reply) == IF reply = "correct" THEN "passed" ELSE "failed"

\* run_llm_judge: passed is None unless a grade was read.
Grade(reply) ==
    CASE reply = "correct" -> "passed"
      [] reply = "wrong" -> "failed"
      [] reply = "none" -> "judge-error"

Judged == {c \in Asked : verdict[c] = "judge"}

\* A step that was skipped has not been executed; those that failed are the last
\* ones their cases came to.
FailedSteps == {c \in Cases : status[c] = "failed" /\ at[c] > 0}
ExecutedSteps ==
    MapThenSumSet(LAMBDA c : IF c \in FailedSteps THEN at[c] ELSE Len(Steps(c)),
                  FailedSteps \cup {c \in Cases : status[c] = "passed"})

ReadyCheckpoints ==
    {c \in Setups : status[c] = "passed" /\ at[c] > Len(Steps(c))}

\* _apply_native_run_validity, with a plugin that was finalized.
Acceptable(graded, minimum) ==
    /\ Asked = {} => minimum.coverage = 0
    /\ 100 * Cardinality(graded) >= minimum.coverage * Cardinality(Asked)
    /\ 100 * Cardinality(ReadyCheckpoints) >= minimum.ready * Cardinality(Setups)
    /\ 100 * Cardinality(FailedSteps) <= minimum.failures * ExecutedSteps

\* _summarize_native_evaluation.  The score is passed / (passed + failed), and is
\* published when the run is valid.
Evaluate ==
    /\ \A c \in Cases : Finished(c)
    /\ report = NoReport
    /\ \E minimum \in Thresholds, reply \in [Judged -> Replies] :
          LET Are(grade) == {c \in Judged : Grade(reply[c]) = grade} IN
          report' = [minimum |-> minimum,
                     valid   |-> Acceptable(Are("passed") \cup Are("failed"), minimum),
                     passed  |-> Cardinality(Are("passed")),
                     failed  |-> Cardinality(Are("failed")),
                     silent  |-> Cardinality({c \in Judged : reply[c] = "none"})]
    /\ UNCHANGED <<plan, run, memory, config>>

AllDone == report # NoReport /\ UNCHANGED vars

Next ==
    \/ \E c \in Cases : Execute(c)
    \/ \E e \in Events : Index(e)
    \/ Evaluate
    \/ AllDone

Spec == Init /\ [][Next]_vars

\* A worker thread that can go on does.  Nothing is assumed of the backend.
FairSpec == Spec /\ \A c \in Cases : WF_vars(Execute(c))

-----------------------------------------------------------------------------
(* Properties *)

SameSample(j, k) == SampleOf[j] = SampleOf[k]

EventsUpTo(k) ==
    UNION {{Pending[j][i] : i \in DOMAIN Pending[j]} :
              j \in {i \in 1..k : SameSample(i, k)}}

\* While a question is being answered the memory of its sample is exactly the
\* history up to its checkpoint: every event of it is searchable, under the
\* sample's own namespace, and nothing of a later checkpoint was written.
AnswersSeeTheHistory ==
    \A c \in Asked :
        status[c] = "running" =>
            EventsUpTo(c[1])
              = {e \in Events : delivered[e] > 0 /\ home[e] = SampleOf[c[1]]
                                /\ store[e] = "ready"}

\* No question becomes a memory that a later question could recall, whatever
\* the user's plugin was configured to and however a phase switch failed.
QaLeavesNoTrace == written = {}

\* An event is not written twice, though a write can take effect and still
\* look failed; with a plugin that rests on retries being switched off.
IngestedOnce ==
    Direct \/ plan.retries = 0 => \A e \in Events : delivered[e] <= 1

\* The memory holds what the plan put there, once, and nothing of the questions.
MemoryInv == TypeOK /\ QaLeavesNoTrace /\ IngestedOnce

\* An answer reaches the judge only when every case of its sample that came
\* before it passed: a failure anywhere keeps all later answers from a score.
VerdictsAreEarned ==
    \A c \in Asked :
        verdict[c] = "judge" =>
            \A d \in Before(c) : SameSample(c[1], d[1]) => status[d] = "passed"

\* What a valid run publishes is earned: no answer is scored that a case before
\* it has spoiled and none that the judge gave no grade to, and, unless the
\* benchmark asks for less, a score stands for the whole of the run: every step
\* of every case passed, and every question was graded by its judge.
ScoreIsEarned ==
    /\ VerdictsAreEarned
    /\ report # NoReport =>
          /\ report.passed + report.failed + report.silent = Cardinality(Judged)
          /\ report.valid /\ report.minimum.coverage = 100 =>
                /\ \A c \in Cases : status[c] = "passed"
                /\ report.passed + report.failed = Cardinality(Asked)
                /\ report.silent = 0

\* Every case ends, even when the backend never finishes what it was given.
EveryCaseSettles == <>(\A c \in Cases : Finished(c))

\* The boundary design has a checkpoint marked runtime_not_ready when it timed
\* out before it was searchable, and counted apart from wrong answers.  So a
\* question has that label only when the memory of its sample was waited for
\* in vain; stated for the fail_fast and retries compose_run_plan gives.
NotReadyMeansNotReady ==
    plan.failFast /\ plan.retries = 0 => \A c \in Asked :
        verdict[c] = "runtime-not-ready" =>
            \E k \in 1..c[1] :
                LET d == <<k, Setup>> IN
                SameSample(k, c[1]) /\ status[d] = "failed" /\ at[d] > 0
                  /\ Steps(d)[at[d]].op = "wait"

=============================================================================
