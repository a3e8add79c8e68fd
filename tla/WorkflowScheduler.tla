------------------------- MODULE WorkflowScheduler -------------------------
(***************************************************************************)
(* The case scheduler of memory_bench_platform/workflow.py: execute_cases  *)
(* and its inner run_group.  One coordinator thread submits cases to a QA  *)
(* pool, waits for futures, archives what they return, hands answered      *)
(* cases to a judge pool and never lets two groups of cases overlap.       *)
(*                                                                         *)
(* A case is named by its position in the `cases` list.  The two thread    *)
(* pools are the values of fut: one future of a case is outstanding at any *)
(* time, first the QA future and then, possibly, the judge future.         *)
(* Phase profiling (phase_sink) wraps whole batches of groups and changes  *)
(* nothing here; it is not part of this module.                            *)
(***************************************************************************)
EXTENDS Integers, FiniteSets

CONSTANTS
    NumCases,           \* len(cases)
    Key,                \* _qa_group_key of each case
    NoKey,              \* the key None
    DependsOn,          \* depends_on_cases of each case
    Judged,             \* the cases whose judge_mode is not "none"
    QaConcurrency,
    JudgeConcurrency

Cases == 1..NumCases

ASSUME SizeAssumption ==
    /\ NumCases \in Nat
    /\ QaConcurrency \in Nat \ {0}
    /\ JudgeConcurrency \in Nat \ {0}

\* validate_workflow accepts only dependencies on earlier cases, and a key
\* holds the dependencies of its case, so equal keys have equal dependencies.
ASSUME PlanAssumption ==
    /\ Judged \subseteq Cases
    /\ DependsOn \in [Cases -> SUBSET Cases]
    /\ \A c \in Cases : \A d \in DependsOn[c] : d < c
    /\ \A c, d \in Cases :
          Key[c] # NoKey /\ Key[c] = Key[d] => DependsOn[c] = DependsOn[d]

-----------------------------------------------------------------------------
VARIABLES
    pc,         \* the coordinator: running, draining, returned, raised
    next,       \* the first case not yet taken from the group iterators
    first,      \* the first case of the group being run
    fut,        \* the outstanding future of each case
    done,       \* what the last wait() returned and is not collected yet
    qaActive,   \* the counter qa_active
    unmet,      \* dependencies not passed in the snapshot a case was given
    status,     \* the dictionary statuses
    archive,    \* the case-progress file of each case
    verdict     \* judge_results in the output of each case

vars == <<pc, next, first, fut, done, qaActive, unmet, status, archive, verdict>>

QaDone      == {"qa_passed", "qa_failed", "qa_raised"}
QaFutures   == {"qa_running"} \cup QaDone
JudgeDone   == {"judge_graded", "judge_error"}
JudgeFutures == {"judge_queued", "judge_running"} \cup JudgeDone

Pending  == {c \in Cases : fut[c] # "none"}
QaOf     == {c \in Cases : fut[c] \in QaFutures}
Judging  == {c \in Cases : fut[c] = "judge_running"}
Finished == {c \in Cases : fut[c] \in QaDone \cup JudgeDone}
AtWork   == Pending \ Finished

TypeOK ==
    /\ pc \in {"running", "draining", "returned", "raised"}
    /\ next \in 1..(NumCases + 1)
    /\ first \in 1..next
    /\ fut \in [Cases -> {"none"} \cup QaFutures \cup JudgeFutures]
    /\ done \in SUBSET Cases
    /\ qaActive \in Nat
    /\ unmet \in [Cases -> SUBSET Cases]
    /\ status \in [Cases -> {"none", "passed", "failed"}]
    /\ archive \in [Cases -> {"none", "judge_pending", "final"}]
    /\ verdict \in [Cases -> {"none", "graded", "ungraded"}]

Init ==
    /\ pc = "running"
    /\ next = 1
    /\ first = 1
    /\ fut = [c \in Cases |-> "none"]
    /\ done = {}
    /\ qaActive = 0
    /\ unmet = [c \in Cases |-> {}]
    /\ status = [c \in Cases |-> "none"]
    /\ archive = [c \in Cases |-> "none"]
    /\ verdict = [c \in Cases |-> "none"]

-----------------------------------------------------------------------------
(* The coordinator *)

\* A case opens a group unless it shares a key with the case before it.
Opens(c) == c = 1 \/ Key[c] = NoKey \/ Key[c] # Key[c - 1]

Capacity ==
    IF QaConcurrency = 1 /\ JudgeConcurrency = 1
    THEN 1
    ELSE QaConcurrency + 2 * JudgeConcurrency

\* The iterator over the group still holds a case.
CaseLeft == next <= NumCases /\ (next = first \/ ~Opens(next))

HasRoom == qaActive < QaConcurrency /\ Cardinality(Pending) < Capacity

CanSubmit == CaseLeft /\ HasRoom

\* Between two calls of wait(): the submit loop has the thread.
AtLoopHead == pc = "running" /\ done = {}

\* The worker reads the copy of statuses made here, not statuses itself.
Snapshot(c) == {d \in DependsOn[c] : status[d] # "passed"}

Submit ==
    /\ AtLoopHead
    /\ CanSubmit
    /\ fut' = [fut EXCEPT ![next] = "qa_running"]
    /\ unmet' = [unmet EXCEPT ![next] = Snapshot(next)]
    /\ qaActive' = qaActive + 1
    /\ next' = next + 1
    /\ UNCHANGED <<pc, first, done, status, archive, verdict>>

Wait ==
    /\ AtLoopHead
    /\ ~CanSubmit
    /\ Finished # {}
    /\ done' = Finished
    /\ UNCHANGED <<pc, next, first, fut, qaActive, unmet, status, archive, verdict>>

\* Mutant: run_group returns when its iterator is empty, without draining.
NextGroupWithoutDrain ==
    /\ AtLoopHead
    /\ ~CaseLeft
    /\ next <= NumCases
    /\ first' = next
    /\ qaActive' = 0
    /\ UNCHANGED <<pc, next, fut, done, unmet, status, archive, verdict>>

NextGroup ==
    /\ AtLoopHead
    /\ ~CaseLeft
    /\ Pending = {}
    /\ next <= NumCases
    /\ first' = next
    /\ qaActive' = 0
    /\ UNCHANGED <<pc, next, fut, done, unmet, status, archive, verdict>>

Return ==
    /\ AtLoopHead
    /\ ~CaseLeft
    /\ Pending = {}
    /\ next > NumCases
    /\ pc' = "returned"
    /\ UNCHANGED <<next, first, fut, done, qaActive, unmet, status, archive, verdict>>

\* output["_judge_job"] is not None.
HasJudgeJob(c) == fut[c] = "qa_passed" /\ c \in Judged

Outcome(c) == IF fut[c] = "qa_passed" THEN "passed" ELSE "failed"

\* A judged case that failed is labelled by _execute_case, without a judge.
QaVerdict(c) == IF c \in Judged /\ ~HasJudgeJob(c) THEN "ungraded" ELSE "none"

JudgeVerdict(c) == IF fut[c] = "judge_graded" THEN "graded" ELSE "ungraded"

\* Mutant: qa_active is not decremented for a case that goes to its judge.
CollectQaLeaksSlot(c) ==
    /\ pc = "running"
    /\ c \in done
    /\ fut[c] \in {"qa_passed", "qa_failed"}
    /\ done' = done \ {c}
    /\ qaActive' = IF HasJudgeJob(c) THEN qaActive ELSE qaActive - 1
    /\ status' = [status EXCEPT ![c] = Outcome(c)]
    /\ archive' = [archive EXCEPT ![c] = IF HasJudgeJob(c) THEN "judge_pending" ELSE "final"]
    /\ fut' = [fut EXCEPT ![c] = IF HasJudgeJob(c) THEN "judge_queued" ELSE "none"]
    /\ verdict' = [verdict EXCEPT ![c] = QaVerdict(c)]
    /\ UNCHANGED <<pc, next, first, unmet>>

CollectQa(c) ==
    /\ pc = "running"
    /\ c \in done
    /\ fut[c] \in {"qa_passed", "qa_failed"}
    /\ done' = done \ {c}
    /\ qaActive' = qaActive - 1
    /\ status' = [status EXCEPT ![c] = Outcome(c)]
    /\ archive' = [archive EXCEPT ![c] = IF HasJudgeJob(c) THEN "judge_pending" ELSE "final"]
    /\ fut' = [fut EXCEPT ![c] = IF HasJudgeJob(c) THEN "judge_queued" ELSE "none"]
    /\ verdict' = [verdict EXCEPT ![c] = QaVerdict(c)]
    /\ UNCHANGED <<pc, next, first, unmet>>

CollectJudge(c) ==
    /\ pc = "running"
    /\ c \in done
    /\ fut[c] \in JudgeDone
    /\ done' = done \ {c}
    /\ archive' = [archive EXCEPT ![c] = "final"]
    /\ fut' = [fut EXCEPT ![c] = "none"]
    /\ verdict' = [verdict EXCEPT ![c] = JudgeVerdict(c)]
    /\ UNCHANGED <<pc, next, first, qaActive, unmet, status>>

\* An exception leaves run_group for good: the rest of done is dropped and
\* leaving the with statement shuts both pools down, waiting for their work.
Abort == pc' = "draining" /\ done' = {}

\* future.result() raises what _execute_case raised.
CollectRaised(c) ==
    /\ pc = "running"
    /\ c \in done
    /\ fut[c] = "qa_raised"
    /\ Abort
    /\ fut' = [fut EXCEPT ![c] = "none"]
    /\ qaActive' = qaActive - 1
    /\ UNCHANGED <<next, first, unmet, status, archive, verdict>>

\* archive() raises after the in-memory output was updated.
QaArchiveFails(c) ==
    /\ pc = "running"
    /\ c \in done
    /\ fut[c] \in {"qa_passed", "qa_failed"}
    /\ Abort
    /\ fut' = [fut EXCEPT ![c] = "none"]
    /\ qaActive' = qaActive - 1
    /\ status' = [status EXCEPT ![c] = Outcome(c)]
    /\ verdict' = [verdict EXCEPT ![c] = QaVerdict(c)]
    /\ UNCHANGED <<next, first, unmet, archive>>

JudgeArchiveFails(c) ==
    /\ pc = "running"
    /\ c \in done
    /\ fut[c] \in JudgeDone
    /\ Abort
    /\ fut' = [fut EXCEPT ![c] = "none"]
    /\ verdict' = [verdict EXCEPT ![c] = JudgeVerdict(c)]
    /\ UNCHANGED <<next, first, qaActive, unmet, status, archive>>

\* KeyboardInterrupt while the coordinator is blocked in wait().
Interrupt ==
    /\ AtLoopHead
    /\ ~CanSubmit
    /\ Pending # {}
    /\ Abort
    /\ UNCHANGED <<next, first, fut, qaActive, unmet, status, archive, verdict>>

\* Mutant: the pools are left without waiting for their work.
DrainedAtOnce ==
    /\ pc = "draining"
    /\ pc' = "raised"
    /\ UNCHANGED <<next, first, fut, done, qaActive, unmet, status, archive, verdict>>

\* Both shutdown(wait=True) calls have returned.
Drained ==
    /\ pc = "draining"
    /\ AtWork = {}
    /\ pc' = "raised"
    /\ UNCHANGED <<next, first, fut, done, qaActive, unmet, status, archive, verdict>>

-----------------------------------------------------------------------------
(* The workers *)

PoolOpen == pc \in {"running", "draining"}

\* Mutant: a case runs whatever became of the cases it depends on.
QaFinishWhateverUnmet(c) ==
    /\ PoolOpen
    /\ fut[c] = "qa_running"
    /\ \E r \in QaDone : fut' = [fut EXCEPT ![c] = r]
    /\ UNCHANGED <<pc, next, first, done, qaActive, unmet, status, archive, verdict>>

\* An unmet dependency skips every step, and the case fails.
QaFinish(c) ==
    /\ PoolOpen
    /\ fut[c] = "qa_running"
    /\ \E r \in QaDone :
          /\ unmet[c] # {} => r # "qa_passed"
          /\ fut' = [fut EXCEPT ![c] = r]
    /\ UNCHANGED <<pc, next, first, done, qaActive, unmet, status, archive, verdict>>

JudgeStart(c) ==
    /\ PoolOpen
    /\ fut[c] = "judge_queued"
    /\ Cardinality(Judging) < JudgeConcurrency
    /\ fut' = [fut EXCEPT ![c] = "judge_running"]
    /\ UNCHANGED <<pc, next, first, done, qaActive, unmet, status, archive, verdict>>

\* _judge_case turns every exception into an ungraded result.
JudgeFinish(c) ==
    /\ PoolOpen
    /\ fut[c] = "judge_running"
    /\ \E r \in JudgeDone : fut' = [fut EXCEPT ![c] = r]
    /\ UNCHANGED <<pc, next, first, done, qaActive, unmet, status, archive, verdict>>

-----------------------------------------------------------------------------
Collect(c) ==
    \/ CollectQa(c)
    \/ CollectJudge(c)
    \/ CollectRaised(c)
    \/ QaArchiveFails(c)
    \/ JudgeArchiveFails(c)

Coordinator ==
    \/ Submit
    \/ Wait
    \/ NextGroup
    \/ Return
    \/ Drained
    \/ \E c \in Cases : Collect(c)

Worker(c) == QaFinish(c) \/ JudgeStart(c) \/ JudgeFinish(c)

Terminated == pc \in {"returned", "raised"} /\ UNCHANGED vars

Next ==
    \/ Coordinator
    \/ Interrupt
    \/ \E c \in Cases : Worker(c)
    \/ Terminated

Spec == Init /\ [][Next]_vars

\* The coordinator thread keeps running and every call a worker makes returns.
Fairness == WF_vars(Coordinator) /\ WF_vars(\E c \in Cases : Worker(c))

FairSpec == Spec /\ Fairness

-----------------------------------------------------------------------------
(* Safety *)

Submitted(c) == c < next
Settled(c) == fut[c] = "none" /\ archive[c] = "final"

\* The outstanding work is bounded: at most QaConcurrency answers are being
\* produced and at most Capacity futures wait in the two pools together, so a
\* slow judge cannot make the queue of answers grow (run_group, 698-712).  The
\* counter qa_active is exact, or the submit loop would starve or overrun.
BoundedWork ==
    /\ Cardinality(QaOf) <= QaConcurrency
    /\ Cardinality(Pending) <= Capacity
    /\ pc = "running" => qaActive = Cardinality(QaOf)

\* "Drain both pools at checkpoint/sample boundaries, before any writes": when
\* a case has been submitted, every case of an earlier group is answered,
\* judged and archived for good (run_group, 694).
GroupBarrier ==
    \A c, d \in Cases :
        /\ Submitted(c)
        /\ d < c
        /\ \E k \in (d + 1)..c : Opens(k)
        => Settled(d)

\* With both concurrencies 1 the cases run one after the other, each one
\* answered and judged before the next is submitted (the default of
\* ExecutionSpec; test_default_execution_remains_strictly_serial).
StrictlySerial ==
    QaConcurrency = 1 /\ JudgeConcurrency = 1 =>
        \A c, d \in Cases : Submitted(c) /\ d < c => Settled(d)

\* The snapshot of statuses a worker decides on is never stale: it says of
\* every dependency what the finished run says of it (execute_cases, 709).
SnapshotNeverStale ==
    \A c \in Cases : Submitted(c) => unmet[c] = Snapshot(c)

\* A case is judged only once it has passed, and its answer is on disk, marked
\* as waiting for its judge, before the judge sees it (run_group, 725-739).
AnswerArchivedBeforeJudge ==
    \A c \in Cases : fut[c] \in JudgeFutures =>
        /\ c \in Judged
        /\ status[c] = "passed"
        /\ archive[c] = "judge_pending"

\* However execute_cases ends, no worker of either pool outlives it, so what
\* follows (plugin finalize, trace shutdown) races with nothing; and a normal
\* return has archived every case for good, with a verdict for each judged case
\* and for no other.
EndIsClean ==
    /\ pc \in {"returned", "raised"} => AtWork = {}
    /\ pc = "returned" => \A c \in Cases :
          /\ Settled(c)
          /\ (verdict[c] # "none") <=> (c \in Judged)

\* What execute_cases keeps true between any two of its steps: its books are
\* exact, what workers and judges were handed stays right, and nothing outlives it.
CoordinatorInv ==
    /\ TypeOK
    /\ BoundedWork
    /\ SnapshotNeverStale
    /\ AnswerArchivedBeforeJudge
    /\ EndIsClean

-----------------------------------------------------------------------------
(* Refinement *)

EarlierGroups == [c \in Cases |->
    {d \in Cases : d < c /\ \E k \in (d + 1)..c : Opens(k)}]

LedgerEntry == [c \in Cases |->
    CASE archive[c] = "none" -> "absent"
      [] archive[c] = "judge_pending" -> "answered"
      [] archive[c] = "final" -> "settled"]

LedgerOutcome == [c \in Cases |-> IF archive[c] = "none" THEN "none" ELSE status[c]]

Ledger == INSTANCE ProgressLedger WITH
    Before <- EarlierGroups, entry <- LedgerEntry, outcome <- LedgerOutcome

\* What a reader of records/case-progress sees is the abstract ledger: progress
\* only moves forward, through judge_pending when there is a judge, an archived
\* outcome is never revised, no case passes on a dependency that did not, and
\* groups appear one after the other.
ImplementsLedger == Ledger!Spec

-----------------------------------------------------------------------------
(* Liveness *)

\* execute_cases ends, whatever the workers return or raise.
EventuallyEnds == <>(pc \in {"returned", "raised"})

-----------------------------------------------------------------------------
(* What the documentation says of an aborted run, and the code does not do *)

\* README.md 598-599: case-progress is saved after the execution and after the
\* grading of each question, to be read after an abnormal interruption.
FinishedWorkIsArchived ==
    pc = "raised" => \A c \in Cases :
        /\ fut[c] \in {"qa_passed", "qa_failed"} => archive[c] # "none"
        /\ fut[c] \in JudgeDone => archive[c] = "final"
=============================================================================
