-------------------------- MODULE CasePipelineProofs --------------------------
(***************************************************************************)
(* Machine-checked proofs about CasePipeline, for any samples, events,     *)
(* questions, checkpoints and limits: what a valid run publishes is earned *)
(* whatever fails.                                                         *)
(*                                                                         *)
(* The argument: a case runs only when all cases before it have finished   *)
(* and those it depends on have passed; a question depends on its setup, a *)
(* setup on all questions of the checkpoint before it, so that whatever is *)
(* running has the whole of its sample behind it.  Only a case that passed *)
(* hands an answer to the judge, and a run of which every question was     *)
(* graded has therefore not lost a case.                                   *)
(***************************************************************************)
EXTENDS CasePipeline, FiniteSetTheorems, SequenceTheorems, TLAPS

-----------------------------------------------------------------------------
(* The inductive invariant *)

StatusInv ==
    /\ status \in [Cases -> {"waiting", "running", "passed", "failed"}]
    /\ verdict \in [Cases -> {"none", "judge"} \cup Labels]

\* Cases leave the list in its order.
OrderInv ==
    \A c \in Cases : status[c] # "waiting" => \A d \in Before(c) : Finished(d)

\* A case that was started has the whole of its sample behind it.
ChainInv ==
    \A c \in Cases : status[c] \in {"running", "passed"} =>
        \A d \in Before(c) : SameSample(c[1], d[1]) => status[d] = "passed"

JudgeInv == \A c \in Asked : verdict[c] = "judge" => status[c] = "passed"

CaseInv == StatusInv /\ OrderInv /\ ChainInv /\ JudgeInv

\* The summary is written when every case has come to its end.
ReportInv ==
    report # NoReport =>
        /\ \A c \in Cases : Finished(c)
        /\ report.passed + report.failed + report.silent = Cardinality(Judged)
        /\ report.valid /\ report.minimum.coverage = 100 =>
              /\ \A c \in Cases : status[c] = "passed"
              /\ report.passed + report.failed = Cardinality(Asked)
              /\ report.silent = 0

\* A case gives up.
Breaks(c) ==
    /\ status[c] = "running"
    /\ status' = [status EXCEPT ![c] = "failed"]
    /\ verdict' = verdict \/ \E l \in Labels : verdict' = [verdict EXCEPT ![c] = l]

\* What a step of a case does to its status and verdict.
Moves(c) == Start(c) \/ Skip(c) \/ Finish(c) \/ Breaks(c)

-----------------------------------------------------------------------------
(* The cases and their order *)

LEMMA CaseShape ==
  ASSUME NEW c \in Cases
  PROVE  /\ c = <<c[1], c[2]>>
         /\ c[1] \in Checkpoints
         /\ c[2] = Setup \/ c[2] \in Questions
         /\ c[2] = Setup <=> c \in Setups
         /\ c[2] # Setup <=> c \in Asked
         /\ c[2] # Setup => <<c[1], Setup>> \in Cases
  BY CheckpointAssumption DEF Cases, Setups, Asked

LEMMA LabelShape == \A steps : LabelOf(steps) \in Labels
  BY DEF LabelOf, Labels

LEMMA WorstShape == \A kinds : WorstOf(kinds) \in Labels
  BY DEF WorstOf, Labels

LEMMA LabelsAreNotJudge == "judge" \notin Labels /\ "none" \notin Labels
  BY DEF Labels

\* The first setup of a sample has nothing of its sample before it.
LEMMA FirstHasNoPast ==
  ASSUME NEW k \in Checkpoints, FirstOfSample(k), NEW j \in Checkpoints, j < k
  PROVE  SampleOf[j] # SampleOf[k]
<1> SUFFICES ASSUME SampleOf[j] = SampleOf[k] PROVE FALSE
  OBVIOUS
<1>1. NumCheckpoints \in Nat
  BY CheckpointAssumption
<1>2. k \in Int /\ j \in Int /\ 1 <= j /\ j < k /\ k # 1 /\ k - 1 \in j..k
  BY <1>1 DEF Checkpoints
<1>3. \A i \in j..k : SampleOf[i] = SampleOf[j]
  BY <1>2, CheckpointAssumption
<1> QED
  BY <1>2, <1>3 DEF FirstOfSample

\* What a case depends on decides all of its past in the sample.
LEMMA PastOfStarted ==
  ASSUME CaseInv, NEW c \in Cases, Unmet(c) = {}, NEW d \in Before(c), SameSample(c[1], d[1])
  PROVE  status[d] = "passed"
<1>a. d \in Cases
  BY DEF Before
<1>b. c[1] \in Checkpoints /\ d[1] \in Checkpoints /\ NumCheckpoints \in Nat
  BY <1>a, CaseShape, CheckpointAssumption
<1>0. c[1] \in Int /\ d[1] \in Int /\ 1 <= d[1] /\ c[1] <= NumCheckpoints
  BY <1>b DEF Checkpoints
<1>1. \A e \in DependsOn(c) : status[e] = "passed"
  BY DEF Unmet
<1>2. CASE c[2] # Setup
  <2> DEFINE s == <<c[1], Setup>>
  <2>1. s \in Cases /\ status[s] = "passed"
    BY <1>1, <1>2, CaseShape DEF DependsOn
  <2>2. d = s \/ d \in Before(s)
    <3>1. d = <<d[1], d[2]>> /\ s[1] = c[1] /\ s[2] = Setup
      BY <1>a, CaseShape
    <3> QED
      BY <1>0, <1>a, <1>2, <3>1 DEF Before
  <2> QED
    BY <2>1, <2>2 DEF CaseInv, ChainInv
<1>3. CASE c[2] = Setup
  <2>1. d[1] < c[1]
    BY <1>3, <1>0 DEF Before
  <2>2. ~FirstOfSample(c[1])
    BY <2>1, <1>b, FirstHasNoPast DEF SameSample
  <2>3. c[1] # 1 /\ c[1] - 1 \in Checkpoints /\ SampleOf[c[1] - 1] = SampleOf[c[1]]
    BY <2>2, <1>0, <1>b DEF FirstOfSample, Checkpoints
  <2>4. CASE Questions = {}
    <3> DEFINE s == <<c[1] - 1, Setup>>
    <3>1. s \in Cases /\ status[s] = "passed"
      BY <1>1, <1>3, <2>2, <2>3, <2>4 DEF DependsOn, Cases, Setups
    <3>2. d = <<d[1], Setup>>
      BY <1>a, <2>4, CaseShape
    <3>3. d = s \/ d \in Before(s)
      BY <1>0, <1>a, <2>1, <3>2 DEF Before
    <3> QED
      BY <3>1, <3>3, <2>3 DEF CaseInv, ChainInv, SameSample
  <2>5. CASE Questions # {}
    <3>1. PICK q \in Questions : TRUE
      BY <2>5
    <3> DEFINE s == <<c[1] - 1, q>>
    <3>2. \A x \in Questions : <<c[1] - 1, x>> \in Cases /\ status[<<c[1] - 1, x>>] = "passed"
      BY <1>1, <1>3, <2>2, <2>3, <2>5 DEF DependsOn, Cases, Asked
    <3>3. q # Setup
      BY CheckpointAssumption
    <3>4. d \in {c[1] - 1} \X Questions \/ d \in Before(s)
      <4>1. d = <<d[1], d[2]>> /\ (d[2] = Setup \/ d[2] \in Questions)
        BY <1>a, CaseShape
      <4>2. d[1] = c[1] - 1 \/ d[1] < c[1] - 1
        BY <1>0, <2>1
      <4>3. s[1] = c[1] - 1 /\ s[2] = q
        OBVIOUS
      <4> QED
        BY <1>a, <3>3, <4>1, <4>2, <4>3 DEF Before
    <3>5. ASSUME d \in Before(s) PROVE status[d] = "passed"
      BY <3>5, <3>2, <2>3 DEF CaseInv, ChainInv, SameSample
    <3> QED
      BY <3>2, <3>4, <3>5
  <2> QED
    BY <2>4, <2>5
<1> QED
  BY <1>2, <1>3

-----------------------------------------------------------------------------
(* The steps of the cases *)

LEMMA FailShape ==
  ASSUME NEW c \in Cases, status[c] = "running", Fail(c)
  PROVE  Breaks(c) \/ UNCHANGED <<status, verdict>>
  BY LabelShape DEF Fail, Breaks

LEMMA CallShape ==
  ASSUME NEW c \in Cases, status[c] = "running", Pass(c) \/ Fail(c)
  PROVE  Breaks(c) \/ UNCHANGED <<status, verdict>>
  BY FailShape DEF Pass

LEMMA OperateShape ==
  ASSUME NEW c \in Cases, Operate(c)
  PROVE  /\ Breaks(c) \/ UNCHANGED <<status, verdict>>
         /\ UNCHANGED <<plan, report>>
<1>1. status[c] = "running" /\ (Pass(c) \/ Fail(c))
  <2>1. CASE IngestDirect(c) \/ IngestByAgent(c)
    BY <2>1 DEF IngestDirect, IngestByAgent, AtStep, Call
  <2>2. CASE Commit(c) \/ WaitReady(c) \/ Validate(c) \/ Prepare(c)
    BY <2>2 DEF Commit, WaitReady, Validate, Prepare, AtStep, Call
  <2>3. CASE IngestPhase(c) \/ QaPhase(c) \/ Recall(c) \/ Answer(c)
    BY <2>3 DEF IngestPhase, QaPhase, Recall, Answer, AtStep, Call
  <2> QED
    BY <2>1, <2>2, <2>3 DEF Operate
<1> QED
  BY <1>1, CallShape DEF Pass, Fail

\* Of every step only these three matter here.
LEMMA StepShape ==
  ASSUME [Next]_vars
  PROVE  \/ UNCHANGED <<status, verdict, report>>
         \/ UNCHANGED report /\ \E c \in Cases : Moves(c)
         \/ Evaluate
<1>1. ASSUME NEW c \in Cases, Execute(c)
      PROVE  UNCHANGED report /\ (UNCHANGED <<status, verdict>> \/ Moves(c))
  <2>1. CASE Operate(c)
    BY <2>1, OperateShape DEF Moves
  <2>2. CASE Start(c) \/ Skip(c) \/ Finish(c)
    BY <2>2 DEF Moves, Start, Skip, Finish
  <2> QED
    BY <1>1, <2>1, <2>2 DEF Execute
<1>2. ASSUME NEW e \in Events, Index(e) PROVE UNCHANGED <<status, verdict, report>>
  BY <1>2 DEF Index, run
<1>3. CASE AllDone \/ UNCHANGED vars
  BY <1>3 DEF AllDone, vars, run
<1> QED
  BY <1>1, <1>2, <1>3 DEF Next

\* Nothing that has finished starts again, and what passed has passed.
LEMMA MovesForward ==
  ASSUME StatusInv, NEW c \in Cases, Moves(c)
  PROVE  /\ status[c] \in {"waiting", "running"}
         /\ \E s \in {"running", "passed", "failed"} : status' = [status EXCEPT ![c] = s]
         /\ status'[c] # "waiting"
         /\ \A d \in Cases : d # c => status'[d] = status[d]
         /\ \A d \in Cases : Finished(d) => status'[d] = status[d]
         /\ \A d \in Cases : Finished(d) => Finished(d)'
         /\ StatusInv'
<1>1. /\ status[c] \in {"waiting", "running"}
      /\ \E s \in {"running", "passed", "failed"} : status' = [status EXCEPT ![c] = s]
  BY DEF Moves, Start, Skip, Finish, Breaks, MayStart
<1>2. \/ verdict' = verdict
      \/ \E l \in {"judge"} \cup Labels : verdict' = [verdict EXCEPT ![c] = l]
  BY WorstShape DEF Moves, Start, Skip, Finish, Breaks
<1> QED
  BY <1>1, <1>2 DEF StatusInv, Finished

LEMMA OrderKeeps ==
  ASSUME CaseInv, NEW c \in Cases, Moves(c)
  PROVE  OrderInv'
<1> SUFFICES ASSUME NEW x \in Cases, status'[x] # "waiting", NEW d \in Before(x)
             PROVE  Finished(d)'
  BY DEF OrderInv, Before
<1>1. d \in Cases
  BY DEF Before
<1>2. Finished(d)
  <2>1. CASE x # c \/ status[x] # "waiting"
    BY <2>1, MovesForward DEF CaseInv, OrderInv
  <2>2. CASE x = c /\ status[x] = "waiting"
    BY <2>2 DEF Moves, Start, Skip, Finish, Breaks, MayStart
  <2> QED
    BY <2>1, <2>2
<1> QED
  BY <1>1, <1>2, MovesForward DEF CaseInv

LEMMA ChainKeeps ==
  ASSUME CaseInv, NEW c \in Cases, Moves(c)
  PROVE  ChainInv'
<1> SUFFICES ASSUME NEW x \in Cases, status'[x] \in {"running", "passed"},
                    NEW d \in Before(x), SameSample(x[1], d[1])
             PROVE  status'[d] = "passed"
  BY DEF ChainInv, Before, SameSample
<1>1. d \in Cases
  BY DEF Before
<1>2. status[d] = "passed"
  <2>1. CASE x # c
    BY <2>1, MovesForward DEF CaseInv, ChainInv
  <2>2. CASE x = c /\ Start(c)
    BY <2>2, PastOfStarted DEF Start
  <2>3. CASE x = c /\ Finish(c)
    BY <2>3 DEF CaseInv, ChainInv, Finish
  <2>4. CASE x = c /\ (Skip(c) \/ Breaks(c))
    BY <2>4 DEF CaseInv, StatusInv, Skip, Breaks
  <2> QED
    BY <2>1, <2>2, <2>3, <2>4 DEF Moves
<1> QED
  BY <1>1, <1>2, MovesForward DEF CaseInv, Finished

LEMMA JudgeKeeps ==
  ASSUME CaseInv, NEW c \in Cases, Moves(c)
  PROVE  JudgeInv'
<1> SUFFICES ASSUME NEW x \in Asked, verdict'[x] = "judge"
             PROVE  status'[x] = "passed"
  BY DEF JudgeInv
<1>1. x \in Cases
  BY DEF Cases
<1>2. CASE x = c /\ Finish(c)
  BY <1>1, <1>2 DEF CaseInv, StatusInv, Finish
<1>3. CASE ~(x = c /\ Finish(c))
  <2>1. verdict[x] = "judge"
    BY <1>1, <1>3, WorstShape, LabelsAreNotJudge
       DEF CaseInv, StatusInv, Moves, Start, Skip, Finish, Breaks
  <2>2. status[x] = "passed"
    BY <2>1 DEF CaseInv, JudgeInv
  <2> QED
    BY <1>1, <2>2, MovesForward DEF CaseInv, Finished
<1> QED
  BY <1>2, <1>3

LEMMA InitCase == Init => CaseInv /\ ReportInv
  BY DEF Init, CaseInv, StatusInv, OrderInv, ChainInv, JudgeInv, ReportInv, Cases

-----------------------------------------------------------------------------
(* The summary *)

LEMMA AskedIsFinite == IsFiniteSet(Asked) /\ IsFiniteSet(Judged) /\ Judged \subseteq Asked
<1>1. IsFiniteSet(Checkpoints)
  BY FS_Interval, CheckpointAssumption DEF Checkpoints
<1>2. IsFiniteSet(Asked)
  BY <1>1, FS_Product, CheckpointAssumption DEF Asked
<1>3. Judged \subseteq Asked
  BY DEF Judged
<1> QED
  BY <1>2, <1>3, FS_Subset

LEMMA DisjointCardinality ==
  ASSUME NEW S, NEW T, IsFiniteSet(S), IsFiniteSet(T), S \cap T = {}
  PROVE  IsFiniteSet(S \cup T) /\ Cardinality(S \cup T) = Cardinality(S) + Cardinality(T)
<1>1. Cardinality(S) \in Nat /\ Cardinality(T) \in Nat
  BY FS_CardinalityType
<1>2. Cardinality(S \cap T) = 0
  BY FS_EmptySet
<1>3. /\ IsFiniteSet(S \cup T)
      /\ Cardinality(S \cup T) = Cardinality(S) + Cardinality(T) - Cardinality(S \cap T)
  BY FS_Union, Zenon
<1> QED
  BY <1>1, <1>2, <1>3

\* Every question graded means that every case passed: the judge got the answers
\* of all of them, and behind each is the whole of its sample.
LEMMA AllJudgedAllPassed ==
  ASSUME CaseInv, Judged = Asked, Asked # {}
  PROVE  \A c \in Cases : status[c] = "passed"
<1> SUFFICES ASSUME NEW c \in Cases PROVE status[c] = "passed"
  OBVIOUS
<1>1. \A a \in Asked : status[a] = "passed" /\ a \in Cases
  BY DEF CaseInv, JudgeInv, Judged, Cases
<1>2. CASE c[2] # Setup
  BY <1>1, <1>2, CaseShape
<1>3. CASE c[2] = Setup
  <2>1. PICK q \in Questions : TRUE
    BY DEF Asked
  <2> DEFINE a == <<c[1], q>>
  <2>2. a \in Asked /\ q # Setup
    BY CaseShape, CheckpointAssumption DEF Asked
  <2>3. c \in Before(a) /\ SameSample(a[1], c[1])
    BY <1>3, <2>2 DEF Before, SameSample
  <2> QED
    BY <1>1, <2>2, <2>3 DEF CaseInv, ChainInv
<1> QED
  BY <1>2, <1>3

LEMMA EvaluateKeeps ==
  ASSUME CaseInv, Evaluate
  PROVE  ReportInv'
<1>1. PICK minimum \in Thresholds, reply \in [Judged -> Replies] :
        LET Are(grade) == {c \in Judged : Grade(reply[c]) = grade} IN
        report' = [minimum |-> minimum,
                   valid   |-> Acceptable(Are("passed") \cup Are("failed"), minimum),
                   passed  |-> Cardinality(Are("passed")),
                   failed  |-> Cardinality(Are("failed")),
                   silent  |-> Cardinality({c \in Judged : reply[c] = "none"})]
  BY DEF Evaluate
<1> DEFINE P == {c \in Judged : Grade(reply[c]) = "passed"}
           F == {c \in Judged : Grade(reply[c]) = "failed"}
           N == {c \in Judged : reply[c] = "none"}
<1>2. UNCHANGED <<status, verdict>> /\ \A c \in Cases : Finished(c)
  BY DEF Evaluate, run
<1>3. /\ P \cap F = {} /\ (P \cup F) \cap N = {} /\ (P \cup F) \cup N = Judged
      /\ P \subseteq Judged /\ F \subseteq Judged /\ N \subseteq Judged
  BY DEF Grade, Replies
<1>4. IsFiniteSet(P) /\ IsFiniteSet(F) /\ IsFiniteSet(N)
  BY <1>3, AskedIsFinite, FS_Subset
<1>5. /\ Cardinality(P \cup F) = Cardinality(P) + Cardinality(F)
      /\ Cardinality(P \cup F) + Cardinality(N) = Cardinality(Judged)
      /\ IsFiniteSet(P \cup F)
  BY <1>3, <1>4, DisjointCardinality
<1> HIDE DEF P, F, N
<1>6. /\ Cardinality(P) \in Nat /\ Cardinality(F) \in Nat /\ Cardinality(N) \in Nat
      /\ Cardinality(P \cup F) \in Nat /\ Cardinality(Asked) \in Nat
      /\ Cardinality(Judged) \in Nat
  BY <1>4, <1>5, AskedIsFinite, FS_CardinalityType
<1>7. report' = [minimum |-> minimum, valid |-> Acceptable(P \cup F, minimum),
                 passed |-> Cardinality(P), failed |-> Cardinality(F),
                 silent |-> Cardinality(N)]
  BY <1>1 DEF P, F, N
<1>8. report'.passed + report'.failed + report'.silent = Cardinality(Judged)
  BY <1>5, <1>6, <1>7
<1>9. ASSUME Acceptable(P \cup F, minimum), minimum.coverage = 100
      PROVE  /\ \A c \in Cases : status[c] = "passed"
             /\ Cardinality(P) + Cardinality(F) = Cardinality(Asked)
             /\ Cardinality(N) = 0
  <2>1. Asked # {} /\ 100 * Cardinality(P \cup F) >= 100 * Cardinality(Asked)
    BY <1>9 DEF Acceptable
  <2>2. P \cup F \subseteq Asked /\ Cardinality(Judged) <= Cardinality(Asked)
    BY <1>3, AskedIsFinite, FS_Subset
  <2>3. Cardinality(P \cup F) = Cardinality(Asked) /\ Cardinality(N) = 0
        /\ Cardinality(Judged) = Cardinality(Asked)
    BY <2>1, <2>2, <1>5, <1>6
  <2>4. Judged = Asked
    BY <2>3, AskedIsFinite, FS_Subset
  <2> QED
    BY <2>1, <2>3, <2>4, <1>5, AllJudgedAllPassed
<1>10. Judged' = Judged
  BY <1>2 DEF Judged
<1> QED
  <2>1. report'.valid /\ report'.minimum.coverage = 100 =>
          Acceptable(P \cup F, minimum) /\ minimum.coverage = 100
    BY <1>7
  <2>2. report'.passed = Cardinality(P) /\ report'.failed = Cardinality(F)
        /\ report'.silent = Cardinality(N)
    BY <1>7
  <2> QED
    BY <2>1, <2>2, <1>2, <1>8, <1>9, <1>10 DEF ReportInv, Finished

LEMMA ReportKeeps ==
  ASSUME CaseInv, ReportInv, UNCHANGED report, NEW c \in Cases, Moves(c)
  PROVE  ReportInv'
<1>1. ~Finished(c)
  BY MovesForward DEF CaseInv, Finished
<1> QED
  BY <1>1 DEF ReportInv

LEMMA StutterKeeps ==
  ASSUME CaseInv, ReportInv, UNCHANGED <<status, verdict, report>>
  PROVE  CaseInv' /\ ReportInv'
  BY DEF CaseInv, StatusInv, OrderInv, ChainInv, JudgeInv, ReportInv, Finished, Before, Judged

-----------------------------------------------------------------------------
(* The theorems *)

\* The cases of a plan keep their order and the judge gets answers of cases that
\* passed only (execute_cases, _execute_case).
THEOREM CaseInvariance == Spec => [](CaseInv /\ ReportInv)
<1>1. CaseInv /\ ReportInv /\ [Next]_vars => (CaseInv /\ ReportInv)'
  <2> SUFFICES ASSUME CaseInv, ReportInv, [Next]_vars PROVE CaseInv' /\ ReportInv'
    OBVIOUS
  <2>1. CASE UNCHANGED <<status, verdict, report>>
    BY <2>1, StutterKeeps
  <2>2. ASSUME UNCHANGED report, NEW c \in Cases, Moves(c) PROVE CaseInv' /\ ReportInv'
    BY <2>2, MovesForward, OrderKeeps, ChainKeeps, JudgeKeeps, ReportKeeps DEF CaseInv
  <2>3. CASE Evaluate
    <3>1. UNCHANGED <<status, verdict>>
      BY <2>3 DEF Evaluate, run
    <3>2. CaseInv'
      BY <3>1 DEF CaseInv, StatusInv, OrderInv, ChainInv, JudgeInv, Finished, Before
    <3> QED
      BY <2>3, <3>2, EvaluateKeeps
  <2> QED
    BY <2>1, <2>2, <2>3, StepShape
<1> QED
  BY InitCase, <1>1, PTL DEF Spec

\* An answer is scored only when its whole sample before it passed, and a run that
\* is valid under full coverage has lost no case and no grade
\* (_summarize_native_evaluation, _apply_native_run_validity).
THEOREM ScoresAreEarned == Spec => []ScoreIsEarned
<1>1. CaseInv /\ ReportInv => ScoreIsEarned
  <2> SUFFICES ASSUME CaseInv, ReportInv PROVE ScoreIsEarned
    OBVIOUS
  <2>1. VerdictsAreEarned
    <3> SUFFICES ASSUME NEW c \in Asked, verdict[c] = "judge",
                        NEW d \in Before(c), SameSample(c[1], d[1])
                 PROVE  status[d] = "passed"
      BY DEF VerdictsAreEarned
    <3>1. c \in Cases /\ status[c] = "passed"
      BY DEF CaseInv, JudgeInv, Cases
    <3> QED
      BY <3>1 DEF CaseInv, ChainInv
  <2> QED
    BY <2>1 DEF ScoreIsEarned, ReportInv
<1> QED
  BY CaseInvariance, <1>1, PTL


(***************************************************************************)
(* What is done to the memory.  A question is answered on exactly the      *)
(* history before it, and leaves no trace.                                 *)
(*                                                                         *)
(* The argument follows the steps of a setup by their position.  An event  *)
(* whose step has not been reached is not in the memory; one whose barrier *)
(* has been passed is in the state the barrier is there for.  While a      *)
(* setup runs every other case has finished or not begun, so nobody else   *)
(* touches the events or the plugin.                                       *)
(***************************************************************************)
-----------------------------------------------------------------------------
(* The positions of the steps of a setup *)

Ops == {"validate", "prepare", "ingest_phase", "ingest", "commit", "wait", "qa_phase",
        "recall", "answer"}
AnyStep == [op : Ops] \cup [op : Ops, event : Events]
AnySteps == Seq(AnyStep)
SetupOf(k) == <<k, Setup>>

Offset(k) == IF Direct THEN 0 ELSE IF FirstOfSample(k) THEN 3 ELSE 1
CommitOffset(k) == Offset(k) + Len(Pending[k])
WaitOffset(k) == CommitOffset(k) + (IF plan.commit THEN Len(Pending[k]) ELSE 0)
EndOf(k) == WaitOffset(k) + (IF plan.async THEN Len(Pending[k]) ELSE 0)

Lead(k) ==
    IF Direct THEN <<>>
    ELSE When(FirstOfSample(k), Once("validate") \o Once("prepare")) \o Once("ingest_phase")
Rear == IF Direct THEN <<>> ELSE Once("qa_phase")

LEMMA PendingShape ==
  ASSUME NEW k \in Checkpoints
  PROVE  /\ Pending[k] \in Seq(Events)
         /\ Len(Pending[k]) \in Nat
         /\ DOMAIN Pending[k] = 1..Len(Pending[k])
         /\ \A i \in 1..Len(Pending[k]) : Pending[k][i] \in Events
<1>1. Pending[k] \in Seq(Events)
  BY CheckpointAssumption
<1> QED
  BY <1>1

LEMMA ForEachShape ==
  ASSUME NEW k \in Checkpoints, NEW name \in Ops
  PROVE  /\ ForEach(name, k) \in AnySteps
         /\ Len(ForEach(name, k)) = Len(Pending[k])
         /\ \A i \in 1..Len(Pending[k]) :
               /\ ForEach(name, k)[i].op = name
               /\ ForEach(name, k)[i].event = Pending[k][i]
<1> DEFINE n == Len(Pending[k])
           f == [i \in 1..n |-> [op |-> name, event |-> Pending[k][i]]]
<1>1. n \in Nat /\ ForEach(name, k) = f
  BY PendingShape DEF ForEach
<1>2. \A i \in 1..n : [op |-> name, event |-> Pending[k][i]] \in AnyStep
  BY PendingShape DEF AnyStep
<1>3. f \in [1..n -> AnyStep]
  BY <1>2
<1>4. \A i \in 1..n : f[i].op = name /\ f[i].event = Pending[k][i]
  OBVIOUS
<1> HIDE DEF n, f
<1>5. f \in Seq(AnyStep)
  BY <1>1, <1>3, SeqDef
<1>6. Len(f) = n
  BY <1>1, <1>3, <1>5
<1> QED
  BY <1>1, <1>4, <1>5, <1>6 DEF AnySteps, n

LEMMA OnceShape ==
  ASSUME NEW name \in Ops
  PROVE  Once(name) \in AnySteps /\ Len(Once(name)) = 1 /\ Once(name)[1].op = name
<1>1. [op |-> name] \in AnyStep
  BY DEF AnyStep
<1> QED
  BY <1>1 DEF Once, AnySteps

Join(s, t) == s \o t

LEMMA Concat ==
  ASSUME NEW s \in AnySteps, NEW t \in AnySteps
  PROVE  /\ Join(s, t) \in AnySteps
         /\ Len(s) \in Nat /\ Len(t) \in Nat
         /\ Len(Join(s, t)) = Len(s) + Len(t)
         /\ \A i \in 1..Len(s) : Join(s, t)[i] = s[i]
         /\ \A i \in 1..Len(t) : Join(s, t)[Len(s) + i] = t[i]
<1>1. Len(s) \in Nat /\ Len(t) \in Nat
  BY DEF AnySteps
<1>2. /\ Join(s, t) \in AnySteps
      /\ Len(Join(s, t)) = Len(s) + Len(t)
      /\ \A i \in 1 .. Len(s) + Len(t) :
            Join(s, t)[i] = IF i <= Len(s) THEN s[i] ELSE t[i - Len(s)]
  BY ConcatProperties DEF AnySteps, Join
<1>3. ASSUME NEW i \in 1..Len(s) PROVE Join(s, t)[i] = s[i]
  BY <1>1, <1>2
<1>4. ASSUME NEW i \in 1..Len(t) PROVE Join(s, t)[Len(s) + i] = t[i]
  <2>1. Len(s) + i \in 1 .. Len(s) + Len(t) /\ ~(Len(s) + i <= Len(s))
        /\ (Len(s) + i) - Len(s) = i
    BY <1>1
  <2> QED
    BY <1>2, <2>1
<1> QED
  BY <1>1, <1>2, <1>3, <1>4

\* One more step at the end.
LEMMA AppendOnce ==
  ASSUME NEW s \in AnySteps, NEW name \in Ops
  PROVE  /\ Join(s, Once(name)) \in AnySteps
         /\ Len(s) \in Nat
         /\ Len(Join(s, Once(name))) = Len(s) + 1
         /\ \A i \in 1..Len(s) : Join(s, Once(name))[i] = s[i]
         /\ Join(s, Once(name))[Len(s) + 1].op = name
<1>1. Once(name) \in AnySteps /\ Len(Once(name)) = 1 /\ Once(name)[1].op = name
  BY OnceShape
<1>2. 1 \in 1..Len(Once(name))
  BY <1>1
<1>3. Join(s, Once(name))[Len(s) + 1] = Once(name)[1]
  BY <1>1, <1>2, Concat
<1> QED
  BY <1>1, <1>3, Concat

LEMMA WhenShape ==
  ASSUME NEW b \in BOOLEAN, NEW s \in AnySteps
  PROVE  /\ When(b, s) \in AnySteps
         /\ b => When(b, s) = s
         /\ ~b => Len(When(b, s)) = 0
  BY DEF When, AnySteps

LEMMA LeadShape ==
  ASSUME NEW k \in Checkpoints, ~Direct
  PROVE  /\ Lead(k) \in AnySteps
         /\ Len(Lead(k)) = Offset(k)
         /\ Lead(k)[Offset(k)].op = "ingest_phase"
         /\ FirstOfSample(k) => Lead(k)[1].op = "validate" /\ Lead(k)[2].op = "prepare"
<1> DEFINE v == Once("validate") vp == Join(v, Once("prepare"))
           w == When(FirstOfSample(k), vp) l == Join(w, Once("ingest_phase"))
<1>s. "validate" \in Ops /\ "prepare" \in Ops /\ "ingest_phase" \in Ops
  BY DEF Ops
<1>1. v \in AnySteps /\ Len(v) = 1 /\ v[1].op = "validate"
  BY <1>s, OnceShape
<1>2. Lead(k) = l
  BY DEF Lead, Join
<1> HIDE DEF v
<1>3. vp \in AnySteps /\ Len(vp) = 2 /\ vp[1].op = "validate" /\ vp[2].op = "prepare"
  <2>1. /\ vp \in AnySteps /\ Len(vp) = Len(v) + 1
        /\ \A i \in 1..Len(v) : vp[i] = v[i]
        /\ vp[Len(v) + 1].op = "prepare"
    BY <1>s, <1>1, AppendOnce
  <2> HIDE DEF vp
  <2>2. 1 \in 1..Len(v) /\ Len(v) + 1 = 2
    BY <1>1
  <2> QED
    BY <2>1, <2>2, <1>1
<1> HIDE DEF vp
<1>4. FirstOfSample(k) \in BOOLEAN
  BY DEF FirstOfSample
<1>5. /\ w \in AnySteps
      /\ FirstOfSample(k) => w = vp
      /\ ~FirstOfSample(k) => Len(w) = 0
  BY <1>3, <1>4, WhenShape
<1> HIDE DEF w
<1>6. /\ l \in AnySteps /\ Len(w) \in Nat /\ Len(l) = Len(w) + 1
      /\ \A j \in 1..Len(w) : l[j] = w[j]
      /\ l[Len(w) + 1].op = "ingest_phase"
  BY <1>s, <1>5, AppendOnce
<1> HIDE DEF l
<1>7. Len(w) + 1 = Offset(k)
  <2>1. CASE FirstOfSample(k)
    <3>1. Len(w) = 2
      BY <2>1, <1>3, <1>5
    <3> QED
      BY <2>1, <3>1 DEF Offset
  <2>2. CASE ~FirstOfSample(k)
    BY <2>2, <1>5 DEF Offset
  <2> QED
    BY <2>1, <2>2
<1>8. ASSUME FirstOfSample(k)
      PROVE  l[1].op = "validate" /\ l[2].op = "prepare"
  <2>1. 1 \in 1..Len(w) /\ 2 \in 1..Len(w) /\ w = vp
    BY <1>8, <1>3, <1>5
  <2> QED
    BY <2>1, <1>3, <1>6
<1> QED
  BY <1>2, <1>6, <1>7, <1>8

\* The three barriers, one after the other.
LEMMA BarriersShape ==
  ASSUME NEW k \in Checkpoints, plan.commit \in BOOLEAN, plan.async \in BOOLEAN
  PROVE  LET b == Barriers(k)
             n == Len(Pending[k])
             m == IF plan.commit THEN n + n ELSE n
         IN
         /\ b \in AnySteps
         /\ Len(b) = IF plan.async THEN m + n ELSE m
         /\ \A i \in 1..n : b[i].op = "ingest" /\ b[i].event = Pending[k][i]
         /\ plan.commit =>
               \A i \in 1..n : b[n + i].op = "commit" /\ b[n + i].event = Pending[k][i]
         /\ plan.async =>
               \A i \in 1..n : b[m + i].op = "wait" /\ b[m + i].event = Pending[k][i]
<1> DEFINE n == Len(Pending[k])
           m == IF plan.commit THEN n + n ELSE n
           s == ForEach("ingest", k)
           c == When(plan.commit, ForEach("commit", k))
           w == When(plan.async, ForEach("wait", k))
           sc == Join(s, c)
           b == Join(sc, w)
<1>1. Barriers(k) = b
  BY DEF Barriers, Join
<1>2. n \in Nat
  BY PendingShape
<1>3. "ingest" \in Ops /\ "commit" \in Ops /\ "wait" \in Ops
  BY DEF Ops
<1>4. /\ s \in AnySteps /\ Len(s) = n
      /\ \A i \in 1..n : s[i].op = "ingest" /\ s[i].event = Pending[k][i]
  BY <1>3, ForEachShape
<1>5. /\ c \in AnySteps /\ Len(c) = IF plan.commit THEN n ELSE 0
      /\ plan.commit =>
            \A i \in 1..n : c[i].op = "commit" /\ c[i].event = Pending[k][i]
  <2>1. /\ ForEach("commit", k) \in AnySteps /\ Len(ForEach("commit", k)) = n
        /\ \A i \in 1..n : /\ ForEach("commit", k)[i].op = "commit"
                           /\ ForEach("commit", k)[i].event = Pending[k][i]
    BY <1>3, ForEachShape
  <2> QED
    BY <2>1, WhenShape
<1>6. /\ w \in AnySteps /\ Len(w) = IF plan.async THEN n ELSE 0
      /\ plan.async =>
            \A i \in 1..n : w[i].op = "wait" /\ w[i].event = Pending[k][i]
  <2>1. /\ ForEach("wait", k) \in AnySteps /\ Len(ForEach("wait", k)) = n
        /\ \A i \in 1..n : /\ ForEach("wait", k)[i].op = "wait"
                           /\ ForEach("wait", k)[i].event = Pending[k][i]
    BY <1>3, ForEachShape
  <2> QED
    BY <2>1, WhenShape
<1> HIDE DEF n, s, c, w
<1>7. /\ sc \in AnySteps /\ Len(sc) = Len(s) + Len(c)
      /\ \A i \in 1..Len(s) : sc[i] = s[i]
      /\ \A i \in 1..Len(c) : sc[Len(s) + i] = c[i]
  BY <1>4, <1>5, Concat
<1> HIDE DEF sc
<1>8. /\ b \in AnySteps /\ Len(b) = Len(sc) + Len(w)
      /\ \A i \in 1..Len(sc) : b[i] = sc[i]
      /\ \A i \in 1..Len(w) : b[Len(sc) + i] = w[i]
  BY <1>6, <1>7, Concat
<1> HIDE DEF b
<1>9. Len(sc) = m /\ m \in Nat /\ n <= m /\ (plan.commit => m = n + n)
  BY <1>2, <1>4, <1>5, <1>7
<1> HIDE DEF m
<1>10. Len(b) = IF plan.async THEN m + n ELSE m
  BY <1>2, <1>6, <1>8, <1>9
<1>11. ASSUME NEW i \in 1..n PROVE b[i].op = "ingest" /\ b[i].event = Pending[k][i]
  <2>1. i \in 1..Len(sc) /\ i \in 1..Len(s)
    BY <1>2, <1>4, <1>9
  <2> QED
    BY <2>1, <1>4, <1>7, <1>8
<1>12. ASSUME plan.commit, NEW i \in 1..n
       PROVE  b[n + i].op = "commit" /\ b[n + i].event = Pending[k][i]
  <2>1. n + i \in 1..Len(sc) /\ i \in 1..Len(c) /\ n = Len(s)
    BY <1>12, <1>2, <1>4, <1>5, <1>9
  <2>2. b[n + i] = c[i]
    BY <2>1, <1>7, <1>8
  <2> QED
    BY <2>2, <1>5, <1>12
<1>13. ASSUME plan.async, NEW i \in 1..n
       PROVE  b[m + i].op = "wait" /\ b[m + i].event = Pending[k][i]
  <2>1. i \in 1..Len(w) /\ m = Len(sc)
    BY <1>13, <1>6, <1>9
  <2>2. b[m + i] = w[i]
    BY <2>1, <1>8
  <2> QED
    BY <2>2, <1>6, <1>13
<1> QED
  BY <1>1, <1>8, <1>10, <1>11, <1>12, <1>13 DEF n, m

PlanInv == plan \in [integration : {"backend_direct", "agent_plugin"},
                     commit : BOOLEAN, async : BOOLEAN, failFast : BOOLEAN,
                     retries : 0..MaxRetries]

LEMMA OffsetShape ==
  ASSUME PlanInv, NEW k \in Checkpoints
  PROVE  /\ plan.commit \in BOOLEAN /\ plan.async \in BOOLEAN
         /\ Len(Pending[k]) \in Nat /\ Offset(k) \in Nat
         /\ Direct => Offset(k) = 0
         /\ ~Direct => Offset(k) = IF FirstOfSample(k) THEN 3 ELSE 1
         /\ CommitOffset(k) \in Nat /\ CommitOffset(k) = Offset(k) + Len(Pending[k])
         /\ WaitOffset(k) \in Nat
         /\ WaitOffset(k) = IF plan.commit THEN CommitOffset(k) + Len(Pending[k])
                                           ELSE CommitOffset(k)
         /\ EndOf(k) \in Nat
         /\ EndOf(k) = IF plan.async THEN WaitOffset(k) + Len(Pending[k]) ELSE WaitOffset(k)
<1>1. Len(Pending[k]) \in Nat /\ plan.commit \in BOOLEAN /\ plan.async \in BOOLEAN
  BY PendingShape DEF PlanInv
<1>2. Offset(k) \in Nat
  BY DEF Offset
<1>3. /\ Direct => Offset(k) = 0
      /\ ~Direct => Offset(k) = IF FirstOfSample(k) THEN 3 ELSE 1
  BY DEF Offset
<1> QED
  BY <1>1, <1>2, <1>3 DEF CommitOffset, WaitOffset, EndOf

\* Where the steps of a setup are.
LEMMA StepsAt ==
  ASSUME PlanInv, NEW k \in Checkpoints
  PROVE  /\ SetupSteps(k) \in AnySteps
         /\ Len(SetupSteps(k)) = IF Direct THEN EndOf(k) ELSE EndOf(k) + 1
         /\ \A i \in 1..Len(Pending[k]) :
               /\ SetupSteps(k)[Offset(k) + i].op = "ingest"
               /\ SetupSteps(k)[Offset(k) + i].event = Pending[k][i]
         /\ plan.commit => \A i \in 1..Len(Pending[k]) :
               /\ SetupSteps(k)[CommitOffset(k) + i].op = "commit"
               /\ SetupSteps(k)[CommitOffset(k) + i].event = Pending[k][i]
         /\ plan.async => \A i \in 1..Len(Pending[k]) :
               /\ SetupSteps(k)[WaitOffset(k) + i].op = "wait"
               /\ SetupSteps(k)[WaitOffset(k) + i].event = Pending[k][i]
         /\ ~Direct => /\ SetupSteps(k)[Offset(k)].op = "ingest_phase"
                       /\ SetupSteps(k)[EndOf(k) + 1].op = "qa_phase"
         /\ ~Direct /\ FirstOfSample(k) =>
               /\ SetupSteps(k)[1].op = "validate"
               /\ SetupSteps(k)[2].op = "prepare"
<1> DEFINE n == Len(Pending[k])
           m == IF plan.commit THEN n + n ELSE n
           b == Barriers(k)
           l == Lead(k)
           lb == Join(l, b)
           s == Join(lb, Once("qa_phase"))
<1>1. /\ n \in Nat /\ m \in Nat /\ n <= m
      /\ plan.commit => m = n + n
      /\ ~plan.commit => m = n
      /\ plan.commit \in BOOLEAN /\ plan.async \in BOOLEAN
  BY OffsetShape
<1>2. /\ b \in AnySteps
      /\ Len(b) = IF plan.async THEN m + n ELSE m
      /\ \A i \in 1..n : b[i].op = "ingest" /\ b[i].event = Pending[k][i]
      /\ plan.commit =>
            \A i \in 1..n : b[n + i].op = "commit" /\ b[n + i].event = Pending[k][i]
      /\ plan.async =>
            \A i \in 1..n : b[m + i].op = "wait" /\ b[m + i].event = Pending[k][i]
  BY <1>1, BarriersShape
<1> HIDE DEF n, m, b
<1>3. /\ Offset(k) \in Nat /\ CommitOffset(k) = Offset(k) + n
      /\ WaitOffset(k) = Offset(k) + m /\ EndOf(k) = Offset(k) + Len(b)
  <2>1. /\ Offset(k) \in Nat /\ CommitOffset(k) = Offset(k) + n
        /\ WaitOffset(k) = IF plan.commit THEN CommitOffset(k) + n ELSE CommitOffset(k)
        /\ EndOf(k) = IF plan.async THEN WaitOffset(k) + n ELSE WaitOffset(k)
    BY OffsetShape DEF n
  <2>2. WaitOffset(k) = Offset(k) + m
    BY <1>1, <2>1
  <2> QED
    BY <1>1, <1>2, <2>1, <2>2
<1>4. CASE Direct
  <2>1. SetupSteps(k) = b /\ Offset(k) = 0
    BY <1>4, OffsetShape DEF SetupSteps, b
  <2>2. Len(b) \in Nat
    BY <1>1, <1>2
  <2>3. EndOf(k) = Len(b) /\ CommitOffset(k) = n /\ WaitOffset(k) = m
    BY <1>1, <1>3, <2>1, <2>2
  <2>4. \A i \in 1..n : Offset(k) + i = i
    BY <1>1, <2>1
  <2> QED
    BY <1>2, <1>4, <2>1, <2>3, <2>4 DEF n
<1>5. CASE ~Direct
  <2>1. SetupSteps(k) = s
    BY <1>5 DEF SetupSteps, Lead, Join, b
  <2>2. /\ l \in AnySteps /\ Len(l) = Offset(k)
        /\ l[Offset(k)].op = "ingest_phase"
        /\ FirstOfSample(k) => l[1].op = "validate" /\ l[2].op = "prepare"
    BY <1>5, LeadShape
  <2> HIDE DEF l
  <2>3. /\ lb \in AnySteps /\ Len(lb) = Len(l) + Len(b)
        /\ \A i \in 1..Len(l) : lb[i] = l[i]
        /\ \A i \in 1..Len(b) : lb[Len(l) + i] = b[i]
    BY <1>2, <2>2, Concat
  <2> HIDE DEF lb
  <2>4. "qa_phase" \in Ops
    BY DEF Ops
  <2>5. /\ s \in AnySteps /\ Len(s) = Len(lb) + 1
        /\ \A i \in 1..Len(lb) : s[i] = lb[i]
        /\ s[Len(lb) + 1].op = "qa_phase"
    BY <2>3, <2>4, AppendOnce
  <2> HIDE DEF s
  <2>6. /\ Len(b) \in Nat /\ Len(l) \in Nat /\ Len(lb) = EndOf(k) /\ n <= Len(b) /\ m <= Len(b)
        /\ plan.commit => n + n <= Len(b)
        /\ plan.async => m + n <= Len(b)
    BY <1>1, <1>2, <1>3, <2>2, <2>3
  <2>7. \A i \in 1..Len(b) : s[Offset(k) + i] = b[i]
    <3> SUFFICES ASSUME NEW i \in 1..Len(b) PROVE s[Offset(k) + i] = b[i]
      OBVIOUS
    <3>1. Len(l) + i \in 1..Len(lb)
      BY <2>3, <2>6
    <3> QED
      BY <3>1, <2>2, <2>3, <2>5
  <2>8. \A i \in 1..Offset(k) : s[i] = l[i]
    <3> SUFFICES ASSUME NEW i \in 1..Offset(k) PROVE s[i] = l[i]
      OBVIOUS
    <3>1. i \in 1..Len(lb) /\ i \in 1..Len(l)
      BY <1>3, <2>2, <2>3, <2>6
    <3> QED
      BY <3>1, <2>3, <2>5
  <2>9. \A i \in 1..n : s[Offset(k) + i].op = "ingest" /\ s[Offset(k) + i].event = Pending[k][i]
    BY <1>1, <1>2, <2>6, <2>7
  <2>10. ASSUME plan.commit, NEW i \in 1..n
         PROVE  /\ s[CommitOffset(k) + i].op = "commit"
                /\ s[CommitOffset(k) + i].event = Pending[k][i]
    <3>1. n + i \in 1..Len(b) /\ CommitOffset(k) + i = Offset(k) + (n + i)
      BY <1>1, <1>3, <2>6, <2>10
    <3>2. s[CommitOffset(k) + i] = b[n + i]
      BY <3>1, <2>7
    <3> QED
      BY <3>2, <1>2, <2>10
  <2>11. ASSUME plan.async, NEW i \in 1..n
         PROVE  /\ s[WaitOffset(k) + i].op = "wait"
                /\ s[WaitOffset(k) + i].event = Pending[k][i]
    <3>1. m + i \in 1..Len(b) /\ WaitOffset(k) + i = Offset(k) + (m + i)
      BY <1>1, <1>3, <2>6, <2>11
    <3>2. s[WaitOffset(k) + i] = b[m + i]
      BY <3>1, <2>7
    <3> QED
      BY <3>2, <1>2, <2>11
  <2>12. /\ s[Offset(k)].op = "ingest_phase"
         /\ FirstOfSample(k) => s[1].op = "validate" /\ s[2].op = "prepare"
    <3>1. Offset(k) = (IF FirstOfSample(k) THEN 3 ELSE 1)
      BY <1>5, OffsetShape
    <3>2. Offset(k) \in 1..Offset(k)
      BY <3>1
    <3>3. FirstOfSample(k) => 1 \in 1..Offset(k) /\ 2 \in 1..Offset(k)
      BY <3>1
    <3> QED
      BY <3>2, <3>3, <2>2, <2>8
  <2> QED
    BY <1>5, <2>1, <2>5, <2>6, <2>9, <2>10, <2>11, <2>12 DEF n
<1> QED
  BY <1>4, <1>5

\* What a step of a setup is, by its position.
LEMMA StepsOf ==
  ASSUME PlanInv, NEW k \in Checkpoints, NEW p \in DOMAIN SetupSteps(k)
  PROVE  \/ \E i \in 1..Len(Pending[k]) : p = Offset(k) + i
         \/ plan.commit /\ \E i \in 1..Len(Pending[k]) : p = CommitOffset(k) + i
         \/ plan.async /\ \E i \in 1..Len(Pending[k]) : p = WaitOffset(k) + i
         \/ ~Direct /\ FirstOfSample(k) /\ p \in {1, 2}
         \/ ~Direct /\ p \in {Offset(k), EndOf(k) + 1}
<1> DEFINE n == Len(Pending[k])
<1>1. p \in 1..Len(SetupSteps(k))
  BY StepsAt, LenProperties DEF AnySteps
<1>2. p \in Nat /\ 1 <= p /\ p <= IF Direct THEN EndOf(k) ELSE EndOf(k) + 1
  BY <1>1, StepsAt
<1>3. CASE p <= Offset(k)
  BY <1>2, <1>3, OffsetShape
<1>4. CASE Offset(k) < p /\ p <= CommitOffset(k)
  <2>1. p - Offset(k) \in 1..n /\ p = Offset(k) + (p - Offset(k))
    BY <1>2, <1>4, OffsetShape
  <2> QED
    BY <2>1
<1>5. CASE CommitOffset(k) < p /\ p <= WaitOffset(k)
  <2>1. plan.commit /\ p - CommitOffset(k) \in 1..n /\ p = CommitOffset(k) + (p - CommitOffset(k))
    BY <1>2, <1>5, OffsetShape
  <2> QED
    BY <2>1
<1>6. CASE WaitOffset(k) < p /\ p <= EndOf(k)
  <2>1. plan.async /\ p - WaitOffset(k) \in 1..n /\ p = WaitOffset(k) + (p - WaitOffset(k))
    BY <1>2, <1>6, OffsetShape
  <2> QED
    BY <2>1
<1>7. CASE EndOf(k) < p
  BY <1>2, <1>7, OffsetShape
<1> QED
  BY <1>2, <1>3, <1>4, <1>5, <1>6, <1>7, OffsetShape

LEMMA QuestionSteps ==
  ASSUME NEW c \in Asked
  PROVE  /\ Len(Steps(c)) \in Nat /\ DOMAIN Steps(c) = 1..Len(Steps(c))
         /\ \A p \in DOMAIN Steps(c) : Steps(c)[p].op \in {"recall", "answer"}
<1>1. c[2] # Setup
  BY CheckpointAssumption DEF Asked
<1>2. CASE Direct
  <2> DEFINE r == Once("recall") s == Join(r, Once("answer"))
  <2>1. Steps(c) = s
    BY <1>1, <1>2 DEF Steps, Join
  <2>2. "recall" \in Ops /\ "answer" \in Ops
    BY DEF Ops
  <2>3. r \in AnySteps /\ Len(r) = 1 /\ r[1].op = "recall"
    BY <2>2, OnceShape
  <2> HIDE DEF r
  <2>4. /\ s \in AnySteps /\ Len(s) = Len(r) + 1 /\ s[Len(r) + 1].op = "answer"
        /\ \A i \in 1..Len(r) : s[i] = r[i]
    BY <2>2, <2>3, AppendOnce
  <2> HIDE DEF s
  <2>5. DOMAIN s = 1..2 /\ Len(s) = 2
    BY <2>3, <2>4, LenProperties DEF AnySteps
  <2>6. s[1].op = "recall" /\ s[2].op = "answer"
    <3>1. 1 \in 1..Len(r) /\ Len(r) + 1 = 2
      BY <2>3
    <3> QED
      BY <3>1, <2>3, <2>4
  <2>7. \A p \in 1..2 : s[p].op \in {"recall", "answer"}
    <3> SUFFICES ASSUME NEW p \in 1..2 PROVE s[p].op \in {"recall", "answer"}
      OBVIOUS
    <3>1. p = 1 \/ p = 2
      OBVIOUS
    <3> QED
      BY <2>6, <3>1
  <2> QED
    BY <2>1, <2>5, <2>7
<1>3. CASE ~Direct
  <2>1. Steps(c) = <<[op |-> "answer"]>>
    BY <1>1, <1>3 DEF Steps, Once
  <2> QED
    BY <2>1
<1> QED
  BY <1>2, <1>3

LEMMA SetupShape ==
  ASSUME NEW k \in Checkpoints
  PROVE  SetupOf(k) \in Cases /\ SetupOf(k)[1] = k /\ SetupOf(k)[2] = Setup
         /\ Steps(SetupOf(k)) = SetupSteps(k)
  BY DEF SetupOf, Cases, Setups, Steps

LEMMA CaseKinds ==
  ASSUME NEW c \in Cases
  PROVE  /\ c[1] \in Checkpoints
         /\ (c[2] = Setup /\ c = SetupOf(c[1])) \/ (c[2] # Setup /\ c \in Asked)
  BY CaseShape DEF SetupOf

LEMMA StepsShape ==
  ASSUME PlanInv, NEW c \in Cases
  PROVE  Len(Steps(c)) \in Nat /\ DOMAIN Steps(c) = 1..Len(Steps(c))
<1>1. CASE c \in Asked
  BY <1>1, QuestionSteps
<1>2. CASE c = SetupOf(c[1])
  <2>1. Steps(c) \in AnySteps
    BY <1>2, CaseKinds, SetupShape, StepsAt
  <2> QED
    BY <2>1, LenProperties DEF AnySteps
<1> QED
  BY <1>1, <1>2, CaseKinds

-----------------------------------------------------------------------------
(* The position of a case *)

AtInv ==
    /\ at \in [Cases -> Nat]
    /\ attempt \in [Cases -> 0..(MaxRetries + 1)]
    /\ \A c \in Cases :
          /\ status[c] = "waiting" => at[c] = 0
          /\ status[c] = "running" => 1 <= at[c] /\ 1 <= attempt[c]
          /\ status[c] = "passed" => Len(Steps(c)) < at[c]

\* A step of a chain passes, fails for good, or is tried again.
Ahead(c) ==
    /\ status[c] = "running" /\ at[c] \in DOMAIN Steps(c)
    /\ status' = status
    /\ at' = [at EXCEPT ![c] = @ + 1]
    /\ attempt' = [attempt EXCEPT ![c] = 1]

Again(c) ==
    /\ status[c] = "running" /\ at[c] \in DOMAIN Steps(c)
    /\ UNCHANGED <<status, at>>
    /\ attempt[c] < MaxAttempts(Steps(c)[at[c]])
    /\ attempt' = [attempt EXCEPT ![c] = @ + 1]

Over(c) ==
    /\ status[c] = "running" /\ at[c] \in DOMAIN Steps(c)
    /\ status' = [status EXCEPT ![c] = "failed"]
    /\ UNCHANGED <<at, attempt>>

LEMMA CallMoves ==
  ASSUME NEW c \in Cases, NEW op, AtStep(c, op)
  PROVE  /\ Pass(c) => Ahead(c)
         /\ Fail(c) => Again(c) \/ Over(c)
         /\ Pass(c) \/ Fail(c) => UNCHANGED <<plan, report>>
  BY DEF AtStep, Pass, Fail, Ahead, Again, Over

\* A case moves, and no other does.
CaseMoves(c) ==
    \/ Ahead(c) \/ Again(c) \/ Over(c)
    \/ status[c] = "waiting" /\ status' = [status EXCEPT ![c] = "running"]
         /\ at' = [at EXCEPT ![c] = 1] /\ attempt' = [attempt EXCEPT ![c] = 1]
    \/ status[c] = "waiting" /\ status' = [status EXCEPT ![c] = "failed"]
         /\ UNCHANGED <<at, attempt>>
    \/ status[c] = "running" /\ status' = [status EXCEPT ![c] = "passed"]
         /\ Len(Steps(c)) < at[c] /\ UNCHANGED <<at, attempt>>

LEMMA PlanStays ==
  ASSUME UNCHANGED plan
  PROVE  /\ Direct' = Direct
         /\ \A c : Steps(c)' = Steps(c)
         /\ \A k : SetupSteps(k)' = SetupSteps(k) /\ Offset(k)' = Offset(k)
                   /\ CommitOffset(k)' = CommitOffset(k) /\ WaitOffset(k)' = WaitOffset(k)
                   /\ EndOf(k)' = EndOf(k)
         /\ PlanInv => PlanInv'
<1>1. Direct' = Direct
  BY DEF Direct
<1>2. \A k : SetupSteps(k)' = SetupSteps(k) /\ Offset(k)' = Offset(k)
  BY <1>1 DEF SetupSteps, Offset, Barriers
<1>3. \A k : CommitOffset(k)' = CommitOffset(k)
  BY <1>2 DEF CommitOffset
<1>4. \A k : WaitOffset(k)' = WaitOffset(k)
  BY <1>3 DEF WaitOffset
<1>5. \A k : EndOf(k)' = EndOf(k)
  BY <1>4 DEF EndOf
<1>6. \A c : Steps(c)' = Steps(c)
  BY <1>1, <1>2 DEF Steps
<1> QED
  BY <1>1, <1>2, <1>3, <1>4, <1>5, <1>6 DEF PlanInv

LEMMA RetriesShape ==
  ASSUME PlanInv, NEW step
  PROVE  /\ MaxAttempts(step) \in 1..(MaxRetries + 1)
         /\ Direct \/ plan.retries = 0 => (step.op = "ingest" => MaxAttempts(step) = 1)
  BY LimitAssumption DEF PlanInv, MaxAttempts

LEMMA AtKeeps ==
  ASSUME PlanInv, StatusInv, AtInv, UNCHANGED plan, NEW c \in Cases, CaseMoves(c)
  PROVE  AtInv'
<1>1. MaxRetries \in Nat
  BY LimitAssumption
<1>2. \A d : Steps(d)' = Steps(d)
  BY PlanStays
<1>3. Len(Steps(c)) \in Nat
  BY StepsShape
<1>4. /\ at' \in [Cases -> Nat] /\ attempt' \in [Cases -> 0..(MaxRetries + 1)]
  <2>1. CASE Again(c)
    <3>1. MaxAttempts(Steps(c)[at[c]]) \in 1..(MaxRetries + 1)
      BY RetriesShape
    <3>2. attempt[c] + 1 \in 0..(MaxRetries + 1)
      BY <1>1, <2>1, <3>1 DEF Again, AtInv
    <3> QED
      BY <2>1, <3>2 DEF Again, AtInv
  <2>2. CASE ~Again(c)
    BY <1>1, <2>2 DEF CaseMoves, Ahead, Over, AtInv
  <2> QED
    BY <2>1, <2>2
<1>5. ASSUME NEW d \in Cases
      PROVE  /\ status'[d] = "waiting" => at'[d] = 0
             /\ status'[d] = "running" => 1 <= at'[d] /\ 1 <= attempt'[d]
             /\ status'[d] = "passed" => Len(Steps(d)) < at'[d]
  <2>1. CASE d # c
    BY <2>1 DEF CaseMoves, Ahead, Again, Over, AtInv, StatusInv
  <2>2. CASE d = c
    BY <1>1, <2>2 DEF CaseMoves, Ahead, Again, Over, AtInv, StatusInv
  <2> QED
    BY <2>1, <2>2
<1> QED
  BY <1>2, <1>4, <1>5 DEF AtInv

\* A step is what its position says, and a position has one step.
LEMMA StepHere ==
  ASSUME PlanInv, NEW c \in Cases, NEW op, AtStep(c, op)
  PROVE  /\ at[c] \in 1..Len(Steps(c))
         /\ op \notin {"recall", "answer"} => c = SetupOf(c[1])
         /\ op = "ingest" => \E i \in 1..Len(Pending[c[1]]) :
               at[c] = Offset(c[1]) + i /\ EventOf(c) = Pending[c[1]][i]
         /\ op = "commit" => plan.commit /\ \E i \in 1..Len(Pending[c[1]]) :
               at[c] = CommitOffset(c[1]) + i /\ EventOf(c) = Pending[c[1]][i]
         /\ op = "wait" => plan.async /\ \E i \in 1..Len(Pending[c[1]]) :
               at[c] = WaitOffset(c[1]) + i /\ EventOf(c) = Pending[c[1]][i]
         /\ op = "prepare" => ~Direct /\ FirstOfSample(c[1]) /\ at[c] = 2
         /\ op = "ingest_phase" => ~Direct /\ at[c] = Offset(c[1])
         /\ op = "qa_phase" => ~Direct /\ at[c] = EndOf(c[1]) + 1
<1> DEFINE k == c[1]
           n == Len(Pending[k])
           p == at[c]
<1>1. p \in DOMAIN Steps(c) /\ Steps(c)[p].op = op
  BY DEF AtStep
<1>2. p \in 1..Len(Steps(c))
  BY <1>1, StepsShape
<1>3. CASE c \in Asked
  BY <1>1, <1>2, <1>3, QuestionSteps
<1>4. CASE c = SetupOf(k)
  <2>1. k \in Checkpoints /\ Steps(c) = SetupSteps(k) /\ EventOf(c) = SetupSteps(k)[p].event
    BY <1>4, CaseKinds, SetupShape DEF EventOf
  <2>2. CASE \E i \in 1..n : p = Offset(k) + i
    BY <1>1, <1>2, <1>4, <2>1, <2>2, StepsAt
  <2>3. CASE plan.commit /\ \E i \in 1..n : p = CommitOffset(k) + i
    BY <1>1, <1>2, <1>4, <2>1, <2>3, StepsAt
  <2>4. CASE plan.async /\ \E i \in 1..n : p = WaitOffset(k) + i
    BY <1>1, <1>2, <1>4, <2>1, <2>4, StepsAt
  <2>5. CASE ~Direct /\ FirstOfSample(k) /\ p \in {1, 2}
    BY <1>1, <1>2, <1>4, <2>1, <2>5, StepsAt
  <2>6. CASE ~Direct /\ p \in {Offset(k), EndOf(k) + 1}
    BY <1>1, <1>2, <1>4, <2>1, <2>6, StepsAt
  <2> QED
    BY <1>1, <2>1, <2>2, <2>3, <2>4, <2>5, <2>6, StepsOf
<1> QED
  BY <1>3, <1>4, CaseKinds

-----------------------------------------------------------------------------
(* The invariant of the memory *)

\* The plans under which no event may be written twice.
Single == Direct \/ plan.retries = 0

\* The setup of a checkpoint has left a position behind.
Past(k, p) == status[SetupOf(k)] \in {"running", "passed"} /\ p < at[SetupOf(k)]

NoLater(k) == \A j \in Checkpoints : k < j => at[SetupOf(j)] = 0

DataInv ==
    /\ store \in [Events -> {"absent", "stored", "indexing", "ready", "failed"}]
    /\ delivered \in [Events -> Nat]
    /\ home \in [Events -> Samples \cup {NoSample}]
    /\ config \in [capture : BOOLEAN, recall : BOOLEAN, prefix : Samples \cup {NoSample}]
    /\ written = {}

\* What is known of an event, wherever its checkpoint is.
BackendInv ==
    \A e \in Events :
        /\ delivered[e] = 0 <=> store[e] = "absent"
        /\ store[e] = "stored" => plan.commit
        /\ store[e] \in {"indexing", "failed"} => plan.async
        /\ delivered[e] > 0 =>
              \E k \in Checkpoints : \E i \in 1..Len(Pending[k]) : e = Pending[k][i]

\* What the position of its setup says of an event.
EventInv(k, i) ==
    LET e == Pending[k][i]  c == SetupOf(k) IN
    /\ at[c] < Offset(k) + i => delivered[e] = 0
    /\ Single /\ status[c] = "running" /\ at[c] <= Offset(k) + i => delivered[e] = 0
    /\ Single => delivered[e] <= 1
    /\ delivered[e] > 0 => home[e] = SampleOf[k]
    /\ Past(k, Offset(k) + i) => delivered[e] > 0
    /\ plan.commit /\ Past(k, CommitOffset(k) + i) => store[e] # "stored"
    /\ plan.async /\ Past(k, WaitOffset(k) + i) => store[e] = "ready"

EventsInv == \A k \in Checkpoints : \A i \in 1..Len(Pending[k]) : EventInv(k, i)

\* What the position of the latest setup says of the plugin.
PluginInv(k) ==
    /\ NoLater(k) /\ Past(k, Offset(k) - 1) => config.prefix = SampleOf[k]
    /\ status[SetupOf(k)] = "running" /\ Past(k, Offset(k)) /\ at[SetupOf(k)] <= EndOf(k)
          => config.capture
    /\ NoLater(k) /\ Past(k, EndOf(k) + 1) => ~config.capture

PhaseInv == ~Direct => \A k \in Checkpoints : PluginInv(k)

HistoryInv == PlanInv /\ AtInv /\ DataInv /\ BackendInv /\ EventsInv /\ PhaseInv

-----------------------------------------------------------------------------
(* Who else runs *)

\* While a setup runs no other case does.
LEMMA SetupRunsAlone ==
  ASSUME OrderInv, NEW k \in Checkpoints, NEW c \in Cases,
         status[c] = "running", status[SetupOf(k)] = "running"
  PROVE  c = SetupOf(k)
<1> DEFINE s == SetupOf(k)
<1>1. s \in Cases /\ s[1] = k /\ s[2] = Setup
  BY SetupShape
<1>2. c[1] \in Int /\ k \in Int
  BY CaseKinds, CheckpointAssumption DEF Checkpoints
<1>3. c \notin Before(s) /\ s \notin Before(c)
  BY <1>1 DEF OrderInv, Finished
<1>4. c[1] = k /\ ~(c[2] # Setup)
  BY <1>1, <1>2, <1>3 DEF Before
<1> QED
  BY <1>4, CaseKinds

\* While a case runs no later setup has begun.
LEMMA LaterWaits ==
  ASSUME OrderInv, StatusInv, AtInv, NEW c \in Cases, status[c] = "running"
  PROVE  /\ NoLater(c[1])
         /\ \A j \in Checkpoints : c[1] < j => status[SetupOf(j)] = "waiting"
<1> SUFFICES ASSUME NEW j \in Checkpoints, c[1] < j
             PROVE  status[SetupOf(j)] = "waiting" /\ at[SetupOf(j)] = 0
  BY DEF NoLater
<1>1. SetupOf(j) \in Cases /\ SetupOf(j)[1] = j
  BY SetupShape
<1>2. c \in Before(SetupOf(j))
  BY <1>1 DEF Before
<1>3. status[SetupOf(j)] = "waiting"
  BY <1>1, <1>2 DEF OrderInv, Finished
<1> QED
  BY <1>1, <1>3 DEF AtInv

\* A checkpoint whose sample has gone on to a later case is complete.
LEMMA PassedIsPast ==
  ASSUME PlanInv, AtInv, NEW k \in Checkpoints, status[SetupOf(k)] = "passed",
         NEW p \in Int, p <= IF Direct THEN EndOf(k) ELSE EndOf(k) + 1
  PROVE  Past(k, p)
<1>1. Len(SetupSteps(k)) < at[SetupOf(k)] /\ at[SetupOf(k)] \in Nat
  BY SetupShape DEF AtInv
<1>2. p <= Len(SetupSteps(k)) /\ Len(SetupSteps(k)) \in Int
  BY StepsAt, OffsetShape
<1> QED
  BY <1>1, <1>2 DEF Past

-----------------------------------------------------------------------------
(* The events *)

Untouched(e) ==
    store'[e] = store[e] /\ delivered'[e] = delivered[e] /\ home'[e] = home[e]

\* The setup of an event is at one of the steps about it.
AtEvent(k, i) ==
    \/ at[SetupOf(k)] = Offset(k) + i
    \/ plan.commit /\ at[SetupOf(k)] = CommitOffset(k) + i
    \/ plan.async /\ at[SetupOf(k)] = WaitOffset(k) + i

\* Where a setup is after a step, as seen from what comes later in its chain.
LEMMA SetupMoves ==
  ASSUME PlanInv, StatusInv, AtInv, NEW c \in Cases, CaseMoves(c), NEW k \in Checkpoints
  PROVE  LET s == SetupOf(k) IN
         /\ at[s] \in Nat /\ at'[s] \in Nat /\ at[s] <= at'[s]
         /\ \/ s # c /\ at'[s] = at[s] /\ status'[s] = status[s]
            \/ s = c /\ Ahead(c) /\ at'[s] = at[s] + 1 /\ status[s] = "running"
                 /\ status'[s] = "running" /\ 1 <= at[s]
            \/ s = c /\ at'[s] = at[s] /\ status[s] = "running"
                 /\ status'[s] \in {"running", "failed", "passed"}
            \/ s = c /\ at[s] = 0 /\ at'[s] = 1 /\ status'[s] = "running"
                 /\ status[s] = "waiting"
            \/ s = c /\ at[s] = 0 /\ at'[s] = 0 /\ status'[s] = "failed"
<1> DEFINE s == SetupOf(k)
<1>1. s \in Cases
  BY SetupShape
<1> HIDE DEF s
<1>2. /\ at \in [Cases -> Nat] /\ status \in [Cases -> {"waiting", "running", "passed", "failed"}]
      /\ status[c] = "waiting" => at[c] = 0
      /\ status[c] = "running" => 1 <= at[c]
  BY DEF AtInv, StatusInv
<1>3. CASE s # c
  BY <1>1, <1>2, <1>3 DEF CaseMoves, Ahead, Again, Over, s
<1>4. CASE s = c
  BY <1>1, <1>2, <1>4 DEF CaseMoves, Ahead, Again, Over, s
<1> QED
  BY <1>3, <1>4

\* An event nothing is done to stays in the state its setup's position calls for.
LEMMA EventKeeps ==
  ASSUME PlanInv, StatusInv, AtInv, UNCHANGED plan, NEW c \in Cases, CaseMoves(c),
         NEW k \in Checkpoints, NEW i \in 1..Len(Pending[k]),
         EventInv(k, i), Untouched(Pending[k][i]),
         c = SetupOf(k) /\ Ahead(c) => ~AtEvent(k, i)
  PROVE  EventInv(k, i)'
<1> DEFINE s == SetupOf(k)
           e == Pending[k][i]
           o == Offset(k) + i
           co == CommitOffset(k) + i
           wo == WaitOffset(k) + i
           Was(p) == status[s] \in {"running", "passed"} /\ p < at[s]
           Is(p) == status'[s] \in {"running", "passed"} /\ p < at'[s]
<1>1. /\ Offset(k)' = Offset(k) /\ CommitOffset(k)' = CommitOffset(k)
      /\ WaitOffset(k)' = WaitOffset(k) /\ Single' = Single
  BY PlanStays DEF Single
<1>2. o \in Nat /\ co \in Nat /\ wo \in Nat /\ 1 <= o /\ 1 <= co /\ 1 <= wo
  BY OffsetShape
<1>3. /\ at[s] \in Nat /\ at'[s] \in Nat /\ at[s] <= at'[s]
      /\ \/ s # c /\ at'[s] = at[s] /\ status'[s] = status[s]
         \/ s = c /\ Ahead(c) /\ at'[s] = at[s] + 1 /\ status[s] = "running"
              /\ status'[s] = "running" /\ 1 <= at[s]
         \/ s = c /\ at'[s] = at[s] /\ status[s] = "running"
              /\ status'[s] \in {"running", "failed", "passed"}
         \/ s = c /\ at[s] = 0 /\ at'[s] = 1 /\ status'[s] = "running"
              /\ status[s] = "waiting"
         \/ s = c /\ at[s] = 0 /\ at'[s] = 0 /\ status'[s] = "failed"
  BY SetupMoves
<1>4. s = c /\ Ahead(c) =>
        at[s] # o /\ (plan.commit => at[s] # co) /\ (plan.async => at[s] # wo)
  BY DEF AtEvent
<1>5. /\ at[s] < o => delivered[e] = 0
      /\ Single /\ status[s] = "running" /\ at[s] <= o => delivered[e] = 0
      /\ Single => delivered[e] <= 1
      /\ delivered[e] > 0 => home[e] = SampleOf[k]
      /\ Was(o) => delivered[e] > 0
      /\ plan.commit /\ Was(co) => store[e] # "stored"
      /\ plan.async /\ Was(wo) => store[e] = "ready"
  BY DEF EventInv, Past
<1>6. store'[e] = store[e] /\ delivered'[e] = delivered[e] /\ home'[e] = home[e]
  BY DEF Untouched
<1>9. /\ at'[s] < o => delivered'[e] = 0
      /\ Single /\ status'[s] = "running" /\ at'[s] <= o => delivered'[e] = 0
      /\ Single => delivered'[e] <= 1
      /\ delivered'[e] > 0 => home'[e] = SampleOf[k]
      /\ Is(o) => delivered'[e] > 0
      /\ plan.commit /\ Is(co) => store'[e] # "stored"
      /\ plan.async /\ Is(wo) => store'[e] = "ready"
  <2> HIDE DEF s, e, o, co, wo
  <2>1. at'[s] < o => at[s] < o
    BY <1>2, <1>3
  <2>2. Single /\ status'[s] = "running" /\ at'[s] <= o => delivered[e] = 0
    BY <1>2, <1>3, <1>5
  <2>3. Is(o) => Was(o)
    BY <1>2, <1>3, <1>4
  <2>4. plan.commit /\ Is(co) => Was(co)
    BY <1>2, <1>3, <1>4
  <2>5. plan.async /\ Is(wo) => Was(wo)
    BY <1>2, <1>3, <1>4
  <2> QED
    BY <1>5, <1>6, <2>1, <2>2, <2>3, <2>4, <2>5
<1> QED
  BY <1>1, <1>9 DEF EventInv, Past, SetupOf

LEMMA EventIsUnique ==
  ASSUME NEW j \in Checkpoints, NEW m \in 1..Len(Pending[j]),
         NEW k \in Checkpoints, NEW i \in 1..Len(Pending[k]), Pending[j][m] = Pending[k][i]
  PROVE  j = k /\ m = i
<1>1. m \in DOMAIN Pending[j] /\ i \in DOMAIN Pending[k]
  BY PendingShape
<1> QED
  BY <1>1, EventAssumption

\* The step a setup is at is about one event, or about none.
LEMMA OneEventAtATime ==
  ASSUME PlanInv, NEW k \in Checkpoints, NEW i \in 1..Len(Pending[k]), AtEvent(k, i)
  PROVE  /\ SetupSteps(k)[at[SetupOf(k)]].op \in {"ingest", "commit", "wait"}
         /\ SetupSteps(k)[at[SetupOf(k)]].event = Pending[k][i]
  BY StepsAt DEF AtEvent

LEMMA NotAtEvent ==
  ASSUME PlanInv, NEW c \in Cases, NEW op, AtStep(c, op),
         NEW k \in Checkpoints, NEW i \in 1..Len(Pending[k]),
         c = SetupOf(k),
         op \in {"ingest", "commit", "wait"} => EventOf(c) # Pending[k][i]
  PROVE  ~AtEvent(k, i)
<1>1. Steps(c) = SetupSteps(k)
  BY SetupShape
<1>2. Steps(c)[at[c]].op = op /\ EventOf(c) = Steps(c)[at[c]].event
  BY DEF AtStep, EventOf
<1> QED
  BY <1>1, <1>2, OneEventAtATime

\* Nothing is tried twice that must happen once.
LEMMA WrittenOnce ==
  ASSUME PlanInv, AtInv, Single, NEW c \in Cases, AtStep(c, "ingest")
  PROVE  ~Again(c)
<1>1. MaxAttempts(Steps(c)[at[c]]) = 1
  BY RetriesShape DEF Single, AtStep
<1>2. attempt[c] \in Int /\ 1 <= attempt[c]
  BY DEF AtInv, AtStep
<1> QED
  BY <1>1, <1>2 DEF Again

LEMMA EventWritten ==
  ASSUME PlanInv, StatusInv, AtInv, DataInv, UNCHANGED plan, NEW k \in Checkpoints,
         NEW i \in 1..Len(Pending[k]), EventInv(k, i),
         AtStep(SetupOf(k), "ingest"), at[SetupOf(k)] = Offset(k) + i,
         Ahead(SetupOf(k)) \/ Again(SetupOf(k)) \/ Over(SetupOf(k)),
         Write(Pending[k][i], SampleOf[k])
  PROVE  EventInv(k, i)'
<1> DEFINE s == SetupOf(k)
           e == Pending[k][i]
<1>1. /\ Offset(k)' = Offset(k) /\ CommitOffset(k)' = CommitOffset(k)
      /\ WaitOffset(k)' = WaitOffset(k) /\ Single' = Single
  BY PlanStays DEF Single
<1>2. /\ Offset(k) \in Nat /\ CommitOffset(k) \in Nat /\ WaitOffset(k) \in Nat
      /\ Offset(k) + i <= CommitOffset(k) /\ Offset(k) + i <= WaitOffset(k) /\ 1 <= i /\ i \in Nat
  <2>1. /\ i \in Nat /\ 1 <= i /\ i <= Len(Pending[k]) /\ Len(Pending[k]) \in Nat
        /\ Offset(k) \in Nat
    BY OffsetShape
  <2>2. CommitOffset(k) \in Nat /\ CommitOffset(k) = Offset(k) + Len(Pending[k])
    BY OffsetShape
  <2>3. WaitOffset(k) \in Nat /\ CommitOffset(k) <= WaitOffset(k)
    BY <2>1, <2>2, OffsetShape
  <2> QED
    BY <2>1, <2>2, <2>3
<1>3. s \in Cases /\ at[s] \in Nat /\ at[s] = Offset(k) + i /\ status[s] = "running"
  BY SetupShape DEF AtInv, AtStep
<1>4. /\ at'[s] \in Nat /\ at[s] <= at'[s] /\ at'[s] <= at[s] + 1
      /\ status'[s] = "running" /\ at'[s] = at[s] => Again(s)
  BY <1>3 DEF Ahead, Again, Over, AtInv, StatusInv
<1>5. Single => ~Again(s)
  BY <1>3, WrittenOnce
<1>6. e \in Events /\ delivered[e] \in Nat
  BY PendingShape DEF DataInv
<1>7. delivered'[e] = delivered[e] + 1 /\ home'[e] = SampleOf[k]
  BY <1>6 DEF Write, DataInv
<1>8. Single => delivered[e] = 0
  BY <1>3 DEF EventInv
<1> HIDE DEF s, e
<1>9. /\ ~(at'[s] < Offset(k) + i)
      /\ ~(Single /\ status'[s] = "running" /\ at'[s] <= Offset(k) + i)
      /\ Single => delivered'[e] <= 1
      /\ delivered'[e] > 0
      /\ ~(CommitOffset(k) + i < at'[s]) /\ ~(WaitOffset(k) + i < at'[s])
  BY <1>2, <1>3, <1>4, <1>5, <1>6, <1>7, <1>8
<1> QED
  BY <1>1, <1>7, <1>9 DEF EventInv, Past, SetupOf, s, e

LEMMA EventCommitted ==
  ASSUME PlanInv, StatusInv, AtInv, DataInv, UNCHANGED plan, NEW k \in Checkpoints,
         NEW i \in 1..Len(Pending[k]), EventInv(k, i),
         AtStep(SetupOf(k), "commit"), at[SetupOf(k)] = CommitOffset(k) + i, plan.commit,
         Ahead(SetupOf(k)) \/ Again(SetupOf(k)) \/ Over(SetupOf(k)),
         delivered' = delivered, home' = home,
         Ahead(SetupOf(k)) => store'[Pending[k][i]] # "stored"
  PROVE  EventInv(k, i)'
<1> DEFINE s == SetupOf(k)
           e == Pending[k][i]
<1>1. /\ Offset(k)' = Offset(k) /\ CommitOffset(k)' = CommitOffset(k)
      /\ WaitOffset(k)' = WaitOffset(k) /\ Single' = Single
  BY PlanStays DEF Single
<1>2. /\ Offset(k) \in Nat /\ CommitOffset(k) \in Nat /\ WaitOffset(k) \in Nat
      /\ Offset(k) < CommitOffset(k) /\ CommitOffset(k) + i <= WaitOffset(k)
      /\ 1 <= i /\ i \in Nat
  <2>1. /\ i \in Nat /\ 1 <= i /\ i <= Len(Pending[k]) /\ Len(Pending[k]) \in Nat
        /\ Offset(k) \in Nat
    BY OffsetShape
  <2>2. CommitOffset(k) \in Nat /\ CommitOffset(k) = Offset(k) + Len(Pending[k])
    BY OffsetShape
  <2>3. WaitOffset(k) \in Nat /\ WaitOffset(k) = CommitOffset(k) + Len(Pending[k])
    BY <2>1, <2>2, OffsetShape
  <2> QED
    BY <2>1, <2>2, <2>3
<1>3. s \in Cases /\ at[s] \in Nat /\ at[s] = CommitOffset(k) + i /\ status[s] = "running"
  BY SetupShape DEF AtInv, AtStep
<1>4. /\ at'[s] \in Nat /\ at[s] <= at'[s] /\ at'[s] <= at[s] + 1
      /\ at'[s] = at[s] \/ Ahead(s)
      /\ status'[s] \in {"running", "failed"}
  BY <1>3 DEF Ahead, Again, Over, AtInv, StatusInv
<1>5. /\ delivered[e] > 0
      /\ Single => delivered[e] <= 1
      /\ delivered[e] > 0 => home[e] = SampleOf[k]
  <2>1. Past(k, Offset(k) + i)
    BY <1>2, <1>3 DEF Past
  <2> QED
    BY <2>1 DEF EventInv
<1> HIDE DEF s, e
<1>6. /\ ~(at'[s] < Offset(k) + i)
      /\ ~(at'[s] <= Offset(k) + i)  
      /\ CommitOffset(k) + i < at'[s] => Ahead(s)
      /\ ~(WaitOffset(k) + i < at'[s])
  BY <1>2, <1>3, <1>4
<1>7. CommitOffset(k) + i < at'[s] => store'[e] # "stored"
  BY <1>6 DEF s, e
<1> QED
  BY <1>1, <1>5, <1>6, <1>7 DEF EventInv, Past, SetupOf, s, e

LEMMA EventAwaited ==
  ASSUME PlanInv, StatusInv, AtInv, DataInv, BackendInv, UNCHANGED plan,
         NEW k \in Checkpoints, NEW i \in 1..Len(Pending[k]), EventInv(k, i),
         AtStep(SetupOf(k), "wait"), at[SetupOf(k)] = WaitOffset(k) + i, plan.async,
         Ahead(SetupOf(k)) \/ Again(SetupOf(k)) \/ Over(SetupOf(k)),
         UNCHANGED <<store, delivered, home>>,
         Ahead(SetupOf(k)) => store[Pending[k][i]] \in {"ready", "absent"}
  PROVE  EventInv(k, i)'
<1> DEFINE s == SetupOf(k)
           e == Pending[k][i]
<1>1. /\ Offset(k)' = Offset(k) /\ CommitOffset(k)' = CommitOffset(k)
      /\ WaitOffset(k)' = WaitOffset(k) /\ Single' = Single
  BY PlanStays DEF Single
<1>2. /\ Offset(k) \in Nat /\ CommitOffset(k) \in Nat /\ WaitOffset(k) \in Nat
      /\ Offset(k) < CommitOffset(k) /\ CommitOffset(k) <= WaitOffset(k)
      /\ 1 <= i /\ i \in Nat
      /\ plan.commit => CommitOffset(k) < WaitOffset(k)
  <2>1. /\ i \in Nat /\ 1 <= i /\ i <= Len(Pending[k]) /\ Len(Pending[k]) \in Nat
        /\ Offset(k) \in Nat
    BY OffsetShape
  <2>2. CommitOffset(k) \in Nat /\ CommitOffset(k) = Offset(k) + Len(Pending[k])
    BY OffsetShape
  <2>3. /\ WaitOffset(k) \in Nat /\ CommitOffset(k) <= WaitOffset(k)
        /\ plan.commit => WaitOffset(k) = CommitOffset(k) + Len(Pending[k])
    BY <2>1, <2>2, OffsetShape
  <2> QED
    BY <2>1, <2>2, <2>3
<1>3. s \in Cases /\ at[s] \in Nat /\ at[s] = WaitOffset(k) + i /\ status[s] = "running"
  BY SetupShape DEF AtInv, AtStep
<1>4. /\ at'[s] \in Nat /\ at[s] <= at'[s] /\ at'[s] <= at[s] + 1
      /\ at'[s] = at[s] \/ Ahead(s)
      /\ status'[s] \in {"running", "failed"}
  BY <1>3 DEF Ahead, Again, Over, AtInv, StatusInv
<1>5. /\ delivered[e] > 0
      /\ Single => delivered[e] <= 1
      /\ delivered[e] > 0 => home[e] = SampleOf[k]
      /\ plan.commit => store[e] # "stored"
  <2>1. Past(k, Offset(k) + i) /\ (plan.commit => Past(k, CommitOffset(k) + i))
    BY <1>2, <1>3 DEF Past
  <2> QED
    BY <2>1 DEF EventInv
<1>6. e \in Events /\ delivered[e] # 0
  <2>1. e \in Events /\ delivered[e] \in Nat
    BY PendingShape DEF DataInv
  <2> QED
    BY <1>5, <2>1
<1>7. store[e] # "absent"
  BY <1>6 DEF BackendInv
<1> HIDE DEF s, e
<1>8. /\ ~(at'[s] < Offset(k) + i)
      /\ ~(at'[s] <= Offset(k) + i)  
      /\ WaitOffset(k) + i < at'[s] => Ahead(s)
  BY <1>2, <1>3, <1>4
<1>9. WaitOffset(k) + i < at'[s] => store[e] = "ready"
  BY <1>7, <1>8 DEF s, e
<1> QED
  BY <1>1, <1>5, <1>8, <1>9 DEF EventInv, Past, SetupOf, s, e

-----------------------------------------------------------------------------
(* What the steps do to the events *)

EventsOK == DataInv /\ BackendInv /\ EventsInv

LEMMA EventsKept ==
  ASSUME PlanInv, StatusInv, AtInv, EventsOK, UNCHANGED <<plan, store, delivered, home, written>>,
         DataInv', NEW c \in Cases, CaseMoves(c),
         \A k \in Checkpoints : \A i \in 1..Len(Pending[k]) :
             c = SetupOf(k) /\ Ahead(c) => ~AtEvent(k, i)
  PROVE  EventsOK'
<1>1. EventsInv'
  <2> SUFFICES ASSUME NEW k \in Checkpoints, NEW i \in 1..Len(Pending[k]) PROVE EventInv(k, i)'
    BY DEF EventsInv
  <2>1. Untouched(Pending[k][i])
    BY DEF Untouched
  <2>2. EventInv(k, i)
    BY DEF EventsOK, EventsInv
  <2> QED
    BY <2>1, <2>2, EventKeeps
<1>2. BackendInv'
  BY DEF EventsOK, BackendInv
<1> QED
  BY <1>1, <1>2 DEF EventsOK

LEMMA EventsWritten ==
  ASSUME PlanInv, StatusInv, AtInv, EventsOK, UNCHANGED plan, NEW c \in Cases,
         AtStep(c, "ingest"), Ahead(c) \/ Again(c) \/ Over(c),
         Write(EventOf(c), SampleOf[c[1]])
  PROVE  EventsOK'
<1> DEFINE k0 == c[1]
<1>1. k0 \in Checkpoints /\ c = SetupOf(k0)
  BY StepHere, CaseKinds
<1>2. PICK i0 \in 1..Len(Pending[k0]) :
        at[c] = Offset(k0) + i0 /\ EventOf(c) = Pending[k0][i0]
  BY StepHere
<1> DEFINE e0 == Pending[k0][i0]
<1>3. e0 \in Events /\ SampleOf[k0] \in Samples
  BY <1>1, PendingShape, CheckpointAssumption
<1>4. CaseMoves(c)
  BY DEF CaseMoves
<1>5. Write(e0, SampleOf[k0])
  BY <1>2
<1>6. DataInv'
  <2>1. Accepted \in {"ready", "indexing"}
    BY DEF Accepted
  <2> QED
    BY <1>3, <1>5, <2>1 DEF EventsOK, DataInv, Write
<1>7. BackendInv'
  <2> SUFFICES ASSUME NEW e \in Events
               PROVE  /\ delivered'[e] = 0 <=> store'[e] = "absent"
                      /\ store'[e] = "stored" => plan.commit
                      /\ store'[e] \in {"indexing", "failed"} => plan.async
                      /\ delivered'[e] > 0 =>
                            \E k \in Checkpoints : \E i \in 1..Len(Pending[k]) : e = Pending[k][i]
    BY DEF BackendInv
  <2>1. CASE e # e0
    BY <1>3, <1>5, <2>1 DEF EventsOK, BackendInv, DataInv, Write
  <2>2. CASE e = e0
    <3>1. delivered'[e] # 0 /\ store'[e] \in {"stored", "ready", "indexing"}
          /\ (store'[e] = "stored" => plan.commit) /\ (store'[e] = "indexing" => plan.async)
      BY <1>3, <1>5, <2>2 DEF EventsOK, DataInv, Write, Accepted
    <3> QED
      BY <1>1, <2>2, <3>1
  <2> QED
    BY <2>1, <2>2
<1>8. EventsInv'
  <2> SUFFICES ASSUME NEW k \in Checkpoints, NEW i \in 1..Len(Pending[k]) PROVE EventInv(k, i)'
    BY DEF EventsInv
  <2>1. EventInv(k, i)
    BY DEF EventsOK, EventsInv
  <2>2. CASE k = k0 /\ i = i0
    BY <1>1, <1>2, <1>5, <2>1, <2>2, EventWritten DEF EventsOK
  <2>3. CASE ~(k = k0 /\ i = i0)
    <3>1. Pending[k][i] # e0 /\ Pending[k][i] \in Events
      BY <1>1, <2>3, EventIsUnique, PendingShape
    <3>2. Untouched(Pending[k][i])
      BY <1>3, <1>5, <3>1 DEF Untouched, Write, EventsOK, DataInv
    <3>3. c = SetupOf(k) => ~AtEvent(k, i)
      BY <1>2, <3>1, NotAtEvent
    <3> QED
      BY <1>4, <2>1, <3>2, <3>3, EventKeeps
  <2> QED
    BY <2>2, <2>3
<1> QED
  BY <1>6, <1>7, <1>8 DEF EventsOK

LEMMA EventsCommitted ==
  ASSUME PlanInv, StatusInv, AtInv, EventsOK, UNCHANGED plan, NEW c \in Cases,
         AtStep(c, "commit"), Ahead(c) \/ Again(c) \/ Over(c),
         store' = IF store[EventOf(c)] = "stored"
                  THEN [store EXCEPT ![EventOf(c)] = Accepted] ELSE store,
         UNCHANGED <<delivered, home, written, config>>
  PROVE  EventsOK'
<1> DEFINE k0 == c[1]
<1>1. k0 \in Checkpoints /\ c = SetupOf(k0) /\ plan.commit
  BY StepHere, CaseKinds
<1>2. PICK i0 \in 1..Len(Pending[k0]) :
        at[c] = CommitOffset(k0) + i0 /\ EventOf(c) = Pending[k0][i0]
  BY StepHere
<1> DEFINE e0 == Pending[k0][i0]
<1>3. e0 \in Events
  BY <1>1, PendingShape
<1>4. CaseMoves(c)
  BY DEF CaseMoves
<1>5. /\ \A e \in Events : e # e0 => store'[e] = store[e]
      /\ store'[e0] # "stored"
      /\ \/ store'[e0] = store[e0]
         \/ store[e0] = "stored" /\ store'[e0] \in {"ready", "indexing"}
              /\ (store'[e0] = "indexing" => plan.async)
  <2>1. Accepted \in {"ready", "indexing"} /\ (Accepted = "indexing" => plan.async)
    BY DEF Accepted
  <2>2. /\ store \in [Events -> {"absent", "stored", "indexing", "ready", "failed"}]
        /\ store' = IF store[e0] = "stored" THEN [store EXCEPT ![e0] = Accepted] ELSE store
    BY <1>2 DEF EventsOK, DataInv
  <2> HIDE DEF e0
  <2>3. CASE store[e0] = "stored"
    BY <1>3, <2>1, <2>2, <2>3
  <2>4. CASE store[e0] # "stored"
    BY <1>3, <2>2, <2>4
  <2> QED
    BY <2>3, <2>4
<1>6. DataInv'
  <2>1. Accepted \in {"ready", "indexing"}
    BY DEF Accepted
  <2> QED
    BY <1>2, <1>3, <2>1 DEF EventsOK, DataInv
<1>7. BackendInv'
  BY <1>1, <1>3, <1>5 DEF EventsOK, BackendInv
<1>8. EventsInv'
  <2> SUFFICES ASSUME NEW k \in Checkpoints, NEW i \in 1..Len(Pending[k]) PROVE EventInv(k, i)'
    BY DEF EventsInv
  <2>1. EventInv(k, i)
    BY DEF EventsOK, EventsInv
  <2>2. CASE k = k0 /\ i = i0
    BY <1>1, <1>2, <1>5, <2>1, <2>2, EventCommitted DEF EventsOK
  <2>3. CASE ~(k = k0 /\ i = i0)
    <3>1. Pending[k][i] # e0 /\ Pending[k][i] \in Events
      BY <1>1, <2>3, EventIsUnique, PendingShape
    <3>2. Untouched(Pending[k][i])
      BY <1>5, <3>1 DEF Untouched
    <3>3. c = SetupOf(k) => ~AtEvent(k, i)
      BY <1>2, <3>1, NotAtEvent
    <3> QED
      BY <1>4, <2>1, <3>2, <3>3, EventKeeps
  <2> QED
    BY <2>2, <2>3
<1> QED
  BY <1>6, <1>7, <1>8 DEF EventsOK

LEMMA EventsAwaited ==
  ASSUME PlanInv, StatusInv, AtInv, EventsOK, UNCHANGED plan, NEW c \in Cases,
         AtStep(c, "wait"), Ahead(c) \/ Again(c) \/ Over(c),
         Ahead(c) => store[EventOf(c)] \in {"ready", "absent"},
         UNCHANGED <<store, delivered, home, written, config>>
  PROVE  EventsOK'
<1> DEFINE k0 == c[1]
<1>1. k0 \in Checkpoints /\ c = SetupOf(k0) /\ plan.async
  BY StepHere, CaseKinds
<1>2. PICK i0 \in 1..Len(Pending[k0]) :
        at[c] = WaitOffset(k0) + i0 /\ EventOf(c) = Pending[k0][i0]
  BY StepHere
<1>3. CaseMoves(c)
  BY DEF CaseMoves
<1>4. DataInv' /\ BackendInv'
  BY DEF EventsOK, DataInv, BackendInv
<1>5. EventsInv'
  <2> SUFFICES ASSUME NEW k \in Checkpoints, NEW i \in 1..Len(Pending[k]) PROVE EventInv(k, i)'
    BY DEF EventsInv
  <2>1. EventInv(k, i)
    BY DEF EventsOK, EventsInv
  <2>2. CASE k = k0 /\ i = i0
    BY <1>1, <1>2, <2>1, <2>2, EventAwaited DEF EventsOK
  <2>3. CASE ~(k = k0 /\ i = i0)
    <3>1. Pending[k][i] # Pending[k0][i0]
      BY <1>1, <2>3, EventIsUnique
    <3>2. Untouched(Pending[k][i])
      BY DEF Untouched
    <3>3. c = SetupOf(k) => ~AtEvent(k, i)
      BY <1>2, <3>1, NotAtEvent
    <3> QED
      BY <1>3, <2>1, <3>2, <3>3, EventKeeps
  <2> QED
    BY <2>2, <2>3
<1> QED
  BY <1>4, <1>5 DEF EventsOK

-----------------------------------------------------------------------------
(* The plugin *)

\* What a step may do to the plugin's configuration.
Plugged(c, op) ==
    /\ \/ config'.prefix = config.prefix
       \/ op = "prepare" /\ config'.prefix = SampleOf[c[1]]
    /\ op = "prepare" /\ Ahead(c) => config'.prefix = SampleOf[c[1]]
    /\ \/ config'.capture = config.capture
       \/ op = "ingest_phase" /\ config'.capture = TRUE
       \/ op = "qa_phase" /\ config'.capture = FALSE
    /\ op = "ingest_phase" /\ Ahead(c) => config'.capture = TRUE
    /\ op = "qa_phase" /\ Ahead(c) => config'.capture = FALSE

\* A step of the chain of a setup.
LEMMA PluginOwnStep ==
  ASSUME PlanInv, StatusInv, AtInv, ~Direct, UNCHANGED plan, NEW k \in Checkpoints,
         PluginInv(k), NEW op, AtStep(SetupOf(k), op),
         Ahead(SetupOf(k)) \/ Again(SetupOf(k)) \/ Over(SetupOf(k)),
         Plugged(SetupOf(k), op), NoLater(k)
  PROVE  PluginInv(k)'
<1> DEFINE s == SetupOf(k)
           o == Offset(k)
           n == EndOf(k)
<1>1. /\ Offset(k)' = o /\ EndOf(k)' = n
  BY PlanStays
<1>2. /\ o \in Nat /\ n \in Nat /\ o <= n /\ o = (IF FirstOfSample(k) THEN 3 ELSE 1)
  <2>1. Len(Pending[k]) \in Nat /\ o \in Nat /\ o = (IF FirstOfSample(k) THEN 3 ELSE 1)
    BY OffsetShape
  <2>2. CommitOffset(k) \in Nat /\ o <= CommitOffset(k)
    BY <2>1, OffsetShape
  <2>3. WaitOffset(k) \in Nat /\ CommitOffset(k) <= WaitOffset(k)
    BY <2>1, <2>2, OffsetShape
  <2>4. n \in Nat /\ WaitOffset(k) <= n
    BY <2>1, <2>3, OffsetShape
  <2> QED
    BY <2>1, <2>2, <2>3, <2>4
<1>3. s \in Cases /\ at[s] \in Nat /\ 1 <= at[s] /\ status[s] = "running" /\ s[1] = k
  BY SetupShape DEF AtInv, AtStep
<1>4. /\ at[s] = o => op = "ingest_phase"
      /\ at[s] = n + 1 => op = "qa_phase"
      /\ op = "ingest_phase" => at[s] = o
      /\ op = "qa_phase" => at[s] = n + 1
      /\ FirstOfSample(k) /\ at[s] = 2 => op = "prepare"
      /\ op = "prepare" => FirstOfSample(k) /\ at[s] = 2
  <2>1. Steps(s) = SetupSteps(k) /\ Steps(s)[at[s]].op = op
    BY SetupShape DEF AtStep
  <2>2. /\ at[s] = o => op = "ingest_phase"
        /\ at[s] = n + 1 => op = "qa_phase"
        /\ FirstOfSample(k) /\ at[s] = 2 => op = "prepare"
    BY <2>1, StepsAt
  <2>3. /\ op = "ingest_phase" => at[s] = o
        /\ op = "qa_phase" => at[s] = n + 1
        /\ op = "prepare" => FirstOfSample(k) /\ at[s] = 2
    BY <1>3, StepHere
  <2> QED
    BY <2>2, <2>3
<1>5. \/ Ahead(s) /\ at'[s] = at[s] + 1 /\ status'[s] = "running"
      \/ at'[s] = at[s] /\ status'[s] \in {"running", "failed"}
  BY <1>3 DEF Ahead, Again, Over, AtInv, StatusInv
<1>6. /\ o - 1 < at[s] => config.prefix = SampleOf[k]
      /\ o < at[s] /\ at[s] <= n => config.capture
      /\ n + 1 < at[s] => ~config.capture
  BY <1>3 DEF PluginInv, Past
<1>7. /\ \/ config'.prefix = config.prefix
         \/ op = "prepare" /\ config'.prefix = SampleOf[k]
      /\ op = "prepare" /\ Ahead(s) => config'.prefix = SampleOf[k]
      /\ \/ config'.capture = config.capture
         \/ op = "ingest_phase" /\ config'.capture = TRUE
         \/ op = "qa_phase" /\ config'.capture = FALSE
      /\ op = "ingest_phase" /\ Ahead(s) => config'.capture = TRUE
      /\ op = "qa_phase" /\ Ahead(s) => config'.capture = FALSE
  BY <1>3 DEF Plugged
<1> HIDE DEF s, o, n
<1>8. status'[s] \in {"running", "passed"} /\ o - 1 < at'[s] => config'.prefix = SampleOf[k]
  <2> SUFFICES ASSUME o - 1 < at'[s] PROVE config'.prefix = SampleOf[k]
    OBVIOUS
  <2>1. CASE o - 1 < at[s]
    BY <2>1, <1>6, <1>7
  <2>2. CASE ~(o - 1 < at[s])
    <3>1. Ahead(s) /\ at[s] = o - 1
      BY <2>2, <1>2, <1>3, <1>5
    <3>2. FirstOfSample(k) /\ at[s] = 2
      BY <3>1, <1>2, <1>3
    <3> QED
      BY <3>1, <3>2, <1>4, <1>7
  <2> QED
    BY <2>1, <2>2
<1>9. o < at'[s] /\ at'[s] <= n => config'.capture
  <2> SUFFICES ASSUME o < at'[s], at'[s] <= n PROVE config'.capture
    OBVIOUS
  <2>1. CASE o < at[s]
    <3>1. at[s] <= n
      BY <1>2, <1>3, <1>5
    <3>2. op # "qa_phase" /\ op # "ingest_phase"
      BY <2>1, <3>1, <1>2, <1>3, <1>4
    <3> QED
      BY <2>1, <3>1, <3>2, <1>6, <1>7
  <2>2. CASE ~(o < at[s])
    <3>1. Ahead(s) /\ at[s] = o
      BY <2>2, <1>2, <1>3, <1>5
    <3> QED
      BY <3>1, <1>4, <1>7
  <2> QED
    BY <2>1, <2>2
<1>10. n + 1 < at'[s] => ~config'.capture
  <2> SUFFICES ASSUME n + 1 < at'[s] PROVE ~config'.capture
    OBVIOUS
  <2>1. CASE n + 1 < at[s]
    <3>1. op # "ingest_phase"
      BY <2>1, <1>2, <1>3, <1>4
    <3> QED
      BY <2>1, <3>1, <1>6, <1>7
  <2>2. CASE ~(n + 1 < at[s])
    <3>1. Ahead(s) /\ at[s] = n + 1
      BY <2>2, <1>2, <1>3, <1>5
    <3> QED
      BY <3>1, <1>4, <1>7
  <2> QED
    BY <2>1, <2>2
<1> QED
  BY <1>1, <1>8, <1>9, <1>10 DEF PluginInv, Past, SetupOf, s, o, n

\* A step of another case's chain: an earlier one has ended, a later one has not begun.
LEMMA PluginOtherStep ==
  ASSUME PlanInv, StatusInv, AtInv, OrderInv, ~Direct, UNCHANGED plan, NEW k \in Checkpoints,
         PluginInv(k), NEW c \in Cases, NEW op, AtStep(c, op), c # SetupOf(k),
         Ahead(c) \/ Again(c) \/ Over(c), Plugged(c, op)
  PROVE  PluginInv(k)'
<1> DEFINE s == SetupOf(k)
<1>1. /\ Offset(k)' = Offset(k) /\ EndOf(k)' = EndOf(k)
      /\ Offset(k) \in Nat /\ EndOf(k) \in Nat /\ 1 <= Offset(k)
  BY PlanStays, OffsetShape
<1>2. CaseMoves(c) /\ status[c] = "running" /\ c[1] \in Checkpoints
  BY CaseKinds DEF CaseMoves, AtStep
<1>3. s \in Cases /\ at'[s] = at[s] /\ status'[s] = status[s]
  BY <1>2, SetupMoves, SetupShape
<1>4. status[s] # "running" \/ config'.capture = config.capture
  <2>1. ASSUME status[s] = "running" PROVE FALSE
    BY <2>1, <1>2, SetupRunsAlone
  <2> QED
    BY <2>1
<1>5. NoLater(k)' => NoLater(k)
  <2> SUFFICES ASSUME NoLater(k)', NEW j \in Checkpoints, k < j PROVE at[SetupOf(j)] = 0
    BY DEF NoLater
  <2>1. at'[SetupOf(j)] = 0
    BY DEF NoLater, SetupOf
  <2> QED
    BY <1>2, <2>1, SetupMoves
<1>6. CASE op \notin {"prepare", "ingest_phase", "qa_phase"}
  <2>1. config'.prefix = config.prefix /\ config'.capture = config.capture
    BY <1>6 DEF Plugged
  <2> QED
    BY <1>1, <1>3, <1>5, <2>1 DEF PluginInv, Past, SetupOf
<1>7. CASE op \in {"prepare", "ingest_phase", "qa_phase"}
  <2>1. c = SetupOf(c[1]) /\ c[1] # k
    BY <1>2, <1>7, StepHere
  <2>2. c[1] \in Int /\ k \in Int
    BY <1>2, CheckpointAssumption DEF Checkpoints
  <2>3. CASE k < c[1]
    <3>1. at[c] # 0
      BY <1>2 DEF AtInv
    <3>2. ~NoLater(k)
      BY <1>2, <2>1, <2>3, <3>1 DEF NoLater
    <3>3. status[s] # "running"
      BY <1>2, SetupRunsAlone
    <3> QED
      BY <1>1, <1>3, <1>5, <3>2, <3>3 DEF PluginInv, Past, SetupOf
  <2>4. CASE c[1] < k
    <3>1. status[s] = "waiting"
      BY <1>2, <2>4, LaterWaits
    <3> QED
      BY <1>3, <3>1 DEF PluginInv, Past, SetupOf
  <2> QED
    BY <2>1, <2>2, <2>3, <2>4
<1> QED
  BY <1>6, <1>7

LEMMA PhaseStep ==
  ASSUME PlanInv, StatusInv, AtInv, OrderInv, PhaseInv, UNCHANGED plan,
         NEW c \in Cases, NEW op, AtStep(c, op),
         Ahead(c) \/ Again(c) \/ Over(c), Plugged(c, op)
  PROVE  PhaseInv'
<1> SUFFICES ASSUME ~Direct', NEW k \in Checkpoints PROVE PluginInv(k)'
  BY DEF PhaseInv
<1>1. ~Direct /\ PluginInv(k)
  BY PlanStays DEF PhaseInv
<1>2. CASE c # SetupOf(k)
  BY <1>1, <1>2, PluginOtherStep
<1>3. CASE c = SetupOf(k)
  <2>1. NoLater(k)
    BY <1>3, LaterWaits, SetupShape DEF AtStep
  <2> QED
    BY <1>1, <1>3, <2>1, PluginOwnStep
<1> QED
  BY <1>2, <1>3

-----------------------------------------------------------------------------
(* The steps *)

LEMMA HistoryParts ==
  HistoryInv <=> PlanInv /\ AtInv /\ EventsOK /\ PhaseInv
  BY DEF HistoryInv, EventsOK

\* A step that does nothing to the events.
LEMMA OtherStepKeeps ==
  ASSUME HistoryInv, CaseInv, UNCHANGED <<plan, memory>>, NEW c \in Cases, NEW op,
         AtStep(c, op), op \notin {"ingest", "commit", "wait"},
         Ahead(c) \/ Again(c) \/ Over(c),
         config' \in [capture : BOOLEAN, recall : BOOLEAN, prefix : Samples \cup {NoSample}],
         Plugged(c, op)
  PROVE  HistoryInv'
<1>1. PlanInv /\ AtInv /\ EventsOK /\ PhaseInv /\ StatusInv /\ OrderInv
  BY HistoryParts DEF CaseInv
<1>2. CaseMoves(c)
  BY DEF CaseMoves
<1>3. PlanInv' /\ AtInv'
  BY <1>1, <1>2, PlanStays, AtKeeps
<1>4. PhaseInv'
  BY <1>1, PhaseStep
<1>5. UNCHANGED <<store, delivered, home, written>>
  BY DEF memory
<1>6. DataInv'
  BY <1>1, <1>5 DEF EventsOK, DataInv
<1>7. \A k \in Checkpoints : \A i \in 1..Len(Pending[k]) :
          c = SetupOf(k) /\ Ahead(c) => ~AtEvent(k, i)
  BY <1>1, NotAtEvent
<1>8. EventsOK'
  BY <1>1, <1>2, <1>5, <1>6, <1>7, EventsKept
<1> QED
  BY <1>3, <1>4, <1>8 DEF HistoryInv, EventsOK

\* A step about an event leaves the plugin alone.
LEMMA EventStepKeeps ==
  ASSUME HistoryInv, CaseInv, UNCHANGED <<plan, config>>, NEW c \in Cases, NEW op,
         AtStep(c, op), op \in {"ingest", "commit", "wait"},
         Ahead(c) \/ Again(c) \/ Over(c), EventsOK'
  PROVE  HistoryInv'
<1>1. PlanInv /\ AtInv /\ EventsOK /\ PhaseInv /\ StatusInv /\ OrderInv
  BY HistoryParts DEF CaseInv
<1>2. CaseMoves(c)
  BY DEF CaseMoves
<1>3. PlanInv' /\ AtInv'
  BY <1>1, <1>2, PlanStays, AtKeeps
<1>4. Plugged(c, op)
  BY DEF Plugged
<1>5. PhaseInv'
  BY <1>1, <1>4, PhaseStep
<1> QED
  BY <1>3, <1>5 DEF HistoryInv, EventsOK

\* A call that did nothing, and failed.
LEMMA NothingKeeps ==
  ASSUME HistoryInv, CaseInv, UNCHANGED <<plan, memory, config>>, NEW c \in Cases, NEW op,
         AtStep(c, op), Again(c) \/ Over(c)
  PROVE  HistoryInv'
<1>1. PlanInv /\ AtInv /\ EventsOK /\ PhaseInv /\ StatusInv /\ OrderInv
  BY HistoryParts DEF CaseInv
<1>2. CaseMoves(c)
  BY DEF CaseMoves
<1>3. PlanInv' /\ AtInv'
  BY <1>1, <1>2, PlanStays, AtKeeps
<1>4. ~Ahead(c)
  <2>1. at[c] \in Nat /\ at \in [Cases -> Nat] /\ at' = at
    BY <1>1 DEF AtInv, Again, Over
  <2> QED
    BY <2>1 DEF Ahead
<1>5. Plugged(c, op)
  BY <1>4 DEF Plugged
<1>6. PhaseInv'
  BY <1>1, <1>5, PhaseStep
<1>7. UNCHANGED <<store, delivered, home, written>>
  BY DEF memory
<1>8. DataInv'
  BY <1>1, <1>7 DEF EventsOK, DataInv
<1>9. EventsOK'
  BY <1>1, <1>2, <1>4, <1>7, <1>8, EventsKept
<1> QED
  BY <1>3, <1>6, <1>9 DEF HistoryInv, EventsOK

LEMMA IngestKeeps ==
  ASSUME HistoryInv, CaseInv, NEW c \in Cases, IngestDirect(c) \/ IngestByAgent(c)
  PROVE  HistoryInv'
<1>1. PlanInv /\ AtInv /\ EventsOK /\ PhaseInv /\ StatusInv /\ OrderInv
  BY HistoryParts DEF CaseInv
<1>2. AtStep(c, "ingest")
  BY DEF IngestDirect, IngestByAgent
<1>3. /\ \/ Write(EventOf(c), SampleOf[c[1]]) /\ (Pass(c) \/ Fail(c))
         \/ UNCHANGED <<memory, config>> /\ Fail(c)
  <2>1. CASE IngestDirect(c)
    BY <2>1 DEF IngestDirect, Call
  <2>2. CASE IngestByAgent(c)
    <3>1. c[1] \in Checkpoints /\ c = SetupOf(c[1]) /\ status[c] = "running"
      BY <1>1, <1>2, StepHere, CaseKinds DEF AtStep
    <3>2. PICK i \in 1..Len(Pending[c[1]]) : at[c] = Offset(c[1]) + i
      BY <1>1, <1>2, StepHere
    <3>3. NoLater(c[1])
      BY <1>1, <3>1, LaterWaits
    <3>4. ~Direct /\ PluginInv(c[1])
      BY <1>1, <2>2, <3>1 DEF IngestByAgent, PhaseInv
    <3>5. Past(c[1], Offset(c[1])) /\ Past(c[1], Offset(c[1]) - 1) /\ at[c] <= EndOf(c[1])
      <4> DEFINE k == c[1]
      <4>1. /\ i \in Nat /\ 1 <= i /\ i <= Len(Pending[k]) /\ Len(Pending[k]) \in Nat
            /\ Offset(k) \in Nat
        BY <1>1, <3>1, OffsetShape
      <4>2. CommitOffset(k) \in Nat /\ Offset(k) + i <= CommitOffset(k)
        BY <1>1, <3>1, <4>1, OffsetShape
      <4>3. WaitOffset(k) \in Nat /\ CommitOffset(k) <= WaitOffset(k)
        BY <1>1, <3>1, <4>1, <4>2, OffsetShape
      <4>4. EndOf(k) \in Nat /\ WaitOffset(k) <= EndOf(k)
        BY <1>1, <3>1, <4>1, <4>3, OffsetShape
      <4> QED
        BY <3>1, <3>2, <4>1, <4>2, <4>3, <4>4 DEF Past
    <3>6. config.capture /\ config.prefix = SampleOf[c[1]]
      BY <3>1, <3>3, <3>4, <3>5 DEF PluginInv
    <3> QED
      BY <2>2, <3>6 DEF IngestByAgent, Call
  <2> QED
    BY <2>1, <2>2
<1>4. CASE Write(EventOf(c), SampleOf[c[1]]) /\ (Pass(c) \/ Fail(c))
  <2>1. (Ahead(c) \/ Again(c) \/ Over(c)) /\ UNCHANGED plan
    BY <1>2, <1>4, CallMoves
  <2>2. EventsOK'
    BY <1>1, <1>2, <1>4, <2>1, EventsWritten
  <2>3. UNCHANGED config
    BY <1>4 DEF Write
  <2> QED
    BY <1>2, <2>1, <2>2, <2>3, EventStepKeeps
<1>5. CASE UNCHANGED <<memory, config>> /\ Fail(c)
  <2>1. (Again(c) \/ Over(c)) /\ UNCHANGED plan
    BY <1>2, <1>5, CallMoves
  <2> QED
    BY <1>2, <1>5, <2>1, NothingKeeps
<1> QED
  BY <1>3, <1>4, <1>5

LEMMA CommitKeeps ==
  ASSUME HistoryInv, CaseInv, NEW c \in Cases, Commit(c)
  PROVE  HistoryInv'
<1>1. PlanInv /\ AtInv /\ EventsOK /\ PhaseInv /\ StatusInv /\ OrderInv
  BY HistoryParts DEF CaseInv
<1>2. AtStep(c, "commit")
  BY DEF Commit
<1>3. CASE /\ store' = IF store[EventOf(c)] = "stored"
                       THEN [store EXCEPT ![EventOf(c)] = Accepted] ELSE store
           /\ UNCHANGED <<delivered, home, written, config>>
           /\ Pass(c) \/ Fail(c)
  <2>1. (Ahead(c) \/ Again(c) \/ Over(c)) /\ UNCHANGED plan
    BY <1>2, <1>3, CallMoves
  <2>2. EventsOK'
    BY <1>1, <1>2, <1>3, <2>1, EventsCommitted
  <2> QED
    BY <1>2, <1>3, <2>1, <2>2, EventStepKeeps
<1>4. CASE UNCHANGED <<memory, config>> /\ Fail(c)
  <2>1. (Again(c) \/ Over(c)) /\ UNCHANGED plan
    BY <1>2, <1>4, CallMoves
  <2> QED
    BY <1>2, <1>4, <2>1, NothingKeeps
<1> QED
  BY <1>3, <1>4 DEF Commit, Call

LEMMA WaitKeeps ==
  ASSUME HistoryInv, CaseInv, NEW c \in Cases, WaitReady(c)
  PROVE  HistoryInv'
<1>1. PlanInv /\ AtInv /\ EventsOK /\ PhaseInv /\ StatusInv /\ OrderInv
  BY HistoryParts DEF CaseInv
<1>2. AtStep(c, "wait") /\ UNCHANGED <<memory, config>>
  BY DEF WaitReady
<1>3. CASE store[EventOf(c)] \in {"ready", "absent"} /\ Pass(c)
  <2>1. Ahead(c) /\ UNCHANGED plan
    BY <1>2, <1>3, CallMoves
  <2>2. UNCHANGED <<store, delivered, home, written, config>>
    BY <1>2 DEF memory
  <2>3. EventsOK'
    BY <1>1, <1>2, <1>3, <2>1, <2>2, EventsAwaited
  <2> QED
    BY <1>2, <2>1, <2>2, <2>3, EventStepKeeps
<1>4. CASE Fail(c)
  <2>1. (Again(c) \/ Over(c)) /\ UNCHANGED plan
    BY <1>2, <1>4, CallMoves
  <2> QED
    BY <1>2, <2>1, NothingKeeps
<1> QED
  BY <1>3, <1>4 DEF WaitReady

LEMMA PluginKeeps ==
  ASSUME HistoryInv, CaseInv, NEW c \in Cases,
         Validate(c) \/ Prepare(c) \/ IngestPhase(c) \/ QaPhase(c) \/ Recall(c)
  PROVE  HistoryInv'
<1>1. config \in [capture : BOOLEAN, recall : BOOLEAN, prefix : Samples \cup {NoSample}]
      /\ SampleOf[c[1]] \in Samples
  BY CaseKinds, CheckpointAssumption DEF HistoryInv, DataInv
<1>2. ASSUME NEW op, AtStep(c, op), op \notin {"ingest", "commit", "wait"},
             UNCHANGED memory, Pass(c) \/ Fail(c),
             config' \in [capture : BOOLEAN, recall : BOOLEAN, prefix : Samples \cup {NoSample}],
             Plugged(c, op)
      PROVE  HistoryInv'
  <2>1. (Ahead(c) \/ Again(c) \/ Over(c)) /\ UNCHANGED plan
    BY <1>2, CallMoves
  <2> QED
    BY <1>2, <2>1, OtherStepKeeps
<1>3. ASSUME NEW op, AtStep(c, op), Fail(c) PROVE ~Ahead(c)
  <2>1. at[c] \in Nat /\ at \in [Cases -> Nat] /\ at' = at
    BY <1>3 DEF HistoryInv, AtInv, Fail
  <2> QED
    BY <2>1 DEF Ahead
<1>4. CASE Validate(c)
  <2>1. Plugged(c, "validate")
    BY <1>4 DEF Validate, Plugged
  <2> QED
    BY <1>1, <1>2, <1>4, <2>1 DEF Validate
<1>5. CASE Recall(c)
  <2>1. Plugged(c, "recall")
    BY <1>5 DEF Recall, Plugged
  <2> QED
    BY <1>1, <1>2, <1>5, <2>1 DEF Recall
<1>6. CASE Prepare(c)
  <2>1. AtStep(c, "prepare") /\ UNCHANGED memory /\ (Pass(c) \/ Fail(c))
    BY <1>6 DEF Prepare, Call
  <2>2. \/ config' = [config EXCEPT !.prefix = SampleOf[c[1]]]
        \/ config' = config /\ Fail(c)
    BY <1>6 DEF Prepare, Call
  <2>3. Plugged(c, "prepare")
    BY <1>1, <1>3, <2>1, <2>2 DEF Plugged
  <2>4. config' \in [capture : BOOLEAN, recall : BOOLEAN, prefix : Samples \cup {NoSample}]
    BY <1>1, <2>2
  <2> QED
    BY <1>2, <2>1, <2>3, <2>4
<1>7. CASE IngestPhase(c)
  <2>1. AtStep(c, "ingest_phase") /\ UNCHANGED memory /\ (Pass(c) \/ Fail(c))
    BY <1>7 DEF IngestPhase, Call
  <2>2. \/ config' = [config EXCEPT !.capture = TRUE]
        \/ config' = [config EXCEPT !.capture = TRUE, !.recall = FALSE]
        \/ config' = config /\ Fail(c)
    BY <1>7 DEF IngestPhase, Call
  <2>3. Plugged(c, "ingest_phase")
    BY <1>1, <1>3, <2>1, <2>2 DEF Plugged
  <2>4. config' \in [capture : BOOLEAN, recall : BOOLEAN, prefix : Samples \cup {NoSample}]
    BY <1>1, <2>2
  <2> QED
    BY <1>2, <2>1, <2>3, <2>4
<1>8. CASE QaPhase(c)
  <2>1. AtStep(c, "qa_phase") /\ UNCHANGED memory /\ (Pass(c) \/ Fail(c))
    BY <1>8 DEF QaPhase, Call
  <2>2. \/ config' = [config EXCEPT !.capture = FALSE]
        \/ config' = [config EXCEPT !.capture = FALSE, !.recall = TRUE]
        \/ config' = config /\ Fail(c)
    BY <1>8 DEF QaPhase, Call, ReadOnly
  <2>3. Plugged(c, "qa_phase")
    BY <1>1, <1>3, <2>1, <2>2 DEF Plugged
  <2>4. config' \in [capture : BOOLEAN, recall : BOOLEAN, prefix : Samples \cup {NoSample}]
    BY <1>1, <2>2
  <2> QED
    BY <1>2, <2>1, <2>3, <2>4
<1> QED
  BY <1>4, <1>5, <1>6, <1>7, <1>8

\* A question is answered when its setup has passed, so nothing is captured.
LEMMA AnswerKeeps ==
  ASSUME HistoryInv, CaseInv, NEW c \in Cases, Answer(c)
  PROVE  HistoryInv'
<1>1. PlanInv /\ AtInv /\ EventsOK /\ PhaseInv /\ StatusInv /\ OrderInv /\ ChainInv
  BY HistoryParts DEF CaseInv
<1>2. /\ AtStep(c, "answer") /\ status[c] = "running" /\ UNCHANGED config
      /\ Pass(c) \/ Fail(c)
  BY DEF Answer, Call, AtStep
<1>3. c \in Asked /\ c[2] # Setup /\ c[1] \in Checkpoints
  <2>1. c # SetupOf(c[1]) \/ c \in Asked
    <3>1. ASSUME c = SetupOf(c[1]) PROVE FALSE
      <4>1. at[c] \in DOMAIN SetupSteps(c[1]) /\ SetupSteps(c[1])[at[c]].op = "answer"
        BY <1>2, <3>1, SetupShape, CaseKinds DEF AtStep
      <4> QED
        BY <1>1, <4>1, StepsOf, StepsAt, CaseKinds
    <3> QED
      BY <3>1
  <2> QED
    BY <2>1, CaseKinds, CheckpointAssumption DEF Asked
<1>4. Direct \/ ~config.capture
  <2> SUFFICES ASSUME ~Direct PROVE ~config.capture
    OBVIOUS
  <2> DEFINE s == SetupOf(c[1])
  <2>1. s \in Before(c) /\ SameSample(c[1], s[1])
    <3>1. s \in Cases /\ s[1] = c[1] /\ s[2] = Setup
      BY <1>3, SetupShape
    <3> QED
      BY <1>3, <3>1 DEF Before, SameSample
  <2>2. status[s] = "passed"
    BY <1>1, <1>2, <2>1 DEF ChainInv
  <2>3. EndOf(c[1]) + 1 \in Int
    BY <1>1, <1>3, OffsetShape
  <2>4. Past(c[1], EndOf(c[1]) + 1)
    BY <1>1, <1>3, <2>2, <2>3, PassedIsPast
  <2>5. NoLater(c[1])
    BY <1>1, <1>2, LaterWaits
  <2> QED
    BY <1>1, <1>3, <2>4, <2>5 DEF PhaseInv, PluginInv
<1>5. UNCHANGED memory
  BY <1>4 DEF Answer, Call, memory
<1>6. (Ahead(c) \/ Again(c) \/ Over(c)) /\ UNCHANGED plan
  BY <1>2, CallMoves
<1>7. Plugged(c, "answer")
  BY <1>2 DEF Plugged
<1>8. config' \in [capture : BOOLEAN, recall : BOOLEAN, prefix : Samples \cup {NoSample}]
  BY <1>2 DEF HistoryInv, DataInv
<1> QED
  BY <1>2, <1>5, <1>6, <1>7, <1>8, OtherStepKeeps

\* A case is started, skipped or finished.
LEMMA PhaseOfStarted ==
  ASSUME HistoryInv, CaseInv, ~Direct, UNCHANGED <<plan, config>>, NEW k \in Checkpoints,
         Start(SetupOf(k)), NoLater(k)'
  PROVE  Offset(k) - 1 < 1 => config.prefix = SampleOf[k]
<1> DEFINE s == SetupOf(k)
<1>1. PlanInv /\ AtInv /\ PhaseInv /\ StatusInv /\ OrderInv
  BY HistoryParts DEF CaseInv
<1>2. s \in Cases /\ s[1] = k /\ s[2] = Setup /\ k \in Int /\ 1 <= k /\ k <= NumCheckpoints
      /\ NumCheckpoints \in Int
  BY SetupShape, CheckpointAssumption DEF Checkpoints
<1>3. status[s] = "waiting" /\ Unmet(s) = {} /\ at' = [at EXCEPT ![s] = 1]
  BY DEF Start, MayStart
<1>4. SUFFICES ASSUME Offset(k) - 1 < 1 PROVE config.prefix = SampleOf[k]
  OBVIOUS
<1>5. ~FirstOfSample(k)
  BY <1>1, <1>4, OffsetShape
<1> DEFINE j == k - 1
<1>6. j \in Checkpoints /\ SampleOf[j] = SampleOf[k] /\ j < k /\ j \in Int
  BY <1>2, <1>5 DEF FirstOfSample, Checkpoints
<1>7. SetupOf(j) \in Before(s) /\ SameSample(s[1], SetupOf(j)[1])
  BY <1>2, <1>6, SetupShape DEF Before, SameSample
<1>8. status[SetupOf(j)] = "passed"
  BY <1>2, <1>3, <1>7, PastOfStarted
<1>9. NoLater(j)
  <2> SUFFICES ASSUME NEW m \in Checkpoints, j < m PROVE at[SetupOf(m)] = 0
    BY DEF NoLater
  <2>1. m \in Int
    BY CheckpointAssumption DEF Checkpoints
  <2>2. CASE m = k
    BY <1>1, <1>2, <1>3, <2>2 DEF AtInv
  <2>3. CASE m # k
    <3>1. k < m
      BY <1>2, <2>1, <2>3
    <3>2. at'[SetupOf(m)] = 0
      BY <3>1 DEF NoLater, SetupOf
    <3>3. SetupOf(m) # s /\ SetupOf(m) \in Cases
      BY <1>2, <2>3, SetupShape
    <3> QED
      BY <1>1, <1>2, <1>3, <3>2, <3>3 DEF AtInv
  <2> QED
    BY <2>2, <2>3
<1>10. Offset(j) - 1 \in Int /\ Offset(j) - 1 <= EndOf(j) + 1
  <2>1. Len(Pending[j]) \in Nat /\ Offset(j) \in Nat
    BY <1>1, <1>6, OffsetShape
  <2>2. CommitOffset(j) \in Nat /\ Offset(j) <= CommitOffset(j)
    BY <1>1, <1>6, <2>1, OffsetShape
  <2>3. WaitOffset(j) \in Nat /\ CommitOffset(j) <= WaitOffset(j)
    BY <1>1, <1>6, <2>1, <2>2, OffsetShape
  <2>4. EndOf(j) \in Nat /\ WaitOffset(j) <= EndOf(j)
    BY <1>1, <1>6, <2>1, <2>3, OffsetShape
  <2> QED
    BY <2>1, <2>2, <2>3, <2>4
<1>11. Past(j, Offset(j) - 1)
  BY <1>1, <1>6, <1>8, <1>10, PassedIsPast
<1> QED
  BY <1>1, <1>6, <1>9, <1>11 DEF PhaseInv, PluginInv

LEMMA ScheduleKeeps ==
  ASSUME HistoryInv, CaseInv, NEW c \in Cases, Start(c) \/ Skip(c) \/ Finish(c)
  PROVE  HistoryInv'
<1>1. PlanInv /\ AtInv /\ EventsOK /\ PhaseInv /\ StatusInv /\ OrderInv
  BY HistoryParts DEF CaseInv
<1>2. /\ UNCHANGED <<plan, config, store, delivered, home, written>>
      /\ CaseMoves(c)
  BY DEF Start, Skip, Finish, MayStart, memory, CaseMoves
<1>3. ~Ahead(c)
  <2>1. at \in [Cases -> Nat] /\ status \in [Cases -> {"waiting", "running", "passed", "failed"}]
    BY <1>1 DEF AtInv, StatusInv
  <2>2. status'[c] # status[c]
    BY <2>1 DEF Start, Skip, Finish, MayStart
  <2> QED
    BY <2>2 DEF Ahead
<1>4. PlanInv' /\ AtInv'
  BY <1>1, <1>2, PlanStays, AtKeeps
<1>5. DataInv'
  BY <1>1, <1>2 DEF EventsOK, DataInv
<1>6. EventsOK'
  BY <1>1, <1>2, <1>3, <1>5, EventsKept
<1>7. PhaseInv'
  <2> SUFFICES ASSUME ~Direct', NEW k \in Checkpoints PROVE PluginInv(k)'
    BY DEF PhaseInv
  <2> DEFINE s == SetupOf(k)
  <2>1. ~Direct /\ PluginInv(k) /\ Offset(k)' = Offset(k) /\ EndOf(k)' = EndOf(k)
    BY <1>1, <1>2, PlanStays DEF PhaseInv
  <2>2. Offset(k) \in Nat /\ 1 <= Offset(k) /\ EndOf(k) \in Nat
    BY <1>1, <2>1, OffsetShape
  <2>3. NoLater(k)' => NoLater(k)
    <3> SUFFICES ASSUME NoLater(k)', NEW j \in Checkpoints, k < j PROVE at[SetupOf(j)] = 0
      BY DEF NoLater
    <3>1. at'[SetupOf(j)] = 0
      BY DEF NoLater, SetupOf
    <3> QED
      BY <1>1, <1>2, <3>1, SetupMoves
  <2>4. s \in Cases /\ at \in [Cases -> Nat]
        /\ status \in [Cases -> {"waiting", "running", "passed", "failed"}]
    BY <1>1, SetupShape DEF AtInv, StatusInv
  <2>5. CASE c # s
    <3>1. at'[s] = at[s] /\ status'[s] = status[s]
      BY <2>4, <2>5 DEF Start, Skip, Finish
    <3> QED
      BY <1>2, <2>1, <2>3, <3>1 DEF PluginInv, Past, SetupOf
  <2>6. CASE c = s /\ Skip(c)
    <3>1. status'[s] = "failed"
      BY <2>4, <2>6 DEF Skip
    <3> QED
      BY <3>1 DEF PluginInv, Past, SetupOf
  <2>7. CASE c = s /\ Finish(c)
    <3>1. at'[s] = at[s] /\ status'[s] = "passed" /\ status[s] = "running"
      BY <2>4, <2>7 DEF Finish
    <3> QED
      BY <1>2, <2>1, <2>3, <3>1 DEF PluginInv, Past, SetupOf
  <2>8. CASE c = s /\ Start(c)
    <3>1. at'[s] = 1 /\ status'[s] = "running"
      BY <2>4, <2>8 DEF Start
    <3>2. NoLater(k)' /\ Offset(k) - 1 < 1 => config'.prefix = SampleOf[k]
      BY <1>2, <2>1, <2>8, PhaseOfStarted
    <3>3. ~(Offset(k) < 1) /\ ~(EndOf(k) + 1 < 1)
      BY <2>2
    <3> QED
      BY <1>2, <2>1, <3>1, <3>2, <3>3 DEF PluginInv, Past, SetupOf
  <2> QED
    BY <2>5, <2>6, <2>7, <2>8
<1> QED
  BY <1>4, <1>6, <1>7 DEF HistoryInv, EventsOK

\* The backend goes on by itself.
LEMMA IndexKeeps ==
  ASSUME HistoryInv, NEW e \in Events, Index(e)
  PROVE  HistoryInv'
<1>1. /\ UNCHANGED <<plan, status, at, attempt, delivered, home, written, config>>
      /\ store[e] = "indexing"
      /\ store' = [store EXCEPT ![e] = "ready"] \/ store' = [store EXCEPT ![e] = "failed"]
  BY DEF Index, run
<1>2. PlanInv' /\ AtInv'
  BY <1>1, PlanStays DEF HistoryInv, AtInv
<1>3. DataInv'
  BY <1>1 DEF HistoryInv, DataInv
<1>4. /\ store'[e] \in {"ready", "failed"}
      /\ \A x \in Events : x # e => store'[x] = store[x]
  BY <1>1 DEF HistoryInv, DataInv
<1>5. BackendInv'
  BY <1>1, <1>4 DEF HistoryInv, BackendInv
<1>6. EventsInv'
  <2> SUFFICES ASSUME NEW k \in Checkpoints, NEW i \in 1..Len(Pending[k]) PROVE EventInv(k, i)'
    BY DEF EventsInv
  <2>1. EventInv(k, i) /\ Pending[k][i] \in Events
    BY PendingShape DEF HistoryInv, EventsInv
  <2>2. /\ Offset(k)' = Offset(k) /\ CommitOffset(k)' = CommitOffset(k)
        /\ WaitOffset(k)' = WaitOffset(k) /\ Single' = Single
    BY <1>1, PlanStays DEF Single
  <2>3. /\ store[Pending[k][i]] # "stored" => store'[Pending[k][i]] # "stored"
        /\ store[Pending[k][i]] = "ready" => store'[Pending[k][i]] = "ready"
    BY <1>1, <1>4, <2>1
  <2> QED
    BY <1>1, <2>1, <2>2, <2>3 DEF EventInv, Past, SetupOf
<1>7. PhaseInv'
  BY <1>1, PlanStays DEF HistoryInv, PhaseInv, PluginInv, NoLater, Past, SetupOf
<1> QED
  BY <1>2, <1>3, <1>5, <1>6, <1>7 DEF HistoryInv

LEMMA IdleKeeps ==
  ASSUME HistoryInv, UNCHANGED <<plan, run, memory, config>>
  PROVE  HistoryInv'
<1>1. UNCHANGED <<status, at, attempt, store, delivered, home, written, config>>
  BY DEF run, memory
<1>2. PlanInv' /\ AtInv' /\ DataInv' /\ BackendInv'
  BY <1>1, PlanStays DEF HistoryInv, AtInv, DataInv, BackendInv
<1>3. EventsInv'
  BY <1>1, PlanStays DEF HistoryInv, EventsInv, EventInv, Past, SetupOf, Single
<1>4. PhaseInv'
  BY <1>1, PlanStays DEF HistoryInv, PhaseInv, PluginInv, NoLater, Past, SetupOf
<1> QED
  BY <1>2, <1>3, <1>4 DEF HistoryInv

LEMMA InitHistory == Init => HistoryInv
<1> SUFFICES ASSUME Init PROVE HistoryInv
  OBVIOUS
<1>1. PlanInv /\ AtInv
  BY LimitAssumption DEF Init, PlanInv, AtInv
<1>2. DataInv /\ BackendInv
  BY DEF Init, DataInv, BackendInv
<1>3. ASSUME NEW k \in Checkpoints PROVE at[SetupOf(k)] = 0 /\ status[SetupOf(k)] = "waiting"
  BY <1>3, SetupShape DEF Init
<1>4. EventsInv
  <2> SUFFICES ASSUME NEW k \in Checkpoints, NEW i \in 1..Len(Pending[k]) PROVE EventInv(k, i)
    BY DEF EventsInv
  <2>1. delivered[Pending[k][i]] = 0
    BY PendingShape DEF Init
  <2> QED
    BY <1>3, <2>1 DEF EventInv, Past
<1>5. PhaseInv
  BY <1>3 DEF PhaseInv, PluginInv, Past
<1> QED
  BY <1>1, <1>2, <1>4, <1>5 DEF HistoryInv

LEMMA HistoryKeeps ==
  ASSUME HistoryInv, CaseInv, [Next]_vars
  PROVE  HistoryInv'
<1>1. ASSUME NEW c \in Cases, Execute(c) PROVE HistoryInv'
  <2>1. CASE Operate(c)
    BY <2>1, IngestKeeps, CommitKeeps, WaitKeeps, PluginKeeps, AnswerKeeps DEF Operate
  <2> QED
    BY <1>1, <2>1, ScheduleKeeps DEF Execute
<1>2. ASSUME NEW e \in Events, Index(e) PROVE HistoryInv'
  BY <1>2, IndexKeeps
<1>3. CASE Evaluate \/ AllDone \/ UNCHANGED vars
  BY <1>3, IdleKeeps DEF Evaluate, AllDone, vars
<1> QED
  BY <1>1, <1>2, <1>3 DEF Next

-----------------------------------------------------------------------------
(* The types of what is left: labels and the summary *)

KindInv ==
    /\ kind \in [Cases -> {"none"} \cup Labels]
    /\ report \in {NoReport} \cup [minimum : Thresholds, valid : BOOLEAN,
                                   passed : Nat, failed : Nat, silent : Nat]

LEMMA KindKeeps ==
  ASSUME KindInv, [Next]_vars
  PROVE  KindInv'
<1>1. ASSUME NEW c \in Cases, Execute(c)
      PROVE  UNCHANGED report /\ (kind' = kind \/ \E l \in Labels : kind' = [kind EXCEPT ![c] = l])
  <2>1. CASE Operate(c)
    <3>1. Pass(c) \/ Fail(c)
      <4>1. CASE IngestDirect(c) \/ IngestByAgent(c) \/ Commit(c) \/ WaitReady(c)
        BY <4>1 DEF IngestDirect, IngestByAgent, Commit, WaitReady, Call
      <4>2. CASE Validate(c) \/ Prepare(c) \/ IngestPhase(c) \/ QaPhase(c)
        BY <4>2 DEF Validate, Prepare, IngestPhase, QaPhase, Call
      <4>3. CASE Recall(c) \/ Answer(c)
        BY <4>3 DEF Recall, Answer, Call
      <4> QED
        BY <2>1, <4>1, <4>2, <4>3 DEF Operate
    <3> QED
      BY <3>1, LabelShape DEF Pass, Fail
  <2>2. CASE Start(c) \/ Skip(c) \/ Finish(c)
    BY <2>2, LabelShape DEF Start, Skip, Finish
  <2> QED
    BY <1>1, <2>1, <2>2 DEF Execute
<1>2. CASE Evaluate
  <2>1. kind' = kind
    BY <1>2 DEF Evaluate, run
  <2>2. PICK minimum \in Thresholds, reply \in [Judged -> Replies] :
          LET Are(grade) == {c \in Judged : Grade(reply[c]) = grade} IN
          report' = [minimum |-> minimum,
                     valid   |-> Acceptable(Are("passed") \cup Are("failed"), minimum),
                     passed  |-> Cardinality(Are("passed")),
                     failed  |-> Cardinality(Are("failed")),
                     silent  |-> Cardinality({c \in Judged : reply[c] = "none"})]
    BY <1>2 DEF Evaluate
  <2> DEFINE P == {c \in Judged : Grade(reply[c]) = "passed"}
             F == {c \in Judged : Grade(reply[c]) = "failed"}
             N == {c \in Judged : reply[c] = "none"}
             ok == Acceptable(P \cup F, minimum)
  <2>3. ok \in BOOLEAN
    BY DEF Acceptable
  <2>4. P \subseteq Judged /\ F \subseteq Judged /\ N \subseteq Judged
    OBVIOUS
  <2> HIDE DEF ok
  <2>5. report' = [minimum |-> minimum, valid |-> ok, passed |-> Cardinality(P),
                   failed |-> Cardinality(F), silent |-> Cardinality(N)]
    BY <2>2 DEF ok
  <2> HIDE DEF P, F, N
  <2>6. Cardinality(P) \in Nat /\ Cardinality(F) \in Nat /\ Cardinality(N) \in Nat
    BY <2>4, AskedIsFinite, FS_Subset, FS_CardinalityType
  <2> QED
    BY <2>1, <2>3, <2>5, <2>6 DEF KindInv
<1>3. ASSUME NEW e \in Events, Index(e) PROVE UNCHANGED <<kind, report>>
  BY <1>3 DEF Index, run
<1>4. AllDone \/ UNCHANGED vars => UNCHANGED <<kind, report>>
  BY DEF AllDone, vars, run
<1>5. ASSUME UNCHANGED report,
             kind' = kind \/ \E c \in Cases, l \in Labels : kind' = [kind EXCEPT ![c] = l]
      PROVE  KindInv'
  <2> DEFINE Kinds   == {"none"} \cup Labels
             Reports == {NoReport} \cup [minimum : Thresholds, valid : BOOLEAN,
                                        passed : Nat, failed : Nat, silent : Nat]
  <2>1. kind \in [Cases -> Kinds] /\ report \in Reports
    BY DEF KindInv
  <2>2. Labels \subseteq Kinds
    OBVIOUS
  <2>3. KindInv' <=> kind' \in [Cases -> Kinds] /\ report' \in Reports
    BY DEF KindInv
  <2> HIDE DEF Kinds, Reports
  <2>4. kind' \in [Cases -> Kinds]
    BY <1>5, <2>1, <2>2
  <2>5. report' \in Reports
    BY <1>5, <2>1
  <2> QED
    BY <2>3, <2>4, <2>5
<1> QED
  <2>1. ASSUME NEW c \in Cases, Execute(c) PROVE KindInv'
    BY <1>1, <1>5, <2>1
  <2>2. ASSUME NEW e \in Events, Index(e) PROVE KindInv'
    BY <1>3, <1>5, <2>2
  <2>3. CASE AllDone \/ UNCHANGED vars
    BY <1>4, <1>5, <2>3
  <2> QED
    BY <1>2, <2>1, <2>2, <2>3 DEF Next

-----------------------------------------------------------------------------
(* The theorems *)

\* At every moment the memory and the plugin are what the positions of the setups
\* call for (compose_run_plan, _execute_case, run_lifecycle.py).
THEOREM HistoryInvariance == Spec => [](CaseInv /\ ReportInv /\ HistoryInv)
<1>1. HistoryInv /\ CaseInv /\ [Next]_vars => HistoryInv'
  BY HistoryKeeps
<1> QED
  BY InitHistory, CaseInvariance, <1>1, PTL DEF Spec

\* While a question is answered the memory of its sample is exactly the history
\* before it, searchable and in its own namespace, for any plan, whatever failed
\* or was tried again (_compose_backend_direct, _compose_agent_plugin).
THEOREM HistoryIsSeen == Spec => []AnswersSeeTheHistory
<1>1. CaseInv /\ HistoryInv => AnswersSeeTheHistory
  <2> SUFFICES ASSUME CaseInv, HistoryInv, NEW c \in Asked, status[c] = "running"
               PROVE  EventsUpTo(c[1])
                        = {e \in Events : delivered[e] > 0 /\ home[e] = SampleOf[c[1]]
                                          /\ store[e] = "ready"}
    BY DEF AnswersSeeTheHistory
  <2> DEFINE k == c[1]
  <2>1. c \in Cases /\ c[2] # Setup /\ k \in Checkpoints /\ k \in Int /\ 1 <= k
    BY CheckpointAssumption DEF Cases, Asked, Checkpoints
  <2>2. PlanInv /\ AtInv /\ DataInv /\ BackendInv /\ EventsInv /\ OrderInv /\ ChainInv /\ StatusInv
    BY DEF HistoryInv, CaseInv
  <2>3. ASSUME NEW j \in Checkpoints, j <= k, SampleOf[j] = SampleOf[k],
               NEW i \in 1..Len(Pending[j])
        PROVE  LET e == Pending[j][i] IN
               e \in Events /\ delivered[e] > 0 /\ home[e] = SampleOf[k] /\ store[e] = "ready"
    <3> DEFINE e == Pending[j][i]
    <3>0. j \in Int
      BY CheckpointAssumption DEF Checkpoints
    <3>1. SetupOf(j) \in Before(c) /\ SameSample(c[1], SetupOf(j)[1])
      <4>1. SetupOf(j) \in Cases /\ SetupOf(j)[1] = j /\ SetupOf(j)[2] = Setup
        BY SetupShape
      <4>2. j < k \/ j = k
        BY <2>1, <2>3, <3>0
      <4> QED
        BY <2>1, <2>3, <4>1, <4>2 DEF Before, SameSample
    <3>2. status[SetupOf(j)] = "passed"
      BY <2>1, <2>2, <3>1 DEF ChainInv
    <3>3. /\ Past(j, Offset(j) + i)
          /\ plan.commit => Past(j, CommitOffset(j) + i)
          /\ plan.async => Past(j, WaitOffset(j) + i)
      <4>1. /\ i \in Nat /\ i <= Len(Pending[j]) /\ Len(Pending[j]) \in Nat /\ Offset(j) \in Nat
            /\ plan.commit \in BOOLEAN /\ plan.async \in BOOLEAN
        BY <2>2, OffsetShape
      <4>2. CommitOffset(j) \in Nat /\ Offset(j) + i <= CommitOffset(j)
        BY <2>2, <4>1, OffsetShape
      <4>3. /\ WaitOffset(j) \in Nat /\ CommitOffset(j) <= WaitOffset(j)
            /\ plan.commit => CommitOffset(j) + i <= WaitOffset(j)
        BY <2>2, <4>1, <4>2, OffsetShape
      <4>4. /\ EndOf(j) \in Nat /\ WaitOffset(j) <= EndOf(j)
            /\ plan.async => WaitOffset(j) + i <= EndOf(j)
        BY <2>2, <4>1, <4>3, OffsetShape
      <4>5. Offset(j) + i <= EndOf(j) /\ (plan.commit => CommitOffset(j) + i <= EndOf(j))
        BY <4>1, <4>2, <4>3, <4>4
      <4>6. ASSUME NEW p \in Int, p <= EndOf(j) PROVE Past(j, p)
        <5>1. p <= IF Direct THEN EndOf(j) ELSE EndOf(j) + 1
          BY <4>4, <4>6
        <5> QED
          BY <2>2, <3>2, <5>1, PassedIsPast
      <4> QED
        BY <4>1, <4>2, <4>3, <4>4, <4>5, <4>6
    <3>4. e \in Events
      BY PendingShape
    <3>5. /\ delivered[e] > 0 /\ home[e] = SampleOf[j]
          /\ plan.commit => store[e] # "stored"
          /\ plan.async => store[e] = "ready"
      BY <2>2, <3>3 DEF EventsInv, EventInv
    <3>6. store[e] # "absent"
      <4>1. delivered[e] # 0
        BY <2>2, <3>4, <3>5 DEF DataInv
      <4> QED
        BY <2>2, <3>4, <4>1 DEF BackendInv
    <3>7. store[e] \in {"absent", "stored", "indexing", "ready", "failed"}
          /\ (store[e] = "stored" => plan.commit)
          /\ (store[e] \in {"indexing", "failed"} => plan.async)
      BY <2>2, <3>4 DEF DataInv, BackendInv
    <3> QED
      BY <2>3, <3>4, <3>5, <3>6, <3>7
  <2>4. ASSUME NEW e \in Events, delivered[e] > 0, home[e] = SampleOf[k]
        PROVE  \E j \in Checkpoints : \E i \in 1..Len(Pending[j]) :
                   j <= k /\ SampleOf[j] = SampleOf[k] /\ e = Pending[j][i]
    <3>0. PICK j \in Checkpoints : \E i \in 1..Len(Pending[j]) : e = Pending[j][i]
      BY <2>2, <2>4 DEF BackendInv
    <3>1. PICK i \in 1..Len(Pending[j]) : e = Pending[j][i]
      BY <3>0
    <3>2. EventInv(j, i)
      BY <2>2 DEF EventsInv
    <3>3. SampleOf[j] = SampleOf[k]
      BY <2>4, <3>1, <3>2 DEF EventInv
    <3>4. j <= k
      <4> SUFFICES ASSUME ~(j <= k) PROVE FALSE
        OBVIOUS
      <4>1. k < j /\ j \in Int
        BY <2>1, CheckpointAssumption DEF Checkpoints
      <4>2. at[SetupOf(j)] = 0
        BY <2>1, <2>2, <4>1, LaterWaits DEF NoLater
      <4>3. at[SetupOf(j)] < Offset(j) + i
        BY <2>2, <4>2, OffsetShape
      <4>4. delivered[e] = 0
        BY <3>1, <3>2, <4>3 DEF EventInv
      <4> QED
        BY <2>4, <4>4
    <3> QED
      BY <3>1, <3>3, <3>4
  <2>5. \A j \in Checkpoints : DOMAIN Pending[j] = 1..Len(Pending[j])
    BY PendingShape
  <2>6. \A j : j \in 1..k => j \in Checkpoints /\ j <= k
    BY <2>1, CheckpointAssumption DEF Checkpoints
  <2>7. \A j \in Checkpoints : j <= k => j \in 1..k
    BY <2>1, CheckpointAssumption DEF Checkpoints
  <2>8. ASSUME NEW e
        PROVE  e \in EventsUpTo(k) <=>
               \E j \in Checkpoints : \E i \in 1..Len(Pending[j]) :
                   j <= k /\ SampleOf[j] = SampleOf[k] /\ e = Pending[j][i]
    <3>1. e \in EventsUpTo(k) <=>
          \E j \in {i \in 1..k : SampleOf[i] = SampleOf[k]} :
              \E i \in DOMAIN Pending[j] : e = Pending[j][i]
      BY DEF EventsUpTo, SameSample
    <3> QED
      BY <2>5, <2>6, <2>7, <3>1
  <2> QED
    BY <2>3, <2>4, <2>8
<1> QED
  BY HistoryInvariance, <1>1, PTL

\* No question leaves a trace in the memory, and no event is written to it twice:
\* with a direct backend because its ingest is tried once, with a plugin when
\* retries are switched off (_execute_case).
THEOREM MemoryIsThePlans == Spec => []MemoryInv
<1>1. CaseInv /\ HistoryInv /\ KindInv => MemoryInv
  <2> SUFFICES ASSUME CaseInv, HistoryInv, KindInv PROVE MemoryInv
    OBVIOUS
  <2>1. TypeOK
    BY DEF TypeOK, CaseInv, StatusInv, HistoryInv, PlanInv, AtInv, DataInv, KindInv
  <2>2. QaLeavesNoTrace
    BY DEF QaLeavesNoTrace, HistoryInv, DataInv
  <2>3. IngestedOnce
    <3> SUFFICES ASSUME Single, NEW e \in Events PROVE delivered[e] <= 1
      BY DEF IngestedOnce, Single
    <3>1. delivered[e] \in Nat
      BY DEF HistoryInv, DataInv
    <3>2. CASE delivered[e] > 0
      <4>0. PICK k \in Checkpoints : \E i \in 1..Len(Pending[k]) : e = Pending[k][i]
        BY <3>2 DEF HistoryInv, BackendInv
      <4>1. PICK i \in 1..Len(Pending[k]) : e = Pending[k][i]
        BY <4>0
      <4> QED
        BY <4>1 DEF HistoryInv, EventsInv, EventInv
    <3> QED
      BY <3>1, <3>2
  <2> QED
    BY <2>1, <2>2, <2>3 DEF MemoryInv
<1>2. Init => KindInv
  BY DEF Init, KindInv
<1>3. KindInv /\ [Next]_vars => KindInv'
  BY KindKeeps
<1> QED
  BY HistoryInvariance, <1>1, <1>2, <1>3, PTL DEF Spec

=============================================================================
