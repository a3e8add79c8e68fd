--------------------------- MODULE LocomoRunnerProofs ---------------------------
(***************************************************************************)
(* Machine-checked proofs about the stand-alone LoCoMo runner, for any     *)
(* data, settings, workers, attempts and windows, and any number of        *)
(* failures and kills: what its files say is true, its answers rest on the *)
(* whole history, and its report counts every row.                         *)
(***************************************************************************)
EXTENDS LocomoRunner, FiniteSetTheorems, SequenceTheorems, TLAPS

Isolated == UsesOpenViking /\ cfg.policy = "isolated"
Later == {"reindex", "qa", "judge", "judging", "stats"}
Judged == {"judge", "judging", "stats"}

\* TypeOK, one variable after the other.
DiskTypes ==
    /\ cfg \in Configs /\ lock \in BOOLEAN /\ record \in [Sessions -> Marks]
    /\ csv \in [Questions -> Seq(Grades)] /\ meta \in [rows : Int, graded : Int]
    /\ reindex \in {"none", "ok", "failed"}

IngestTypes ==
    /\ pc \in {"off", "health", "ingest", "accept", "saving", "reindex", "qa", "judge",
               "judging", "stats"}
    /\ next \in 1..NumSessions + 1 /\ tries \in 0..Tries - 1
    /\ marked \in [Sessions -> Marks] /\ pending \in Seq(Sessions)
    /\ wait \in {"task", "latest"}

AnswerTypes ==
    /\ work \in [Questions -> WorkStates] /\ sample \in Nat \ {0}
    /\ held \in [Questions -> Seq(Grades)] /\ unsaved \subseteq Questions

ServerTypes ==
    /\ delivered \subseteq Sessions /\ extracted \subseteq Sessions /\ indexed \subseteq Sessions
    /\ task \in [Sessions -> TaskStates]
    /\ newest \in [Sessions -> {"none", "ok", "blank"}]
    /\ logged \in BOOLEAN /\ heard \in BOOLEAN

CountTypes ==
    /\ faults \in Nat /\ faults <= MaxTrouble /\ kills \in Nat /\ kills <= MaxTrouble
    /\ resumed \in BOOLEAN /\ gaveUp \subseteq Sessions

Types == DiskTypes /\ IngestTypes /\ AnswerTypes /\ ServerTypes /\ CountTypes

\* The backend has extracted what it reports as completed.
ServerInv ==
    /\ \A s \in Sessions : task[s] \in {"ok", "blank"} => s \in extracted
    /\ cfg.policy = "isolated" => \A s \in Sessions : newest[s] # "none" => s \in extracted

\* Marks that are true, in the record and in memory.
Truthful(marks) ==
    \A s \in Sessions :
        /\ marks[s] # "no" => s \in delivered
        /\ marks[s] = "completed" /\ cfg.policy = "isolated" => s \in extracted
        /\ marks[s] = "timeout" => s \in gaveUp
        /\ marks[s] = "sent" => ~UsesOpenViking

\* The sessions behind ingest are marked or pending, and pending ones delivered.
IngestInv ==
    /\ pc \in {"ingest", "accept"} =>
          \A s \in Sessions : s < next => marked[s] # "no" \/ s \in Range(pending)
    /\ Range(pending) \subseteq delivered
    /\ pc = "accept" => next \in delivered
    /\ pc \in {"off", "health"} => next = 1

\* The whole history has been delivered, and waited for.
Full ==
    /\ delivered = Sessions
    /\ Isolated => Sessions \subseteq extracted \cup gaveUp

\* No question is asked before the whole history is there.
HistoryInv ==
    ~resumed =>
        /\ pc \in Later \cup {"saving"} \/ Answered(csv) # {} => Full
        /\ Isolated /\ reindex = "ok" => Sessions \subseteq indexed \cup gaveUp

\* A question is asked when it has no row, once, sample after sample.
QuestionInv ==
    /\ \A q \in Questions : Len(csv[q]) <= 1
    /\ pc \in {"reindex", "qa"} => \A q \in Questions :
          /\ work[q] \in {"queued", "running", "answered", "failed"} => csv[q] = <<>>
          /\ work[q] = "skip" => csv[q] # <<>>
          /\ work[q] = "done" /\ csv[q] = <<>> => faults > 0
          /\ SampleOf[q] < sample => work[q] \in {"skip", "done"}
    /\ pc \in Judged => \A q \in Questions : csv[q] = <<>> => faults > 0

\* The rows of the judge are those of the file, but for grades not saved yet.
JudgeInv ==
    /\ pc = "judging" => \A q \in Questions :
          /\ DOMAIN held[q] = DOMAIN csv[q]
          /\ \A i \in DOMAIN csv[q] : Graded(csv[q][i]) => held[q][i] = csv[q][i]
          /\ q \notin unsaved => held[q] = csv[q]
    /\ pc = "stats" => Ungraded(csv) = {}

\* The report counts rows that were all graded, and are still there.
MetaInv ==
    meta # NoMeta =>
        /\ meta.rows = meta.graded
        /\ meta.rows < Len(SampleOf) => faults > 0
        /\ meta.rows <= RowCount(csv)

RunnerInv ==
    /\ Types /\ LockIsReleased /\ ServerInv /\ Truthful(record) /\ Truthful(marked) /\ IngestInv
    /\ HistoryInv /\ QuestionInv /\ JudgeInv /\ MetaInv

\* What happened outside is never undone.
Grows ==
    /\ cfg' = cfg /\ (resumed => resumed') /\ faults <= faults'
    /\ delivered \subseteq delivered' /\ extracted \subseteq extracted'
    /\ gaveUp \subseteq gaveUp'
-----------------------------------------------------------------------------
(* Samples and rows *)

LEMMA SamplesAreNumbers ==
    /\ Samples \subseteq Nat \ {0} /\ Samples # {}
    /\ \A q \in Questions : SampleOf[q] \in Samples
    /\ Questions = 1..Len(SampleOf) /\ Len(SampleOf) \in Nat
<1>1. /\ SampleOf \in Seq(Nat \ {0}) /\ SampleOf # <<>>
  BY LocomoAssumption
<1>2. /\ Len(SampleOf) \in Nat /\ Questions = 1..Len(SampleOf)
      /\ \A q \in Questions : SampleOf[q] \in Nat \ {0}
  BY <1>1 DEF Questions
<1>3. Len(SampleOf) # 0
  BY <1>1, EmptySeq
<1> QED
  <2>1. 1 \in Questions
    BY <1>2, <1>3
  <2>2. Samples = {SampleOf[q] : q \in Questions}
    BY DEF Samples, Range, Questions
  <2> QED
    BY <1>2, <2>1, <2>2

\* With at most one row of a question the rows of a file can be counted, and all
\* of them are graded when no grade is missing.
LEMMA RowsAreCounted ==
    ASSUME NEW c \in [Questions -> Seq(Grades)], \A q \in Questions : Len(c[q]) <= 1
    PROVE  /\ IsFiniteSet(Rows(c)) /\ RowCount(c) \in Nat /\ GradedCount(c) \in Nat
           /\ Ungraded(c) = {} => GradedCount(c) = RowCount(c)
           /\ (\A q \in Questions : c[q] # <<>>) => Len(SampleOf) <= RowCount(c)
<1>1. \A q \in Questions : Len(c[q]) \in Nat /\ DOMAIN c[q] = 1..Len(c[q])
  OBVIOUS
<1>2. Rows(c) \subseteq Questions \X (1..1)
  BY <1>1 DEF Rows
<1>3. IsFiniteSet(Questions \X (1..1))
  <2>1. IsFiniteSet(1..Len(SampleOf)) /\ IsFiniteSet(1..1)
    <3>1. Len(SampleOf) \in Int /\ 1 \in Int
      BY SamplesAreNumbers
    <3> QED
      BY <3>1, FS_Interval
  <2> QED
    BY <2>1, SamplesAreNumbers, FS_Product
<1>4. IsFiniteSet(Rows(c)) /\ RowCount(c) \in Nat
  BY <1>2, <1>3, FS_Subset, FS_CardinalityType DEF RowCount
<1>5. GradedCount(c) \in Nat
  BY <1>4, FS_Subset, FS_CardinalityType DEF GradedCount
<1>6. ASSUME Ungraded(c) = {} PROVE GradedCount(c) = RowCount(c)
  <2>1. ASSUME NEW x \in Rows(c) PROVE Graded(c[x[1]][x[2]])
    <3>1. PICK q \in Questions : x \in {q} \X DOMAIN c[q]
      BY DEF Rows
    <3>2. x[1] = q /\ x[2] \in DOMAIN c[q]
      BY <3>1
    <3> QED
      BY <1>6, <3>2 DEF Ungraded, Range, Graded
  <2>2. {x \in Rows(c) : Graded(c[x[1]][x[2]])} = Rows(c)
    BY <2>1
  <2> QED
    BY <2>2 DEF GradedCount, RowCount
<1>7. ASSUME \A q \in Questions : c[q] # <<>> PROVE Len(SampleOf) <= RowCount(c)
  <2> DEFINE f == [q \in Questions |-> <<q, 1>>]
  <2>1. \A q \in Questions : 1 \in DOMAIN c[q]
    <3>1. \A q \in Questions : Len(c[q]) # 0
      BY <1>7, EmptySeq
    <3> QED
      BY <1>1, <3>1
  <2>2. \A q \in Questions : <<q, 1>> \in Rows(c)
    BY <2>1 DEF Rows
  <2>3. f \in Injection(Questions, Rows(c))
    <3>1. f \in [Questions -> Rows(c)]
      BY <2>2
    <3>2. \A p, q \in Questions : f[p] = f[q] => p = q
      OBVIOUS
    <3> QED
      BY <3>1, <3>2 DEF Injection, IsInjective
  <2>4. Cardinality(Questions) <= Cardinality(Rows(c))
    BY <1>4, <2>3, FS_Injection
  <2>5. Cardinality(Questions) = Len(SampleOf)
    <3>1. Cardinality(1..Len(SampleOf)) = IF 1 > Len(SampleOf) THEN 0 ELSE Len(SampleOf) - 1 + 1
      BY SamplesAreNumbers, FS_Interval
    <3> QED
      BY <3>1, SamplesAreNumbers
  <2> QED
    BY <2>4, <2>5 DEF RowCount
<1> QED
  BY <1>4, <1>5, <1>6, <1>7

\* A file that has all rows of another has as many at least.
LEMMA RowsGrow ==
    ASSUME NEW c \in [Questions -> Seq(Grades)], NEW d \in [Questions -> Seq(Grades)],
           \A q \in Questions : Len(c[q]) <= 1 /\ Len(d[q]) <= 1 /\ DOMAIN c[q] \subseteq DOMAIN d[q]
    PROVE  RowCount(c) <= RowCount(d)
<1>1. Rows(c) \subseteq Rows(d)
  BY DEF Rows
<1>2. IsFiniteSet(Rows(d))
  BY RowsAreCounted
<1> QED
  BY <1>1, <1>2, FS_Subset DEF RowCount

-----------------------------------------------------------------------------
LEMMA TypesAreTypeOK == Types <=> TypeOK
<1>1. \A n \in Nat : n <= MaxTrouble <=> n \in 0..MaxTrouble
  BY LocomoAssumption
<1>2. 0..MaxTrouble \subseteq Nat
  OBVIOUS
<1> QED
  BY <1>1, <1>2
     DEF Types, DiskTypes, IngestTypes, AnswerTypes, ServerTypes, CountTypes, TypeOK

LEMMA AppendRange ==
    ASSUME NEW S, NEW s \in Seq(S), NEW x \in S
    PROVE  Range(Append(s, x)) = Range(s) \cup {x}
<1>1. DOMAIN Append(s, x) = 1..(Len(s) + 1) /\ DOMAIN s = 1..Len(s) /\ Len(s) \in Nat
  OBVIOUS
<1>2. \A k \in 1..(Len(s) + 1) : Append(s, x)[k] = IF k = Len(s) + 1 THEN x ELSE s[k]
  OBVIOUS
<1> QED
  BY <1>1, <1>2 DEF Range

LEMMA InitRunner == Init => RunnerInv
<1> SUFFICES ASSUME Init PROVE RunnerInv
  OBVIOUS
<1>1. /\ {NumSessions, Tries} \subseteq Nat \ {0} /\ MaxTrouble \in Nat
      /\ <<>> \in Seq(Sessions) /\ <<>> \in Seq(Grades)
  BY LocomoAssumption
<1>2. DiskTypes
  <2>1. record \in [Sessions -> Marks] /\ csv \in [Questions -> Seq(Grades)]
    BY <1>1 DEF Init, NothingMarked, Marks
  <2>2. meta \in [rows : Int, graded : Int]
    BY DEF Init, NoMeta
  <2> QED
    BY <2>1, <2>2 DEF Init, DiskTypes
<1>3. IngestTypes
  BY <1>1 DEF Init, IngestTypes, NothingMarked, Marks
<1>4. AnswerTypes
  BY <1>1 DEF Init, AnswerTypes, WorkStates
<1>5. ServerTypes /\ CountTypes
  <2>1. /\ task \in [Sessions -> TaskStates]
        /\ newest \in [Sessions -> {"none", "ok", "blank"}]
    BY DEF Init, TaskStates
  <2>2. 0 <= MaxTrouble
    BY <1>1
  <2> QED
    BY <2>1, <2>2 DEF Init, ServerTypes, CountTypes
<1>6. \A q \in Questions : csv[q] = <<>> /\ Len(csv[q]) = 0
  BY DEF Init
<1>7. Answered(csv) = {}
  BY <1>6 DEF Answered
<1>8. MetaInv
  BY DEF Init, MetaInv
<1>9. Range(pending) = {}
  BY DEF Init, Range
<1> QED
  BY <1>2, <1>3, <1>4, <1>5, <1>6, <1>7, <1>8, <1>9
     DEF Init, RunnerInv, Types, LockIsReleased, ServerInv, Truthful, IngestInv, HistoryInv,
         QuestionInv, JudgeInv, NothingMarked, Later, Judged

-----------------------------------------------------------------------------
(* Types *)

\* A process that has ended has forgotten everything.
LEMMA Forgotten ==
    ASSUME Forget
    PROVE  /\ IngestTypes' /\ AnswerTypes' /\ pc' = "off" /\ Range(pending') = {}
           /\ marked' = NothingMarked /\ next' = 1
<1>1. /\ {NumSessions, Tries} \subseteq Nat \ {0}
      /\ <<>> \in Seq(Sessions) /\ <<>> \in Seq(Grades)
  BY LocomoAssumption
<1>2. IngestTypes'
  BY <1>1 DEF Forget, IngestTypes, NothingMarked, Marks
<1>3. AnswerTypes'
  BY <1>1 DEF Forget, AnswerTypes, WorkStates
<1> QED
  BY <1>2, <1>3 DEF Forget, Range

\* What the wait for the oldest session can do.
LEMMA OldestIsFirst ==
    ASSUME IngestTypes, pending # <<>>
    PROVE  /\ Oldest \in Sessions /\ Tail(pending) \in Seq(Sessions)
           /\ Oldest \in Range(pending)
           /\ Range(pending) = {Oldest} \cup Range(Tail(pending))
<1>1. pending \in Seq(Sessions)
  BY DEF IngestTypes
<1>2. Len(pending) \in Nat \ {0} /\ Oldest = pending[1]
  BY <1>1, EmptySeq DEF Oldest
<1>3. /\ Tail(pending) \in Seq(Sessions) /\ Len(Tail(pending)) = Len(pending) - 1
      /\ \A k \in 1..Len(pending) - 1 : Tail(pending)[k] = pending[k + 1]
  BY <1>1, <1>2
<1>4. DOMAIN pending = 1..Len(pending) /\ DOMAIN Tail(pending) = 1..Len(pending) - 1
  BY <1>1, <1>2, <1>3
<1>5. Range(pending) = {Oldest} \cup Range(Tail(pending))
  <2>1. ASSUME NEW k \in 1..Len(pending) PROVE pending[k] \in {Oldest} \cup Range(Tail(pending))
    <3>1. CASE k = 1
      BY <3>1, <1>2
    <3>2. CASE k # 1
      <4>1. k - 1 \in 1..Len(pending) - 1 /\ Tail(pending)[k - 1] = pending[k]
        BY <3>2, <1>2, <1>3
      <4> QED
        BY <4>1, <1>4 DEF Range
    <3> QED
      BY <3>1, <3>2
  <2>2. \A k \in 1..Len(pending) - 1 : Tail(pending)[k] \in Range(pending)
    BY <1>2, <1>3, <1>4 DEF Range
  <2> QED
    BY <2>1, <2>2, <1>2, <1>4 DEF Range
<1> QED
  BY <1>1, <1>2, <1>3, <1>5

LEMMA CountsKeep ==
    ASSUME Types, [Next]_vars
    PROVE  CountTypes' /\ Grows
<1> USE DEF Fault
<1>1. \/ UNCHANGED <<faults, kills>>
      \/ Fault /\ UNCHANGED kills
      \/ faults + kills < MaxTrouble /\ kills' = kills + 1 /\ UNCHANGED faults
  BY DEF Next, Main, Operator, vars, history, HealthCheck, SkipIngested, Send, CommitSession,
         Commit, MarkSent, PollTask, PollLatest, SaveRecord, WriteRecord, Reindex, LoseReindex,
         NextSample, LoadRows, JudgeDone, WriteMeta, TakeQuestion, AnswerQuestion, SaveRow,
         GradeRow, SaveGrades, Invoke, Resume, RemoveLock, Kill, NextSecond, Extract
<1>2. /\ faults' \in Nat /\ faults' <= MaxTrouble /\ kills' \in Nat /\ kills' <= MaxTrouble
      /\ faults <= faults'
  BY <1>1, LocomoAssumption DEF Types, CountTypes
<1>3. UNCHANGED resumed \/ resumed' = TRUE
  BY DEF Next, Main, Operator, vars, history, HealthCheck, SkipIngested, Send, CommitSession,
         MarkSent, PollTask, PollLatest, SaveRecord, WriteRecord, Reindex, LoseReindex,
         NextSample, LoadRows, JudgeDone, WriteMeta, TakeQuestion, AnswerQuestion, SaveRow,
         GradeRow, SaveGrades, Invoke, Resume, RemoveLock, Kill, NextSecond, Extract
<1>4. UNCHANGED cfg
  BY DEF Next, Main, Operator, vars, HealthCheck, SkipIngested, Send, CommitSession,
         MarkSent, PollTask, PollLatest, SaveRecord, WriteRecord, Reindex, LoseReindex,
         NextSample, LoadRows, JudgeDone, WriteMeta, TakeQuestion, AnswerQuestion, SaveRow,
         GradeRow, SaveGrades, Invoke, Resume, RemoveLock, Kill, NextSecond, Extract
<1>5. UNCHANGED gaveUp \/ (pending # <<>> /\ gaveUp' = gaveUp \cup {Oldest})
  BY DEF Next, Main, Operator, vars, history, HealthCheck, SkipIngested, Send, CommitSession,
         MarkSent, PollTask, PollLatest, Finalize, Due, SaveRecord, WriteRecord, Reindex,
         LoseReindex, NextSample, LoadRows, JudgeDone, WriteMeta, TakeQuestion, AnswerQuestion,
         SaveRow, GradeRow, SaveGrades, Invoke, Resume, RemoveLock, Kill, NextSecond, Extract
<1>6. gaveUp' \subseteq Sessions /\ gaveUp \subseteq gaveUp'
  BY <1>5, OldestIsFirst DEF Types, CountTypes
<1>7. delivered \subseteq delivered' /\ extracted \subseteq extracted'
  BY DEF Next, Main, Operator, vars, server, HealthCheck, SkipIngested, Send, Post, CommitSession,
         MarkSent, PollTask, PollLatest, SaveRecord, WriteRecord, Reindex, LoseReindex,
         NextSample, LoadRows, JudgeDone, WriteMeta, TakeQuestion, AnswerQuestion, SaveRow,
         GradeRow, SaveGrades, Invoke, Resume, RemoveLock, Kill, NextSecond, Extract
<1> QED
  BY <1>2, <1>3, <1>4, <1>6, <1>7 DEF CountTypes, Types, Grows

LEMMA ServerKeeps ==
    ASSUME Types, ServerInv, [Next]_vars
    PROVE  ServerTypes' /\ ServerInv'
<1> USE DEF Types, ServerTypes, ServerInv, CountTypes
<1>1. UNCHANGED cfg
  BY CountsKeep DEF Grows
<1>2. CASE UNCHANGED server
  BY <1>1, <1>2 DEF server
<1>3. CASE Send
  <2>1. /\ next \in Sessions
        /\ delivered' \in {delivered, delivered \cup {next}}
        /\ UNCHANGED <<newest, extracted, indexed, logged>> /\ heard' \in {logged, heard}
        /\ \E reached \in SUBSET Sessions : task' =
              [s \in Sessions |-> IF cfg.mode = "ogmem" /\ s \in reached THEN "running" ELSE task[s]]
    <3>1. next \in Sessions
      BY <1>3, LocomoAssumption DEF Send, Current, IngestTypes, Sessions
    <3>2. \E reached \in SUBSET {next} : Post(reached)
      BY <1>3 DEF Send
    <3>3. UNCHANGED <<newest, extracted, indexed, logged>> /\ heard' \in {logged, heard}
      BY <1>3 DEF Send
    <3> QED
      BY <3>1, <3>2, <3>3 DEF Post
  <2>2. task' \in [Sessions -> TaskStates] /\ \A s \in Sessions : task'[s] \in {"running", task[s]}
    BY <2>1 DEF TaskStates
  <2> QED
    BY <1>1, <2>1, <2>2
<1>4. CASE CommitSession
  <2>1. UNCHANGED <<delivered, newest, extracted, indexed, logged, heard>>
    BY <1>4 DEF CommitSession
  <2>2. \/ UNCHANGED task
        \/ task' = [task EXCEPT ![next] = "running"]
        \/ task' = [task EXCEPT ![next] = "none"]
    BY <1>4 DEF CommitSession, Commit
  <2>3. /\ task' \in [Sessions -> TaskStates]
        /\ \A s \in Sessions : task'[s] \in {"running", "none", task[s]}
    BY <2>2 DEF TaskStates
  <2> QED
    BY <1>1, <2>1, <2>3
<1>5. ASSUME NEW s \in Sessions, Extract(s) PROVE ServerTypes' /\ ServerInv'
  <2>1. PICK end \in {"ok", "failed", "blank"} :
          /\ task' = [task EXCEPT ![s] = end]
          /\ newest' = IF end = "failed" THEN newest ELSE [newest EXCEPT ![Resource(s)] = end]
          /\ extracted' = IF end = "failed" THEN extracted ELSE extracted \cup {s}
          /\ logged' \in BOOLEAN /\ heard' \in BOOLEAN
    BY <1>5 DEF Extract
  <2>2. UNCHANGED <<delivered, indexed>>
    BY <1>5 DEF Extract
  <2>3. task' \in [Sessions -> TaskStates]
    BY <2>1 DEF TaskStates
  <2>4. newest' \in [Sessions -> {"none", "ok", "blank"}]
    BY <2>1
  <2>5. cfg.policy = "isolated" => Resource(s) = s
    BY DEF Resource
  <2>6. /\ \A r \in Sessions : task'[r] = IF r = s THEN end ELSE task[r]
        /\ cfg.policy = "isolated" /\ end # "failed" =>
              \A r \in Sessions : newest'[r] = IF r = s THEN end ELSE newest[r]
    BY <2>1, <2>5
  <2> QED
    BY <1>1, <2>1, <2>2, <2>3, <2>4, <2>6
<1>6. CASE NextSecond
  BY <1>1, <1>6 DEF NextSecond
<1>7. CASE Reindex \/ LoseReindex
  BY <1>1, <1>7 DEF Reindex, LoseReindex
<1>8. \/ UNCHANGED server \/ Send \/ CommitSession \/ NextSecond \/ Reindex \/ LoseReindex
      \/ \E s \in Sessions : Extract(s)
  BY DEF Next, Main, Operator, vars, HealthCheck, SkipIngested, MarkSent, PollTask, PollLatest,
         SaveRecord, WriteRecord, NextSample, LoadRows, JudgeDone, WriteMeta, TakeQuestion,
         AnswerQuestion, SaveRow, GradeRow, SaveGrades, Invoke, Resume, RemoveLock, Kill
<1> QED
  BY <1>2, <1>3, <1>4, <1>5, <1>6, <1>7, <1>8

LEMMA DiskKeeps ==
    ASSUME Types, QuestionInv, [Next]_vars
    PROVE  DiskTypes'
<1>1. cfg' \in Configs
  BY CountsKeep DEF Grows, Types, DiskTypes
<1>2. lock' \in BOOLEAN
  BY DEF Next, Main, Operator, vars, HealthCheck, SkipIngested, Send, CommitSession, MarkSent,
         PollTask, PollLatest, SaveRecord, WriteRecord, Reindex, LoseReindex, NextSample,
         LoadRows, JudgeDone, WriteMeta, TakeQuestion, AnswerQuestion, SaveRow, GradeRow,
         SaveGrades, Invoke, Resume, RemoveLock, Kill, NextSecond, Extract, Abort, disk, Types,
         DiskTypes
<1>3. record' \in [Sessions -> Marks]
  <2>1. NothingMarked \in [Sessions -> Marks]
    BY DEF NothingMarked, Marks
  <2>2. record' \in {record, NothingMarked, marked}
    BY DEF Next, Main, Operator, vars, HealthCheck, SkipIngested, Send, CommitSession,
           MarkSent, PollTask, PollLatest, SaveRecord, WriteRecord, Reindex, LoseReindex,
           NextSample, LoadRows, JudgeDone, WriteMeta, TakeQuestion, AnswerQuestion, SaveRow,
           GradeRow, SaveGrades, Invoke, Resume, RemoveLock, Kill, NextSecond, Extract, disk
  <2> QED
    BY <2>1, <2>2 DEF Types, DiskTypes, IngestTypes
<1>4. csv' \in [Questions -> Seq(Grades)]
  <2>1. \/ csv' \in {csv, held}
        \/ \E q \in Questions : csv' = [csv EXCEPT ![q] = Append(@, "")]
    BY DEF Next, Main, Operator, vars, HealthCheck, SkipIngested, Send, CommitSession,
           MarkSent, PollTask, PollLatest, SaveRecord, WriteRecord, Reindex, LoseReindex,
           NextSample, LoadRows, JudgeDone, WriteMeta, TakeQuestion, AnswerQuestion, SaveRow,
           GradeRow, SaveGrades, Invoke, Resume, RemoveLock, Kill, NextSecond, Extract, disk
  <2>2. ASSUME NEW q \in Questions, csv' = [csv EXCEPT ![q] = Append(@, "")]
        PROVE  csv' \in [Questions -> Seq(Grades)]
    <3>1. csv[q] \in Seq(Grades) /\ "" \in Grades
      BY DEF Types, DiskTypes, Grades
    <3>2. \A c \in Seq(Grades), g \in Grades : Append(c, g) \in Seq(Grades)
      OBVIOUS
    <3> QED
      BY <2>2, <3>1, <3>2 DEF Types, DiskTypes
  <2> QED
    BY <2>1, <2>2 DEF Types, DiskTypes, AnswerTypes
<1>5. meta' \in [rows : Int, graded : Int]
  <2>1. meta' \in {meta, [rows |-> RowCount(csv), graded |-> GradedCount(csv)]}
    BY DEF Next, Main, Operator, vars, HealthCheck, SkipIngested, Send, CommitSession,
           MarkSent, PollTask, PollLatest, SaveRecord, WriteRecord, Reindex, LoseReindex,
           NextSample, LoadRows, JudgeDone, WriteMeta, TakeQuestion, AnswerQuestion, SaveRow,
           GradeRow, SaveGrades, Invoke, Resume, RemoveLock, Kill, NextSecond, Extract, disk
  <2>2. RowCount(csv) \in Nat /\ GradedCount(csv) \in Nat
    BY RowsAreCounted DEF Types, DiskTypes, QuestionInv
  <2> QED
    BY <2>1, <2>2 DEF Types, DiskTypes
<1>6. reindex' \in {"none", "ok", "failed"}
  BY DEF Next, Main, Operator, vars, HealthCheck, SkipIngested, Send, CommitSession, MarkSent,
         PollTask, PollLatest, SaveRecord, WriteRecord, Reindex, LoseReindex, NextSample,
         LoadRows, JudgeDone, WriteMeta, TakeQuestion, AnswerQuestion, SaveRow, GradeRow,
         SaveGrades, Invoke, Resume, RemoveLock, Kill, NextSecond, Extract, disk, Types,
         DiskTypes
<1> QED
  BY <1>1, <1>2, <1>3, <1>4, <1>5, <1>6 DEF DiskTypes

\* Where ingest goes on, and what it has marked by then.
LEMMA IngestTypesKeep ==
    ASSUME Types, IngestInv, [Next]_vars
    PROVE  IngestTypes'
<1> USE DEF Types, IngestTypes
<1>1. CASE Forget
  BY <1>1, Forgotten
<1>2. CASE UNCHANGED <<next, tries, marked, pending, wait>> /\ ~Forget
  <2>1. pc' \in {pc, "health", "ingest", "accept", "saving", "reindex", "qa", "judge", "judging",
                 "stats"}
    BY <1>2
       DEF Next, Main, Operator, vars, HealthCheck, SkipIngested, Send, CommitSession,
           MarkSent, PollTask, PollLatest, SaveRecord, WriteRecord, Reindex, LoseReindex,
           NextSample, LoadRows, JudgeDone, WriteMeta, TakeQuestion, AnswerQuestion, SaveRow,
           GradeRow, SaveGrades, Invoke, Resume, RemoveLock, Kill, NextSecond, Extract, Abort,
           BeginQa
  <2> QED
    BY <1>2, <2>1
<1>3. CASE HealthCheck /\ ~Forget
  <2>1. pc' = "ingest" /\ marked' = record /\ UNCHANGED <<next, tries, pending, wait>>
    BY <1>3 DEF HealthCheck, Abort
  <2> QED
    BY <2>1 DEF DiskTypes
<1>4. CASE SkipIngested
  BY <1>4, LocomoAssumption DEF SkipIngested, Current
<1>5. CASE Send /\ ~Forget
  <2>1. UNCHANGED <<next, marked, pending, wait>> /\ pc' \in {pc, "accept"}
    BY <1>5 DEF Send, Abort
  <2>2. tries' = 0 \/ (tries + 1 < Tries /\ tries' = tries + 1)
    BY <1>5 DEF Send, Abort
  <2>3. tries' \in 0..Tries - 1
    BY <2>2, LocomoAssumption
  <2> QED
    BY <2>1, <2>3
<1>6. CASE CommitSession /\ ~Forget
  <2>1. /\ pc' = "ingest" /\ UNCHANGED <<tries, marked>> /\ next' = next + 1
        /\ pending' = Append(pending, next)
        /\ wait' = IF pending # <<>> THEN wait ELSE FirstPoll(next, task')
    BY <1>6 DEF CommitSession, Abort
  <2>2. next \in Sessions
    BY <1>6 DEF IngestInv, CommitSession, ServerTypes
  <2>3. next' \in 1..NumSessions + 1
    BY <2>1, <2>2, LocomoAssumption DEF Sessions
  <2>4. pending' \in Seq(Sessions)
    BY <2>1, <2>2
  <2>5. wait' \in {"task", "latest"}
    BY <2>1 DEF FirstPoll
  <2> QED
    BY <2>1, <2>3, <2>4, <2>5
<1>7. CASE MarkSent /\ ~Forget
  <2>1. /\ pc' = "ingest" /\ next' = next + 1 /\ UNCHANGED <<tries, pending, wait>>
        /\ marked' = [marked EXCEPT ![next] = "sent"]
    BY <1>7 DEF MarkSent, Abort
  <2>2. next \in Sessions
    BY <1>7 DEF IngestInv, MarkSent, ServerTypes
  <2>3. next' \in 1..NumSessions + 1 /\ marked' \in [Sessions -> Marks]
    BY <2>1, <2>2, LocomoAssumption DEF Sessions, Marks
  <2> QED
    BY <2>1, <2>3
<1>8. CASE PollTask \/ PollLatest
  <2>1. /\ UNCHANGED <<pc, next, tries>>
        /\ \/ UNCHANGED <<marked, pending>> /\ wait' = "latest"
           \/ Finalize("completed") \/ Finalize("timeout")
    BY <1>8 DEF PollTask, PollLatest
  <2>2. Tail(pending) \in Seq(Sessions)
    BY <1>8, OldestIsFirst DEF PollTask, PollLatest, Due
  <2>3. ASSUME NEW event \in {"completed", "timeout"}, Finalize(event)
        PROVE  /\ marked' \in [Sessions -> Marks] /\ pending' \in Seq(Sessions)
               /\ wait' \in {"task", "latest"}
    BY <2>2, <2>3 DEF Finalize, FirstPoll, Marks
  <2> QED
    BY <2>1, <2>3
<1> QED
  BY <1>1, <1>2, <1>3, <1>4, <1>5, <1>6, <1>7, <1>8
     DEF Next, Main, Operator, vars, SaveRecord, WriteRecord, Reindex, LoseReindex, NextSample,
         LoadRows, JudgeDone, WriteMeta, TakeQuestion, AnswerQuestion, SaveRow, GradeRow,
         SaveGrades, Invoke, Resume, RemoveLock, Kill, NextSecond, Extract, memory, Abort

LEMMA AnswerTypesKeep ==
    ASSUME Types, [Next]_vars
    PROVE  AnswerTypes'
<1> USE DEF Types, AnswerTypes
<1>1. CASE Forget
  BY <1>1, Forgotten
<1>2. CASE ~Forget
  <2>1. work' \in [Questions -> WorkStates]
    <3>1. Executed \in [Questions -> WorkStates]
      BY DEF Executed, WorkStates
    <3>2. \/ work' \in {work, Executed}
          \/ \E q \in Questions, st \in WorkStates : work' = [work EXCEPT ![q] = st]
      BY <1>2
         DEF Next, Main, Operator, vars, HealthCheck, SkipIngested, Send, CommitSession,
             MarkSent, PollTask, PollLatest, SaveRecord, WriteRecord, Reindex, LoseReindex,
             NextSample, LoadRows, JudgeDone, WriteMeta, TakeQuestion, AnswerQuestion, SaveRow,
             GradeRow, SaveGrades, Invoke, Resume, RemoveLock, Kill, NextSecond, Extract,
             Abort, BeginQa, WorkStates, memory
    <3> QED
      BY <3>1, <3>2
  <2>2. sample' \in Nat \ {0}
    <3>1. sample' \in {sample} \cup Samples
      BY <1>2
         DEF Next, Main, Operator, vars, HealthCheck, SkipIngested, Send, CommitSession,
             MarkSent, PollTask, PollLatest, SaveRecord, WriteRecord, Reindex, LoseReindex,
             NextSample, LoadRows, JudgeDone, WriteMeta, TakeQuestion, AnswerQuestion, SaveRow,
             GradeRow, SaveGrades, Invoke, Resume, RemoveLock, Kill, NextSecond, Extract,
             Abort, BeginQa, Least, memory
    <3> QED
      BY <3>1, SamplesAreNumbers
  <2>3. held' \in [Questions -> Seq(Grades)]
    <3>1. \/ held' \in {held, csv}
          \/ \E q \in Questions : \E i \in DOMAIN held[q], g \in Grades :
                held' = [held EXCEPT ![q][i] = g]
      BY <1>2
         DEF Next, Main, Operator, vars, HealthCheck, SkipIngested, Send, CommitSession,
             MarkSent, PollTask, PollLatest, SaveRecord, WriteRecord, Reindex, LoseReindex,
             NextSample, LoadRows, JudgeDone, WriteMeta, TakeQuestion, AnswerQuestion, SaveRow,
             GradeRow, SaveGrades, Invoke, Resume, RemoveLock, Kill, NextSecond, Extract,
             Abort, Grades, memory
    <3>2. ASSUME NEW q \in Questions, NEW i \in DOMAIN held[q], NEW g \in Grades,
                 held' = [held EXCEPT ![q][i] = g]
          PROVE  held' \in [Questions -> Seq(Grades)]
      <4>1. held[q] \in Seq(Grades) /\ held' = [held EXCEPT ![q] = [held[q] EXCEPT ![i] = g]]
        BY <3>2
      <4>2. [held[q] EXCEPT ![i] = g] \in Seq(Grades)
        BY <4>1
      <4> QED
        BY <4>1, <4>2
    <3> QED
      BY <3>1, <3>2 DEF DiskTypes
  <2>4. unsaved' \subseteq Questions
    BY <1>2
       DEF Next, Main, Operator, vars, HealthCheck, SkipIngested, Send, CommitSession,
           MarkSent, PollTask, PollLatest, SaveRecord, WriteRecord, Reindex, LoseReindex,
           NextSample, LoadRows, JudgeDone, WriteMeta, TakeQuestion, AnswerQuestion, SaveRow,
           GradeRow, SaveGrades, Invoke, Resume, RemoveLock, Kill, NextSecond, Extract, Abort,
           memory
  <2> QED
    BY <2>1, <2>2, <2>3, <2>4
<1> QED
  BY <1>1, <1>2

LEMMA TypesKeep == RunnerInv /\ [Next]_vars => Types' /\ ServerInv' /\ Grows
  BY CountsKeep, ServerKeeps, DiskKeeps, IngestTypesKeep, AnswerTypesKeep DEF RunnerInv, Types

-----------------------------------------------------------------------------
(* Ingest *)

LEMMA LockKeeps ==
    ASSUME Types, LockIsReleased, [Next]_vars
    PROVE  LockIsReleased'
<1>1. CASE Kill
  BY <1>1 DEF Kill, Types, CountTypes, LockIsReleased
<1>2. CASE ~Kill
  <2>1. UNCHANGED kills /\ (UNCHANGED <<pc, lock>> \/ pc' # "off" \/ lock' = FALSE)
    BY <1>2
       DEF Next, Main, Operator, vars, HealthCheck, SkipIngested, Send, CommitSession,
           MarkSent, PollTask, PollLatest, SaveRecord, WriteRecord, Reindex, LoseReindex,
           NextSample, LoadRows, JudgeDone, WriteMeta, TakeQuestion, AnswerQuestion, SaveRow,
           GradeRow, SaveGrades, Invoke, Resume, RemoveLock, Kill, NextSecond, Extract, Abort,
           BeginQa, disk, history
  <2> QED
    BY <2>1 DEF LockIsReleased
<1> QED
  BY <1>1, <1>2

\* Marks that are kept stay true.
LEMMA TruthStays ==
    ASSUME NEW marks, Truthful(marks), Grows
    PROVE  (\A s \in Sessions :
              /\ marks[s] # "no" => s \in delivered'
              /\ marks[s] = "completed" /\ cfg'.policy = "isolated" => s \in extracted'
              /\ marks[s] = "timeout" => s \in gaveUp'
              /\ marks[s] = "sent" => cfg'.mode # "openviking")
  BY DEF Truthful, Grows, UsesOpenViking

LEMMA RecordKeeps ==
    ASSUME RunnerInv, [Next]_vars
    PROVE  Truthful(record)'
<1>1. Grows
  BY TypesKeep
<1>2. record' \in {record, NothingMarked, marked}
  BY DEF Next, Main, Operator, vars, HealthCheck, SkipIngested, Send, CommitSession, MarkSent,
         PollTask, PollLatest, SaveRecord, WriteRecord, Reindex, LoseReindex, NextSample,
         LoadRows, JudgeDone, WriteMeta, TakeQuestion, AnswerQuestion, SaveRow, GradeRow,
         SaveGrades, Invoke, Resume, RemoveLock, Kill, NextSecond, Extract, disk
<1>3. Truthful(NothingMarked)
  BY DEF Truthful, NothingMarked
<1>4. Truthful(record')
  BY <1>2, <1>3 DEF RunnerInv
<1> QED
  BY <1>1, <1>4, TruthStays DEF Truthful, UsesOpenViking

LEMMA MarkedKeeps ==
    ASSUME RunnerInv, [Next]_vars
    PROVE  Truthful(marked)'
<1>1. Grows
  BY TypesKeep
<1>2. CASE marked' \in {marked, record, NothingMarked}
  <2>1. Truthful(NothingMarked)
    BY DEF Truthful, NothingMarked
  <2>2. Truthful(marked')
    BY <1>2, <2>1 DEF RunnerInv
  <2> QED
    BY <1>1, <2>2, TruthStays DEF Truthful, UsesOpenViking
<1>3. CASE marked' \notin {marked, NothingMarked} /\ MarkSent
  <2>1. /\ marked' = [marked EXCEPT ![next] = "sent"] /\ UNCHANGED cfg
        /\ ~UsesOpenViking /\ next \in delivered
    BY <1>3 DEF MarkSent, Abort, Forget, RunnerInv, IngestInv
  <2>2. \A s \in Sessions : marked'[s] = IF s = next THEN "sent" ELSE marked[s]
    BY <2>1 DEF RunnerInv, Types, IngestTypes
  <2>3. Truthful(marked)
    BY DEF RunnerInv
  <2> QED
    BY <1>1, <2>1, <2>2, <2>3, TruthStays DEF Truthful, UsesOpenViking, Grows
<1>4. CASE PollTask \/ PollLatest
  <2>1. PICK event \in {"completed", "timeout"} :
          /\ marked' \in {marked, [marked EXCEPT ![Oldest] = event]}
          /\ event = "timeout" => marked' = marked \/ Oldest \in gaveUp'
          /\ event = "completed" =>
                marked' = marked \/ task[Oldest] = "ok" \/ Newest # "none"
    BY <1>4 DEF PollTask, PollLatest, Finalize
  <2>2. Oldest \in Sessions /\ Oldest \in delivered
    BY <1>4, OldestIsFirst
       DEF PollTask, PollLatest, Due, RunnerInv, Types, IngestInv
  <2>3. cfg.policy = "isolated" /\ (task[Oldest] = "ok" \/ Newest # "none") =>
            Oldest \in extracted
    BY <2>2 DEF Newest, Resource, RunnerInv, ServerInv
  <2>4. \A s \in Sessions : marked'[s] = marked[s] \/ (s = Oldest /\ marked'[s] = event)
    BY <2>1, <2>2 DEF RunnerInv, Types, IngestTypes
  <2>5. marked'[Oldest] = marked[Oldest] \/
            /\ event = "timeout" => Oldest \in gaveUp'
            /\ event = "completed" /\ cfg.policy = "isolated" => Oldest \in extracted
    BY <2>1, <2>3
  <2>6. Truthful(marked)
    BY DEF RunnerInv
  <2> QED
    BY <1>1, <2>2, <2>4, <2>5, <2>6, TruthStays DEF Truthful, UsesOpenViking, Grows
<1> QED
  BY <1>2, <1>3, <1>4
     DEF Next, Main, Operator, vars, HealthCheck, SkipIngested, Send, CommitSession,
         SaveRecord, WriteRecord, Reindex, LoseReindex, NextSample, LoadRows, JudgeDone,
         WriteMeta, TakeQuestion, AnswerQuestion, SaveRow, GradeRow, SaveGrades, Invoke,
         Resume, RemoveLock, Kill, NextSecond, Extract, memory, Abort, Forget

\* Every session behind ingest is marked, or accepted and waited for.
LEMMA IngestKeeps ==
    ASSUME RunnerInv, [Next]_vars
    PROVE  IngestInv'
<1>1. Grows
  BY TypesKeep
<1>2. IngestInv /\ Types
  BY DEF RunnerInv
<1>3. CASE Forget
  BY <1>3, Forgotten DEF IngestInv
<1>4. CASE UNCHANGED <<next, marked, pending>> /\ pc' \notin {"ingest", "accept", "off"} \ {pc}
                                        /\ (pc' = "health" => pc \in {"off", "health"})
  BY <1>1, <1>2, <1>4 DEF IngestInv, Grows
<1>5. CASE HealthCheck /\ ~Forget
  <2>1. pc = "health" /\ pc' = "ingest" /\ UNCHANGED <<next, pending>>
    BY <1>5 DEF HealthCheck, Abort
  <2> QED
    BY <1>1, <1>2, <2>1 DEF IngestInv, Grows, Sessions
<1>6. CASE SkipIngested
  <2>1. /\ pc = "ingest" /\ pc' = "ingest" /\ next' = next + 1 /\ marked[next] # "no"
        /\ UNCHANGED <<marked, pending>>
    BY <1>6 DEF SkipIngested, Current
  <2> QED
    BY <1>1, <1>2, <2>1 DEF IngestInv, Grows, Types, IngestTypes, Sessions
<1>7. CASE Send /\ ~Forget
  <2>1. /\ pc = "ingest" /\ UNCHANGED <<next, marked, pending>> /\ pc' \in {"ingest", "accept"}
        /\ pc' = "accept" => next \in delivered'
    BY <1>7 DEF Send, Current, Abort, Post
  <2> QED
    BY <1>1, <1>2, <2>1 DEF IngestInv, Grows
<1>8. CASE CommitSession /\ ~Forget
  <2>1. /\ pc = "accept" /\ pc' = "ingest" /\ next' = next + 1 /\ UNCHANGED marked
        /\ pending' = Append(pending, next)
    BY <1>8 DEF CommitSession, Abort
  <2>2. next \in delivered /\ next \in Sessions
    BY <1>2, <2>1 DEF IngestInv, Types, ServerTypes
  <2>3. Range(pending') = Range(pending) \cup {next}
    BY <1>2, <2>1, <2>2, AppendRange DEF Types, IngestTypes
  <2>4. \A s \in Sessions : s < next' => s < next \/ s = next
    BY <2>1, <2>2 DEF Sessions
  <2> QED
    BY <1>1, <1>2, <2>1, <2>2, <2>3, <2>4 DEF IngestInv, Grows
<1>9. CASE MarkSent /\ ~Forget
  <2>1. /\ pc = "accept" /\ pc' = "ingest" /\ next' = next + 1 /\ UNCHANGED pending
        /\ marked' = [marked EXCEPT ![next] = "sent"]
    BY <1>9 DEF MarkSent, Abort
  <2>2. next \in Sessions
    BY <1>2, <2>1 DEF IngestInv, Types, ServerTypes
  <2>3. \A s \in Sessions : marked'[s] = IF s = next THEN "sent" ELSE marked[s]
    BY <1>2, <2>1 DEF Types, IngestTypes
  <2> QED
    BY <1>1, <1>2, <2>1, <2>2, <2>3 DEF IngestInv, Grows, Sessions
<1>10. CASE PollTask \/ PollLatest
  <2>1. /\ pc = "ingest" /\ UNCHANGED <<pc, next>> /\ pending # <<>>
        /\ \/ UNCHANGED <<marked, pending>>
           \/ \E event \in {"completed", "timeout"} :
                 marked' = [marked EXCEPT ![Oldest] = event] /\ pending' = Tail(pending)
    BY <1>10 DEF PollTask, PollLatest, Due, Finalize
  <2>2. Oldest \in Sessions /\ Range(pending) = {Oldest} \cup Range(Tail(pending))
    BY <1>2, <2>1, OldestIsFirst DEF Types
  <2>3. CASE UNCHANGED <<marked, pending>>
    BY <1>1, <1>2, <2>1, <2>3 DEF IngestInv, Grows
  <2>4. ASSUME NEW event \in {"completed", "timeout"},
               marked' = [marked EXCEPT ![Oldest] = event], pending' = Tail(pending)
        PROVE  IngestInv'
    <3>1. \A s \in Sessions : marked'[s] = IF s = Oldest THEN event ELSE marked[s]
      BY <1>2, <2>4 DEF Types, IngestTypes
    <3> QED
      BY <1>1, <1>2, <2>1, <2>2, <2>4, <3>1 DEF IngestInv, Grows
  <2> QED
    BY <2>1, <2>3, <2>4
<1> QED
  BY <1>3, <1>4, <1>5, <1>6, <1>7, <1>8, <1>9, <1>10
     DEF Next, Main, Operator, vars, SaveRecord, WriteRecord, Reindex, LoseReindex, NextSample,
         LoadRows, JudgeDone, WriteMeta, TakeQuestion, AnswerQuestion, SaveRow, GradeRow,
         SaveGrades, Invoke, Resume, RemoveLock, Kill, NextSecond, Extract, memory, Abort,
         BeginQa

\* What has been delivered and waited for when ingest is through.
LEMMA IngestIsWhole ==
    ASSUME RunnerInv, pc = "ingest", next > NumSessions, pending = <<>>
    PROVE  Full
<1>1. Range(pending) = {}
  BY DEF Range
<1>2. \A s \in Sessions : marked[s] # "no"
  BY <1>1, LocomoAssumption DEF RunnerInv, IngestInv, Types, IngestTypes, Sessions
<1>3. \A s \in Sessions : marked[s] \in Marks
  BY DEF RunnerInv, Types, IngestTypes
<1> QED
  BY <1>2, <1>3 DEF RunnerInv, Truthful, Full, Isolated, Types, ServerTypes, Marks

\* The whole history, once there, is there for good.
LEMMA FullStays == ASSUME Full, Grows, ServerTypes' PROVE Full'
  BY DEF Full, Grows, ServerTypes, Isolated, UsesOpenViking

LEMMA HistoryKeeps ==
    ASSUME RunnerInv, [Next]_vars
    PROVE  HistoryInv'
<1>1. Types' /\ Grows
  BY TypesKeep
<1>2. HistoryInv /\ Types
  BY DEF RunnerInv
<1>3. CASE ~resumed' /\ ~resumed
  <2>1. (pc' \in Later \cup {"saving"} \/ Answered(csv') # {}) => Full
    <3>1. CASE SaveRecord
      BY <3>1, IngestIsWhole DEF SaveRecord
    <3>2. CASE ~SaveRecord
      <4>1. pc' \in Later \cup {"saving"} => pc \in Later \cup {"saving"}
        BY <1>3, <3>2
           DEF Next, Main, Operator, vars, HealthCheck, SkipIngested, Send, CommitSession,
               MarkSent, PollTask, PollLatest, WriteRecord, Reindex, LoseReindex, NextSample,
               LoadRows, JudgeDone, WriteMeta, TakeQuestion, AnswerQuestion, SaveRow, GradeRow,
               SaveGrades, Invoke, Resume, RemoveLock, Kill, NextSecond, Extract, Abort,
               Forget, BeginQa, Later
      <4>2. csv' = csv \/ pc \in Later
        BY DEF Next, Main, Operator, vars, HealthCheck, SkipIngested, Send, CommitSession,
               MarkSent, PollTask, PollLatest, SaveRecord, WriteRecord, Reindex, LoseReindex,
               NextSample, LoadRows, JudgeDone, WriteMeta, TakeQuestion, AnswerQuestion,
               SaveRow, GradeRow, SaveGrades, Invoke, Resume, RemoveLock, Kill, NextSecond,
               Extract, disk, Later
      <4> QED
        BY <1>2, <1>3, <4>1, <4>2 DEF HistoryInv
    <3>3. SaveRecord => csv' = csv
      BY DEF SaveRecord
    <3> QED
      BY <1>2, <1>3, <3>1, <3>2, <3>3 DEF HistoryInv
  <2>2. Isolated' /\ reindex' = "ok" => Sessions \subseteq indexed' \cup gaveUp'
    <3>1. CASE UNCHANGED <<reindex, indexed>>
      BY <1>1, <1>2, <1>3, <3>1 DEF HistoryInv, Isolated, UsesOpenViking, Grows
    <3>2. CASE Reindex \/ LoseReindex
      <4>1. pc = "reindex" /\ (reindex' = "ok" => indexed' = extracted)
        BY <3>2 DEF Reindex, LoseReindex
      <4>2. Full
        BY <1>2, <1>3, <4>1 DEF HistoryInv, Later
      <4> QED
        BY <1>1, <4>1, <4>2 DEF Full, Grows, Isolated, UsesOpenViking
    <3> QED
      BY <3>1, <3>2
         DEF Next, Main, Operator, vars, HealthCheck, SkipIngested, Send, CommitSession,
             MarkSent, PollTask, PollLatest, SaveRecord, WriteRecord, NextSample, LoadRows,
             JudgeDone, WriteMeta, TakeQuestion, AnswerQuestion, SaveRow, GradeRow, SaveGrades,
             Invoke, Resume, RemoveLock, Kill, NextSecond, Extract, disk, server
  <2>3. Full => Full'
    BY <1>1, FullStays DEF Types
  <2> QED
    BY <2>1, <2>2, <2>3 DEF HistoryInv
<1> QED
  BY <1>1, <1>2, <1>3 DEF HistoryInv, Grows

-----------------------------------------------------------------------------
(* Questions, grades and the report *)

\* What a step does to the file of answers.
LEMMA RowsKeep ==
    ASSUME RunnerInv, [Next]_vars
    PROVE  \A q \in Questions :
              /\ Len(csv'[q]) <= 1
              /\ DOMAIN csv[q] \subseteq DOMAIN csv'[q]
              /\ \A i \in DOMAIN csv[q] : Graded(csv[q][i]) => csv'[q][i] = csv[q][i]
              /\ csv[q] # <<>> => csv'[q] # <<>>
<1>1. Types /\ QuestionInv /\ JudgeInv
  BY DEF RunnerInv
<1>2. \A q \in Questions : csv[q] \in Seq(Grades) /\ held[q] \in Seq(Grades) /\ Len(csv[q]) <= 1
  BY <1>1 DEF Types, DiskTypes, AnswerTypes, QuestionInv
<1>3. CASE UNCHANGED csv
  BY <1>2, <1>3
<1>4. ASSUME NEW q \in Questions, SaveRow(q), ~UNCHANGED csv
      PROVE  /\ csv' = [csv EXCEPT ![q] = <<"">>] /\ csv[q] = <<>>
  <2>1. pc = "qa" /\ work[q] = "answered" /\ csv' = [csv EXCEPT ![q] = Append(@, "")]
    BY <1>4 DEF SaveRow
  <2>2. csv[q] = <<>>
    BY <1>1, <2>1 DEF QuestionInv
  <2>3. Append(<<>>, "") = <<"">>
    OBVIOUS
  <2> QED
    BY <2>1, <2>2, <2>3
<1>5. ASSUME NEW q \in Questions, csv' = [csv EXCEPT ![q] = <<"">>], csv[q] = <<>>,
             NEW p \in Questions
      PROVE  /\ Len(csv'[p]) <= 1
             /\ DOMAIN csv[p] \subseteq DOMAIN csv'[p]
             /\ \A i \in DOMAIN csv[p] : Graded(csv[p][i]) => csv'[p][i] = csv[p][i]
             /\ csv[p] # <<>> => csv'[p] # <<>>
  <2>1. CASE p = q
    <3>1. csv'[p] = <<"">> /\ csv[p] = <<>>
      BY <1>1, <1>5, <2>1 DEF Types, DiskTypes
    <3>2. DOMAIN <<>> = {} /\ Len(<<"">>) = 1
      OBVIOUS
    <3>3. DOMAIN csv[p] = {} /\ Len(csv'[p]) = 1
      BY <3>1, <3>2
    <3>4. csv[p] # <<>> => csv'[p] # <<>>
      BY <3>1
    <3>5. Len(csv'[p]) <= 1
      BY <3>3
    <3>6. /\ DOMAIN csv[p] \subseteq DOMAIN csv'[p]
          /\ \A i \in DOMAIN csv[p] : Graded(csv[p][i]) => csv'[p][i] = csv[p][i]
      BY <3>3
    <3> QED
      BY <3>4, <3>5, <3>6
  <2>2. CASE p # q
    <3>1. csv'[p] = csv[p]
      BY <1>1, <1>5, <2>2 DEF Types, DiskTypes
    <3> QED
      BY <1>2, <3>1
  <2> QED
    BY <2>1, <2>2
<1>6. ASSUME pc = "judging", csv' = held, NEW p \in Questions
      PROVE  /\ Len(csv'[p]) <= 1
             /\ DOMAIN csv[p] \subseteq DOMAIN csv'[p]
             /\ \A i \in DOMAIN csv[p] : Graded(csv[p][i]) => csv'[p][i] = csv[p][i]
             /\ csv[p] # <<>> => csv'[p] # <<>>
  <2>1. /\ DOMAIN held[p] = DOMAIN csv[p]
        /\ \A i \in DOMAIN csv[p] : Graded(csv[p][i]) => held[p][i] = csv[p][i]
    BY <1>1, <1>6 DEF JudgeInv
  <2>2. Len(held[p]) = Len(csv[p])
    BY <1>2, <2>1
  <2>3. csv[p] # <<>> => held[p] # <<>>
    BY <1>2, <2>2, EmptySeq
  <2> QED
    BY <1>2, <1>6, <2>1, <2>2, <2>3
<1>7. \/ UNCHANGED csv
      \/ \E q \in Questions : SaveRow(q)
      \/ pc = "judging" /\ csv' = held
  BY DEF Next, Main, Operator, vars, HealthCheck, SkipIngested, Send, CommitSession, MarkSent,
         PollTask, PollLatest, SaveRecord, WriteRecord, Reindex, LoseReindex, NextSample,
         LoadRows, JudgeDone, WriteMeta, TakeQuestion, AnswerQuestion, GradeRow, SaveGrades,
         Invoke, Resume, RemoveLock, Kill, NextSecond, Extract, disk
<1> QED
  BY <1>3, <1>4, <1>5, <1>6, <1>7

\* A question without a row has not been asked, is being asked, or its row was lost.
LEMMA QuestionKeeps ==
    ASSUME RunnerInv, [Next]_vars
    PROVE  QuestionInv'
<1>1. Types' /\ Grows
  BY TypesKeep
<1>2. Types /\ QuestionInv
  BY DEF RunnerInv
<1>3. \A q \in Questions : Len(csv'[q]) <= 1 /\ (csv[q] # <<>> => csv'[q] # <<>>)
  BY RowsKeep
<1>4. faults > 0 => faults' > 0
  BY <1>1, <1>2 DEF Types, CountTypes, Grows
<1>5. CASE pc' \notin {"reindex", "qa"} \cup Judged
  BY <1>3, <1>5 DEF QuestionInv
<1>6. CASE UNCHANGED <<csv, work, sample>> /\ pc' \in {"reindex", "qa"} /\ pc \in {"reindex", "qa"}
  BY <1>2, <1>3, <1>4, <1>6 DEF QuestionInv, Judged
<1>7. CASE pc' \in Judged /\ pc \in Judged
  BY <1>2, <1>3, <1>4, <1>7 DEF QuestionInv, Judged
<1>8. CASE BeginQa /\ UNCHANGED csv
  <2>1. work' = Executed /\ sample' \in Least(Samples) /\ pc' \in {"reindex", "qa"}
    BY <1>8 DEF BeginQa
  <2>2. \A q \in Questions : work'[q] = IF csv[q] = <<>> THEN "queued" ELSE "skip"
    BY <2>1 DEF Executed
  <2>3. \A q \in Questions : ~(SampleOf[q] < sample')
    <3>1. sample' \in Nat /\ \A q \in Questions : SampleOf[q] \in Samples /\ SampleOf[q] \in Nat
      BY <1>1, SamplesAreNumbers DEF Types, AnswerTypes
    <3>2. \A k \in Samples : sample' <= k
      BY <2>1 DEF Least
    <3> QED
      BY <3>1, <3>2
  <2> QED
    BY <1>3, <1>8, <2>1, <2>2, <2>3 DEF QuestionInv, Judged
<1>9. ASSUME NEW q \in Questions, TakeQuestion(q) \/ AnswerQuestion(q) PROVE QuestionInv'
  <2>1. /\ pc = "qa" /\ UNCHANGED <<pc, csv, sample>>
        /\ \E st \in {"running", "answered", "failed"} : work' = [work EXCEPT ![q] = st]
        /\ work[q] \in {"queued", "running"}
    BY <1>9 DEF TakeQuestion, AnswerQuestion, InState, disk
  <2>2. PICK st \in {"running", "answered", "failed"} :
            \A p \in Questions : work'[p] = IF p = q THEN st ELSE work[p]
    BY <1>2, <2>1 DEF Types, AnswerTypes
  <2>3. csv[q] = <<>> /\ ~(SampleOf[q] < sample)
    BY <1>2, <2>1 DEF QuestionInv
  <2> QED
    BY <1>2, <1>3, <1>4, <2>1, <2>2, <2>3 DEF QuestionInv, Judged
<1>10. ASSUME NEW q \in Questions, SaveRow(q) PROVE QuestionInv'
  <2>1. /\ pc = "qa" /\ UNCHANGED <<pc, sample>> /\ work' = [work EXCEPT ![q] = "done"]
        /\ csv' = [csv EXCEPT ![q] = Append(@, "")] \/ (UNCHANGED csv /\ faults' = faults + 1)
    BY <1>10 DEF SaveRow, Fault
  <2>2. \A p \in Questions : work'[p] = IF p = q THEN "done" ELSE work[p]
    BY <1>2, <2>1 DEF Types, AnswerTypes
  <2>3. \A p \in Questions \ {q} : csv'[p] = csv[p]
    BY <1>2, <2>1 DEF Types, DiskTypes
  <2>4. csv'[q] = <<>> => faults' > 0
    <3>1. CASE csv' = [csv EXCEPT ![q] = Append(@, "")]
      <4>1. csv[q] \in Seq(Grades) /\ csv'[q] = Append(csv[q], "") /\ "" \in Grades
        BY <1>2, <3>1 DEF Types, DiskTypes, Grades
      <4>2. \A c \in Seq(Grades), g \in Grades : Len(Append(c, g)) # 0
        OBVIOUS
      <4>3. Len(<<>>) = 0
        OBVIOUS
      <4> QED
        BY <4>1, <4>2, <4>3
    <3>2. CASE faults' = faults + 1
      BY <1>2, <3>2 DEF Types, CountTypes
    <3> QED
      BY <2>1, <3>1, <3>2
  <2>5. pc \in {"reindex", "qa"} /\ pc' \in {"reindex", "qa"} /\ pc' \notin Judged
    BY <2>1 DEF Judged
  <2>6. ASSUME NEW p \in Questions
        PROVE  /\ work'[p] \in {"queued", "running", "answered", "failed"} => csv'[p] = <<>>
               /\ work'[p] = "skip" => csv'[p] # <<>>
               /\ work'[p] = "done" /\ csv'[p] = <<>> => faults' > 0
               /\ SampleOf[p] < sample' => work'[p] \in {"skip", "done"}
    <3>1. CASE p = q
      BY <2>2, <2>4, <3>1
    <3>2. CASE p # q
      BY <1>2, <1>4, <2>1, <2>2, <2>3, <2>5, <3>2 DEF QuestionInv
    <3> QED
      BY <3>1, <3>2
  <2> QED
    BY <1>3, <2>5, <2>6 DEF QuestionInv
<1>11. CASE NextSample /\ ~Forget
  <2>1. /\ pc = "qa" /\ UNCHANGED <<csv, work>>
        /\ InState({"queued", "running", "answered"}) = {} /\ InState({"failed"}) = {}
        /\ LET rest == {k \in Samples : k > sample} IN
               \/ rest # {} /\ sample' \in Least(rest) /\ UNCHANGED pc
               \/ rest = {} /\ pc' = "judge" /\ UNCHANGED sample
    BY <1>11 DEF NextSample, Abort, disk
  <2>2. \A q \in Questions : work[q] \in WorkStates
    BY <1>2 DEF Types, AnswerTypes
  <2>3. \A q \in Questions : SampleOf[q] = sample => work[q] \in {"skip", "done"}
    BY <2>1, <2>2 DEF InState, Open, WorkStates
  <2>4. sample \in Nat /\ \A q \in Questions : SampleOf[q] \in Samples /\ SampleOf[q] \in Nat
    BY <1>2, SamplesAreNumbers DEF Types, AnswerTypes
  <2>5. \A q \in Questions : SampleOf[q] <= sample => work[q] \in {"skip", "done"}
    BY <1>2, <2>1, <2>3, <2>4 DEF QuestionInv
  <2>6. CASE pc' = "judge" /\ {k \in Samples : k > sample} = {}
    <3>1. \A q \in Questions : SampleOf[q] <= sample
      BY <2>4, <2>6
    <3> QED
      BY <1>2, <1>3, <1>4, <2>1, <2>5, <2>6, <3>1 DEF QuestionInv, Judged
  <2>7. CASE UNCHANGED pc /\ sample' \in Least({k \in Samples : k > sample})
    <3>1. sample' \in Nat
      BY <1>1 DEF Types, AnswerTypes
    <3>2. \A q \in Questions : SampleOf[q] < sample' => SampleOf[q] <= sample
      BY <2>4, <2>7, <3>1 DEF Least
    <3> QED
      BY <1>2, <1>3, <1>4, <2>1, <2>5, <2>7, <3>2 DEF QuestionInv, Judged
  <2> QED
    BY <2>1, <2>6, <2>7
<1>12. pc' = "off" \/ ~Forget
  BY DEF Forget
<1> QED
  BY <1>5, <1>6, <1>7, <1>8, <1>9, <1>10, <1>11, <1>12
     DEF Next, Main, Operator, vars, HealthCheck, SkipIngested, Send, CommitSession, MarkSent,
         PollTask, PollLatest, SaveRecord, WriteRecord, Reindex, LoseReindex, LoadRows,
         JudgeDone, WriteMeta, GradeRow, SaveGrades, Invoke, Resume, RemoveLock, Kill,
         NextSecond, Extract, Abort, Judged, memory, disk

\* The judge grades what is in the file, and leaves when all of that is saved.
LEMMA JudgeKeeps ==
    ASSUME RunnerInv, [Next]_vars
    PROVE  JudgeInv'
<1>1. Types /\ JudgeInv
  BY DEF RunnerInv
<1>2. CASE pc' \notin {"judging", "stats"}
  BY <1>2 DEF JudgeInv
<1>3. CASE UNCHANGED <<pc, csv, held, unsaved>>
  BY <1>1, <1>3 DEF JudgeInv, Ungraded
<1>4. CASE LoadRows /\ pc' = "judging"
  <2>1. held' = csv /\ UNCHANGED csv
    BY <1>4 DEF LoadRows, Abort, Forget, disk
  <2> QED
    BY <1>4, <2>1 DEF JudgeInv
<1>5. ASSUME NEW q \in Questions, GradeRow(q) PROVE JudgeInv'
  <2>1. PICK i \in DOMAIN held[q], g \in {"right", "wrong"} :
            held[q][i] = "" /\ held' = [held EXCEPT ![q][i] = g]
    BY <1>5 DEF GradeRow
  <2>2. pc = "judging" /\ UNCHANGED <<pc, csv>> /\ unsaved' = unsaved \cup {q}
    BY <1>5 DEF GradeRow, disk
  <2>3. held' = [held EXCEPT ![q] = [held[q] EXCEPT ![i] = g]]
    BY <2>1
  <2>4. \A p \in Questions : held'[p] = IF p = q THEN [held[q] EXCEPT ![i] = g] ELSE held[p]
    BY <1>1, <2>3 DEF Types, AnswerTypes
  <2>5. DOMAIN held[q] = DOMAIN csv[q] /\ held[q] \in Seq(Grades)
    BY <1>1, <2>2 DEF JudgeInv, Types, AnswerTypes
  <2>6. /\ DOMAIN [held[q] EXCEPT ![i] = g] = DOMAIN held[q]
        /\ \A j \in DOMAIN held[q] : j # i => [held[q] EXCEPT ![i] = g][j] = held[q][j]
    BY <2>5
  <2>7. ~Graded(csv[q][i])
    BY <1>1, <2>1, <2>2, <2>5 DEF JudgeInv, Graded
  <2>8. \A j \in DOMAIN csv[q] : Graded(csv[q][j]) => [held[q] EXCEPT ![i] = g][j] = csv[q][j]
    BY <1>1, <2>2, <2>5, <2>6, <2>7 DEF JudgeInv
  <2> QED
    BY <1>1, <2>2, <2>4, <2>5, <2>6, <2>8 DEF JudgeInv
<1>6. ASSUME NEW q \in Questions, SaveGrades(q), pc' = "judging" PROVE JudgeInv'
  <2>1. csv' = held /\ UNCHANGED held
    BY <1>6 DEF SaveGrades, Abort, Forget
  <2> QED
    BY <1>6, <2>1 DEF JudgeInv
<1>7. CASE JudgeDone
  <2>1. pc = "judging" /\ pc' = "stats" /\ UNCHANGED csv /\ Ungraded(held) = {} /\ unsaved = {}
    BY <1>7 DEF JudgeDone, disk
  <2>2. \A q \in Questions : held[q] = csv[q]
    BY <1>1, <2>1 DEF JudgeInv
  <2> QED
    BY <2>1, <2>2 DEF JudgeInv, Ungraded
<1> QED
  BY <1>2, <1>3, <1>4, <1>5, <1>6, <1>7
     DEF Next, Main, Operator, vars, HealthCheck, SkipIngested, Send, CommitSession, MarkSent,
         PollTask, PollLatest, SaveRecord, WriteRecord, Reindex, LoseReindex, NextSample,
         LoadRows, WriteMeta, TakeQuestion, AnswerQuestion, SaveRow, SaveGrades, Invoke,
         Resume, RemoveLock, Kill, NextSecond, Extract, Abort, Forget, BeginQa, memory, disk

LEMMA MetaKeeps ==
    ASSUME RunnerInv, [Next]_vars
    PROVE  MetaInv'
<1>1. Types' /\ Grows
  BY TypesKeep
<1>2. Types /\ QuestionInv /\ JudgeInv /\ MetaInv
  BY DEF RunnerInv
<1>3. /\ csv \in [Questions -> Seq(Grades)] /\ csv' \in [Questions -> Seq(Grades)]
      /\ \A q \in Questions : Len(csv[q]) <= 1 /\ Len(csv'[q]) <= 1
                              /\ DOMAIN csv[q] \subseteq DOMAIN csv'[q]
  BY <1>1, <1>2, RowsKeep DEF Types, DiskTypes, QuestionInv
<1>4. CASE UNCHANGED meta
  <2>1. RowCount(csv) <= RowCount(csv') /\ RowCount(csv) \in Nat /\ RowCount(csv') \in Nat
    BY <1>3, RowsGrow, RowsAreCounted
  <2>2. meta.rows \in Int /\ faults \in Nat /\ faults' \in Nat /\ faults <= faults'
    BY <1>1, <1>2 DEF Types, DiskTypes, CountTypes, Grows
  <2>3. (meta.rows <= RowCount(csv))' <=> meta'.rows <= RowCount(csv')
    OBVIOUS
  <2> QED
    BY <1>2, <1>4, <2>1, <2>2 DEF MetaInv
<1>5. CASE WriteMeta
  <2>1. /\ pc = "stats" /\ meta' = [rows |-> RowCount(csv), graded |-> GradedCount(csv)]
        /\ UNCHANGED <<csv, faults>>
    BY <1>5 DEF WriteMeta, history
  <2>2. RowCount(csv) \in Nat /\ GradedCount(csv) = RowCount(csv)
    BY <1>2, <1>3, <2>1, RowsAreCounted DEF JudgeInv
  <2>3. Len(SampleOf) <= RowCount(csv) \/ faults > 0
    BY <1>2, <1>3, <2>1, RowsAreCounted DEF QuestionInv, Judged
  <2>4. RowCount(csv') = RowCount(csv)
    BY <2>1
  <2>5. Len(SampleOf) \in Nat
    BY SamplesAreNumbers
  <2> QED
    BY <2>1, <2>2, <2>3, <2>4, <2>5 DEF MetaInv
<1> QED
  BY <1>4, <1>5
     DEF Next, Main, Operator, vars, HealthCheck, SkipIngested, Send, CommitSession, MarkSent,
         PollTask, PollLatest, SaveRecord, WriteRecord, Reindex, LoseReindex, NextSample,
         LoadRows, JudgeDone, TakeQuestion, AnswerQuestion, SaveRow, GradeRow, SaveGrades,
         Invoke, Resume, RemoveLock, Kill, NextSecond, Extract, disk

LEMMA RunnerKeeps == RunnerInv /\ [Next]_vars => RunnerInv'
  BY TypesKeep, LockKeeps, RecordKeeps, MarkedKeeps, IngestKeeps, HistoryKeeps, QuestionKeeps,
     JudgeKeeps, MetaKeeps DEF RunnerInv

-----------------------------------------------------------------------------
\* The invariant holds in every state of the runner, with its kills and restarts.
THEOREM RunnerInvariance == Spec => []RunnerInv
  BY InitRunner, RunnerKeeps, PTL DEF Spec

\* What the files of a run say of its ingest and its answers is true, whenever it was
\* killed, failed or was started again (eval.py, 1108-1389, 973-1010).
THEOREM FilesAreTrue == Spec => []LocomoInv
<1>1. RunnerInv => LocomoInv
  BY TypesAreTypeOK
     DEF RunnerInv, LocomoInv, Truthful, RecordIsTrue, QuestionInv, OneRowPerQuestion
<1> QED
  BY <1>1, RunnerInvariance, PTL

\* No answer on a history that is incomplete (eval.py, 1108-1389, 1592-1658).
THEOREM AnsweredOnAllOfIt == Spec => []AnsweredOnFullHistory
<1>1. RunnerInv => AnsweredOnFullHistory
  BY DEF RunnerInv, HistoryInv, Full, Isolated, AnsweredOnFullHistory
<1> QED
  BY <1>1, RunnerInvariance, PTL

\* Neither a row nor its grade is lost (eval.py, 973-1010; judge.py).
THEOREM NoRowIsLost == Spec => RowsAreKept
<1> DEFINE Kept == \A q \in Questions : \A i \in DOMAIN csv[q] :
                     /\ i \in DOMAIN csv'[q]
                     /\ Graded(csv[q][i]) => csv'[q][i] = csv[q][i]
<1>1. RunnerInv /\ [Next]_vars => Kept
  BY RowsKeep
<1>2. RunnerInv /\ [Next]_vars => [Kept]_vars
  BY <1>1
<1> QED
  BY <1>2, RunnerInvariance, PTL DEF Spec, RowsAreKept

\* What the report counts is graded, and in the file (stats.py).
THEOREM ReportCountsTheFile == Spec => []ReportIsComplete
<1>1. RunnerInv => ReportIsComplete
  BY DEF RunnerInv, MetaInv, ReportIsComplete
<1> QED
  BY <1>1, RunnerInvariance, PTL
=============================================================================
