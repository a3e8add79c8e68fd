--------------------------- MODULE WorkflowProofs ---------------------------
(***************************************************************************)
(* Machine-checked proofs about a workflow: first the scheduler of its     *)
(* cases, module WorkflowScheduler, for every number of cases, every plan  *)
(* validate_workflow accepts and every pair of concurrencies; then the     *)
(* lease openclaw-memos-local puts around each call of the agent in a      *)
(* case, module MemosLease, for any runs and requests.                     *)
(***************************************************************************)
EXTENDS WorkflowScheduler, MemosLease, FiniteSetTheorems, TLAPS

-----------------------------------------------------------------------------
(* The inductive invariant *)

\* Nothing is known of a case that no worker has been given.
Untouched(c) ==
    fut[c] = "none" /\ status[c] = "none" /\ archive[c] = "none" /\ verdict[c] = "none"

UntouchedInv == \A c \in Cases : ~Submitted(c) => Untouched(c)

\* The groups before the current one are over.
PastInv == \A c \in Cases : c < first => Settled(c)

\* The cases submitted since NextGroup belong to one group, and so depend on
\* the same cases; none of these is in the group.
GroupInv ==
    \A c \in Cases : first <= c /\ Submitted(c) =>
        /\ c # first => ~Opens(c)
        /\ DependsOn[c] = DependsOn[first]

\* What the coordinator has recorded of a case agrees with its future.
LifeInv == \A c \in Cases :
    /\ fut[c] \in QaFutures =>
          status[c] = "none" /\ archive[c] = "none" /\ verdict[c] = "none"
    /\ fut[c] \in JudgeFutures =>
          /\ c \in Judged
          /\ status[c] = "passed"
          /\ archive[c] = "judge_pending"
          /\ verdict[c] = "none"
    /\ archive[c] # "none" => status[c] # "none"
    /\ archive[c] = "judge_pending" => c \in Judged
    /\ archive[c] = "final" => fut[c] = "none"

\* While the call is not aborted, a submitted case without a future is over.
ResultInv ==
    pc \in {"running", "returned"} => \A c \in Cases :
        Submitted(c) /\ fut[c] = "none" =>
            archive[c] = "final" /\ ((verdict[c] # "none") <=> (c \in Judged))

\* A worker passes a case only if its snapshot showed no unmet dependency.
PassInv == \A c \in Cases :
    fut[c] = "qa_passed" \/ status[c] = "passed" => unmet[c] = {}

DoneInv ==
    /\ done \subseteq Finished
    /\ pc # "running" => done = {}

EndInv ==
    /\ pc = "returned" => Pending = {} /\ next = NumCases + 1
    /\ pc = "raised" => AtWork = {}

Inv ==
    /\ TypeOK
    /\ UntouchedInv
    /\ PastInv
    /\ GroupInv
    /\ LifeInv
    /\ ResultInv
    /\ PassInv
    /\ DoneInv
    /\ EndInv
    /\ SnapshotNeverStale
    /\ BoundedWork

-----------------------------------------------------------------------------
(* Facts the steps share *)

\* Taking a case into a set of cases adds one, taking it out removes one.
LEMMA CaseCount ==
    ASSUME NEW S \in SUBSET Cases
    PROVE  /\ Cardinality(S) \in Nat
           /\ \A T \in SUBSET S : Cardinality(T) <= Cardinality(S)
           /\ \A c \in Cases \ S : Cardinality(S \cup {c}) = Cardinality(S) + 1
           /\ \A c \in S : Cardinality(S \ {c}) = Cardinality(S) - 1
<1>1. IsFiniteSet(Cases)
  BY FS_Interval, SizeAssumption DEF Cases
<1>2. IsFiniteSet(S)
  BY <1>1, FS_Subset
<1> QED
  BY <1>2, FS_CardinalityType, FS_Subset, FS_AddElement, FS_RemoveElement

\* Whatever a submitted case depends on was settled in an earlier group.
LEMMA DependenciesArePast ==
    ASSUME TypeOK, GroupInv, NEW e \in Cases, Submitted(e), NEW d \in DependsOn[e]
    PROVE  d \in Cases /\ d < first
<1>1. CASE e < first
  BY <1>1, SizeAssumption, PlanAssumption DEF TypeOK, Cases
<1>2. CASE first <= e
  BY <1>2, SizeAssumption, PlanAssumption DEF TypeOK, GroupInv, Submitted, Cases
<1> QED
  BY <1>1, <1>2 DEF TypeOK, Cases

LEMMA CapacityNat == Capacity \in Nat \ {0}
  BY SizeAssumption DEF Capacity

-----------------------------------------------------------------------------
(* The invariant holds *)

LEMMA InitInv == Init => Inv
<1> SUFFICES ASSUME Init PROVE Inv
  OBVIOUS
<1>1. TypeOK
  BY SizeAssumption DEF Init, TypeOK, Cases
<1>2. UntouchedInv /\ PastInv /\ GroupInv /\ LifeInv /\ ResultInv /\ PassInv
  BY SizeAssumption DEF Init, UntouchedInv, Untouched, PastInv, GroupInv, LifeInv,
     ResultInv, PassInv, Submitted, Cases, QaFutures, QaDone, JudgeFutures, JudgeDone
<1>3. DoneInv /\ EndInv /\ SnapshotNeverStale
  BY SizeAssumption DEF Init, DoneInv, EndInv, SnapshotNeverStale, Submitted, Cases
<1>4. BoundedWork
  <2>1. QaOf = {} /\ Pending = {}
    BY DEF Init, QaOf, Pending, QaFutures, QaDone
  <2> QED
    BY <2>1, FS_EmptySet, CapacityNat, SizeAssumption DEF Init, BoundedWork
<1> QED
  BY <1>1, <1>2, <1>3, <1>4 DEF Inv

LEMMA SubmitInv == Inv /\ Submit => Inv'
<1> SUFFICES ASSUME Inv, Submit PROVE Inv'
  OBVIOUS
<1> USE DEF Inv
<1>0. next \in Cases /\ fut[next] = "none" /\ status[next] = "none"
  BY SizeAssumption DEF Submit, CanSubmit, CaseLeft, TypeOK, Cases, UntouchedInv, Untouched, Submitted
<1>1. TypeOK'
  BY <1>0, SizeAssumption, PlanAssumption DEF Submit, TypeOK, QaFutures, QaDone, Snapshot, Cases
<1>2. UntouchedInv'
  BY <1>0 DEF Submit, UntouchedInv, Untouched, Submitted, TypeOK, Cases
<1>3. PastInv'
  BY <1>0 DEF Submit, PastInv, Settled, TypeOK, Cases
<1>4. GroupInv'
  <2>1. SUFFICES ASSUME NEW c \in Cases, first <= c, c < next + 1
                 PROVE  (c # first => ~Opens(c)) /\ DependsOn[c] = DependsOn[first]
    BY DEF Submit, GroupInv, Submitted
  <2>2. CASE c < next
    BY <2>1, <2>2 DEF GroupInv, Submitted
  <2>3. CASE c = first
    BY <2>3
  <2>4. CASE c = next /\ c # first
    <3>1. ~Opens(next)
      BY <2>4 DEF Submit, CanSubmit, CaseLeft
    <3>2. next - 1 \in Cases /\ first <= next - 1 /\ Submitted(next - 1)
      BY <1>0, <2>1, <2>4, SizeAssumption DEF TypeOK, Cases, Submitted
    <3>3. DependsOn[next] = DependsOn[next - 1]
      BY <1>0, <3>1, <3>2, PlanAssumption DEF Opens
    <3> QED
      BY <2>4, <3>1, <3>2, <3>3 DEF GroupInv
  <2> QED
    BY <1>0, <2>1, <2>2, <2>3, <2>4 DEF Cases, TypeOK
<1>5. LifeInv'
  BY <1>0 DEF Submit, LifeInv, UntouchedInv, Untouched, Submitted, TypeOK, Cases,
     QaFutures, QaDone, JudgeFutures, JudgeDone
<1>6. ResultInv'
  BY <1>0 DEF Submit, ResultInv, Submitted, TypeOK, Cases
<1>7. PassInv'
  BY <1>0 DEF Submit, PassInv, TypeOK, Cases
<1>8. DoneInv' /\ EndInv'
  BY <1>0 DEF Submit, AtLoopHead, DoneInv, EndInv
<1>9. SnapshotNeverStale'
  BY <1>0 DEF Submit, SnapshotNeverStale, Snapshot, Submitted, TypeOK, Cases
<1>10. BoundedWork'
  <2>1. QaOf' = QaOf \cup {next} /\ Pending' = Pending \cup {next}
    BY <1>0 DEF Submit, TypeOK, QaOf, Pending, QaFutures, QaDone
  <2>2. next \in Cases \ QaOf /\ next \in Cases \ Pending
    BY <1>0 DEF QaOf, Pending, QaFutures, QaDone
  <2>3. Cardinality(QaOf') = Cardinality(QaOf) + 1
    BY <2>1, <2>2, CaseCount DEF QaOf
  <2>4. Cardinality(Pending') = Cardinality(Pending) + 1
    BY <2>1, <2>2, CaseCount DEF Pending
  <2>5. Cardinality(QaOf) \in Nat /\ Cardinality(Pending) \in Nat
    BY CaseCount DEF QaOf, Pending
  <2> QED
    BY <2>3, <2>4, <2>5, CapacityNat, SizeAssumption
    DEF Submit, AtLoopHead, CanSubmit, HasRoom, BoundedWork, Capacity
<1> QED
  BY <1>1, <1>2, <1>3, <1>4, <1>5, <1>6, <1>7, <1>8, <1>9, <1>10

LEMMA WaitInv == Inv /\ Wait => Inv'
<1> SUFFICES ASSUME Inv, Wait PROVE Inv'
  OBVIOUS
<1> USE DEF Inv
<1>1. TypeOK' /\ UntouchedInv' /\ PastInv' /\ GroupInv' /\ LifeInv' /\ ResultInv' /\ PassInv'
  BY DEF Wait, TypeOK, UntouchedInv, Untouched, PastInv, GroupInv, LifeInv, ResultInv,
     PassInv, Submitted, Settled, Finished
<1>2. DoneInv' /\ EndInv' /\ SnapshotNeverStale' /\ BoundedWork'
  BY DEF Wait, AtLoopHead, DoneInv, EndInv, SnapshotNeverStale, Snapshot, Submitted,
     BoundedWork, Finished, Pending, QaOf, AtWork
<1> QED
  BY <1>1, <1>2

LEMMA NextGroupInv == Inv /\ NextGroup => Inv'
<1> SUFFICES ASSUME Inv, NextGroup PROVE Inv'
  OBVIOUS
<1> USE DEF Inv
<1>1. TypeOK' /\ UntouchedInv' /\ LifeInv' /\ ResultInv' /\ PassInv'
  BY DEF NextGroup, TypeOK, UntouchedInv, Untouched, LifeInv, ResultInv, PassInv, Submitted
<1>2. PastInv'
  BY DEF NextGroup, AtLoopHead, PastInv, ResultInv, Submitted, Settled, Pending
<1>3. GroupInv'
  BY DEF NextGroup, GroupInv, Submitted, TypeOK, Cases
<1>4. DoneInv' /\ EndInv' /\ SnapshotNeverStale'
  BY DEF NextGroup, AtLoopHead, DoneInv, EndInv, SnapshotNeverStale, Snapshot, Submitted,
     Finished, Pending, AtWork
<1>5. BoundedWork'
  <2>1. QaOf' = {} /\ Pending' = {}
    BY DEF NextGroup, QaOf, Pending, QaFutures, QaDone
  <2> QED
    BY <2>1, FS_EmptySet, CapacityNat, SizeAssumption DEF NextGroup, BoundedWork, Capacity
<1> QED
  BY <1>1, <1>2, <1>3, <1>4, <1>5

LEMMA ReturnInv == Inv /\ Return => Inv'
<1> SUFFICES ASSUME Inv, Return PROVE Inv'
  OBVIOUS
<1> USE DEF Inv
<1>1. TypeOK' /\ UntouchedInv' /\ PastInv' /\ GroupInv' /\ LifeInv' /\ ResultInv' /\ PassInv'
  BY DEF Return, AtLoopHead, TypeOK, UntouchedInv, Untouched, PastInv, GroupInv, LifeInv,
     ResultInv, PassInv, Submitted, Settled
<1>2. DoneInv' /\ EndInv' /\ SnapshotNeverStale' /\ BoundedWork'
  BY SizeAssumption DEF Return, AtLoopHead, DoneInv, EndInv, SnapshotNeverStale, Snapshot,
     Submitted, BoundedWork, Finished, Pending, QaOf, AtWork, TypeOK
<1> QED
  BY <1>1, <1>2

\* Collecting a future takes its case out of the outstanding work.
LEMMA CollectedWork ==
    ASSUME TypeOK, BoundedWork, NEW c \in Cases, NEW f, f \notin QaFutures,
           fut[c] # "none", fut' = [fut EXCEPT ![c] = f]
    PROVE  /\ Cardinality(Pending') <= Capacity
           /\ fut[c] \in QaFutures =>
                 /\ Cardinality(QaOf') = Cardinality(QaOf) - 1
                 /\ Cardinality(QaOf') \in Nat
           /\ fut[c] \notin QaFutures => QaOf' = QaOf
<1>1. QaOf' = QaOf \ {c}
  BY DEF QaOf, TypeOK
<1>2. Pending' \in SUBSET Pending
  BY DEF Pending, TypeOK
<1>3. Cardinality(Pending') <= Capacity
  <2>1. Cardinality(Pending') <= Cardinality(Pending)
    BY <1>2, CaseCount DEF Pending
  <2>2. Cardinality(Pending) \in Nat /\ Cardinality(Pending') \in Nat
    BY CaseCount DEF Pending
  <2> QED
    BY <2>1, <2>2, CapacityNat DEF BoundedWork
<1>4. fut[c] \in QaFutures =>
        Cardinality(QaOf') = Cardinality(QaOf) - 1 /\ Cardinality(QaOf') \in Nat
  BY <1>1, CaseCount DEF QaOf
<1>5. fut[c] \notin QaFutures => QaOf' = QaOf
  BY <1>1 DEF QaOf
<1> QED
  BY <1>3, <1>4, <1>5

LEMMA CollectQaInv == ASSUME NEW c \in Cases PROVE Inv /\ CollectQa(c) => Inv'
<1> SUFFICES ASSUME Inv, CollectQa(c) PROVE Inv'
  OBVIOUS
<1> USE DEF Inv
<1>0. fut[c] \in QaFutures /\ fut[c] # "none" /\ Submitted(c) /\ ~(c < first)
  BY DEF CollectQa, QaFutures, QaDone, UntouchedInv, Untouched, PastInv, Settled
<1>1. TypeOK'
  <2>1. qaActive' \in Nat
    <3>1. Cardinality(QaOf) \in Nat /\ Cardinality(QaOf \ {c}) \in Nat
      BY CaseCount DEF QaOf
    <3>2. Cardinality(QaOf \ {c}) = Cardinality(QaOf) - 1
      BY <1>0, CaseCount DEF QaOf
    <3> QED
      BY <3>1, <3>2 DEF CollectQa, BoundedWork
  <2> QED
    BY <2>1 DEF CollectQa, TypeOK, Outcome, QaVerdict, JudgeFutures
<1>2. UntouchedInv'
  BY <1>0 DEF CollectQa, UntouchedInv, Untouched, Submitted, TypeOK
<1>3. PastInv' /\ GroupInv'
  BY <1>0 DEF CollectQa, PastInv, Settled, GroupInv, Submitted, TypeOK
<1>4. LifeInv'
  BY <1>0 DEF CollectQa, LifeInv, TypeOK, HasJudgeJob, Outcome, QaVerdict,
     QaFutures, QaDone, JudgeFutures, JudgeDone
<1>5. ResultInv'
  BY <1>0 DEF CollectQa, ResultInv, LifeInv, Submitted, TypeOK, HasJudgeJob, QaVerdict
<1>6. PassInv'
  BY <1>0 DEF CollectQa, PassInv, TypeOK, Outcome, HasJudgeJob
<1>7. DoneInv' /\ EndInv'
  BY DEF CollectQa, DoneInv, EndInv, Finished, TypeOK
<1>8. SnapshotNeverStale'
  BY <1>0, DependenciesArePast DEF CollectQa, SnapshotNeverStale, Snapshot, Submitted, TypeOK
<1>9. BoundedWork'
  <2> DEFINE f == IF HasJudgeJob(c) THEN "judge_queued" ELSE "none"
  <2>1. f \notin QaFutures /\ fut' = [fut EXCEPT ![c] = f]
    BY DEF CollectQa, QaFutures, QaDone
  <2> HIDE DEF f
  <2>2. /\ Cardinality(Pending') <= Capacity
        /\ Cardinality(QaOf') = Cardinality(QaOf) - 1
    BY <1>0, <2>1, CollectedWork
  <2>3. Cardinality(QaOf) \in Nat
    BY CaseCount DEF QaOf
  <2>4. qaActive' = qaActive - 1 /\ pc = "running" /\ pc' = pc /\ Capacity' = Capacity
    BY DEF CollectQa, Capacity
  <2> QED
    BY <2>2, <2>3, <2>4, SizeAssumption DEF BoundedWork
<1> QED
  BY <1>1, <1>2, <1>3, <1>4, <1>5, <1>6, <1>7, <1>8, <1>9

LEMMA CollectJudgeInv == ASSUME NEW c \in Cases PROVE Inv /\ CollectJudge(c) => Inv'
<1> SUFFICES ASSUME Inv, CollectJudge(c) PROVE Inv'
  OBVIOUS
<1> USE DEF Inv
<1>0. fut[c] \in JudgeFutures /\ fut[c] \notin QaFutures /\ fut[c] # "none" /\ Submitted(c)
  BY DEF CollectJudge, JudgeFutures, JudgeDone, QaFutures, QaDone, UntouchedInv, Untouched
<1>1. TypeOK' /\ UntouchedInv' /\ PastInv' /\ GroupInv'
  BY <1>0 DEF CollectJudge, TypeOK, UntouchedInv, Untouched, PastInv, Settled, GroupInv,
     Submitted, JudgeVerdict
<1>2. LifeInv' /\ ResultInv' /\ PassInv'
  BY <1>0 DEF CollectJudge, LifeInv, ResultInv, PassInv, Submitted, TypeOK, JudgeVerdict,
     QaFutures, QaDone, JudgeFutures, JudgeDone
<1>3. DoneInv' /\ EndInv' /\ SnapshotNeverStale'
  BY <1>0 DEF CollectJudge, DoneInv, EndInv, Finished, SnapshotNeverStale, Snapshot, Submitted, TypeOK
<1>4. BoundedWork'
  BY <1>0, CollectedWork DEF CollectJudge, BoundedWork, QaFutures, QaDone
<1> QED
  BY <1>1, <1>2, <1>3, <1>4

\* The call is aborted by a QA future: what it says, or that it is not archived.
LEMMA QaAbortInv == ASSUME NEW c \in Cases
                    PROVE  Inv /\ (CollectRaised(c) \/ QaArchiveFails(c)) => Inv'
<1> SUFFICES ASSUME Inv, CollectRaised(c) \/ QaArchiveFails(c) PROVE Inv'
  OBVIOUS
<1> USE DEF Inv
<1>0. /\ fut[c] \in QaFutures /\ fut[c] # "none" /\ Submitted(c) /\ ~(c < first)
      /\ fut' = [fut EXCEPT ![c] = "none"] /\ qaActive' = qaActive - 1
      /\ pc = "running" /\ pc' = "draining" /\ done' = {}
      /\ UNCHANGED <<next, first, unmet, archive>>
  BY DEF CollectRaised, QaArchiveFails, Abort, QaFutures, QaDone, UntouchedInv, Untouched,
     PastInv, Settled
<1>1. /\ status' \in [Cases -> {"none", "passed", "failed"}]
      /\ verdict' \in [Cases -> {"none", "graded", "ungraded"}]
      /\ status'[c] = "passed" => fut[c] = "qa_passed" \/ status[c] = "passed"
      /\ \A d \in Cases \ {c} : status'[d] = status[d] /\ verdict'[d] = verdict[d]
  BY DEF CollectRaised, QaArchiveFails, TypeOK, Outcome, QaVerdict
<1>2. TypeOK'
  <2>1. Cardinality(QaOf) \in Nat /\ Cardinality(QaOf \ {c}) \in Nat
    BY CaseCount DEF QaOf
  <2>2. Cardinality(QaOf \ {c}) = Cardinality(QaOf) - 1
    BY <1>0, CaseCount DEF QaOf
  <2>3. qaActive' \in Nat
    BY <1>0, <2>1, <2>2 DEF BoundedWork
  <2> QED
    BY <1>0, <1>1, <2>3 DEF TypeOK
<1>3. UntouchedInv' /\ PastInv' /\ GroupInv'
  BY <1>0, <1>1 DEF UntouchedInv, Untouched, PastInv, Settled, GroupInv, Submitted, TypeOK
<1>4. LifeInv'
  BY <1>0, <1>1 DEF LifeInv, TypeOK, QaFutures, QaDone, JudgeFutures, JudgeDone
<1>5. ResultInv' /\ DoneInv' /\ EndInv'
  BY <1>0 DEF ResultInv, DoneInv, EndInv
<1>6. PassInv'
  BY <1>0, <1>1 DEF PassInv, TypeOK
<1>7. SnapshotNeverStale'
  BY <1>0, <1>1, DependenciesArePast DEF SnapshotNeverStale, Snapshot, Submitted, TypeOK
<1>8. BoundedWork'
  <2>1. /\ Cardinality(Pending') <= Capacity
        /\ Cardinality(QaOf') = Cardinality(QaOf) - 1
    BY <1>0, CollectedWork DEF QaFutures, QaDone
  <2>2. Cardinality(QaOf) \in Nat
    BY CaseCount DEF QaOf
  <2> QED
    BY <1>0, <2>1, <2>2, SizeAssumption DEF BoundedWork, Capacity
<1> QED
  BY <1>2, <1>3, <1>4, <1>5, <1>6, <1>7, <1>8

LEMMA JudgeArchiveFailsInv == ASSUME NEW c \in Cases
                              PROVE  Inv /\ JudgeArchiveFails(c) => Inv'
<1> SUFFICES ASSUME Inv, JudgeArchiveFails(c) PROVE Inv'
  OBVIOUS
<1> USE DEF Inv
<1>0. /\ fut[c] \in JudgeFutures /\ fut[c] \notin QaFutures /\ fut[c] # "none"
      /\ Submitted(c) /\ ~(c < first)
  BY DEF JudgeArchiveFails, JudgeFutures, JudgeDone, QaFutures, QaDone, UntouchedInv,
     Untouched, PastInv, Settled
<1>1. TypeOK' /\ UntouchedInv' /\ PastInv' /\ GroupInv'
  BY <1>0 DEF JudgeArchiveFails, Abort, TypeOK, UntouchedInv, Untouched, PastInv, Settled,
     GroupInv, Submitted, JudgeVerdict
<1>2. LifeInv' /\ ResultInv' /\ PassInv'
  BY <1>0 DEF JudgeArchiveFails, Abort, LifeInv, ResultInv, PassInv, Submitted, TypeOK,
     JudgeVerdict, QaFutures, QaDone, JudgeFutures, JudgeDone
<1>3. DoneInv' /\ EndInv' /\ SnapshotNeverStale'
  BY <1>0 DEF JudgeArchiveFails, Abort, DoneInv, EndInv, SnapshotNeverStale, Snapshot,
     Submitted, TypeOK
<1>4. BoundedWork'
  <2>1. Cardinality(Pending') <= Capacity /\ QaOf' = QaOf
    BY <1>0, CollectedWork DEF JudgeArchiveFails, QaFutures, QaDone
  <2> QED
    BY <2>1 DEF JudgeArchiveFails, Abort, BoundedWork, Capacity
<1> QED
  BY <1>1, <1>2, <1>3, <1>4

LEMMA LeaveInv == Inv /\ (Interrupt \/ Drained) => Inv'
<1> SUFFICES ASSUME Inv, Interrupt \/ Drained PROVE Inv'
  OBVIOUS
<1> USE DEF Inv
<1>0. /\ pc' \in {"draining", "raised"} /\ done' \in SUBSET Cases
      /\ done' = {} \/ (done' = done /\ pc # "running")
      /\ pc' = "raised" => AtWork = {}
      /\ UNCHANGED <<next, first, fut, qaActive, unmet, status, archive, verdict>>
  <2>1. CASE Interrupt
    BY <2>1 DEF Interrupt, Abort
  <2>2. CASE Drained
    BY <2>2 DEF Drained, DoneInv, TypeOK
  <2> QED
    BY <2>1, <2>2
<1>1. TypeOK' /\ UntouchedInv' /\ PastInv' /\ GroupInv' /\ LifeInv' /\ ResultInv' /\ PassInv'
  BY <1>0 DEF TypeOK, UntouchedInv, Untouched, PastInv, GroupInv, LifeInv, ResultInv,
     PassInv, Submitted, Settled
<1>2. DoneInv' /\ EndInv' /\ SnapshotNeverStale' /\ BoundedWork'
  BY <1>0 DEF DoneInv, EndInv, SnapshotNeverStale, Snapshot, Submitted, BoundedWork,
     Finished, Pending, QaOf, AtWork
<1> QED
  BY <1>1, <1>2

\* A worker moves the future of one case forward, within its pool.
LEMMA WorkerInv == ASSUME NEW c \in Cases PROVE Inv /\ Worker(c) => Inv'
<1> SUFFICES ASSUME Inv, Worker(c) PROVE Inv'
  OBVIOUS
<1> USE DEF Inv
<1>0. PICK f : /\ fut' = [fut EXCEPT ![c] = f]
               /\ \/ fut[c] = "qa_running" /\ f \in QaDone
                  \/ fut[c] = "judge_queued" /\ f = "judge_running"
                  \/ fut[c] = "judge_running" /\ f \in JudgeDone
               /\ f = "qa_passed" => unmet[c] = {}
  BY DEF Worker, QaFinish, JudgeStart, JudgeFinish, QaDone, JudgeDone
<1>1. /\ PoolOpen
      /\ UNCHANGED <<pc, next, first, done, qaActive, unmet, status, archive, verdict>>
  BY DEF Worker, QaFinish, JudgeStart, JudgeFinish
<1>2. /\ f \in QaFutures <=> fut[c] \in QaFutures
      /\ f \in JudgeFutures <=> fut[c] \in JudgeFutures
      /\ f \in QaFutures \cup JudgeFutures /\ f # "none" /\ fut[c] # "none"
      /\ fut[c] \notin QaDone \cup JudgeDone
      /\ fut[c] \in QaFutures \cup JudgeFutures
  BY <1>0 DEF QaFutures, QaDone, JudgeFutures, JudgeDone
<1>3. TypeOK' /\ UntouchedInv'
  BY <1>0, <1>1, <1>2 DEF TypeOK, UntouchedInv, Untouched, Submitted
<1>4. PastInv' /\ GroupInv' /\ LifeInv'
  BY <1>0, <1>1, <1>2 DEF TypeOK, PastInv, Settled, GroupInv, Submitted, LifeInv
<1>5. ResultInv' /\ PassInv'
  BY <1>0, <1>1, <1>2 DEF TypeOK, ResultInv, PassInv, Submitted
<1>6. DoneInv'
  BY <1>0, <1>1, <1>2 DEF TypeOK, DoneInv, Finished
<1>7. EndInv' /\ SnapshotNeverStale'
  BY <1>1 DEF EndInv, PoolOpen, SnapshotNeverStale, Snapshot, Submitted
<1>8. QaOf' = QaOf /\ Pending' = Pending
  BY <1>0, <1>2 DEF TypeOK, QaOf, Pending
<1>9. BoundedWork'
  BY <1>1, <1>8 DEF BoundedWork, Capacity
<1> QED
  BY <1>3, <1>4, <1>5, <1>6, <1>7, <1>9

LEMMA StutterInv == Inv /\ UNCHANGED vars => Inv'
<1> SUFFICES ASSUME Inv, UNCHANGED vars PROVE Inv'
  OBVIOUS
<1> USE DEF Inv, vars
<1>1. TypeOK' /\ UntouchedInv' /\ PastInv' /\ GroupInv' /\ LifeInv' /\ ResultInv' /\ PassInv'
  BY DEF TypeOK, UntouchedInv, Untouched, PastInv, GroupInv, LifeInv, ResultInv,
     PassInv, Submitted, Settled
<1>2. DoneInv' /\ EndInv' /\ SnapshotNeverStale' /\ BoundedWork'
  BY DEF DoneInv, EndInv, SnapshotNeverStale, Snapshot, Submitted, BoundedWork,
     Finished, Pending, QaOf, AtWork
<1> QED
  BY <1>1, <1>2

\* The invariant holds in every state of every run of the scheduler.
THEOREM Invariance == Spec => []Inv
<1>1. Inv /\ [Next]_vars => Inv'
  <2> SUFFICES ASSUME Inv, [Next]_vars PROVE Inv'
    OBVIOUS
  <2>1. CASE Submit
    BY <2>1, SubmitInv
  <2>2. CASE Wait
    BY <2>2, WaitInv
  <2>3. CASE NextGroup
    BY <2>3, NextGroupInv
  <2>4. CASE Return
    BY <2>4, ReturnInv
  <2>5. ASSUME NEW c \in Cases, Collect(c) PROVE Inv'
    BY <2>5, CollectQaInv, CollectJudgeInv, QaAbortInv, JudgeArchiveFailsInv DEF Collect
  <2>6. CASE Interrupt \/ Drained
    BY <2>6, LeaveInv
  <2>7. ASSUME NEW c \in Cases, Worker(c) PROVE Inv'
    BY <2>7, WorkerInv
  <2>8. CASE Terminated \/ UNCHANGED vars
    BY <2>8, StutterInv DEF Terminated
  <2> QED
    BY <2>1, <2>2, <2>3, <2>4, <2>5, <2>6, <2>7, <2>8 DEF Next, Coordinator
<1> QED
  BY <1>1, InitInv, PTL DEF Spec

-----------------------------------------------------------------------------
(* What follows from it *)

\* Every variable of the scheduler keeps its type.
THEOREM TypeCorrect == Spec => []TypeOK
  BY Invariance, PTL DEF Inv

\* The outstanding answers and futures are bounded and qa_active is exact, for
\* every pair of concurrencies (run_group, 698-712).
THEOREM WorkIsBounded == Spec => []BoundedWork
  BY Invariance, PTL DEF Inv

\* The statuses a worker was given are those the run ends with, for every plan.
THEOREM SnapshotsHold == Spec => []SnapshotNeverStale
  BY Invariance, PTL DEF Inv

\* A submitted case has only settled cases in earlier groups.
LEMMA BarrierFromInv == Inv => GroupBarrier
<1> SUFFICES ASSUME Inv, NEW c \in Cases, NEW d \in Cases, NEW k \in (d + 1)..c,
                    Submitted(c), d < c, Opens(k)
             PROVE  Settled(d)
  BY DEF GroupBarrier
<1> USE DEF Inv
<1>1. k \in Cases /\ d < k /\ Submitted(k)
  BY SizeAssumption DEF Cases, Submitted, TypeOK
<1>2. k <= first
  BY <1>1, SizeAssumption DEF GroupInv, Submitted, TypeOK, Cases
<1>3. d < first
  BY <1>1, <1>2, SizeAssumption DEF TypeOK, Cases
<1> QED
  BY <1>3 DEF PastInv

\* No case of a group is submitted before the groups before it are settled, for
\* every plan and every pair of concurrencies (run_group, 694).
THEOREM GroupsAreSeparated == Spec => []GroupBarrier
  BY Invariance, BarrierFromInv, PTL

LEMMA AnswerFromInv == Inv => AnswerArchivedBeforeJudge
  BY DEF Inv, LifeInv, AnswerArchivedBeforeJudge

\* Only passed answers reach a judge, and only once they are archived as waiting
\* for it (run_group, 725-739).
THEOREM JudgesSeeArchivedAnswers == Spec => []AnswerArchivedBeforeJudge
  BY Invariance, AnswerFromInv, PTL

LEMMA CleanFromInv == Inv => EndIsClean
<1> SUFFICES ASSUME Inv PROVE EndIsClean
  OBVIOUS
<1> USE DEF Inv
<1>1. pc \in {"returned", "raised"} => AtWork = {}
  BY DEF EndInv, AtWork, Pending
<1>2. ASSUME pc = "returned", NEW c \in Cases
      PROVE  Settled(c) /\ ((verdict[c] # "none") <=> (c \in Judged))
  <2>1. Submitted(c) /\ fut[c] = "none"
    BY <1>2, SizeAssumption DEF EndInv, Pending, Submitted, Cases
  <2> QED
    BY <1>2, <2>1 DEF ResultInv, Settled
<1> QED
  BY <1>1, <1>2 DEF EndIsClean

\* No worker outlives execute_cases, and a normal return has archived every case
\* (execute_cases, 691 and 768).
THEOREM EndsClean == Spec => []EndIsClean
  BY Invariance, CleanFromInv, PTL

\* All of it together: the invariant that the runs check.
THEOREM CoordinatorIsSafe == Spec => []CoordinatorInv
  BY TypeCorrect, WorkIsBounded, SnapshotsHold, JudgesSeeArchivedAnswers, EndsClean, PTL
     DEF CoordinatorInv

-----------------------------------------------------------------------------
(* Serial execution *)

\* What has happened to a case while the call runs: nothing undoes it.
LEMMA SettledStaysSettled ==
    ASSUME Inv, [Next]_vars, NEW d \in Cases, Settled(d)
    PROVE  Settled(d)'
<1> USE DEF Settled
<1>1. ASSUME NEW c \in Cases, Collect(c) PROVE Settled(d)'
  BY <1>1 DEF Inv, TypeOK, Collect, CollectQa, CollectJudge, CollectRaised, QaArchiveFails,
     JudgeArchiveFails, JudgeDone
<1>2. ASSUME NEW c \in Cases, Worker(c) PROVE Settled(d)'
  BY <1>2 DEF Inv, TypeOK, Worker, QaFinish, JudgeStart, JudgeFinish
<1>3. CASE Submit
  <2>1. Submitted(d)
    BY DEF Inv, UntouchedInv, Untouched
  <2> QED
    BY <1>3, <2>1, SizeAssumption DEF Submit, Submitted, Inv, TypeOK, Cases
<1>4. CASE Wait \/ NextGroup \/ Return \/ Drained \/ Interrupt \/ Terminated \/ UNCHANGED vars
  BY <1>4 DEF Wait, NextGroup, Return, Drained, Interrupt, Terminated, vars
<1> QED
  BY <1>1, <1>2, <1>3, <1>4 DEF Next, Coordinator

LEMMA SubmitIsSerial == Inv /\ Submit /\ StrictlySerial => StrictlySerial'
<1> SUFFICES ASSUME Inv, Submit, StrictlySerial, QaConcurrency = 1, JudgeConcurrency = 1,
                    NEW c \in Cases, NEW d \in Cases, Submitted(c)', d < c
             PROVE  Settled(d)'
  BY DEF StrictlySerial
<1>1. Pending = {}
  <2>1. Cardinality(Pending) \in Nat /\ IsFiniteSet(Pending)
    <3>1. IsFiniteSet(Cases)
      BY FS_Interval, SizeAssumption DEF Cases
    <3>2. IsFiniteSet(Pending)
      BY <3>1, FS_Subset DEF Pending
    <3> QED
      BY <3>2, FS_CardinalityType
  <2>2. Cardinality(Pending) < 1
    BY DEF Submit, CanSubmit, HasRoom, Capacity
  <2> QED
    BY <2>1, <2>2, FS_EmptySet
<1>2. Submitted(d) /\ d # next
  BY SizeAssumption DEF Submit, Submitted, Inv, TypeOK, Cases
<1>3. fut[d] = "none" /\ archive[d] = "final"
  BY <1>1, <1>2 DEF Pending, Inv, ResultInv, Submit, AtLoopHead
<1> QED
  BY <1>2, <1>3 DEF Submit, Settled, Inv, TypeOK

\* With both concurrencies 1 no case is submitted before every earlier one is
\* answered, judged and archived, for every plan (Capacity is then 1).
THEOREM SerialExecution == Spec => []StrictlySerial
<1>1. Init => StrictlySerial
  BY SizeAssumption DEF Init, StrictlySerial, Submitted, Cases
<1>2. Inv /\ StrictlySerial /\ [Next]_vars => StrictlySerial'
  <2> SUFFICES ASSUME Inv, StrictlySerial, [Next]_vars PROVE StrictlySerial'
    OBVIOUS
  <2>1. CASE Submit
    BY <2>1, SubmitIsSerial
  <2>2. CASE ~Submit
    <3>1. next' = next
      BY <2>2 DEF Next, Coordinator, Collect, Worker, Wait, NextGroup, Return, Drained,
         Interrupt, Terminated, vars, CollectQa, CollectJudge, CollectRaised, QaArchiveFails,
         JudgeArchiveFails, QaFinish, JudgeStart, JudgeFinish
    <3> QED
      BY <3>1, SettledStaysSettled DEF StrictlySerial, Submitted
  <2> QED
    BY <2>1, <2>2
<1> QED
  BY <1>1, <1>2, Invariance, PTL DEF Spec

-----------------------------------------------------------------------------
(* The scheduler implements the ledger *)

LEMMA LedgerInit == Init => Ledger!Init
  BY DEF Init, Ledger!Init, LedgerEntry, LedgerOutcome

\* Archiving an answer is the abstract step Record.
LEMMA CollectQaRecords ==
    ASSUME Inv, GroupBarrier, NEW c \in Cases, CollectQa(c)
    PROVE  Ledger!Record(c, Outcome(c))
<1> USE DEF Inv
<1>1. Submitted(c) /\ fut[c] \in QaFutures /\ archive[c] = "none"
  BY DEF CollectQa, UntouchedInv, Untouched, QaFutures, QaDone, LifeInv
<1>2. LedgerEntry[c] = "absent"
  BY <1>1 DEF LedgerEntry
<1>3. \A d \in EarlierGroups[c] : LedgerEntry[d] = "settled"
  BY <1>1 DEF EarlierGroups, GroupBarrier, Settled, LedgerEntry
<1>4. ASSUME Outcome(c) = "passed", NEW d \in DependsOn[c] PROVE LedgerOutcome[d] = "passed"
  <2>1. d \in Cases /\ d < first
    BY <1>1, DependenciesArePast
  <2>2. unmet[c] = {}
    BY <1>4 DEF Outcome, PassInv
  <2>3. status[d] = "passed"
    BY <1>1, <2>2 DEF SnapshotNeverStale, Snapshot
  <2> QED
    BY <2>1, <2>3 DEF PastInv, Settled, LedgerOutcome
<1>5. LedgerOutcome' = [LedgerOutcome EXCEPT ![c] = Outcome(c)]
  BY DEF CollectQa, LedgerOutcome, TypeOK
<1>6. LedgerEntry' = [LedgerEntry EXCEPT ![c] =
          IF Outcome(c) = "passed" /\ c \in Judged THEN "answered" ELSE "settled"]
  BY DEF CollectQa, LedgerEntry, TypeOK, Outcome, HasJudgeJob
<1> QED
  BY <1>2, <1>3, <1>4, <1>5, <1>6 DEF Ledger!Record

\* Archiving a verdict is the abstract step Settle.
LEMMA CollectJudgeSettles ==
    ASSUME Inv, NEW c \in Cases, CollectJudge(c)
    PROVE  Ledger!Settle(c)
<1> USE DEF Inv
<1>1. archive[c] = "judge_pending" /\ status[c] = "passed"
  BY DEF CollectJudge, LifeInv, JudgeFutures
<1>2. LedgerEntry[c] = "answered"
  BY <1>1 DEF LedgerEntry
<1>3. LedgerEntry' = [LedgerEntry EXCEPT ![c] = "settled"]
  BY DEF CollectJudge, LedgerEntry, TypeOK
<1>4. LedgerOutcome' = LedgerOutcome
  BY <1>1 DEF CollectJudge, LedgerOutcome, TypeOK
<1> QED
  BY <1>2, <1>3, <1>4 DEF Ledger!Settle

\* Every other step leaves the ledger as it is.
LEMMA OtherStepsStutter ==
    ASSUME Inv, [Next]_vars, \A c \in Cases : ~CollectQa(c) /\ ~CollectJudge(c)
    PROVE  UNCHANGED Ledger!vars
<1> USE DEF Ledger!vars, LedgerEntry, LedgerOutcome
<1>1. ASSUME NEW c \in Cases, QaArchiveFails(c) PROVE UNCHANGED Ledger!vars
  <2>1. archive' = archive /\ archive[c] = "none"
    BY <1>1 DEF QaArchiveFails, Inv, LifeInv, QaFutures, QaDone
  <2>2. \A d \in Cases \ {c} : status'[d] = status[d]
    BY <1>1 DEF QaArchiveFails, Inv, TypeOK
  <2> QED
    BY <2>1, <2>2
<1>2. CASE UNCHANGED <<archive, status>>
  BY <1>2
<1>3. (\E c \in Cases : QaArchiveFails(c)) \/ UNCHANGED <<archive, status>>
  BY DEF Next, Coordinator, Collect, Worker, Submit, Wait, NextGroup, Return, Drained,
     Interrupt, Terminated, vars, CollectRaised, JudgeArchiveFails, QaFinish, JudgeStart,
     JudgeFinish
<1> QED
  BY <1>1, <1>2, <1>3

\* The case-progress files behave as the abstract ledger, for every plan and
\* every pair of concurrencies (run_group and archive, 682-746).
THEOREM ImplementsTheLedger == Spec => ImplementsLedger
<1>1. Inv /\ GroupBarrier /\ [Next]_vars => [Ledger!Next]_(Ledger!vars)
  <2> SUFFICES ASSUME Inv, GroupBarrier, [Next]_vars PROVE [Ledger!Next]_(Ledger!vars)
    OBVIOUS
  <2>1. ASSUME NEW c \in Cases, CollectQa(c) PROVE Ledger!Next
    <3>1. Ledger!Record(c, Outcome(c)) /\ Outcome(c) \in {"passed", "failed"}
      BY <2>1, CollectQaRecords DEF Outcome
    <3> QED
      BY <3>1 DEF Ledger!Next
  <2>2. ASSUME NEW c \in Cases, CollectJudge(c) PROVE Ledger!Next
    BY <2>2, CollectJudgeSettles DEF Ledger!Next
  <2> QED
    BY <2>1, <2>2, OtherStepsStutter
<1>2. Spec => []GroupBarrier
  BY GroupsAreSeparated
<1> QED
  BY <1>1, <1>2, LedgerInit, Invariance, PTL DEF Spec, ImplementsLedger, Ledger!Spec

-----------------------------------------------------------------------------
(***************************************************************************)
(* The lease of openclaw-memos-local: MemosInv is inductive, one lemma per *)
(* action, and the properties follow from it.                              *)
(***************************************************************************)

Live(r) == turn[r] \in {"running", "replied"}

\* What a hook is, and what its run is doing meanwhile.
HookInv ==
    /\ holder = None <=> stage = "none"
    /\ holder = None <=> hook = "none"
    /\ hook \in {"before", "after", "recover"} => Current \in Requests
    /\ stage = "export" => hook = "qa"
    /\ stage \in {"configure", "ready"} => hook \in {"prepare", "qa", "recover", "finalize"}
    /\ stage = "save" => hook \in {"prepare", "qa", "recover", "finalize", "before", "after"}
    /\ hook \in {"after", "recover"} => at[holder] \in {"answered", "mismatched", "raised"}
    /\ holder # None /\ hook \notin {"after", "recover"} => at[holder] = "idle"

\* What the checks of a hook have found stays true until it is done.
PrepareInv ==
    hook = "prepare" /\ stage \in {"configure", "ready", "save"} => state = Fresh /\ memory = {}

FinalizeInv ==
    hook = "finalize" /\ stage \in {"configure", "ready", "save"} => state.owner = holder

QaInv ==
    hook = "qa" /\ stage \in {"export", "configure", "ready", "save"} =>
        /\ state.owner = holder
        /\ state.phase = "ingest"
        /\ state.pending = None
        /\ queued = {}
        /\ stage \in {"ready", "save"} => ~capturing

BeforeInv ==
    hook = "before" =>
        /\ stage = "save" =>
            /\ state.owner = holder
            /\ state.pending = None
            /\ PhaseOf(Current) = state.phase
            /\ Current \notin state.failed
            /\ turn[Current] = "none"
        /\ stage = "reply" => state.owner = holder /\ state.pending = Current

AfterInv ==
    hook = "after" /\ stage = "save" =>
        /\ state.owner = holder
        /\ state.pending = Current
        /\ turn[Current] = "over"
        /\ Current \in Ingests => Current \in memory

RecoverInv ==
    hook = "recover" /\ stage # "reply" =>
        /\ state.owner = holder
        /\ state.phase = "qa"
        /\ state.pending = Current
        /\ Current \in Questions
        /\ stage \in {"ready", "save"} => ~Live(Current)

\* Nothing is recorded for nobody, and a lease belongs to the phase.
OwnerInv ==
    /\ state.owner = None => state = Fresh
    /\ state.phase = "qa" => state.pending \in Questions \cup {None}
    /\ state.phase = "ingest" => state.pending \in Ingests \cup {None}

\* A run that is about to call the agent, or in the call, has the lease.
RunInv == \A n \in Runs :
    /\ at[n] # "idle" => request[n] \in Requests
    /\ at[n] \in {"granted", "calling"} =>
        holder # n /\ state.owner = n /\ state.pending = request[n]

\* Before the questions, only the request with the lease may have left a trace
\* that is not recorded.
IngestInv == state.phase = "ingest" =>
    /\ state.traces \subseteq memory
    /\ memory \subseteq state.traces \cup {state.pending}

\* A request that had the lease and gave it back cannot pass the check again.
LeaseInv == \A r \in Requests :
    \/ leases[r] = 0
    \/ /\ leases[r] = 1
       /\ turn[r] # "none" \/ r \in state.failed \/ state.pending = r

MemosInv ==
    /\ LeaseTypeOK
    /\ HookInv
    /\ PrepareInv
    /\ FinalizeInv
    /\ QaInv
    /\ BeforeInv
    /\ AfterInv
    /\ RecoverInv
    /\ OwnerInv
    /\ RunInv
    /\ OneTurnAtATime
    /\ QaMemoryIsExactlyTheCaptures
    /\ IngestInv
    /\ LeaseInv

-----------------------------------------------------------------------------
(* One lemma per action *)

LEMMA CallPluginKeeps == ASSUME MemosInv, NEW n \in Runs, CallPlugin(n) PROVE MemosInv'
<1>1. LeaseTypeOK'
  BY DEF CallPlugin, Acquire, MemosInv, LeaseTypeOK, disk, gateway
<1>2. HookInv' /\ RunInv' /\ PrepareInv' /\ FinalizeInv' /\ QaInv' /\ BeforeInv' /\ AfterInv'
     /\ RecoverInv' /\ OwnerInv' /\ OneTurnAtATime'
  BY LeaseAssumption DEF CallPlugin, Acquire, MemosInv, HookInv, RunInv, disk, PrepareInv,
      FinalizeInv, QaInv, BeforeInv, AfterInv, RecoverInv, OwnerInv, OneTurnAtATime, gateway
<1>3. QaMemoryIsExactlyTheCaptures' /\ IngestInv' /\ LeaseInv'
  BY DEF CallPlugin, Acquire, MemosInv, QaMemoryIsExactlyTheCaptures, IngestInv, disk, gateway,
      LeaseInv
<1> QED BY <1>1, <1>2, <1>3 DEF MemosInv

LEMMA CallBeforeKeeps == ASSUME MemosInv, NEW n \in Runs, CallBefore(n) PROVE MemosInv'
<1>1. LeaseTypeOK'
  <2>1. PICK r \in Requests : /\ attempts[r] < MaxAttempts
                              /\ request' = [request EXCEPT ![n] = r]
                              /\ attempts' = [attempts EXCEPT ![r] = @ + 1]
    BY DEF CallBefore
  <2>2. attempts' \in [Requests -> 0..MaxAttempts]
    BY <2>1, LeaseAssumption DEF MemosInv, LeaseTypeOK
  <2>3. request' \in [Runs -> Requests \cup {None}]
    BY <2>1 DEF MemosInv, LeaseTypeOK
  <2> QED BY <2>2, <2>3, LeaseAssumption DEF CallBefore, Acquire, MemosInv, LeaseTypeOK, disk, gateway
<1>2. HookInv' /\ RunInv' /\ PrepareInv' /\ FinalizeInv' /\ QaInv' /\ BeforeInv' /\ AfterInv'
     /\ RecoverInv'
  BY LeaseAssumption DEF CallBefore, Acquire, MemosInv, HookInv, RunInv, LeaseTypeOK, Current, disk,
      PrepareInv, FinalizeInv, QaInv, BeforeInv, AfterInv, RecoverInv
<1>3. OwnerInv' /\ OneTurnAtATime' /\ QaMemoryIsExactlyTheCaptures' /\ IngestInv' /\ LeaseInv'
  BY LeaseAssumption DEF CallBefore, Acquire, MemosInv, OwnerInv, OneTurnAtATime, disk, gateway,
      QaMemoryIsExactlyTheCaptures, IngestInv, LeaseInv
<1> QED BY <1>1, <1>2, <1>3 DEF MemosInv

LEMMA CallAfterKeeps == ASSUME MemosInv, NEW n \in Runs, CallAfter(n) PROVE MemosInv'
<1>1. LeaseTypeOK'
  BY LeaseAssumption DEF CallAfter, Acquire, MemosInv, LeaseTypeOK, disk, gateway
<1>2. HookInv' /\ RunInv' /\ PrepareInv' /\ FinalizeInv' /\ QaInv' /\ BeforeInv' /\ AfterInv'
     /\ RecoverInv'
  BY LeaseAssumption DEF CallAfter, Acquire, MemosInv, HookInv, RunInv, Active, Current, disk,
      PrepareInv, FinalizeInv, QaInv, BeforeInv, AfterInv, RecoverInv
<1>3. OwnerInv' /\ OneTurnAtATime' /\ QaMemoryIsExactlyTheCaptures' /\ IngestInv' /\ LeaseInv'
  BY DEF CallAfter, Acquire, MemosInv, OwnerInv, OneTurnAtATime, disk, gateway,
      QaMemoryIsExactlyTheCaptures, IngestInv, LeaseInv
<1> QED BY <1>1, <1>2, <1>3 DEF MemosInv

LEMMA CheckPrepareKeeps == ASSUME MemosInv, CheckPrepare PROVE MemosInv'
<1>1. LeaseTypeOK'
  BY DEF CheckPrepare, Proceed, MemosInv, LeaseTypeOK, disk, clients, gateway, Fresh, NoSnapshot
<1>2. HookInv' /\ RunInv' /\ PrepareInv' /\ FinalizeInv' /\ QaInv'
  BY LeaseAssumption DEF CheckPrepare, Proceed, MemosInv, HookInv, RunInv, clients, gateway, Fresh,
      PrepareInv, FinalizeInv, QaInv, OwnerInv, disk
<1>3. BeforeInv' /\ AfterInv' /\ RecoverInv' /\ OwnerInv' /\ OneTurnAtATime'
     /\ QaMemoryIsExactlyTheCaptures' /\ IngestInv' /\ LeaseInv'
  BY DEF CheckPrepare, Proceed, BeforeInv, AfterInv, RecoverInv, MemosInv, OwnerInv, OneTurnAtATime,
      disk, gateway, QaMemoryIsExactlyTheCaptures, IngestInv, LeaseInv, clients
<1> QED BY <1>1, <1>2, <1>3 DEF MemosInv

LEMMA CheckFinalizeKeeps == ASSUME MemosInv, CheckFinalize PROVE MemosInv'
<1>1. LeaseTypeOK'
  BY DEF CheckFinalize, Proceed, MemosInv, LeaseTypeOK, disk, clients, gateway
<1>2. HookInv' /\ RunInv' /\ PrepareInv' /\ FinalizeInv' /\ QaInv' /\ BeforeInv' /\ AfterInv'
     /\ RecoverInv'
  BY DEF CheckFinalize, Proceed, MemosInv, HookInv, RunInv, clients, PrepareInv, FinalizeInv, QaInv,
      disk, BeforeInv, AfterInv, RecoverInv
<1>3. OwnerInv' /\ OneTurnAtATime' /\ QaMemoryIsExactlyTheCaptures' /\ IngestInv' /\ LeaseInv'
  BY DEF CheckFinalize, MemosInv, OwnerInv, OneTurnAtATime, disk, gateway,
      QaMemoryIsExactlyTheCaptures, IngestInv, LeaseInv, clients
<1> QED BY <1>1, <1>2, <1>3 DEF MemosInv

LEMMA StayInPhaseKeeps == ASSUME MemosInv, StayInPhase PROVE MemosInv'
<1>1. LeaseTypeOK'
  BY DEF StayInPhase, Proceed, MemosInv, LeaseTypeOK, disk, clients, gateway
<1>2. HookInv' /\ RunInv' /\ PrepareInv' /\ FinalizeInv' /\ QaInv'
  BY DEF StayInPhase, At, Proceed, MemosInv, HookInv, RunInv, Current, disk, clients, PrepareInv,
      FinalizeInv, QaInv
<1>3. BeforeInv' /\ AfterInv' /\ RecoverInv' /\ OwnerInv' /\ OneTurnAtATime'
     /\ QaMemoryIsExactlyTheCaptures' /\ IngestInv'
  BY DEF StayInPhase, Proceed, MemosInv, BeforeInv, AfterInv, RecoverInv, LeaseTypeOK, OwnerInv,
      OneTurnAtATime, disk, gateway, QaMemoryIsExactlyTheCaptures, IngestInv, clients, Fresh
<1>4. LeaseInv'
  BY DEF StayInPhase, MemosInv, LeaseInv, disk, clients, gateway
<1> QED BY <1>1, <1>2, <1>3, <1>4 DEF MemosInv

LEMMA EnterQaKeeps == ASSUME MemosInv, EnterQa PROVE MemosInv'
<1>1. LeaseTypeOK'
  BY DEF EnterQa, Proceed, MemosInv, LeaseTypeOK, clients, gateway
<1>2. HookInv' /\ RunInv' /\ PrepareInv' /\ FinalizeInv' /\ QaInv'
  BY DEF EnterQa, Proceed, MemosInv, HookInv, RunInv, clients, MayLeave, PrepareInv, FinalizeInv,
      QaInv, Active, gateway, Fresh, NoSnapshot
<1>3. BeforeInv' /\ AfterInv' /\ RecoverInv' /\ OwnerInv' /\ OneTurnAtATime'
     /\ QaMemoryIsExactlyTheCaptures' /\ IngestInv' /\ LeaseInv'
  BY DEF EnterQa, Proceed, BeforeInv, AfterInv, RecoverInv, MemosInv, OwnerInv, OneTurnAtATime,
      gateway, QaMemoryIsExactlyTheCaptures, IngestInv, LeaseInv, clients
<1> QED BY <1>1, <1>2, <1>3 DEF MemosInv

LEMMA ExportKeeps == ASSUME MemosInv, Export PROVE MemosInv'
<1>1. LeaseTypeOK'
  BY DEF Export, Proceed, MemosInv, LeaseTypeOK, clients, gateway
<1>2. HookInv' /\ RunInv' /\ PrepareInv' /\ FinalizeInv' /\ QaInv' /\ BeforeInv' /\ AfterInv'
     /\ RecoverInv'
  BY DEF Export, At, Proceed, MemosInv, HookInv, RunInv, clients, PrepareInv, FinalizeInv, QaInv,
      gateway, BeforeInv, AfterInv, RecoverInv, Current
<1>3. OwnerInv' /\ OneTurnAtATime' /\ QaMemoryIsExactlyTheCaptures' /\ IngestInv' /\ LeaseInv'
  BY DEF Export, MemosInv, OwnerInv, OneTurnAtATime, gateway, QaMemoryIsExactlyTheCaptures,
      IngestInv, LeaseInv, clients
<1> QED BY <1>1, <1>2, <1>3 DEF MemosInv

LEMMA CheckBeforeKeeps == ASSUME MemosInv, CheckBefore PROVE MemosInv'
<1>1. LeaseTypeOK'
  BY DEF CheckBefore, Proceed, db_snapshot, MemosInv, LeaseTypeOK, disk, clients, gateway
<1>2. HookInv' /\ RunInv' /\ PrepareInv' /\ FinalizeInv' /\ QaInv'
  BY LeaseAssumption DEF CheckBefore, Proceed, MemosInv, HookInv, RunInv, Current, clients,
      PrepareInv, FinalizeInv, QaInv
<1>3. BeforeInv' /\ AfterInv' /\ RecoverInv' /\ OwnerInv' /\ OneTurnAtATime'
  BY DEF CheckBefore, Proceed, HasSession, BeforeInv, AfterInv, RecoverInv, Active, Current,
      disk, clients, gateway, MemosInv, OwnerInv, OneTurnAtATime
<1>4. QaMemoryIsExactlyTheCaptures' /\ IngestInv' /\ LeaseInv'
  BY DEF CheckBefore, MemosInv, QaMemoryIsExactlyTheCaptures, IngestInv, disk, gateway, LeaseInv,
      clients
<1> QED BY <1>1, <1>2, <1>3, <1>4 DEF MemosInv

LEMMA CheckAfterKeeps == ASSUME MemosInv, CheckAfter PROVE MemosInv'
<1>1. LeaseTypeOK'
  <2>1. PICK found \in {"valid", "invalid"} :
          proofs' = [proofs EXCEPT ![Current] = @ \cup {found}]
    BY DEF CheckAfter, audit_session
  <2>2. proofs' \in [Requests -> SUBSET {"valid", "invalid", "blocked", "recovered"}]
    BY <2>1 DEF MemosInv, LeaseTypeOK
  <2> QED BY <2>2, LeaseAssumption DEF CheckAfter, Proceed, At, MemosInv, LeaseTypeOK, clients, gateway
<1>2. HookInv' /\ RunInv' /\ PrepareInv' /\ FinalizeInv' /\ QaInv'
  BY DEF CheckAfter, Proceed, MemosInv, HookInv, RunInv, Current, clients, PrepareInv, FinalizeInv,
      QaInv
<1>3. BeforeInv' /\ AfterInv' /\ RecoverInv'
  BY DEF CheckAfter, Proceed, Settles, Completed, recall_receipt, capture_receipt, BeforeInv,
      AfterInv, RecoverInv, Active, Current, clients, gateway
<1>4. OwnerInv' /\ OneTurnAtATime' /\ QaMemoryIsExactlyTheCaptures' /\ IngestInv' /\ LeaseInv'
  BY DEF CheckAfter, MemosInv, OwnerInv, OneTurnAtATime, gateway, QaMemoryIsExactlyTheCaptures,
      IngestInv, LeaseInv, clients
<1> QED BY <1>1, <1>2, <1>3, <1>4 DEF MemosInv

LEMMA RecoverKeeps == ASSUME MemosInv, Recover PROVE MemosInv'
<1>1. LeaseTypeOK'
  BY DEF Recover, MayRecover, MemosInv, LeaseTypeOK, clients, gateway, Requests
<1>2. HookInv' /\ RunInv' /\ PrepareInv' /\ FinalizeInv' /\ QaInv' /\ BeforeInv' /\ AfterInv'
     /\ RecoverInv'
  BY DEF Recover, MayRecover, MemosInv, HookInv, RunInv, Current, clients, PrepareInv, FinalizeInv,
      QaInv, Settles, BeforeInv, AfterInv, RecoverInv, Active
<1>3. OwnerInv' /\ OneTurnAtATime' /\ QaMemoryIsExactlyTheCaptures' /\ IngestInv' /\ LeaseInv'
  BY DEF Recover, MemosInv, OwnerInv, OneTurnAtATime, gateway, QaMemoryIsExactlyTheCaptures,
      IngestInv, LeaseInv, clients
<1> QED BY <1>1, <1>2, <1>3 DEF MemosInv

LEMMA CheckRecoverKeeps == ASSUME MemosInv, CheckRecover PROVE MemosInv'
<1>1. LeaseTypeOK'
  BY DEF CheckRecover, Proceed, MemosInv, LeaseTypeOK, disk, clients, gateway
<1>2. HookInv' /\ RunInv' /\ PrepareInv' /\ FinalizeInv' /\ QaInv' /\ BeforeInv' /\ AfterInv'
     /\ RecoverInv'
  BY DEF CheckRecover, Proceed, MemosInv, HookInv, RunInv, Current, disk, clients, PrepareInv,
      FinalizeInv, QaInv, At, BeforeInv, AfterInv, RecoverInv
<1>3. OwnerInv' /\ OneTurnAtATime' /\ QaMemoryIsExactlyTheCaptures' /\ IngestInv' /\ LeaseInv'
  BY DEF CheckRecover, MemosInv, OwnerInv, OneTurnAtATime, disk, gateway,
      QaMemoryIsExactlyTheCaptures, IngestInv, LeaseInv, clients
<1> QED BY <1>1, <1>2, <1>3 DEF MemosInv

LEMMA RestartKeeps == ASSUME MemosInv, Restart PROVE MemosInv'
<1>1. LeaseTypeOK'
  BY DEF Restart, Proceed, MemosInv, LeaseTypeOK, disk, clients
<1>2. HookInv' /\ RunInv' /\ BeforeInv' /\ AfterInv' /\ RecoverInv'
  BY DEF Restart, At, Proceed, MemosInv, HookInv, RunInv, Current, disk, clients, BeforeInv,
      AfterInv, RecoverInv, Live, Requests
<1>3. PrepareInv' /\ FinalizeInv' /\ QaInv'
  BY DEF Restart, At, Proceed, disk, clients, MemosInv, PrepareInv, FinalizeInv, QaInv, Fresh, NoSnapshot
<1>4. OwnerInv' /\ OneTurnAtATime' /\ QaMemoryIsExactlyTheCaptures' /\ IngestInv' /\ LeaseInv'
  BY DEF Restart, MemosInv, OwnerInv, OneTurnAtATime, disk, At, QaMemoryIsExactlyTheCaptures,
      IngestInv, LeaseTypeOK, PrepareInv, Fresh, LeaseInv, clients
<1> QED BY <1>1, <1>2, <1>3, <1>4 DEF MemosInv

LEMMA ReadyKeeps == ASSUME MemosInv, Ready PROVE MemosInv'
<1>1. LeaseTypeOK'
  BY DEF Ready, Proceed, MemosInv, LeaseTypeOK, disk, clients, gateway
<1>2. HookInv' /\ RunInv' /\ PrepareInv' /\ FinalizeInv' /\ QaInv'
  BY DEF Ready, At, Proceed, MemosInv, HookInv, RunInv, Current, disk, clients, PrepareInv,
      FinalizeInv, QaInv, gateway
<1>3. BeforeInv' /\ AfterInv' /\ RecoverInv' /\ LeaseInv'
  BY DEF Ready, At, Proceed, MemosInv, BeforeInv, AfterInv, RecoverInv, HookInv, Current, Live, disk,
      clients, gateway, LeaseInv
<1>4. OwnerInv' /\ OneTurnAtATime'
  BY DEF Ready, disk, gateway, MemosInv, OwnerInv, OneTurnAtATime, Fresh, NoSnapshot
<1>5. QaMemoryIsExactlyTheCaptures' /\ IngestInv'
  BY DEF Ready, disk, gateway, MemosInv, QaMemoryIsExactlyTheCaptures, IngestInv
<1> QED BY <1>1, <1>2, <1>3, <1>4, <1>5 DEF MemosInv

States == [owner : Runs \cup {None},
           phase : {"none", "ingest", "qa", "finished"},
           pending : Requests \cup {None},
           before : [traces : SUBSET Requests, retries : SUBSET Requests],
           traces : SUBSET Ingests, failed : SUBSET Questions]

\* What each hook writes to phase.json, field by field.
LEMMA SaveState == ASSUME MemosInv, Save PROVE
    /\ hook \in {"prepare", "qa", "recover", "finalize", "before", "after"}
    /\ state' \in States
    /\ state'.owner = IF hook = "prepare" THEN holder ELSE state.owner
    /\ state'.phase = CASE hook = "prepare" -> "ingest" [] hook = "qa" -> "qa"
                        [] hook = "finalize" -> "finished" [] OTHER -> state.phase
    /\ state'.pending = IF hook = "before" THEN Current
                        ELSE IF hook \in {"prepare", "after", "recover"} THEN None ELSE state.pending
    /\ state'.traces = IF hook = "prepare" THEN {}
                       ELSE IF hook = "after" THEN state.traces \cup Captured ELSE state.traces
    /\ state'.failed = IF hook = "prepare" THEN {}
                       ELSE IF hook = "recover" THEN state.failed \cup {Current} ELSE state.failed
<1>1. hook \in {"prepare", "qa", "recover", "finalize", "before", "after"}
  BY DEF MemosInv, HookInv, Save, At
<1>2. state \in States /\ holder \in Runs
      /\ snapshot \in [traces : SUBSET Requests, retries : SUBSET Requests]
  BY DEF MemosInv, LeaseTypeOK, States, Save, At
<1>3. state' = NextState
  BY DEF Save
<1>4. CASE hook = "prepare"
  <2>1. state' = [Fresh EXCEPT !.owner = holder, !.phase = "ingest"]
    BY <1>3, <1>4 DEF NextState
  <2>2. state' = [owner |-> holder, phase |-> "ingest", pending |-> None, before |-> NoSnapshot,
                  traces |-> {}, failed |-> {}]
    BY ONLY <2>1 DEF Fresh
  <2> QED BY <2>2, <1>2, <1>4 DEF States, NoSnapshot
<1>5. CASE hook = "qa"
  <2>1. state' = [state EXCEPT !.phase = "qa"]
    BY <1>3, <1>5 DEF NextState
  <2> QED BY <2>1, <1>2, <1>5 DEF States
<1>6. CASE hook = "finalize"
  <2>1. state' = [state EXCEPT !.phase = "finished"]
    BY <1>3, <1>6 DEF NextState
  <2> QED BY <2>1, <1>2, <1>6 DEF States
<1>7. CASE hook = "before"
  <2>1. state' = [state EXCEPT !.pending = Current, !.before = snapshot]
    BY <1>3, <1>7 DEF NextState
  <2>2. Current \in Requests
    BY <1>7 DEF MemosInv, HookInv
  <2> QED BY <2>1, <2>2, <1>2, <1>7 DEF States
<1>8. CASE hook = "after"
  <2>1. state' = [state EXCEPT !.pending = None, !.traces = @ \cup Captured]
    BY <1>3, <1>8 DEF NextState
  <2>2. Captured \subseteq Ingests
    BY DEF Captured
  <2> QED BY <2>1, <2>2, <1>2, <1>8 DEF States
<1>9. CASE hook = "recover"
  <2>1. state' = [state EXCEPT !.failed = @ \cup {Current}, !.pending = None]
    BY <1>3, <1>9 DEF NextState, Released
  <2>2. Current \in Questions
    BY <1>9 DEF MemosInv, RecoverInv, Save, At
  <2> QED BY <2>1, <2>2, <1>2, <1>9 DEF States
<1> QED BY <1>1, <1>4, <1>5, <1>6, <1>7, <1>8, <1>9

LEMMA SaveKeeps == ASSUME MemosInv, Save PROVE MemosInv'
<1> USE SaveState
<1>a. LeaseTypeOK /\ At("save") /\ hook' = hook /\ holder' = holder /\ stage' = "reply"
      /\ UNCHANGED <<at, request, gateway>>
  BY DEF MemosInv, Save, Proceed
<1>b. holder \in Runs /\ Current' = Current
      /\ (hook \in {"before", "after", "recover"} => Current \in Requests)
  BY <1>a DEF At, MemosInv, LeaseTypeOK, HookInv, Current
<1>c. None \notin memory
  BY LeaseAssumption DEF MemosInv, LeaseTypeOK
<1>1. LeaseTypeOK'
  <2>1. proofs' \in [Requests -> SUBSET {"valid", "invalid", "blocked", "recovered"}]
    BY <1>b DEF MemosInv, LeaseTypeOK, Save
  <2>2. leases' \in [Requests -> 0..MaxAttempts]
    <3>1. CASE hook = "before"
      <4>1. leases[Current] = 0
        BY <1>a, <1>b, <3>1, LeaseAssumption DEF MemosInv, At, BeforeInv, LeaseInv
      <4> QED BY <4>1, <1>a, <1>b, <3>1, LeaseAssumption DEF LeaseTypeOK, Save
    <3> QED BY <3>1, <1>a DEF LeaseTypeOK, Save
  <2> QED BY <1>a, <2>1, <2>2 DEF LeaseTypeOK, States, Save, NoSnapshot, gateway
<1>2. HookInv' /\ RunInv'
  <2>1. HookInv'
    BY <1>a, <1>b DEF MemosInv, HookInv, At
  <2>2. ASSUME NEW n \in Runs, at[n] \in {"granted", "calling"}
        PROVE  holder # n /\ state'.owner = n /\ state'.pending = request[n]
    <3>1. holder # n /\ state.owner = n /\ state.pending = request[n] /\ request[n] \in Requests
      BY <2>2 DEF MemosInv, RunInv
    <3>2. hook \notin {"after", "recover", "before", "prepare"}
      BY <1>a, <3>1, LeaseAssumption DEF At, MemosInv, AfterInv, RecoverInv, BeforeInv, PrepareInv, Fresh
    <3> QED BY <3>1, <3>2
  <2> QED BY <2>1, <2>2, <1>a DEF MemosInv, RunInv
<1>3. PrepareInv' /\ FinalizeInv' /\ QaInv' /\ AfterInv' /\ RecoverInv'
  BY <1>a DEF PrepareInv, FinalizeInv, QaInv, AfterInv, RecoverInv
<1>4. BeforeInv'
  BY <1>a, <1>b DEF MemosInv, At, BeforeInv
<1>5. OwnerInv'
  <2>1. state'.owner # None
    BY <1>a, <1>b, LeaseAssumption DEF At, MemosInv, FinalizeInv, QaInv, BeforeInv, AfterInv, RecoverInv
  <2>2. state'.phase = "qa" => state'.pending \in Questions \cup {None}
    BY <1>a, <1>b DEF At, MemosInv, OwnerInv, QaInv, BeforeInv, PhaseOf, Requests
  <2>3. state'.phase = "ingest" => state'.pending \in Ingests \cup {None}
    BY <1>a, <1>b DEF At, MemosInv, OwnerInv, QaInv, BeforeInv, PhaseOf, Requests
  <2> QED BY <2>1, <2>2, <2>3 DEF OwnerInv
<1>6. OneTurnAtATime'
  <2> SUFFICES ASSUME NEW r \in Requests, turn[r] \in {"running", "replied"}
               PROVE  state'.pending = r
    BY <1>a DEF OneTurnAtATime, gateway
  <2>1. state.pending = r /\ r # None
    BY LeaseAssumption DEF MemosInv, OneTurnAtATime
  <2>2. hook \notin {"prepare", "before", "after", "recover"}
    BY <1>a, <2>1 DEF At, MemosInv, PrepareInv, Fresh, BeforeInv, AfterInv, RecoverInv, Live
  <2> QED BY <2>1, <2>2
<1>7. QaMemoryIsExactlyTheCaptures'
  <2>1. CASE hook = "qa"
    <3>1. memory = state.traces /\ queued = {} /\ ~capturing
      BY <1>a, <2>1, <1>c DEF At, MemosInv, QaInv, IngestInv
    <3> QED BY <3>1, <1>a, <2>1 DEF QaMemoryIsExactlyTheCaptures, gateway
  <2>2. CASE hook = "after" /\ state.phase = "qa"
    <3>1. Captured = {}
      BY <1>a, <2>2, LeaseAssumption DEF At, MemosInv, OwnerInv, AfterInv, Captured, Requests
    <3> QED BY <3>1, <1>a, <2>2 DEF MemosInv, QaMemoryIsExactlyTheCaptures, gateway
  <2>3. CASE hook \in {"prepare", "finalize", "before", "recover"} \/ state.phase # "qa"
    BY <1>a, <2>1, <2>3 DEF MemosInv, QaMemoryIsExactlyTheCaptures, gateway
  <2> QED BY <2>1, <2>2, <2>3
<1>8. IngestInv'
  <2>1. CASE hook = "prepare"
    BY <1>a, <2>1 DEF At, MemosInv, PrepareInv, IngestInv, gateway
  <2>2. CASE hook = "after" /\ state.phase = "ingest"
    <3>1. Captured = {Current} /\ Current \in memory /\ state.pending = Current
      BY <1>a, <1>b, <2>2, LeaseAssumption DEF At, MemosInv, OwnerInv, AfterInv, Captured
    <3> QED BY <3>1, <1>a, <2>2 DEF MemosInv, IngestInv, gateway
  <2>3. CASE hook = "before"
    <3>1. state.pending = None
      BY <1>a, <2>3 DEF At, MemosInv, BeforeInv
    <3>2. state.phase = "ingest" => state.traces \subseteq memory /\ memory \subseteq state.traces
      BY <1>c, <3>1 DEF MemosInv, IngestInv
    <3> QED BY <3>2, <1>a, <2>3 DEF IngestInv, gateway
  <2>4. CASE hook \in {"qa", "finalize", "recover"} \/ (state.phase # "ingest" /\ hook # "prepare")
    BY <1>a, <2>4 DEF At, MemosInv, RecoverInv, IngestInv, gateway
  <2> QED BY <2>1, <2>2, <2>3, <2>4
<1>9. LeaseInv'
  <2> SUFFICES ASSUME NEW r \in Requests
               PROVE  \/ leases'[r] = 0
                      \/ /\ leases'[r] = 1
                         /\ turn[r] # "none" \/ r \in state'.failed \/ state'.pending = r
    BY <1>a DEF LeaseInv, gateway
  <2>1. \/ leases[r] = 0
        \/ /\ leases[r] = 1
           /\ turn[r] # "none" \/ r \in state.failed \/ state.pending = r
    BY DEF MemosInv, LeaseInv
  <2>2. CASE hook = "before"
    <3>1. state.pending = None /\ turn[Current] = "none" /\ Current \notin state.failed
      BY <1>a, <2>2 DEF At, MemosInv, BeforeInv
    <3>2. leases' = [leases EXCEPT ![Current] = @ + 1]
      BY <2>2 DEF Save
    <3> QED BY <3>1, <3>2, <2>1, <2>2, <1>a, <1>b, LeaseAssumption DEF LeaseTypeOK, LeaseInv, MemosInv
  <2>3. CASE hook = "prepare"
    BY <1>a, <2>1, <2>3, LeaseAssumption DEF At, MemosInv, PrepareInv, Fresh, Save
  <2>4. CASE hook = "after"
    BY <1>a, <2>1, <2>4 DEF At, MemosInv, AfterInv, Save
  <2>5. CASE hook \in {"qa", "finalize", "recover"}
    BY <1>a, <2>1, <2>5 DEF At, MemosInv, RecoverInv, Save
  <2> QED BY <2>2, <2>3, <2>4, <2>5
<1> QED BY <1>1, <1>2, <1>3, <1>4, <1>5, <1>6, <1>7, <1>8, <1>9 DEF MemosInv

LEMMA ReplyKeeps == ASSUME MemosInv, Reply PROVE MemosInv'
<1>1. LeaseTypeOK'
  BY DEF Reply, At, Release, MemosInv, LeaseTypeOK, disk, gateway, NoSnapshot
<1>2. HookInv' /\ RunInv' /\ PrepareInv' /\ FinalizeInv' /\ QaInv' /\ BeforeInv' /\ AfterInv'
     /\ RecoverInv'
  BY LeaseAssumption DEF Reply, At, Release, MemosInv, HookInv, RunInv, LeaseTypeOK, BeforeInv, Current,
      disk, PrepareInv, FinalizeInv, QaInv, AfterInv, RecoverInv
<1>3. OwnerInv' /\ OneTurnAtATime' /\ QaMemoryIsExactlyTheCaptures' /\ IngestInv' /\ LeaseInv'
  BY DEF Reply, Release, MemosInv, OwnerInv, OneTurnAtATime, disk, gateway,
      QaMemoryIsExactlyTheCaptures, IngestInv, LeaseInv
<1> QED BY <1>1, <1>2, <1>3 DEF MemosInv

LEMMA RaiseKeeps == ASSUME MemosInv, Raise PROVE MemosInv'
<1>1. LeaseTypeOK'
  BY DEF Raise, EndStep, Release, MemosInv, LeaseTypeOK, disk, gateway, NoSnapshot
<1>2. HookInv' /\ RunInv' /\ PrepareInv' /\ FinalizeInv' /\ QaInv' /\ BeforeInv' /\ AfterInv'
     /\ RecoverInv'
  BY LeaseAssumption DEF Raise, EndStep, Release, MemosInv, HookInv, RunInv, LeaseTypeOK, disk,
      PrepareInv, FinalizeInv, QaInv, BeforeInv, AfterInv, RecoverInv
<1>3. OwnerInv' /\ OneTurnAtATime' /\ QaMemoryIsExactlyTheCaptures' /\ IngestInv' /\ LeaseInv'
  BY DEF Raise, EndStep, Release, MemosInv, OwnerInv, OneTurnAtATime, disk, gateway,
      QaMemoryIsExactlyTheCaptures, IngestInv, LeaseInv
<1> QED BY <1>1, <1>2, <1>3 DEF MemosInv

LEMMA DieKeeps == ASSUME MemosInv, Die PROVE MemosInv'
<1>1. LeaseTypeOK'
  BY DEF Die, EndStep, Release, MemosInv, LeaseTypeOK, disk, gateway, NoSnapshot
<1>2. HookInv' /\ RunInv' /\ PrepareInv' /\ FinalizeInv' /\ QaInv' /\ BeforeInv' /\ AfterInv'
     /\ RecoverInv'
  BY LeaseAssumption DEF Die, EndStep, Release, MemosInv, HookInv, RunInv, LeaseTypeOK, disk, PrepareInv,
      FinalizeInv, QaInv, BeforeInv, AfterInv, RecoverInv
<1>3. OwnerInv' /\ OneTurnAtATime' /\ QaMemoryIsExactlyTheCaptures' /\ IngestInv' /\ LeaseInv'
  BY DEF Die, EndStep, Release, MemosInv, OwnerInv, OneTurnAtATime, disk, gateway,
      QaMemoryIsExactlyTheCaptures, IngestInv, LeaseInv, Active, Current
<1> QED BY <1>1, <1>2, <1>3 DEF MemosInv

LEMMA CallAgentKeeps == ASSUME MemosInv, NEW n \in Runs, CallAgent(n) PROVE MemosInv'
<1>1. LeaseTypeOK'
  BY DEF CallAgent, MemosInv, LeaseTypeOK, disk, clients, gateway
<1>2. HookInv' /\ RunInv' /\ PrepareInv' /\ FinalizeInv' /\ QaInv' /\ BeforeInv' /\ AfterInv'
     /\ RecoverInv'
  BY DEF CallAgent, MemosInv, HookInv, RunInv, Current, disk, PrepareInv, FinalizeInv, QaInv,
      gateway, BeforeInv, AfterInv, RecoverInv, Live
<1>3. OwnerInv' /\ OneTurnAtATime' /\ QaMemoryIsExactlyTheCaptures' /\ IngestInv' /\ LeaseInv'
  BY DEF CallAgent, MemosInv, OwnerInv, OneTurnAtATime, disk, gateway, QaMemoryIsExactlyTheCaptures,
      IngestInv, LeaseInv
<1> QED BY <1>1, <1>2, <1>3 DEF MemosInv

LEMMA AnsweredKeeps == ASSUME MemosInv, NEW n \in Runs, Answered(n) PROVE MemosInv'
<1>1. LeaseTypeOK'
  BY DEF Answered, MemosInv, LeaseTypeOK, disk, gateway
<1>2. HookInv' /\ RunInv' /\ PrepareInv' /\ FinalizeInv' /\ QaInv' /\ BeforeInv' /\ AfterInv'
     /\ RecoverInv'
  BY DEF Answered, MemosInv, HookInv, RunInv, LeaseTypeOK, Current, PrepareInv, FinalizeInv, QaInv, disk,
      gateway, BeforeInv, AfterInv, RecoverInv, Live
<1>3. OwnerInv' /\ OneTurnAtATime' /\ QaMemoryIsExactlyTheCaptures' /\ IngestInv' /\ LeaseInv'
  BY DEF Answered, MemosInv, OwnerInv, OneTurnAtATime, disk, gateway, QaMemoryIsExactlyTheCaptures,
      IngestInv, LeaseInv
<1> QED BY <1>1, <1>2, <1>3 DEF MemosInv

LEMMA RaisedKeeps == ASSUME MemosInv, NEW n \in Runs, Raised(n) PROVE MemosInv'
<1>1. LeaseTypeOK'
  BY DEF Raised, MemosInv, LeaseTypeOK, disk, gateway
<1>2. HookInv' /\ RunInv' /\ PrepareInv' /\ FinalizeInv' /\ QaInv' /\ BeforeInv' /\ AfterInv'
     /\ RecoverInv'
  BY DEF Raised, MemosInv, HookInv, RunInv, Current, disk, PrepareInv, FinalizeInv, QaInv, gateway,
      BeforeInv, AfterInv, RecoverInv, Live
<1>3. OwnerInv' /\ OneTurnAtATime' /\ QaMemoryIsExactlyTheCaptures' /\ IngestInv' /\ LeaseInv'
  BY DEF Raised, MemosInv, OwnerInv, OneTurnAtATime, disk, gateway, QaMemoryIsExactlyTheCaptures,
      IngestInv, LeaseInv
<1> QED BY <1>1, <1>2, <1>3 DEF MemosInv

LEMMA TurnStartsKeeps == ASSUME MemosInv, NEW n \in Runs, TurnStarts(n) PROVE MemosInv'
<1>1. LeaseTypeOK'
  BY DEF TurnStarts, Local, MemosInv, LeaseTypeOK, RunInv, disk, clients
<1>2. HookInv' /\ RunInv' /\ PrepareInv' /\ FinalizeInv' /\ QaInv' /\ BeforeInv' /\ AfterInv'
     /\ RecoverInv'
  BY DEF TurnStarts, Local, MemosInv, HookInv, RunInv, Current, disk, clients, PrepareInv,
      FinalizeInv, QaInv, BeforeInv, AfterInv, RecoverInv
<1>3. OwnerInv' /\ OneTurnAtATime' /\ QaMemoryIsExactlyTheCaptures' /\ IngestInv' /\ LeaseInv'
  BY DEF TurnStarts, Local, MemosInv, OwnerInv, OneTurnAtATime, RunInv, disk,
      QaMemoryIsExactlyTheCaptures, IngestInv, LeaseInv, clients
<1> QED BY <1>1, <1>2, <1>3 DEF MemosInv

LEMMA TurnRepliesKeeps == ASSUME MemosInv, NEW r \in Requests, TurnReplies(r) PROVE MemosInv'
<1>1. LeaseTypeOK'
  BY DEF TurnReplies, Local, MemosInv, LeaseTypeOK, disk, clients
<1>2. HookInv' /\ RunInv' /\ PrepareInv' /\ FinalizeInv' /\ QaInv' /\ BeforeInv' /\ AfterInv'
     /\ RecoverInv'
  BY DEF TurnReplies, Local, MemosInv, HookInv, RunInv, Current, disk, clients, PrepareInv,
      FinalizeInv, QaInv, BeforeInv, AfterInv, RecoverInv, Live
<1>3. OwnerInv' /\ OneTurnAtATime' /\ QaMemoryIsExactlyTheCaptures' /\ IngestInv' /\ LeaseInv'
  BY DEF TurnReplies, Local, MemosInv, OwnerInv, OneTurnAtATime, disk, QaMemoryIsExactlyTheCaptures,
      IngestInv, LeaseInv, clients
<1> QED BY <1>1, <1>2, <1>3 DEF MemosInv

LEMMA TurnEndsKeeps == ASSUME MemosInv, NEW r \in Requests, TurnEnds(r) PROVE MemosInv'
<1>1. LeaseTypeOK'
  BY DEF TurnEnds, Local, MemosInv, LeaseTypeOK, disk, clients
<1>2. HookInv' /\ RunInv' /\ PrepareInv' /\ FinalizeInv' /\ QaInv'
  BY LeaseAssumption DEF TurnEnds, Local, MemosInv, HookInv, RunInv, Current, Live, PhaseOf, disk,
      clients, PrepareInv, FinalizeInv, QaInv, OneTurnAtATime, Fresh
<1>3. BeforeInv' /\ AfterInv' /\ RecoverInv' /\ OwnerInv' /\ OneTurnAtATime'
     /\ QaMemoryIsExactlyTheCaptures' /\ IngestInv'
  BY DEF TurnEnds, Local, MemosInv, BeforeInv, AfterInv, RecoverInv, Current, Live, PhaseOf, disk,
      clients, OwnerInv, OneTurnAtATime, QaMemoryIsExactlyTheCaptures, IngestInv
<1>4. LeaseInv'
  BY DEF TurnEnds, Local, MemosInv, LeaseInv, disk, clients
<1> QED BY <1>1, <1>2, <1>3, <1>4 DEF MemosInv

LEMMA EmbedKeeps == ASSUME MemosInv, Embed PROVE MemosInv'
<1>1. LeaseTypeOK'
  BY DEF Embed, Local, MemosInv, LeaseTypeOK, disk, clients
<1>2. HookInv' /\ RunInv' /\ PrepareInv' /\ FinalizeInv' /\ QaInv' /\ BeforeInv' /\ AfterInv'
     /\ RecoverInv'
  BY DEF Embed, Local, MemosInv, HookInv, RunInv, Current, disk, clients, PrepareInv, FinalizeInv,
      QaInv, BeforeInv, AfterInv, RecoverInv, Live
<1>3. OwnerInv' /\ OneTurnAtATime' /\ QaMemoryIsExactlyTheCaptures' /\ IngestInv' /\ LeaseInv'
  BY DEF Embed, Local, MemosInv, OwnerInv, OneTurnAtATime, disk, QaMemoryIsExactlyTheCaptures,
      IngestInv, LeaseInv, clients
<1> QED BY <1>1, <1>2, <1>3 DEF MemosInv

-----------------------------------------------------------------------------
(* The theorems *)

LEMMA InitKeeps == LeaseInit => MemosInv
<1> SUFFICES ASSUME LeaseInit PROVE MemosInv
  OBVIOUS
<1>1. LeaseTypeOK
  BY LeaseAssumption DEF LeaseInit, LeaseTypeOK, Fresh, NoSnapshot, Requests
<1>2. HookInv /\ RunInv /\ OneTurnAtATime /\ LeaseInv
  BY DEF LeaseInit, HookInv, RunInv, OneTurnAtATime, LeaseInv
<1>3. PrepareInv /\ FinalizeInv /\ QaInv /\ BeforeInv /\ AfterInv /\ RecoverInv
  BY DEF LeaseInit, PrepareInv, FinalizeInv, QaInv, BeforeInv, AfterInv, RecoverInv
<1>4. OwnerInv /\ QaMemoryIsExactlyTheCaptures /\ IngestInv
  BY DEF LeaseInit, OwnerInv, QaMemoryIsExactlyTheCaptures, IngestInv, Fresh, NoSnapshot
<1> QED BY <1>1, <1>2, <1>3, <1>4 DEF MemosInv

LEMMA StutterKeeps == ASSUME MemosInv, UNCHANGED leaseVars PROVE MemosInv'
BY DEF leaseVars, MemosInv, LeaseTypeOK, HookInv, PrepareInv, FinalizeInv, QaInv, BeforeInv, AfterInv,
       RecoverInv, OwnerInv, RunInv, OneTurnAtATime, QaMemoryIsExactlyTheCaptures,
       IngestInv, LeaseInv, Current, Live, db_snapshot, disk, clients, gateway

\* MemosInv holds in every reachable state: each step of _dispatch, dispatch and run, of
\* _execute_agent and of the gateway preserves it.
THEOREM LeaseInvariance == LeaseSpec => []MemosInv
<1>1. MemosInv /\ [LeaseNext]_leaseVars => MemosInv'
  <2> SUFFICES ASSUME MemosInv, [LeaseNext]_leaseVars PROVE MemosInv'
    OBVIOUS
  <2>1. CASE Hook
    BY <2>1, CheckPrepareKeeps, CheckFinalizeKeeps, StayInPhaseKeeps, EnterQaKeeps, ExportKeeps,
       CheckBeforeKeeps, CheckAfterKeeps, RecoverKeeps, CheckRecoverKeeps, RestartKeeps,
       ReadyKeeps, SaveKeeps, ReplyKeeps, RaiseKeeps DEF Hook
  <2>2. CASE Die
    BY <2>2, DieKeeps
  <2>3. ASSUME NEW n \in Runs,
               \/ CallPlugin(n) \/ CallBefore(n) \/ CallAfter(n)
               \/ CallAgent(n) \/ Answered(n) \/ Raised(n) \/ TurnStarts(n)
        PROVE  MemosInv'
    BY <2>3, CallPluginKeeps, CallBeforeKeeps, CallAfterKeeps, CallAgentKeeps, AnsweredKeeps,
      RaisedKeeps, TurnStartsKeeps
  <2>4. ASSUME NEW r \in Requests, TurnReplies(r) \/ TurnEnds(r)
        PROVE  MemosInv'
    BY <2>4, TurnRepliesKeeps, TurnEndsKeeps
  <2>5. CASE Embed
    BY <2>5, EmbedKeeps
  <2>6. CASE UNCHANGED leaseVars
    BY <2>6, StutterKeeps
  <2> QED BY <2>1, <2>2, <2>3, <2>4, <2>5, <2>6 DEF LeaseNext
<1> QED BY InitKeeps, <1>1, PTL DEF LeaseSpec

\* The type invariant.
THEOREM LeaseTypeCorrect == LeaseSpec => []LeaseTypeOK
<1>1. MemosInv => LeaseTypeOK
  BY DEF MemosInv
<1> QED BY LeaseInvariance, <1>1, PTL

\* While questions are asked, the memory is what was recorded of the ingests, no
\* embedding is outstanding and nothing can be captured, whatever was retried, failed
\* or was killed before (_dispatch, 409-422 and 446-467).
THEOREM MemoryIsTheCaptures == LeaseSpec => []QaMemoryIsExactlyTheCaptures
<1>1. MemosInv => QaMemoryIsExactlyTheCaptures
  BY DEF MemosInv
<1> QED BY LeaseInvariance, <1>1, PTL

\* A turn that lives in the gateway is that of the request with the lease, so there is
\* at most one, also after its caller has given up on it (dispatch, 520-534).
THEOREM TurnsAreSeparated == LeaseSpec => []OneTurnAtATime
<1>1. MemosInv => OneTurnAtATime
  BY DEF MemosInv
<1> QED BY LeaseInvariance, <1>1, PTL

\* No request is given the lease twice, for any number of attempts and any crashes
\* (_dispatch, 424-435).
THEOREM LeaseIsUnique == LeaseSpec => []LeasedOnce
<1>1. MemosInv => LeasedOnce
  BY DEF MemosInv, LeaseTypeOK, LeaseInv, LeasedOnce
<1> QED BY LeaseInvariance, <1>1, PTL

\* Both together: the invariant that the runs check.
THEOREM TurnsAreKeptApart == LeaseSpec => []LeaseKeepsApart
  BY LeaseTypeCorrect, TurnsAreSeparated, LeaseIsUnique, PTL DEF LeaseKeepsApart
=============================================================================
