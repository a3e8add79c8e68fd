------------------------- MODULE MultiUserReplayProofs -------------------------
(***************************************************************************)
(* What is proved of a multi-user replay: first of the request scheduler,  *)
(* module MultiUserReplay, for any users, instances, workers, limits,      *)
(* rates and failures, then of the instances, module InstanceLifecycle.    *)
(*                                                                         *)
(* The books (BookInv).  The first pass visits every user of a ready       *)
(* instance once (OrderedUsers); from then on a user is in the deque, or   *)
(* has a future, or has retired, so inflight and remaining_users are the   *)
(* cardinalities of two sets of users.  The reservation is kept by the     *)
(* limit of Blocked while workers suffice; when instances outnumber them   *)
(* each has at most one future, so that when one retires and they fit,     *)
(* those at work and those idle are no more than the workers (OneEach).    *)
(*                                                                         *)
(* The work (WorkInv).  Events, futures and queues add up to the requests  *)
(* of the phase, calls that ended to events and futures, and a session     *)
(* written to is in the queue of the drain, with a worker, or its user has *)
(* a drain that failed.                                                    *)
(***************************************************************************)
EXTENDS MultiUserReplay, InstanceLifecycle, FiniteSetTheorems, TLAPS

-----------------------------------------------------------------------------
(* Sequences and finite sets *)

\* No element of the sequence comes twice.
Distinct(s) == \A j, k \in DOMAIN s : s[j] = s[k] => j = k

LEMMA AppendSet ==
    ASSUME NEW S, NEW s \in Seq(S), NEW x \in S
    PROVE  /\ Append(s, x) \in Seq(S)
           /\ Len(Append(s, x)) = Len(s) + 1
           /\ ToSet(Append(s, x)) = ToSet(s) \cup {x}
           /\ Distinct(s) /\ x \notin ToSet(s) => Distinct(Append(s, x))
<1>1. /\ Append(s, x) \in Seq(S) /\ Len(Append(s, x)) = Len(s) + 1
      /\ DOMAIN Append(s, x) = 1..(Len(s) + 1) /\ DOMAIN s = 1..Len(s) /\ Len(s) \in Nat
  OBVIOUS
<1>2. \A k \in 1..(Len(s) + 1) : Append(s, x)[k] = IF k = Len(s) + 1 THEN x ELSE s[k]
  OBVIOUS
<1>3. ToSet(Append(s, x)) = ToSet(s) \cup {x}
  BY <1>1, <1>2 DEF ToSet
<1>4. ASSUME Distinct(s), x \notin ToSet(s) PROVE Distinct(Append(s, x))
  BY <1>1, <1>2, <1>4 DEF Distinct, ToSet
<1> QED
  BY <1>1, <1>3, <1>4

LEMMA TailSet ==
    ASSUME NEW S, NEW s \in Seq(S), s # <<>>
    PROVE  /\ Head(s) \in S /\ Tail(s) \in Seq(S)
           /\ Len(Tail(s)) = Len(s) - 1 /\ Len(s) > 0
           /\ ToSet(s) = ToSet(Tail(s)) \cup {Head(s)}
           /\ Distinct(s) => Distinct(Tail(s)) /\ Head(s) \notin ToSet(Tail(s))
<1>1. /\ Head(s) \in S /\ Tail(s) \in Seq(S) /\ Len(Tail(s)) = Len(s) - 1 /\ Len(s) > 0
      /\ DOMAIN Tail(s) = 1..(Len(s) - 1) /\ DOMAIN s = 1..Len(s) /\ Len(s) \in Nat
      /\ Head(s) = s[1]
  OBVIOUS
<1>2. \A k \in 1..(Len(s) - 1) : Tail(s)[k] = s[k + 1]
  OBVIOUS
<1>3. ToSet(s) = ToSet(Tail(s)) \cup {Head(s)}
  <2>1. ASSUME NEW k \in 1..Len(s) PROVE s[k] \in ToSet(Tail(s)) \cup {Head(s)}
    <3>1. CASE k = 1
      BY <1>1, <3>1
    <3>2. CASE k # 1
      <4>1. k - 1 \in 1..(Len(s) - 1) /\ s[k] = Tail(s)[k - 1]
        BY <1>1, <1>2, <3>2
      <4> QED
        BY <1>1, <4>1 DEF ToSet
    <3> QED
      BY <3>1, <3>2
  <2>2. ASSUME NEW k \in 1..(Len(s) - 1) PROVE Tail(s)[k] \in ToSet(s)
    BY <1>1, <1>2 DEF ToSet
  <2> QED
    BY <1>1, <2>1, <2>2 DEF ToSet
<1>4. ASSUME Distinct(s) PROVE Distinct(Tail(s)) /\ Head(s) \notin ToSet(Tail(s))
  <2>1. Distinct(Tail(s))
    <3>1. ASSUME NEW j \in 1..(Len(s) - 1), NEW k \in 1..(Len(s) - 1), Tail(s)[j] = Tail(s)[k]
          PROVE  j = k
      <4>1. j + 1 \in 1..Len(s) /\ k + 1 \in 1..Len(s) /\ s[j + 1] = s[k + 1]
        BY <1>1, <1>2, <3>1
      <4>2. j + 1 = k + 1
        BY <1>1, <1>4, <4>1 DEF Distinct
      <4> QED
        BY <4>2
    <3> QED
      BY <1>1, <3>1 DEF Distinct
  <2>2. ASSUME NEW k \in 1..(Len(s) - 1), Tail(s)[k] = Head(s) PROVE FALSE
    <3>1. k + 1 \in 1..Len(s) /\ 1 \in 1..Len(s) /\ s[k + 1] = s[1]
      BY <1>1, <1>2, <2>2
    <3> QED
      BY <1>1, <1>4, <3>1 DEF Distinct
  <2> QED
    BY <1>1, <2>1, <2>2 DEF ToSet
<1> QED
  BY <1>1, <1>3, <1>4

LEMMA FiniteUsers == IsFiniteSet(Users) /\ Cardinality(Users) = NumUsers /\ IsFiniteSet(Instances)
  BY FS_Interval, ReplayAssumption DEF Users, Instances

LEMMA SubsetsAreFinite ==
    ASSUME NEW T
    PROVE  T \subseteq Users \/ T \subseteq Instances => IsFiniteSet(T) /\ Cardinality(T) \in Nat
  BY FiniteUsers, FS_Subset, FS_CardinalityType

LEMMA DistinctLen ==
    ASSUME NEW s \in Seq(Users), Distinct(s)
    PROVE  Len(s) \in Nat /\ Len(s) <= NumUsers
<1>1. s \in Injection(1..Len(s), Users)
  BY DEF Distinct, Injection, IsInjective
<1>2. Cardinality(1..Len(s)) <= NumUsers
  BY <1>1, FiniteUsers, FS_Injection
<1>3. Len(s) \in Nat /\ 1 \in Int
  OBVIOUS
<1>4. Cardinality(1..Len(s)) = Len(s)
  BY <1>3, FS_Interval
<1> QED
  BY <1>2, <1>3, <1>4

-----------------------------------------------------------------------------
(* The order of the first pass *)

LEMMA RankTypes ==
    ASSUME NEW R, NEW u \in ReadyUsers(R)
    PROVE  Rank(u, R) \in Nat /\ InstanceOf[u] \in Int /\ u \in Int
<1>1. Rank(u, R) \in Nat
  BY SubsetsAreFinite DEF Rank, ReadyUsers
<1> QED
  BY <1>1, ReplayAssumption DEF ReadyUsers, Users, Instances

LEMMA RankOrder ==
    ASSUME NEW R \in SUBSET Instances, NEW u \in ReadyUsers(R), NEW v \in ReadyUsers(R),
           u < v, InstanceOf[u] = InstanceOf[v]
    PROVE  Rank(u, R) < Rank(v, R)
<1> DEFINE Us == {w \in ReadyUsers(R) : w < u /\ InstanceOf[w] = InstanceOf[u]}
           Vs == {w \in ReadyUsers(R) : w < v /\ InstanceOf[w] = InstanceOf[v]}
<1>1. Us \subseteq Vs /\ u \in Vs /\ u \notin Us /\ Vs \subseteq Users
  BY DEF ReadyUsers, Users
<1>2. IsFiniteSet(Vs) /\ IsFiniteSet(Us) /\ Cardinality(Vs) \in Nat /\ Cardinality(Us) \in Nat
  BY <1>1, SubsetsAreFinite
<1>3. Cardinality(Us) <= Cardinality(Vs) /\ Cardinality(Us) # Cardinality(Vs)
  BY <1>1, <1>2, FS_Subset
<1> QED
  BY <1>2, <1>3 DEF Rank

\* Two users are never ahead of each other, and of two one is ahead.
LEMMA AheadOrder ==
    ASSUME NEW R \in SUBSET Instances, NEW u \in ReadyUsers(R), NEW v \in ReadyUsers(R),
           u \in Ahead(v, R)
    PROVE  Cardinality(Ahead(u, R)) < Cardinality(Ahead(v, R))
<1>1. \A w \in ReadyUsers(R) : Rank(w, R) \in Nat /\ InstanceOf[w] \in Int
  BY RankTypes
<1>2. Ahead(u, R) \subseteq Ahead(v, R) /\ u \notin Ahead(u, R)
  BY <1>1 DEF Ahead
<1>3. IsFiniteSet(Ahead(v, R)) /\ Cardinality(Ahead(v, R)) \in Nat /\ Cardinality(Ahead(u, R)) \in Nat
  BY SubsetsAreFinite DEF Ahead, ReadyUsers
<1>4. Cardinality(Ahead(u, R)) <= Cardinality(Ahead(v, R))
  BY <1>2, <1>3, FS_Subset
<1>5. Cardinality(Ahead(u, R)) # Cardinality(Ahead(v, R))
  BY <1>2, <1>3, FS_Subset
<1> QED
  BY <1>3, <1>4, <1>5

LEMMA AheadTotal ==
    ASSUME NEW R \in SUBSET Instances, NEW u \in ReadyUsers(R), NEW v \in ReadyUsers(R), u # v
    PROVE  u \in Ahead(v, R) \/ v \in Ahead(u, R)
<1>1. \A w \in ReadyUsers(R) : Rank(w, R) \in Nat /\ InstanceOf[w] \in Int /\ w \in Int
  BY RankTypes
<1>2. CASE InstanceOf[u] # InstanceOf[v]
  BY <1>1, <1>2 DEF Ahead
<1>3. CASE InstanceOf[u] = InstanceOf[v]
  <2>1. Rank(u, R) < Rank(v, R) \/ Rank(v, R) < Rank(u, R)
    BY <1>1, <1>3, RankOrder
  <2> QED
    BY <2>1 DEF Ahead
<1> QED
  BY <1>2, <1>3

\* Every user of a ready instance has one place in the first pass, and no other has.
LEMMA OrderedUsers ==
    ASSUME NEW R \in SUBSET Instances
    PROVE  /\ Ordered(R) \in Seq(Users)
           /\ Distinct(Ordered(R))
           /\ ToSet(Ordered(R)) = ReadyUsers(R)
<1> DEFINE S == ReadyUsers(R)
           n == Cardinality(S)
           place == [u \in S |-> Cardinality(Ahead(u, R)) + 1]
<1>1. S \subseteq Users /\ IsFiniteSet(S) /\ n \in Nat
  BY SubsetsAreFinite DEF ReadyUsers
<1>2. \A u \in S : place[u] \in 1..n
  <2> TAKE u \in S
  <2>1. Ahead(u, R) \subseteq S /\ u \notin Ahead(u, R)
    <3>1. Rank(u, R) \in Nat /\ InstanceOf[u] \in Int
      BY RankTypes
    <3> QED
      BY <3>1 DEF Ahead
  <2>2. Cardinality(Ahead(u, R)) \in Nat
    BY <1>1, <2>1, SubsetsAreFinite
  <2>3. Cardinality(Ahead(u, R)) <= n /\ Cardinality(Ahead(u, R)) # n
    BY <1>1, <2>1, FS_Subset
  <2> QED
    BY <1>1, <2>2, <2>3
<1>3. \A u, v \in S : place[u] = place[v] => u = v
  <2> SUFFICES ASSUME NEW u \in S, NEW v \in S, u # v, place[u] = place[v] PROVE FALSE
    OBVIOUS
  <2>1. Cardinality(Ahead(u, R)) \in Nat /\ Cardinality(Ahead(v, R)) \in Nat
    BY <1>1, SubsetsAreFinite DEF Ahead
  <2> QED
    BY <2>1, AheadTotal, AheadOrder
<1>4. place \in Injection(S, 1..n)
  BY <1>2, <1>3 DEF Injection, IsInjective
<1>5. IsFiniteSet(1..n) /\ Cardinality(1..n) = n
  BY <1>1, FS_Interval
<1>6. place \in Surjection(S, 1..n)
  BY <1>4, <1>5, FS_Injection
<1>7. \A k \in 1..n : Ordered(R)[k] \in S /\ place[Ordered(R)[k]] = k
  <2> TAKE k \in 1..n
  <2>1. PICK u \in S : place[u] = k
    BY <1>6 DEF Surjection
  <2>2. Cardinality(Ahead(u, R)) = k - 1
    <3>1. Cardinality(Ahead(u, R)) \in Nat
      BY <1>1, SubsetsAreFinite DEF Ahead
    <3> QED
      BY <2>1, <3>1
  <2>3. Ordered(R)[k] = CHOOSE w \in S : Cardinality(Ahead(w, R)) = k - 1
    BY DEF Ordered
  <2> HIDE DEF S
  <2>4. Ordered(R)[k] \in S /\ Cardinality(Ahead(Ordered(R)[k], R)) = k - 1
    BY <2>2, <2>3
  <2> QED
    BY <2>4
<1>8. Ordered(R) \in [1..n -> S]
  BY <1>7 DEF Ordered
<1>9. Ordered(R) \in Seq(Users) /\ DOMAIN Ordered(R) = 1..n
  BY <1>1, <1>8
<1>10. Distinct(Ordered(R))
  <2>1. \A j, k \in 1..n : Ordered(R)[j] = Ordered(R)[k] => j = k
    BY <1>7
  <2> QED
    BY <1>9, <2>1 DEF Distinct
<1>11. ToSet(Ordered(R)) = S
  <2>1. ASSUME NEW u \in S PROVE u \in ToSet(Ordered(R))
    <3>1. place[u] \in 1..n /\ Ordered(R)[place[u]] \in S /\ place[Ordered(R)[place[u]]] = place[u]
      BY <1>2, <1>7
    <3>2. Ordered(R)[place[u]] = u
      BY <1>3, <3>1
    <3> QED
      BY <1>9, <3>1, <3>2 DEF ToSet
  <2>2. ToSet(Ordered(R)) \subseteq S
    BY <1>7, <1>9 DEF ToSet
  <2> QED
    BY <2>1, <2>2
<1> QED
  BY <1>9, <1>10, <1>11

-----------------------------------------------------------------------------
(* The inductive invariant *)

\* In the add phase a user is asked what its file says.
SourceInv ==
    operation = "add" => \A u \in Users :
        queue[u] \in Seq(Sessions) /\ (fut[u] # "none" => current[u] \in Sessions)

\* A user waits in the deque once, or has a future, or is through with the phase.
PlaceInv ==
    /\ Distinct(pending)
    /\ ToSet(pending) \cap Futures = {}
    /\ ToSet(pending) \cup Futures \subseteq ReadyUsers(ready)
    /\ turn <= Len(pending)
    /\ done \subseteq Finished
    /\ pc = "stopping" => turn = 0 /\ done = {}

FuturesAt(i) == {u \in Futures : InstanceOf[u] = i}
LiveAt(i) == {u \in At(i) : u \in Futures \/ u \in ToSet(pending)}

\* An interrupted phase may count futures that were cancelled, but no fewer.
CountInv ==
    /\ BoundedInflight
    /\ \A i \in Instances : Cardinality(FuturesAt(i)) <= inflight[i]

\* While instances outnumber workers, none has had a second future.
ShareInv ==
    /\ ReservedSlot
    /\ pc = "running" /\ Cardinality(Active) > MaxWorkers => \A i \in Instances : inflight[i] <= 1

BookInv == TypeOK /\ SourceInv /\ PlaceInv /\ CountInv /\ ShareInv

LEMMA SessionsAreNat == Sessions \subseteq Nat
<1>1. \A u \in Users : Adds[u] \in Seq(Nat)
  BY ReplayAssumption
<1>2. \A u \in Users : ToSet(Adds[u]) \subseteq Nat
  BY <1>1 DEF ToSet
<1> QED
  BY <1>2 DEF Sessions

LEMMA AddsAreSessions == \A u \in Users : Adds[u] \in Seq(Sessions)
<1> TAKE u \in Users
<1>1. Adds[u] \in Seq(Nat)
  BY ReplayAssumption
<1>2. \A k \in 1..Len(Adds[u]) : Adds[u][k] \in Sessions
  BY <1>1 DEF Sessions, ToSet
<1> QED
  BY <1>1, <1>2

LEMMA RequestTypes ==
    ASSUME TypeOK, NEW o \in Operations
    PROVE  [u \in Users |-> Requests(u, o)] \in [Users -> Seq(Nat)]
<1> SUFFICES ASSUME NEW u \in Users PROVE Requests(u, o) \in Seq(Nat)
  OBVIOUS
<1>1. CASE o = "add"
  BY <1>1, ReplayAssumption DEF Requests
<1>2. CASE o = "drain"
  <2>1. sessions[u] \in Seq(Nat)
    <3>1. sessions[u] \in Seq(Sessions)
      BY DEF TypeOK
    <3>2. \A k \in 1..Len(sessions[u]) : sessions[u][k] \in Sessions
      BY <3>1
    <3>3. \A k \in 1..Len(sessions[u]) : sessions[u][k] \in Nat
      BY <3>2, SessionsAreNat
    <3> QED
      BY <3>1, <3>3
  <2> QED
    BY <1>2, <2>1 DEF Requests
<1>3. CASE o = "search"
  <2>1. Searches[u] \in Nat
    BY ReplayAssumption
  <2>2. [k \in 1..Searches[u] |-> k] \in Seq(Nat)
    BY <2>1
  <2> QED
    BY <1>3, <2>2 DEF Requests
<1> QED
  BY <1>1, <1>2, <1>3 DEF Operations

-----------------------------------------------------------------------------
(* The start of a phase *)

\* The books with which a phase begins are those of its instances.
LEMMA FreshBooks ==
    ASSUME NEW R \in SUBSET Instances
    PROVE  /\ InitialRemaining(R) \in [Instances -> Nat]
           /\ \A i \in Instances : InitialRemaining(R)[i] =
                 Cardinality({u \in At(i) : u \in ToSet(Ordered(R))})
           /\ Len(Ordered(R)) \in 0..NumUsers
<1>1. ToSet(Ordered(R)) = {u \in Users : InstanceOf[u] \in R}
  BY OrderedUsers DEF ReadyUsers
<1>2. ASSUME NEW i \in Instances
      PROVE  InitialRemaining(R)[i] = Cardinality({u \in At(i) : u \in ToSet(Ordered(R))})
  <2>1. CASE i \in R
    <3>1. {u \in At(i) : u \in ToSet(Ordered(R))} = At(i)
      BY <1>1, <2>1 DEF At
    <3> QED
      BY <2>1, <3>1 DEF InitialRemaining
  <2>2. CASE i \notin R
    <3>1. {u \in At(i) : u \in ToSet(Ordered(R))} = {}
      BY <1>1, <2>2 DEF At
    <3> QED
      BY <2>2, <3>1, FS_EmptySet DEF InitialRemaining
  <2> QED
    BY <2>1, <2>2
<1>3. InitialRemaining(R) \in [Instances -> Nat]
  <2>1. \A i \in Instances : Cardinality(At(i)) \in Nat
    BY SubsetsAreFinite DEF At
  <2> QED
    BY <2>1 DEF InitialRemaining
<1>4. Len(Ordered(R)) \in 0..NumUsers
  BY OrderedUsers, DistinctLen, ReplayAssumption
<1> QED
  BY <1>2, <1>3, <1>4

\* Without futures no instance counts any, and every one with users is idle.
LEMMA NoFutures ==
    /\ Cardinality({}) = 0 /\ MaxWorkers \in Nat
    /\ \A i \in Instances : MaxInflight[i] \in Nat /\ {u \in {} : InstanceOf[u] = i} = {}
    /\ \A A \in SUBSET Instances : Cardinality(A) \in Nat
  BY FS_EmptySet, SubsetsAreFinite, ReplayAssumption

-----------------------------------------------------------------------------
(* Steps that leave the books alone *)

LEMMA QuietBooks ==
    ASSUME CountInv, ShareInv, Futures' = Futures, ToSet(pending') = ToSet(pending),
           UNCHANGED <<inflight, remaining>>, pc' = "running" => pc = "running"
    PROVE  CountInv' /\ ShareInv'
<1>1. Active' = Active /\ {i \in Instances : Idle(i)}' = {i \in Instances : Idle(i)}
  BY DEF Active, Idle
<1>2. ShareInv'
  BY <1>1 DEF ShareInv, ReservedSlot
<1>3. CountInv'
  BY DEF CountInv, BoundedInflight, FuturesAt
<1> QED
  BY <1>2, <1>3

LEMMA CountedType ==
    ASSUME NEW f \in [Users -> [Operations -> Nat]], NEW u \in Users, operation \in Operations
    PROVE  /\ Counted(f, u) \in [Users -> [Operations -> Nat]]
           /\ \A v \in Users, o \in Operations : Counted(f, u)[v][o] =
                 IF v = u /\ o = operation THEN f[v][o] + 1 ELSE f[v][o]
  BY DEF Counted

\* The coordinator looks, waits or ends; a worker answers; time passes.
Idling == Report \/ Wait \/ Sleep \/ ReportInterrupted \/ UNCHANGED vars

LEMMA IdlingKeeps == BookInv /\ Idling => BookInv'
<1> SUFFICES ASSUME BookInv, Idling PROVE BookInv'
  OBVIOUS
<1> USE DEF BookInv
<1>1. UNCHANGED <<operation, ready, queue, pending, due, fut, current, inflight, remaining,
                  sessions, unflushed, events, invoked, bad>>
  BY DEF Idling, Report, Wait, Sleep, ReportInterrupted, vars, loop, books, results
<1>2. Futures' = Futures /\ Finished' = Finished
  BY <1>1 DEF Futures, Finished
<1>3. Len(pending) \in 0..NumUsers
  BY DistinctLen DEF PlaceInv, TypeOK
<1>4. /\ pc' \in {"running", "stopping", "completed", "interrupted"}
      /\ turn' \in 0..NumUsers /\ turn' <= Len(pending)
      /\ done' \subseteq Finished
      /\ pc' = "running" => pc = "running"
      /\ pc' = "stopping" => turn' = 0 /\ done' = {}
  BY <1>3 DEF Idling, Report, Wait, Sleep, ReportInterrupted, vars, loop, TypeOK, PlaceInv
<1>5. TypeOK'
  BY <1>1, <1>4 DEF TypeOK, Finished
<1>6. SourceInv'
  BY <1>1 DEF SourceInv
<1>7. PlaceInv'
  BY <1>1, <1>2, <1>4 DEF PlaceInv, ReadyUsers
<1> QED
  BY <1>1, <1>2, <1>4, <1>5, <1>6, <1>7, QuietBooks

LEMMA PutBackTurns ==
    ASSUME BookInv, PutBack
    PROVE  /\ pending \in Seq(Users) /\ turn \in 0..NumUsers /\ turn > 0
           /\ pending' \in Seq(Users) /\ Len(pending') = Len(pending) /\ Distinct(pending')
           /\ ToSet(pending') = ToSet(pending)
<1> USE DEF BookInv
<1>1. pending \in Seq(Users) /\ pending # <<>> /\ turn \in 0..NumUsers /\ turn > 0
  BY DEF PutBack, Visiting, PlaceInv, TypeOK
<1>2. /\ pending' \in Seq(Users) /\ Len(pending') = Len(pending) /\ Distinct(pending')
      /\ ToSet(pending') = ToSet(pending)
  <2> DEFINE u == Head(pending)
             rest == Tail(pending)
  <2>1. /\ u \in Users /\ rest \in Seq(Users) /\ Len(rest) = Len(pending) - 1
        /\ ToSet(pending) = ToSet(rest) \cup {u} /\ Distinct(rest) /\ u \notin ToSet(rest)
    BY <1>1, TailSet DEF PlaceInv
  <2>2. pending' = Append(rest, u) /\ Len(pending) \in Nat
    BY <1>1 DEF PutBack
  <2> HIDE DEF u, rest
  <2>3. /\ Append(rest, u) \in Seq(Users) /\ Len(Append(rest, u)) = Len(rest) + 1
        /\ ToSet(Append(rest, u)) = ToSet(rest) \cup {u} /\ Distinct(Append(rest, u))
    BY <2>1, AppendSet
  <2> QED
    BY <2>1, <2>2, <2>3
<1> QED
  BY <1>1, <1>2

LEMMA PutBackKeeps == BookInv /\ PutBack => BookInv'
<1> SUFFICES ASSUME BookInv, PutBack PROVE BookInv'
  OBVIOUS
<1> USE DEF BookInv
<1>1. pending \in Seq(Users) /\ turn \in 0..NumUsers /\ turn > 0
  BY PutBackTurns
<1>2. /\ pending' \in Seq(Users) /\ Len(pending') = Len(pending) /\ Distinct(pending')
      /\ ToSet(pending') = ToSet(pending)
  BY PutBackTurns
<1>3. TypeOK'
  <2>1. turn' \in 0..NumUsers
    BY <1>1, ReplayAssumption DEF PutBack
  <2> QED
    BY <1>2, <2>1 DEF TypeOK, PutBack, books, results
<1>4. UNCHANGED <<Futures, Finished>>
  BY DEF Futures, Finished, PutBack
<1>5. PlaceInv'
  BY <1>1, <1>2, <1>4 DEF PlaceInv, ReadyUsers, PutBack, Visiting
<1>6. SourceInv'
  BY DEF SourceInv, PutBack
<1>7. CountInv' /\ ShareInv'
  BY <1>2, <1>4, QuietBooks DEF PutBack, books
<1> QED
  BY <1>3, <1>5, <1>6, <1>7

LEMMA WorkerKeeps ==
    ASSUME BookInv, NEW u \in Users, Succeed(u) \/ Fail(u) \/ ComesDue(u)
    PROVE  BookInv'
<1> USE DEF BookInv
<1>1. UNCHANGED <<pc, operation, ready, queue, pending, turn, done, current, inflight, remaining, bad,
                  events>>
  BY DEF Succeed, Fail, ComesDue, loop, books, results
<1>2. fut' \in [Users -> {"none", "running", "ok", "failed"}] /\ due' \subseteq Users
  BY DEF Succeed, Fail, ComesDue, TypeOK
<1>3. Futures' = Futures /\ Finished \subseteq Finished'
  BY DEF Succeed, Fail, ComesDue, TypeOK, Futures, Finished
<1>4. sessions' \in [Users -> Seq(Sessions)] /\ unflushed' \in [Users -> SUBSET Sessions]
  <2>1. CASE Succeed(u)
    <3>1. CASE operation = "add"
      <4>1. current[u] \in Sessions /\ sessions[u] \in Seq(Sessions) /\ unflushed[u] \in SUBSET Sessions
        BY <2>1, <3>1 DEF Succeed, SourceInv, TypeOK
      <4>2. Remember(u) \in Seq(Sessions)
        BY <4>1 DEF Remember
      <4> QED
        BY <2>1, <3>1, <4>1, <4>2 DEF Succeed, TypeOK
    <3>2. CASE operation = "drain"
      BY <2>1, <3>2 DEF Succeed, TypeOK
    <3>3. CASE operation = "search"
      BY <2>1, <3>3 DEF Succeed, TypeOK
    <3> QED
      BY <3>1, <3>2, <3>3 DEF TypeOK, Operations
  <2>2. CASE Fail(u) \/ ComesDue(u)
    BY <2>2 DEF Fail, ComesDue, results, TypeOK
  <2> QED
    BY <2>1, <2>2
<1>5. invoked' \in [Users -> [Operations -> Nat]]
  <2>1. operation \in Operations /\ invoked \in [Users -> [Operations -> Nat]]
    BY DEF TypeOK
  <2>2. invoked' \in {invoked, Counted(invoked, u)}
    BY DEF Succeed, Fail, ComesDue, results
  <2> QED
    BY <2>1, <2>2, CountedType
<1>6. TypeOK'
  BY <1>1, <1>2, <1>4, <1>5 DEF TypeOK
<1>7. SourceInv'
  BY <1>1, <1>3 DEF SourceInv, Futures
<1>8. PlaceInv'
  BY <1>1, <1>3 DEF PlaceInv, ReadyUsers
<1> QED
  BY <1>1, <1>3, <1>6, <1>7, <1>8, QuietBooks
-----------------------------------------------------------------------------
(* Steps of the loop *)

\* The user that the pass has come to.
LEMMA HeadWaits ==
    ASSUME BookInv, Visiting
    PROVE  /\ pending \in Seq(Users) /\ pending # <<>> /\ Head(pending) \in Users
           /\ Tail(pending) \in Seq(Users) /\ Len(Tail(pending)) = Len(pending) - 1
           /\ Len(pending) \in Nat /\ turn - 1 \in 0..NumUsers /\ turn - 1 <= Len(Tail(pending))
           /\ ToSet(pending) = ToSet(Tail(pending)) \cup {Head(pending)}
           /\ Distinct(Tail(pending)) /\ Head(pending) \notin ToSet(Tail(pending))
           /\ InstanceOf[Head(pending)] \in Instances /\ Head(pending) \notin Futures
<1> USE DEF BookInv
<1>1. pending \in Seq(Users) /\ pending # <<>> /\ turn \in 0..NumUsers /\ turn > 0
  BY DEF Visiting, PlaceInv, TypeOK
<1>2. turn - 1 \in 0..NumUsers /\ Len(pending) \in Nat /\ turn <= Len(pending)
  BY <1>1, ReplayAssumption DEF PlaceInv
<1>3. /\ Head(pending) \in Users /\ Tail(pending) \in Seq(Users)
      /\ Len(Tail(pending)) = Len(pending) - 1
      /\ ToSet(pending) = ToSet(Tail(pending)) \cup {Head(pending)}
      /\ Distinct(Tail(pending)) /\ Head(pending) \notin ToSet(Tail(pending))
  BY <1>1, TailSet DEF PlaceInv
<1>4. Head(pending) \notin Futures
  BY <1>3 DEF PlaceInv
<1> QED
  BY <1>1, <1>2, <1>3, <1>4, ReplayAssumption

\* With at most one future each, the instances at work and the idle ones are among
\* the active ones.
LEMMA OneEach ==
    ASSUME NEW F \in SUBSET Users, NEW A \in SUBSET Instances, NEW I \in SUBSET A,
           \A u \in F : InstanceOf[u] \in A \ I,
           \A i \in Instances : Cardinality({u \in F : InstanceOf[u] = i}) <= 1
    PROVE  Cardinality(I) + Cardinality(F) <= Cardinality(A)
<1> DEFINE B == A \ I
           where == [u \in F |-> InstanceOf[u]]
<1>1. /\ IsFiniteSet(A) /\ IsFiniteSet(I) /\ IsFiniteSet(B) /\ IsFiniteSet(F)
      /\ Cardinality(A) \in Nat /\ Cardinality(I) \in Nat /\ Cardinality(B) \in Nat
      /\ Cardinality(F) \in Nat
  BY SubsetsAreFinite
<1>2. ASSUME NEW u \in F, NEW v \in F, InstanceOf[u] = InstanceOf[v] PROVE u = v
  <2> DEFINE i == InstanceOf[u]
             At1 == {w \in F : InstanceOf[w] = i}
  <2>1. i \in Instances /\ At1 \subseteq Users /\ u \in At1 /\ v \in At1
    BY <1>2, ReplayAssumption
  <2>2. IsFiniteSet(At1) /\ Cardinality(At1) \in Nat /\ Cardinality(At1) <= 1
    BY <2>1, SubsetsAreFinite
  <2> HIDE DEF At1
  <2>3. {u} \subseteq At1 /\ Cardinality({u}) = 1 /\ IsFiniteSet({u})
    BY <2>1, FS_Singleton
  <2>4. Cardinality({u}) <= Cardinality(At1)
    BY <2>2, <2>3, FS_Subset
  <2>5. At1 = {u}
    BY <2>2, <2>3, <2>4, FS_Subset
  <2> QED
    BY <2>1, <2>5
<1>3. where \in Injection(F, B)
  BY <1>2 DEF Injection, IsInjective
<1>4. Cardinality(F) <= Cardinality(B)
  BY <1>1, <1>3, FS_Injection
<1>5. Cardinality(B) = Cardinality(A) - Cardinality(I)
  <2>1. A \cap I = I
    OBVIOUS
  <2> QED
    BY <1>1, <2>1, FS_Difference
<1> QED
  BY <1>1, <1>4, <1>5

LEMMA RetireKeeps == BookInv /\ Retire => BookInv'
<1> SUFFICES ASSUME BookInv, Retire PROVE BookInv'
  OBVIOUS
<1> USE DEF BookInv
<1> DEFINE u == Head(pending)
           i == InstanceOf[u]
<1>1. /\ pending \in Seq(Users) /\ u \in Users /\ i \in Instances /\ u \notin Futures
      /\ pending' = Tail(pending) /\ pending' \in Seq(Users) /\ Distinct(pending')
      /\ ToSet(pending) = ToSet(pending') \cup {u} /\ u \notin ToSet(pending')
      /\ turn' \in 0..NumUsers /\ turn' <= Len(pending')
  BY HeadWaits DEF Retire
<1>2. /\ pc = "running" /\ UNCHANGED <<pc, Futures, Finished, inflight>>
      /\ remaining' = [remaining EXCEPT ![i] = remaining[i] - 1]
  BY DEF Retire, Visiting, Futures, Finished
<1> HIDE DEF u
<1>3. \A j \in Instances :
         /\ LiveAt(j) \subseteq Users
         /\ LiveAt(j)' = IF j = i THEN LiveAt(j) \ {u} ELSE LiveAt(j)
  BY <1>1, <1>2 DEF LiveAt, At
<1>4. u \in LiveAt(i)
  BY <1>1 DEF LiveAt, At
<1>5. ASSUME NEW j \in Instances
      PROVE  /\ remaining'[j] = Cardinality(LiveAt(j)') /\ remaining'[j] \in Nat
             /\ remaining'[j] <= remaining[j] /\ remaining[j] \in Nat
  <2>1. remaining[j] = Cardinality(LiveAt(j)) /\ remaining[j] \in Nat
    BY <1>2 DEF CountInv, BoundedInflight, LiveAt, TypeOK
  <2>2. IsFiniteSet(LiveAt(j)) /\ IsFiniteSet(LiveAt(j)') /\ Cardinality(LiveAt(j)') \in Nat
    BY <1>1, <1>3, SubsetsAreFinite
  <2>3. CASE j = i
    <3>1. Cardinality(LiveAt(i) \ {u}) = Cardinality(LiveAt(i)) - 1
      BY <1>4, <2>2, <2>3, FS_RemoveElement
    <3>2. remaining'[i] = remaining[i] - 1
      BY <1>1, <1>2 DEF TypeOK
    <3>3. LiveAt(j)' = LiveAt(i) \ {u}
      BY <1>3, <2>3
    <3> HIDE DEF i
    <3> QED
      BY <2>1, <2>2, <2>3, <3>1, <3>2, <3>3
  <2>4. CASE j # i
    BY <1>2, <1>3, <2>1, <2>4 DEF TypeOK
  <2> QED
    BY <2>3, <2>4
<1>6. TypeOK'
  <2>1. remaining' \in [Instances -> Nat]
    BY <1>2, <1>5 DEF TypeOK
  <2> QED
    BY <1>1, <2>1 DEF TypeOK, Retire, results
<1>7. SourceInv' /\ PlaceInv'
  BY <1>1, <1>2 DEF SourceInv, PlaceInv, ReadyUsers, Retire
<1>8. CountInv'
  BY <1>2, <1>5 DEF CountInv, BoundedInflight, FuturesAt, LiveAt, At
<1>9. ShareInv'
  <2> DEFINE I == {j \in Instances : Idle(j)}
  <2>1. Active' \subseteq Active /\ I' \subseteq I /\ I' \subseteq Active'
    BY <1>2, <1>5 DEF Active, Idle
  <2>2. /\ IsFiniteSet(Active) /\ IsFiniteSet(I) /\ Cardinality(Active) \in Nat
        /\ Cardinality(I) \in Nat /\ Cardinality(Active') \in Nat /\ Cardinality(I') \in Nat
        /\ Cardinality(Futures) \in Nat /\ MaxWorkers \in Nat
    BY SubsetsAreFinite, ReplayAssumption DEF Active, Futures
  <2>3. Cardinality(Active') <= Cardinality(Active) /\ Cardinality(I') <= Cardinality(I)
    BY <2>1, <2>2, FS_Subset
  <2>4. CASE Cardinality(Active) <= MaxWorkers
    BY <1>2, <2>2, <2>3, <2>4 DEF ShareInv, ReservedSlot
  <2>5. CASE Cardinality(Active) > MaxWorkers
    <3>1. \A j \in Instances : inflight[j] <= 1
      BY <1>2, <2>5 DEF ShareInv
    <3>2. ASSUME NEW v \in Futures PROVE InstanceOf[v] \in Active' \ I'
      <4>1. InstanceOf[v] \in Instances /\ v \in FuturesAt(InstanceOf[v]) /\ v \in LiveAt(InstanceOf[v])'
        BY <1>2, ReplayAssumption DEF FuturesAt, LiveAt, At, Futures
      <4>2. IsFiniteSet(FuturesAt(InstanceOf[v])) /\ IsFiniteSet(LiveAt(InstanceOf[v])')
        BY SubsetsAreFinite DEF FuturesAt, LiveAt, At, Futures
      <4>3. Cardinality(FuturesAt(InstanceOf[v])) # 0 /\ Cardinality(LiveAt(InstanceOf[v])') # 0
        BY <4>1, <4>2, FS_EmptySet
      <4>4. inflight[InstanceOf[v]] # 0 /\ remaining'[InstanceOf[v]] # 0
        BY <1>2, <1>5, <4>1, <4>3 DEF CountInv, BoundedInflight, FuturesAt
      <4> QED
        BY <1>2, <1>5, <4>1, <4>4 DEF Active, Idle
    <3>3. \A j \in Instances : Cardinality({v \in Futures : InstanceOf[v] = j}) <= 1
      BY <1>2, <3>1 DEF CountInv, BoundedInflight
    <3>4. Cardinality(I') + Cardinality(Futures) <= Cardinality(Active')
      <4>1. Futures \subseteq Users /\ Active' \subseteq Instances
        BY DEF Futures, Active
      <4> QED
        BY <2>1, <3>2, <3>3, <4>1, OneEach
    <3> QED
      BY <1>2, <2>2, <3>1, <3>4 DEF ShareInv, ReservedSlot
  <2> QED
    BY <2>2, <2>4, <2>5
<1> QED
  BY <1>6, <1>7, <1>8, <1>9
LEMMA LaunchKeeps == BookInv /\ Launch => BookInv'
<1> SUFFICES ASSUME BookInv, Launch PROVE BookInv'
  OBVIOUS
<1> USE DEF BookInv
<1> DEFINE u == Head(pending)
           i == InstanceOf[u]
<1>1. /\ pending \in Seq(Users) /\ u \in Users /\ i \in Instances /\ u \notin Futures
      /\ pending' = Tail(pending) /\ pending' \in Seq(Users) /\ Distinct(pending')
      /\ ToSet(pending) = ToSet(pending') \cup {u} /\ u \notin ToSet(pending')
      /\ turn' \in 0..NumUsers /\ turn' <= Len(pending')
  BY HeadWaits DEF Launch
<1>2. /\ pc = "running" /\ UNCHANGED <<pc, operation, ready, done, remaining, sessions, unflushed,
                                       events, invoked, bad>>
      /\ inflight' = [inflight EXCEPT ![i] = inflight[i] + 1]
      /\ fut' = [fut EXCEPT ![u] = "running"]
      /\ current' = [current EXCEPT ![u] = Head(queue[u])]
      /\ queue' = [queue EXCEPT ![u] = Tail(queue[u])]
      /\ queue[u] # <<>> /\ ~Blocked(u) /\ due' \subseteq Users
  BY DEF Launch, Visiting, results, TypeOK
<1> HIDE DEF u
<1>3. Futures' = Futures \cup {u} /\ Finished' = Finished
  BY <1>1, <1>2 DEF Futures, Finished, TypeOK
<1>4. queue[u] \in Seq(Nat) /\ Head(queue[u]) \in Nat /\ Tail(queue[u]) \in Seq(Nat)
  <2>1. queue[u] \in Seq(Nat)
    BY <1>1 DEF TypeOK
  <2> QED
    BY <1>2, <2>1
<1>5. TypeOK'
  <2>1. inflight' \in [Instances -> Nat]
    <3>1. inflight \in [Instances -> Nat]
      BY DEF TypeOK
    <3>2. inflight[i] + 1 \in Nat
      BY <1>1, <3>1
    <3> QED
      BY <1>2, <3>1, <3>2
  <2>2. queue' \in [Users -> Seq(Nat)] /\ current' \in [Users -> Nat]
        /\ fut' \in [Users -> {"none", "running", "ok", "failed"}]
    BY <1>1, <1>2, <1>4 DEF TypeOK
  <2> QED
    BY <1>1, <1>2, <2>1, <2>2 DEF TypeOK
<1>6. SourceInv'
  <2> SUFFICES ASSUME operation = "add", NEW v \in Users
               PROVE  queue'[v] \in Seq(Sessions) /\ (fut'[v] # "none" => current'[v] \in Sessions)
    BY <1>2 DEF SourceInv
  <2>1. CASE v = u
    <3>1. queue[u] \in Seq(Sessions)
      BY <1>1 DEF SourceInv
    <3>2. Head(queue[u]) \in Sessions /\ Tail(queue[u]) \in Seq(Sessions)
      BY <1>2, <3>1
    <3> QED
      BY <1>1, <1>2, <2>1, <3>2 DEF TypeOK
  <2>2. CASE v # u
    BY <1>1, <1>2, <2>2 DEF SourceInv, TypeOK
  <2> QED
    BY <2>1, <2>2
<1>7. PlaceInv'
  <2>1. u \in ReadyUsers(ready) /\ ReadyUsers(ready)' = ReadyUsers(ready)
    BY <1>1, <1>2 DEF PlaceInv, ReadyUsers
  <2> QED
    BY <1>1, <1>2, <1>3, <2>1 DEF PlaceInv
<1>8. /\ Cardinality(Futures) \in Nat /\ Cardinality(Futures') = Cardinality(Futures) + 1
      /\ MaxWorkers \in Nat /\ \A j \in Instances : MaxInflight[j] \in Nat /\ inflight[j] \in Nat
  <2>1. IsFiniteSet(Futures) /\ Cardinality(Futures) \in Nat
    BY SubsetsAreFinite DEF Futures
  <2>2. Cardinality(Futures \cup {u}) = Cardinality(Futures) + 1
    BY <1>1, <2>1, FS_AddElement
  <2> QED
    BY <1>3, <2>1, <2>2, ReplayAssumption DEF TypeOK
<1>9. CountInv'
  <2>1. Cardinality(Futures') <= MaxWorkers
    BY <1>2, <1>8 DEF Blocked
  <2>2. ASSUME NEW j \in Instances
        PROVE  /\ inflight'[j] = Cardinality(FuturesAt(j)') /\ inflight'[j] <= MaxInflight[j]
               /\ Cardinality(FuturesAt(j)') <= inflight'[j]
    <3>1. IsFiniteSet(FuturesAt(j)) /\ inflight[j] = Cardinality(FuturesAt(j))
          /\ inflight[j] <= MaxInflight[j]
      BY <1>2, SubsetsAreFinite DEF FuturesAt, Futures, CountInv, BoundedInflight
    <3>2. CASE j = i
      <4>1. FuturesAt(j)' = FuturesAt(j) \cup {u} /\ u \notin FuturesAt(j)
        BY <1>1, <1>3, <3>2 DEF FuturesAt
      <4>2. Cardinality(FuturesAt(j) \cup {u}) = Cardinality(FuturesAt(j)) + 1
        BY <3>1, <4>1, FS_AddElement
      <4>3. inflight'[j] = inflight[j] + 1 /\ ~(inflight[j] >= MaxInflight[j])
        BY <1>1, <1>2, <3>2 DEF TypeOK, Blocked
      <4> QED
        BY <1>8, <3>1, <4>1, <4>2, <4>3
    <3>3. CASE j # i
      <4>1. FuturesAt(j)' = FuturesAt(j)
        BY <1>3, <3>3 DEF FuturesAt
      <4> QED
        BY <1>2, <1>8, <3>1, <3>3, <4>1 DEF TypeOK
    <3> QED
      BY <3>2, <3>3
  <2>3. ASSUME NEW j \in Instances PROVE LiveAt(j)' = LiveAt(j)
    BY <1>1, <1>3 DEF LiveAt
  <2>4. \A j \in Instances : remaining'[j] = Cardinality(LiveAt(j)')
    BY <1>2, <2>3 DEF CountInv, BoundedInflight, LiveAt
  <2> QED
    BY <1>2, <2>1, <2>2, <2>4 DEF CountInv, BoundedInflight, FuturesAt, LiveAt, At
<1>10. ShareInv'
  <2>1. Active' = Active
    BY <1>2 DEF Active
  <2>2. {j \in Instances : Idle(j)}' = {j \in Instances \ {i} : Idle(j)}
    <3>1. ASSUME NEW j \in Instances PROVE inflight'[j] = IF j = i THEN inflight[j] + 1 ELSE inflight[j]
      BY <1>1, <1>2 DEF TypeOK
    <3> QED
      BY <1>1, <1>2, <1>8, <3>1 DEF Idle
  <2>3. Cardinality({j \in Instances \ {i} : Idle(j)}) \in Nat /\ Cardinality(Active) \in Nat
    BY SubsetsAreFinite DEF Active
  <2>4. CASE Cardinality(Active) <= MaxWorkers
    <3>1. ~(Cardinality(Futures) >= MaxWorkers - Cardinality({j \in Instances \ {i} : Idle(j)}))
      BY <1>2, <2>4 DEF Blocked, Reserved
    <3> DEFINE n == Cardinality({j \in Instances \ {i} : Idle(j)})
    <3>a. n \in Nat /\ ~(Cardinality(Futures) >= MaxWorkers - n)
      BY <2>3, <3>1
    <3>b. Cardinality({j \in Instances : Idle(j)}') = n
      BY <2>2
    <3> HIDE DEF n
    <3>2. Cardinality({j \in Instances : Idle(j)}') <= MaxWorkers - Cardinality(Futures')
      BY <1>8, <3>a, <3>b
    <3> QED
      BY <1>8, <2>1, <2>3, <2>4, <3>2 DEF ShareInv, ReservedSlot
  <2>5. CASE Cardinality(Active) > MaxWorkers
    <3>1. inflight[i] = 0
      BY <1>1, <1>2, <1>8, <2>5 DEF Blocked
    <3>2. \A j \in Instances : inflight'[j] <= 1
      BY <1>1, <1>2, <2>5, <3>1 DEF ShareInv, TypeOK
    <3> QED
      BY <1>8, <2>1, <2>3, <2>5, <3>2 DEF ShareInv, ReservedSlot
  <2> QED
    BY <1>8, <2>3, <2>4, <2>5
<1> QED
  BY <1>5, <1>6, <1>7, <1>9, <1>10

-----------------------------------------------------------------------------
(* A future that has ended *)

LEMMA CollectKeeps ==
    ASSUME BookInv, NEW u \in Users, Collect(u) \/ CollectLate(u)
    PROVE  BookInv'
<1> USE DEF BookInv
<1> DEFINE i == InstanceOf[u]
<1>1. /\ u \in Finished /\ Record(u) /\ pending' = Append(pending, u)
      /\ UNCHANGED <<pc, operation, ready, queue, due, remaining, sessions, unflushed, invoked>>
      /\ done' \in {done, done \ {u}} /\ turn' \in {0, Len(pending'), turn}
      /\ CollectLate(u) => turn' = turn /\ pc = "stopping" /\ done' = done
      /\ Collect(u) => pc = "running" /\ turn' \in {0, Len(pending')} /\ done' = done \ {u}
  BY DEF Collect, CollectLate, PlaceInv
<1>2. /\ inflight' = [inflight EXCEPT ![i] = inflight[i] - 1]
      /\ fut' = [fut EXCEPT ![u] = "none"] /\ current' = [current EXCEPT ![u] = 0]
      /\ events' = Counted(events, u)
      /\ bad' = [bad EXCEPT ![u] = IF fut[u] = "failed" THEN bad[u] \cup {operation} ELSE bad[u]]
  BY <1>1 DEF Record
<1>3. u \in Futures /\ i \in Instances /\ pending \in Seq(Users) /\ u \notin ToSet(pending)
  BY <1>1, ReplayAssumption DEF Finished, Futures, PlaceInv, TypeOK
<1>4. Futures' = Futures \ {u} /\ Finished' = Finished \ {u}
  BY <1>2 DEF Futures, Finished, TypeOK
<1>5. /\ pending' \in Seq(Users) /\ Distinct(pending') /\ ToSet(pending') = ToSet(pending) \cup {u}
      /\ Len(pending') \in 0..NumUsers /\ Len(pending') = Len(pending) + 1 /\ Len(pending) \in Nat
  <2>1. /\ Append(pending, u) \in Seq(Users) /\ Distinct(Append(pending, u))
        /\ ToSet(Append(pending, u)) = ToSet(pending) \cup {u}
        /\ Len(Append(pending, u)) = Len(pending) + 1
    BY <1>3, AppendSet DEF PlaceInv
  <2>2. Len(Append(pending, u)) \in Nat /\ Len(Append(pending, u)) <= NumUsers
    BY <2>1, DistinctLen
  <2> QED
    BY <1>1, <1>3, <2>1, <2>2, ReplayAssumption
<1>6. ASSUME NEW j \in Instances
      PROVE  /\ FuturesAt(j)' = IF j = i THEN FuturesAt(j) \ {u} ELSE FuturesAt(j)
             /\ Cardinality(FuturesAt(j)') \in Nat /\ Cardinality(FuturesAt(j)) \in Nat
             /\ Cardinality(FuturesAt(j)') =
                   IF j = i THEN Cardinality(FuturesAt(j)) - 1 ELSE Cardinality(FuturesAt(j))
  <2>1. FuturesAt(j)' = IF j = i THEN FuturesAt(j) \ {u} ELSE FuturesAt(j)
    BY <1>4 DEF FuturesAt
  <2>2. IsFiniteSet(FuturesAt(j)) /\ Cardinality(FuturesAt(j)) \in Nat /\ Cardinality(FuturesAt(j)') \in Nat
    BY <2>1, SubsetsAreFinite DEF FuturesAt, Futures
  <2>3. j = i => u \in FuturesAt(j)
    BY <1>3 DEF FuturesAt
  <2>4. j = i => Cardinality(FuturesAt(j) \ {u}) = Cardinality(FuturesAt(j)) - 1
    BY <2>2, <2>3, FS_RemoveElement
  <2> QED
    BY <2>1, <2>2, <2>4
<1>7. ASSUME NEW j \in Instances
      PROVE  /\ inflight[j] \in Nat /\ inflight'[j] \in Nat
             /\ inflight'[j] = IF j = i THEN inflight[j] - 1 ELSE inflight[j]
             /\ Cardinality(FuturesAt(j)) <= inflight[j]
             /\ Cardinality(FuturesAt(j)') <= inflight'[j]
  <2>1. inflight[j] \in Nat /\ inflight'[j] = IF j = i THEN inflight[j] - 1 ELSE inflight[j]
    BY <1>2, <1>3 DEF TypeOK
  <2>2. Cardinality(FuturesAt(j)) <= inflight[j]
    BY DEF CountInv
  <2> HIDE DEF i
  <2> QED
    BY <1>6, <2>1, <2>2
<1>8. TypeOK'
  <2>1. inflight' \in [Instances -> Nat]
    BY <1>2, <1>7 DEF TypeOK
  <2>2. /\ fut' \in [Users -> {"none", "running", "ok", "failed"}]
        /\ current' \in [Users -> Nat] /\ bad' \in [Users -> SUBSET Operations]
    BY <1>2 DEF TypeOK
  <2>3. events' \in [Users -> [Operations -> Nat]]
    BY <1>2, CountedType DEF TypeOK
  <2>4. turn' \in 0..NumUsers /\ done' \subseteq Users
    BY <1>1, <1>5, ReplayAssumption DEF TypeOK
  <2> QED
    BY <1>1, <1>5, <2>1, <2>2, <2>3, <2>4 DEF TypeOK
<1>9. SourceInv'
  BY <1>1, <1>2 DEF SourceInv, TypeOK
<1>10. PlaceInv'
  <2>1. turn' <= Len(pending') /\ (pc' = "stopping" => turn' = 0 /\ done' = {})
    BY <1>1, <1>5 DEF PlaceInv, TypeOK
  <2>2. done' \subseteq Finished'
    <3>1. CASE Collect(u)
      BY <1>1, <1>4, <3>1 DEF PlaceInv
    <3>2. CASE CollectLate(u)
      BY <1>1, <3>2 DEF PlaceInv
    <3> QED
      BY <3>1, <3>2
  <2>3. ReadyUsers(ready)' = ReadyUsers(ready) /\ u \in ReadyUsers(ready)
    BY <1>1, <1>3 DEF PlaceInv, ReadyUsers
  <2> QED
    BY <1>4, <1>5, <2>1, <2>2, <2>3 DEF PlaceInv
<1>11. /\ Cardinality(Futures) \in Nat /\ Cardinality(Futures') = Cardinality(Futures) - 1
       /\ MaxWorkers \in Nat /\ \A j \in Instances : MaxInflight[j] \in Nat
  <2>1. IsFiniteSet(Futures) /\ Cardinality(Futures) \in Nat
    BY SubsetsAreFinite DEF Futures
  <2>2. Cardinality(Futures \ {u}) = Cardinality(Futures) - 1
    BY <1>3, <2>1, FS_RemoveElement
  <2> QED
    BY <1>4, <2>1, <2>2, ReplayAssumption
<1>12. CountInv'
  <2>1. Cardinality(Futures') <= MaxWorkers
    BY <1>11 DEF CountInv, BoundedInflight
  <2>2. ASSUME pc = "running", NEW j \in Instances
        PROVE  inflight'[j] = Cardinality(FuturesAt(j)') /\ inflight'[j] <= MaxInflight[j]
    <3>1. inflight[j] = Cardinality(FuturesAt(j)) /\ inflight[j] <= MaxInflight[j]
      BY <2>2 DEF CountInv, BoundedInflight, FuturesAt
    <3> HIDE DEF i
    <3> QED
      BY <1>6, <1>7, <1>11, <3>1
  <2>3. ASSUME NEW j \in Instances PROVE LiveAt(j)' = LiveAt(j)
    BY <1>3, <1>4, <1>5 DEF LiveAt
  <2>4. pc = "running" => \A j \in Instances : remaining'[j] = Cardinality(LiveAt(j)')
    BY <1>1, <2>3 DEF CountInv, BoundedInflight, LiveAt
  <2> QED
    BY <1>1, <1>7, <2>1, <2>2, <2>4 DEF CountInv, BoundedInflight, FuturesAt, LiveAt, At
<1>13. ShareInv'
  <2> DEFINE I == {j \in Instances : Idle(j)}
  <2>1. Active' = Active
    BY <1>1 DEF Active
  <2>2. I' \subseteq I \cup {i}
    BY <1>1, <1>7 DEF Idle
  <2>3. /\ IsFiniteSet(I \cup {i}) /\ Cardinality(I \cup {i}) \in Nat
        /\ IsFiniteSet(I) /\ Cardinality(I) \in Nat /\ Cardinality(I') \in Nat
        /\ Cardinality(Active) \in Nat
    BY <1>3, SubsetsAreFinite DEF Active
  <2>4. Cardinality(I \cup {i}) <= Cardinality(I) + 1
    BY <2>3, FS_AddElement
  <2>5. Cardinality(I') <= Cardinality(I) + 1
    <3>1. Cardinality(I') <= Cardinality(I \cup {i})
      BY <2>2, <2>3, FS_Subset
    <3> QED
      BY <2>3, <2>4, <3>1
  <2>6. CASE pc = "running" /\ Cardinality(Active) <= MaxWorkers
    BY <1>1, <1>11, <2>1, <2>3, <2>5, <2>6 DEF ShareInv, ReservedSlot
  <2>7. CASE pc = "running" /\ Cardinality(Active) > MaxWorkers
    <3>1. \A j \in Instances : inflight'[j] <= 1
      BY <1>7, <2>7 DEF ShareInv
    <3> QED
      BY <1>1, <1>11, <2>1, <2>3, <2>7, <3>1 DEF ShareInv, ReservedSlot
  <2>8. CASE pc # "running"
    BY <1>1, <2>8 DEF ShareInv, ReservedSlot
  <2> QED
    BY <1>11, <2>3, <2>6, <2>7, <2>8
<1> QED
  BY <1>8, <1>9, <1>10, <1>12, <1>13
-----------------------------------------------------------------------------
(* An interrupt, and the start of a phase *)

LEMMA InterruptKeeps == BookInv /\ Interrupt => BookInv'
<1> SUFFICES ASSUME BookInv, Interrupt PROVE BookInv'
  OBVIOUS
<1> USE DEF BookInv
<1>1. /\ pc' = "stopping" /\ turn' = 0 /\ done' = {} /\ pc = "running"
      /\ UNCHANGED <<operation, ready, queue, pending, due, current, books, results>>
  BY DEF Interrupt
<1>2. fut' \in [Users -> {"none", "running", "ok", "failed"}] /\ Futures' \subseteq Futures
      /\ \A u \in Users : fut'[u] # "none" => fut'[u] = fut[u]
  BY DEF Interrupt, TypeOK, Futures
<1>3. TypeOK'
  BY <1>1, <1>2, ReplayAssumption DEF TypeOK, books, results
<1>4. SourceInv'
  BY <1>1, <1>2 DEF SourceInv
<1>5. PlaceInv'
  <2>1. Len(pending) >= 0
    BY DEF TypeOK
  <2> QED
    BY <1>1, <1>2, <2>1 DEF PlaceInv, ReadyUsers
<1>6. CountInv'
  <2>1. Cardinality(Futures') <= MaxWorkers
    <3>1. IsFiniteSet(Futures) /\ Cardinality(Futures) \in Nat /\ Cardinality(Futures') \in Nat
      BY <1>2, SubsetsAreFinite DEF Futures
    <3>2. Cardinality(Futures') <= Cardinality(Futures)
      BY <1>2, <3>1, FS_Subset
    <3> QED
      BY <3>1, <3>2, ReplayAssumption DEF CountInv, BoundedInflight
  <2>2. ASSUME NEW i \in Instances PROVE Cardinality(FuturesAt(i)') <= inflight'[i]
    <3>1. FuturesAt(i)' \subseteq FuturesAt(i)
      BY <1>2 DEF FuturesAt
    <3>2. /\ IsFiniteSet(FuturesAt(i)) /\ Cardinality(FuturesAt(i)) \in Nat
          /\ Cardinality(FuturesAt(i)') \in Nat
      BY <3>1, SubsetsAreFinite DEF FuturesAt, Futures
    <3>3. Cardinality(FuturesAt(i)') <= Cardinality(FuturesAt(i))
      BY <3>1, <3>2, FS_Subset
    <3>4. inflight'[i] = inflight[i] /\ inflight[i] \in Nat /\ Cardinality(FuturesAt(i)) <= inflight[i]
      BY <1>1 DEF books, CountInv, TypeOK
    <3> QED
      BY <3>2, <3>3, <3>4
  <2> QED
    BY <1>1, <2>1, <2>2 DEF CountInv, BoundedInflight
<1>7. ShareInv'
  BY <1>1 DEF ShareInv, ReservedSlot
<1> QED
  BY <1>3, <1>4, <1>5, <1>6, <1>7

\* The next phase is another one, for instances that took part in this one.
LEMMA NextPhaseStarts ==
    ASSUME TypeOK, NextPhase
    PROVE  /\ PhaseOver /\ operation # "search"
           /\ \E o \in {"drain", "search"}, R \in SUBSET ready :
                 /\ StartPhase(o, R) /\ o = After(operation)
                 /\ o = "drain" => operation = "add" /\ Drains /\ R = ready
                 /\ o = "search" => (operation = "add" /\ ~Drains) \/ operation = "drain"
<1>1. After(operation) \in {"drain", "search"} /\ ready \in SUBSET ready
      /\ (After(operation) = "drain" <=> operation = "add" /\ Drains)
  BY DEF After
<1>2. PhaseOver /\ operation \in {"add", "drain"}
  BY DEF NextPhase, TypeOK, Operations
<1>3. \E R \in SUBSET ready : StartPhase(After(operation), R) /\ (After(operation) = "drain" => R = ready)
  BY <1>1 DEF NextPhase
<1> QED
  BY <1>1, <1>2, <1>3

LEMMA NextPhaseKeeps == BookInv /\ NextPhase => BookInv'
<1> SUFFICES ASSUME BookInv, NextPhase PROVE BookInv'
  OBVIOUS
<1> USE DEF BookInv
<1>1. PICK o \in {"drain", "search"}, R \in SUBSET ready : StartPhase(o, R)
  BY NextPhaseStarts
<1>2. pc = "running" /\ done = {} /\ Futures = {}
  BY NextPhaseStarts DEF PhaseOver
<1>3. /\ operation' = o /\ ready' = R /\ queue' = [u \in Users |-> Requests(u, o)]
      /\ pending' = Ordered(R) /\ turn' = Len(pending') /\ due' = Users
      /\ remaining' = InitialRemaining(R) /\ inflight' = [i \in Instances |-> 0]
      /\ UNCHANGED <<pc, done, fut, current, sessions, unflushed, events, invoked, bad>>
  BY <1>1 DEF StartPhase, results
<1>4. R \subseteq Instances /\ o \in Operations
  BY DEF TypeOK, Operations
<1>5. Futures' = {} /\ Finished' = Finished
  BY <1>2, <1>3 DEF Futures, Finished
<1>6. TypeOK'
  <2>1. /\ pending' \in Seq(Users) /\ turn' \in 0..NumUsers /\ remaining' \in [Instances -> Nat]
        /\ inflight' \in [Instances -> Nat]
    BY <1>3, <1>4, OrderedUsers, FreshBooks
  <2>2. queue' \in [Users -> Seq(Nat)]
    BY <1>3, <1>4, RequestTypes
  <2> QED
    BY <1>3, <1>4, <2>1, <2>2 DEF TypeOK
<1>7. SourceInv'
  BY <1>3 DEF SourceInv
<1>8. PlaceInv'
  <2>1. Distinct(pending') /\ ToSet(pending') = ReadyUsers(R) /\ turn' <= Len(pending')
    <3>1. Distinct(Ordered(R)) /\ ToSet(Ordered(R)) = ReadyUsers(R) /\ Len(Ordered(R)) \in 0..NumUsers
      BY <1>4, OrderedUsers, FreshBooks
    <3> QED
      BY <1>3, <3>1
  <2> QED
    BY <1>2, <1>3, <1>5, <2>1 DEF PlaceInv, ReadyUsers
<1>9. CountInv' /\ ShareInv'
  <2>1. \A i \in Instances : FuturesAt(i)' = {} /\ inflight'[i] = 0
    BY <1>3, <1>4, <1>5 DEF FuturesAt
  <2>2. \A i \in Instances : LiveAt(i)' = {u \in At(i) : u \in ToSet(Ordered(R))}
    BY <1>3, <1>4, <1>5 DEF LiveAt, At
  <2>3. \A i \in Instances : remaining'[i] = Cardinality(LiveAt(i)')
    BY <1>3, <1>4, <1>5, <2>2, FreshBooks
  <2>4. CountInv'
    BY <1>3, <1>4, <1>5, <2>1, <2>3, NoFutures DEF CountInv, BoundedInflight, FuturesAt, LiveAt
  <2>5. {i \in Instances : Idle(i)}' = Active' /\ Active' \subseteq Instances
    BY <2>1 DEF Idle, Active
  <2>6. Cardinality(Active') \in Nat
    BY <2>5, NoFutures
  <2>7. ShareInv'
    <3>1. ReservedSlot'
      <4>1. Cardinality(Futures') = 0 /\ MaxWorkers \in Nat
        BY <1>3, <1>4, <1>5, NoFutures
      <4> QED
        BY <2>5, <2>6, <4>1 DEF ReservedSlot
    <3>2. \A i \in Instances : inflight'[i] <= 1
      BY <2>1
    <3> QED
      BY <3>1, <3>2 DEF ShareInv
  <2> QED
    BY <2>4, <2>7
<1> QED
  BY <1>6, <1>7, <1>8, <1>9

LEMMA InitBooks == Init => BookInv
<1> SUFFICES ASSUME Init PROVE BookInv
  OBVIOUS
<1>1. /\ ready \in SUBSET Instances /\ Futures = {} /\ Finished = {}
      /\ pending = Ordered(ready) /\ turn = Len(pending)
      /\ inflight = [i \in Instances |-> 0] /\ remaining = InitialRemaining(ready)
      /\ queue = Adds /\ fut = [u \in Users |-> "none"]
  BY DEF Init, Futures, Finished
<1>2. /\ Distinct(pending) /\ ToSet(pending) = ReadyUsers(ready) /\ pending \in Seq(Users)
      /\ turn \in 0..NumUsers /\ turn <= Len(pending) /\ remaining \in [Instances -> Nat]
  BY <1>1, OrderedUsers, FreshBooks
<1>3. TypeOK
  <2>1. queue \in [Users -> Seq(Nat)]
    BY <1>1, ReplayAssumption
  <2>2. sessions \in [Users -> Seq(Sessions)]
    BY DEF Init
  <2>3. /\ events \in [Users -> [Operations -> Nat]] /\ invoked \in [Users -> [Operations -> Nat]]
        /\ unflushed \in [Users -> SUBSET Sessions] /\ bad \in [Users -> SUBSET Operations]
        /\ current \in [Users -> Nat] /\ inflight \in [Instances -> Nat]
    BY <1>1 DEF Init
  <2> QED
    BY <1>1, <1>2, <2>1, <2>2, <2>3 DEF Init, TypeOK, Operations
<1>4. SourceInv
  BY <1>1, AddsAreSessions DEF SourceInv
<1>5. PlaceInv
  BY <1>1, <1>2 DEF PlaceInv, Init
<1>6. CountInv /\ ShareInv
  <2>1. \A i \in Instances : FuturesAt(i) = {} /\ inflight[i] = 0
    BY <1>1 DEF FuturesAt
  <2>2. \A i \in Instances : LiveAt(i) = {u \in At(i) : u \in ToSet(Ordered(ready))}
    BY <1>1 DEF LiveAt, At
  <2>3. \A i \in Instances : remaining[i] = Cardinality(LiveAt(i))
    BY <1>1, <2>2, FreshBooks
  <2>4. CountInv
    BY <1>1, <2>1, <2>3, NoFutures DEF CountInv, BoundedInflight, FuturesAt, LiveAt
  <2>5. {i \in Instances : Idle(i)} = Active /\ Active \subseteq Instances
    BY <2>1 DEF Idle, Active
  <2>6. Cardinality(Active) \in Nat
    BY <2>5, NoFutures
  <2>7. ShareInv
    <3>1. ReservedSlot
      <4>1. Cardinality(Futures) = 0 /\ MaxWorkers \in Nat
        BY <1>1, NoFutures
      <4> QED
        BY <2>5, <2>6, <4>1 DEF ReservedSlot
    <3>2. \A i \in Instances : inflight[i] <= 1
      BY <2>1
    <3> QED
      BY <3>1, <3>2 DEF ShareInv
  <2> QED
    BY <2>4, <2>7
<1> QED
  BY <1>3, <1>4, <1>5, <1>6 DEF BookInv

-----------------------------------------------------------------------------
\* The inductive invariant of the loop's books holds in every reachable state.
THEOREM BookInvariance == Spec => []BookInv
<1>1. BookInv /\ [Next]_vars => BookInv'
  BY IdlingKeeps, PutBackKeeps, WorkerKeeps, RetireKeeps, LaunchKeeps, CollectKeeps,
     InterruptKeeps, NextPhaseKeeps
     DEF Next, Coordinator, Worker, Terminated, Idling
<1> QED
  BY InitBooks, <1>1, PTL DEF Spec
\* For any users, instances, limits and rates: the pool and the slots of each instance
\* are never oversubscribed, the books are exact, and while workers suffice every
\* instance with work left has one or a free one reserved (Replay.phase, 227-261).
THEOREM SlotsAreShared == Spec => []SlotsInv
<1>1. BookInv => SlotsInv
  BY DEF BookInv, CountInv, ShareInv, SlotsInv
<1> QED
  BY BookInvariance, <1>1, PTL

-----------------------------------------------------------------------------
(* What becomes of the requests *)

Out(u) == IF fut[u] = "none" THEN 0 ELSE 1

Live == pc \in {"running", "completed"}

\* Every request of the phase waits, has a future or is an event; the phases before
\* are through and those after have not begun.
RequestInv ==
    Live => \A u \in ReadyUsers(ready) :
        /\ events[u][operation] + Out(u) + Len(queue[u]) = Len(Requests(u, operation))
        /\ operation # "add" => events[u]["add"] = Len(Adds[u])
        /\ operation = "search" /\ Drains => events[u]["drain"] = Len(sessions[u])
        /\ operation = "add" => events[u]["drain"] = 0
        /\ operation # "search" => events[u]["search"] = 0

\* A user leaves the deque for a worker, or for good when it has asked everything.
WaitingInv ==
    Live => \A u \in ReadyUsers(ready) : u \in ToSet(pending) \cup Futures \/ queue[u] = <<>>

EndInv ==
    /\ pc = "completed" => operation = "search" /\ pending = <<>>
    /\ pc \in {"completed", "interrupted"} => Futures = {}

\* The calls that ended are the events and the futures not yet collected.
BalanceInv ==
    \A u \in Users, o \in Operations :
        invoked[u][o] = events[u][o] + (IF u \in Finished /\ o = operation THEN 1 ELSE 0)

\* Every session written to is known; while draining it is in the queue or with the
\* worker, or a drain of its user has failed.
DrainFailed(u) == "drain" \in bad[u] \/ fut[u] = "failed"

FlushInv ==
    \A u \in ReadyUsers(ready) :
        /\ operation = "add" => unflushed[u] \subseteq ToSet(sessions[u])
        /\ operation = "drain" /\ pc = "running" =>
              \/ DrainFailed(u)
              \/ \A x \in unflushed[u] : x \in ToSet(queue[u]) \/ (fut[u] = "running" /\ x = current[u])
        /\ operation = "search" /\ Drains => unflushed[u] = {} \/ "drain" \in bad[u]

WorkInv == RequestInv /\ WaitingInv /\ EndInv /\ BalanceInv /\ FlushInv

LEMMA InitWork == Init => WorkInv
<1> SUFFICES ASSUME Init PROVE WorkInv
  OBVIOUS
<1>1. ToSet(pending) = ReadyUsers(ready) /\ ReadyUsers(ready) \subseteq Users
  BY OrderedUsers DEF Init, ReadyUsers
<1>2. RequestInv
  <2> SUFFICES ASSUME NEW u \in ReadyUsers(ready)
               PROVE  /\ events[u]["add"] + Out(u) + Len(queue[u]) = Len(Adds[u])
                      /\ events[u]["drain"] = 0 /\ events[u]["search"] = 0
    BY DEF RequestInv, Requests, Init
  <2>1. Len(Adds[u]) \in Nat /\ u \in Users
    BY <1>1, ReplayAssumption
  <2> QED
    BY <2>1 DEF Init, Out, Operations
<1>3. WaitingInv /\ EndInv
  BY <1>1 DEF WaitingInv, EndInv, Init
<1>4. BalanceInv
  BY DEF BalanceInv, Init, Finished
<1>5. FlushInv
  BY <1>1 DEF FlushInv, Init
<1> QED
  BY <1>2, <1>3, <1>4, <1>5 DEF WorkInv

\* Steps that no request takes part in.
LEMMA LoopWork ==
    ASSUME BookInv, WorkInv, Idling \/ PutBack \/ Retire \/ \E u \in Users : ComesDue(u)
    PROVE  WorkInv'
<1> USE DEF WorkInv
<1>1. /\ UNCHANGED <<operation, ready, queue, fut, current, sessions, unflushed, events, invoked, bad>>
      /\ pc' = "running" => pc = "running"
      /\ Live' => Live
  BY DEF Idling, Report, Wait, Sleep, ReportInterrupted, PutBack, Retire, ComesDue, vars, loop, books,
         results, Visiting, Live, PhaseOver
<1>2. UNCHANGED <<Futures, Finished>> /\ ReadyUsers(ready)' = ReadyUsers(ready)
  BY <1>1 DEF Futures, Finished, ReadyUsers
<1>3. RequestInv'
  BY <1>1, <1>2 DEF RequestInv, Out, Requests
<1>4. BalanceInv' /\ FlushInv'
  BY <1>1, <1>2 DEF BalanceInv, FlushInv, DrainFailed
<1>5. WaitingInv'
  <2>1. CASE Idling \/ \E u \in Users : ComesDue(u)
    <3>1. pending' = pending
      BY <2>1 DEF Idling, Report, Wait, Sleep, ReportInterrupted, ComesDue, vars, loop
    <3> QED
      BY <1>1, <1>2, <3>1 DEF WaitingInv
  <2>2. CASE PutBack
    <3>1. ToSet(pending') = ToSet(pending)
      BY <2>2, PutBackTurns
    <3> QED
      BY <1>1, <1>2, <3>1 DEF WaitingInv
  <2>3. CASE Retire
    <3>1. /\ pending' = Tail(pending) /\ ToSet(pending) = ToSet(Tail(pending)) \cup {Head(pending)}
          /\ queue[Head(pending)] = <<>>
      BY <2>3, HeadWaits DEF Retire
    <3> QED
      BY <1>1, <1>2, <3>1 DEF WaitingInv
  <2> QED
    BY <2>1, <2>2, <2>3
<1>6. EndInv'
  <2>1. CASE Report
    BY <1>1, <1>2, <2>1 DEF EndInv, Report, PhaseOver, loop
  <2>2. CASE ReportInterrupted
    BY <1>1, <1>2, <2>2 DEF EndInv, ReportInterrupted
  <2>3. CASE Wait \/ Sleep \/ PutBack \/ Retire \/ \E u \in Users : ComesDue(u)
    BY <1>1, <1>2, <2>3 DEF EndInv, Wait, Sleep, PutBack, Retire, Visiting, ComesDue
  <2>4. CASE UNCHANGED vars
    BY <1>2, <2>4 DEF EndInv, vars
  <2> QED
    BY <2>1, <2>2, <2>3, <2>4 DEF Idling
<1> QED
  BY <1>3, <1>4, <1>5, <1>6

LEMMA LaunchWork == BookInv /\ WorkInv /\ Launch => WorkInv'
<1> SUFFICES ASSUME BookInv, WorkInv, Launch PROVE WorkInv'
  OBVIOUS
<1> USE DEF WorkInv
<1> DEFINE u == Head(pending)
<1>1. /\ u \in Users /\ u \notin Futures /\ pending' = Tail(pending)
      /\ ToSet(pending) = ToSet(pending') \cup {u}
  BY HeadWaits DEF Launch
<1>2. /\ pc = "running" /\ UNCHANGED <<pc, operation, ready, sessions, unflushed, events, invoked, bad>>
      /\ fut' = [fut EXCEPT ![u] = "running"]
      /\ current' = [current EXCEPT ![u] = Head(queue[u])]
      /\ queue' = [queue EXCEPT ![u] = Tail(queue[u])]
      /\ queue[u] # <<>>
  BY DEF Launch, Visiting, results
<1> HIDE DEF u
<1>3. Futures' = Futures \cup {u} /\ Finished' = Finished /\ fut[u] = "none"
  BY <1>1, <1>2 DEF BookInv, Futures, Finished, TypeOK
<1>4. /\ queue'[u] = Tail(queue[u]) /\ fut'[u] = "running" /\ current'[u] = Head(queue[u])
      /\ \A v \in Users \ {u} : queue'[v] = queue[v] /\ fut'[v] = fut[v] /\ current'[v] = current[v]
  BY <1>1, <1>2 DEF BookInv, TypeOK
<1>5. /\ Len(queue[u]) \in Nat /\ Len(queue'[u]) = Len(queue[u]) - 1
      /\ ToSet(queue[u]) = ToSet(queue'[u]) \cup {current'[u]}
  <2>1. queue[u] \in Seq(Nat)
    BY <1>1 DEF BookInv, TypeOK
  <2>2. /\ Len(Tail(queue[u])) = Len(queue[u]) - 1 /\ Len(queue[u]) \in Nat
        /\ ToSet(queue[u]) = ToSet(Tail(queue[u])) \cup {Head(queue[u])}
    BY <1>2, <2>1, TailSet
  <2> QED
    BY <1>4, <2>2
<1>6. ReadyUsers(ready)' = ReadyUsers(ready) /\ ReadyUsers(ready) \subseteq Users
  BY <1>2 DEF ReadyUsers
<1>7. RequestInv'
  <2>1. \A v \in ReadyUsers(ready) : Requests(v, operation)' = Requests(v, operation)
    BY <1>2 DEF Requests
  <2>2. ASSUME NEW v \in ReadyUsers(ready)
        PROVE  events[v][operation] + Out(v)' + Len(queue'[v]) = events[v][operation] + Out(v) + Len(queue[v])
    <3>1. events[v][operation] \in Nat /\ Len(queue[v]) \in Nat /\ Len(queue'[v]) \in Nat
      <4>1. queue[v] \in Seq(Nat) /\ events[v][operation] \in Nat
        BY <1>6 DEF BookInv, TypeOK
      <4>2. CASE v = u
        BY <1>2, <1>5, <4>1, <4>2, TailSet, <1>4
      <4>3. CASE v # u
        BY <1>4, <1>6, <4>1, <4>3
      <4> QED
        BY <4>2, <4>3
    <3>2. CASE v = u
      <4>1. Out(v) = 0 /\ Out(v)' = 1
        BY <1>3, <1>4, <3>2 DEF Out
      <4> QED
        BY <1>5, <3>1, <3>2, <4>1
    <3>3. CASE v # u
      BY <1>4, <1>6, <3>3 DEF Out
    <3> QED
      BY <3>2, <3>3
  <2> QED
    BY <1>2, <1>6, <2>1, <2>2 DEF RequestInv, Live
<1>8. WaitingInv'
  BY <1>1, <1>2, <1>3, <1>4, <1>6 DEF WaitingInv, Live
<1>9. EndInv' /\ BalanceInv'
  BY <1>2, <1>3 DEF EndInv, BalanceInv
<1>10. FlushInv'
  <2>1. ASSUME operation = "drain", NEW v \in ReadyUsers(ready)
        PROVE  \/ DrainFailed(v)'
               \/ \A x \in unflushed'[v] :
                     x \in ToSet(queue'[v]) \/ (fut'[v] = "running" /\ x = current'[v])
    <3>1. CASE v = u
      BY <1>2, <1>3, <1>4, <1>5, <2>1, <3>1 DEF FlushInv, DrainFailed
    <3>2. CASE v # u
      BY <1>2, <1>4, <1>6, <2>1, <3>2 DEF FlushInv, DrainFailed
    <3> QED
      BY <3>1, <3>2
  <2> QED
    BY <1>2, <1>6, <2>1 DEF FlushInv
<1> QED
  BY <1>7, <1>8, <1>9, <1>10
LEMMA CollectWork ==
    ASSUME BookInv, WorkInv, NEW u \in Users, Collect(u) \/ CollectLate(u)
    PROVE  WorkInv'
<1> USE DEF WorkInv
<1>1. /\ u \in Finished /\ pending' = Append(pending, u) /\ pc \in {"running", "stopping"}
      /\ UNCHANGED <<pc, operation, ready, queue, sessions, unflushed, invoked>>
      /\ fut' = [fut EXCEPT ![u] = "none"] /\ events' = Counted(events, u)
      /\ bad' = [bad EXCEPT ![u] = IF fut[u] = "failed" THEN bad[u] \cup {operation} ELSE bad[u]]
  BY DEF Collect, CollectLate, BookInv, PlaceInv, Record
<1>2. /\ fut[u] \in {"ok", "failed"} /\ fut'[u] = "none"
      /\ \A v \in Users \ {u} : fut'[v] = fut[v] /\ bad'[v] = bad[v]
      /\ bad[u] \subseteq bad'[u] /\ (fut[u] = "failed" => operation \in bad'[u])
  BY <1>1 DEF BookInv, TypeOK, Finished
<1>3. Futures' = Futures \ {u} /\ Finished' = Finished \ {u}
  BY <1>1 DEF BookInv, Futures, Finished, TypeOK
<1>4. ToSet(pending') = ToSet(pending) \cup {u}
  <2>1. pending \in Seq(Users)
    BY DEF BookInv, TypeOK
  <2> QED
    BY <1>1, <2>1, AppendSet
<1>5. \A v \in Users, o \in Operations :
         /\ events[v][o] \in Nat
         /\ events'[v][o] = IF v = u /\ o = operation THEN events[v][o] + 1 ELSE events[v][o]
  <2>1. events \in [Users -> [Operations -> Nat]] /\ operation \in Operations
    BY DEF BookInv, TypeOK
  <2>2. \A v \in Users, o \in Operations : Counted(events, u)[v][o] =
           IF v = u /\ o = operation THEN events[v][o] + 1 ELSE events[v][o]
    BY <2>1, CountedType
  <2> QED
    BY <1>1, <2>1, <2>2
<1>6. ReadyUsers(ready)' = ReadyUsers(ready) /\ ReadyUsers(ready) \subseteq Users
  BY <1>1 DEF ReadyUsers
<1>7. RequestInv'
  <2> SUFFICES ASSUME Live, NEW v \in ReadyUsers(ready)
               PROVE  /\ events'[v][operation] + Out(v)' + Len(queue[v]) = Len(Requests(v, operation))
                      /\ operation # "add" => events'[v]["add"] = Len(Adds[v])
                      /\ operation = "search" /\ Drains => events'[v]["drain"] = Len(sessions[v])
                      /\ operation = "add" => events'[v]["drain"] = 0
                      /\ operation # "search" => events'[v]["search"] = 0
    BY <1>1, <1>6 DEF RequestInv, Live, Requests
  <2>1. /\ events[v][operation] + Out(v) + Len(queue[v]) = Len(Requests(v, operation))
        /\ operation # "add" => events[v]["add"] = Len(Adds[v])
        /\ operation = "search" /\ Drains => events[v]["drain"] = Len(sessions[v])
        /\ operation = "add" => events[v]["drain"] = 0
        /\ operation # "search" => events[v]["search"] = 0
    BY DEF RequestInv
  <2>2. operation \in Operations /\ queue[v] \in Seq(Nat) /\ v \in Users
    BY <1>6 DEF BookInv, TypeOK
  <2>3. events'[v][operation] + Out(v)' = events[v][operation] + Out(v)
    BY <1>2, <1>5, <2>2 DEF Out
  <2>4. \A o \in Operations : o # operation => events'[v][o] = events[v][o]
    BY <1>5, <2>2
  <2> QED
    BY <2>1, <2>2, <2>3, <2>4 DEF Operations
<1>8. WaitingInv'
  BY <1>1, <1>3, <1>4, <1>6 DEF WaitingInv, Live
<1>9. EndInv'
  BY <1>1 DEF EndInv
<1>10. BalanceInv'
  <2> SUFFICES ASSUME NEW v \in Users, NEW o \in Operations
               PROVE  invoked[v][o] = events'[v][o] + (IF v \in Finished' /\ o = operation THEN 1 ELSE 0)
    BY <1>1 DEF BalanceInv
  <2>1. invoked[v][o] = events[v][o] + (IF v \in Finished /\ o = operation THEN 1 ELSE 0)
    BY DEF BalanceInv
  <2> QED
    BY <1>1, <1>3, <1>5, <2>1
<1>11. FlushInv'
  <2>1. ASSUME operation = "drain", pc = "running", NEW v \in ReadyUsers(ready)
        PROVE  DrainFailed(v)' \/ \A x \in unflushed[v] : x \in ToSet(queue[v]) \/ (fut'[v] = "running" /\ x = current'[v])
    <3>1. CASE v = u
      BY <1>2, <2>1, <3>1 DEF FlushInv, DrainFailed
    <3>2. CASE v # u
      <4>1. current'[v] = current[v]
        BY <1>6, <2>1, <3>2 DEF Collect, CollectLate, Record, BookInv, TypeOK
      <4> QED
        BY <1>2, <1>6, <2>1, <3>2, <4>1 DEF FlushInv, DrainFailed
    <3> QED
      BY <3>1, <3>2
  <2>2. \A v \in Users : bad[v] \subseteq bad'[v]
    BY <1>2
  <2> QED
    BY <1>1, <1>6, <2>1, <2>2 DEF FlushInv
<1> QED
  BY <1>7, <1>8, <1>9, <1>10, <1>11

LEMMA WorkerWork ==
    ASSUME BookInv, WorkInv, NEW u \in Users, Succeed(u) \/ Fail(u)
    PROVE  WorkInv'
<1> USE DEF WorkInv
<1>1. /\ UNCHANGED <<pc, operation, ready, queue, pending, current, events, bad>>
      /\ fut[u] = "running" /\ invoked' = Counted(invoked, u)
      /\ \/ /\ Succeed(u)
            /\ fut' = [fut EXCEPT ![u] = "ok"]
         \/ /\ fut' = [fut EXCEPT ![u] = "failed"]
            /\ UNCHANGED <<sessions, unflushed>>
  BY DEF Succeed, Fail, loop
<1>2. /\ fut'[u] \in {"ok", "failed"}
      /\ \A v \in Users \ {u} : fut'[v] = fut[v] /\ sessions'[v] = sessions[v] /\ unflushed'[v] = unflushed[v]
      /\ operation # "add" => sessions' = sessions
  BY <1>1 DEF BookInv, TypeOK, Succeed
<1>3. Futures' = Futures /\ Finished' = Finished \cup {u} /\ u \notin Finished
  BY <1>1 DEF BookInv, Futures, Finished, TypeOK
<1>4. \A v \in Users, o \in Operations :
         /\ invoked[v][o] \in Nat /\ events[v][o] \in Nat
         /\ invoked'[v][o] = IF v = u /\ o = operation THEN invoked[v][o] + 1 ELSE invoked[v][o]
  <2>1. /\ invoked \in [Users -> [Operations -> Nat]] /\ operation \in Operations
        /\ events \in [Users -> [Operations -> Nat]]
    BY DEF BookInv, TypeOK
  <2> QED
    BY <1>1, <2>1, CountedType
<1>5. ReadyUsers(ready)' = ReadyUsers(ready) /\ ReadyUsers(ready) \subseteq Users
  BY <1>1 DEF ReadyUsers
<1>6. RequestInv'
  <2>1. \A v \in Users : Out(v)' = Out(v)
    BY <1>1, <1>2 DEF Out
  <2>2. \A v \in Users : Requests(v, operation)' = Requests(v, operation)
    BY <1>1, <1>2 DEF Requests
  <2> QED
    BY <1>1, <1>2, <1>5, <2>1, <2>2 DEF RequestInv, Live
<1>7. WaitingInv' /\ EndInv'
  BY <1>1, <1>3, <1>5 DEF WaitingInv, EndInv, Live
<1>8. BalanceInv'
  <2> SUFFICES ASSUME NEW v \in Users, NEW o \in Operations
               PROVE  invoked'[v][o] = events[v][o] + (IF v \in Finished' /\ o = operation THEN 1 ELSE 0)
    BY <1>1 DEF BalanceInv
  <2>1. invoked[v][o] = events[v][o] + (IF v \in Finished /\ o = operation THEN 1 ELSE 0)
    BY DEF BalanceInv
  <2> QED
    BY <1>3, <1>4, <2>1
<1>9. FlushInv'
  <2>1. CASE Succeed(u) /\ operation = "add"
    <3>1. /\ sessions[u] \in Seq(Sessions) /\ current[u] \in Sessions
          /\ sessions'[u] = Remember(u) /\ unflushed'[u] = unflushed[u] \cup {current[u]}
      BY <1>1, <2>1 DEF Succeed, BookInv, SourceInv, TypeOK
    <3>2. ToSet(Remember(u)) = ToSet(sessions[u]) \cup {current[u]}
      BY <3>1, AppendSet DEF Remember
    <3> QED
      BY <1>1, <1>2, <1>5, <2>1, <3>1, <3>2 DEF FlushInv
  <2>2. CASE Succeed(u) /\ operation = "drain"
    <3>1. unflushed'[u] = unflushed[u] \ {current[u]}
      BY <2>2 DEF Succeed, BookInv, TypeOK
    <3> QED
      BY <1>1, <1>2, <1>5, <2>2, <3>1 DEF FlushInv, DrainFailed
  <2>3. CASE Succeed(u) /\ operation = "search"
    <3>1. unflushed'[u] = unflushed[u]
      BY <2>3 DEF Succeed, BookInv, TypeOK
    <3> QED
      BY <1>1, <1>2, <1>5, <2>3, <3>1 DEF FlushInv
  <2>4. CASE Fail(u)
    <3>1. fut'[u] = "failed" /\ UNCHANGED <<sessions, unflushed>>
      BY <2>4 DEF Fail, BookInv, TypeOK
    <3> QED
      BY <1>1, <1>2, <1>5, <2>4, <3>1 DEF FlushInv, DrainFailed
  <2> QED
    BY <2>1, <2>2, <2>3, <2>4 DEF BookInv, TypeOK, Operations
<1> QED
  BY <1>6, <1>7, <1>8, <1>9

LEMMA InterruptWork == BookInv /\ WorkInv /\ Interrupt => WorkInv'
<1> SUFFICES ASSUME BookInv, WorkInv, Interrupt PROVE WorkInv'
  OBVIOUS
<1>1. /\ pc' = "stopping"
      /\ UNCHANGED <<operation, ready, sessions, unflushed, events, invoked, bad>>
  BY DEF Interrupt, results
<1>2. Finished' = Finished
  BY DEF Interrupt, Finished
<1> QED
  BY <1>1, <1>2
     DEF WorkInv, RequestInv, WaitingInv, EndInv, BalanceInv, FlushInv, Live, ReadyUsers

LEMMA NextPhaseWork == BookInv /\ WorkInv /\ NextPhase => WorkInv'
<1> SUFFICES ASSUME BookInv, WorkInv, NextPhase PROVE WorkInv'
  OBVIOUS
<1> USE DEF WorkInv
<1>1. PICK o \in {"drain", "search"}, R \in SUBSET ready :
         /\ StartPhase(o, R)
         /\ o = "drain" => operation = "add" /\ Drains /\ R = ready
         /\ o = "search" => (operation = "add" /\ ~Drains) \/ operation = "drain"
  BY NextPhaseStarts DEF BookInv
<1>2. pc = "running" /\ pending = <<>> /\ Futures = {}
  BY NextPhaseStarts DEF PhaseOver, BookInv
<1>3. /\ operation' = o /\ ready' = R /\ queue' = [u \in Users |-> Requests(u, o)]
      /\ pending' = Ordered(R)
      /\ UNCHANGED <<pc, fut, sessions, unflushed, events, invoked, bad>>
  BY <1>1 DEF StartPhase, results
<1>4. Finished' = {} /\ Finished = {} /\ Futures' = {} /\ \A u \in Users : fut[u] = "none" /\ Out(u) = 0
  BY <1>2, <1>3 DEF Futures, Finished, Out
<1>5. ReadyUsers(ready)' = ReadyUsers(R) /\ ReadyUsers(R) \subseteq ReadyUsers(ready)
      /\ ReadyUsers(ready) \subseteq Users /\ R \subseteq Instances
  BY <1>3 DEF ReadyUsers, BookInv, TypeOK
<1>6. ASSUME NEW u \in ReadyUsers(ready)
      PROVE  queue[u] = <<>> /\ events[u][operation] = Len(Requests(u, operation))
  <2>1. queue[u] = <<>>
    BY <1>2 DEF WaitingInv, Live, ToSet
  <2>2. events[u][operation] \in Nat
    BY <1>5 DEF BookInv, TypeOK
  <2> QED
    BY <1>2, <1>4, <1>5, <2>1, <2>2 DEF RequestInv, Live
<1>7. RequestInv'
  <2> SUFFICES ASSUME NEW u \in ReadyUsers(R)
               PROVE  /\ events[u][o] + Out(u)' + Len(queue'[u]) = Len(Requests(u, o)')
                      /\ events[u]["add"] = Len(Adds[u])
                      /\ o = "search" /\ Drains => events[u]["drain"] = Len(sessions[u])
                      /\ o # "search" => events[u]["search"] = 0
    BY <1>3, <1>5 DEF RequestInv
  <2>1. u \in ReadyUsers(ready) /\ u \in Users
    BY <1>5
  <2>2. /\ operation # "add" => events[u]["add"] = Len(Adds[u])
        /\ operation = "add" => events[u]["drain"] = 0
        /\ operation # "search" => events[u]["search"] = 0
    BY <1>2, <2>1 DEF RequestInv, Live
  <2>3. events[u][operation] = Len(Requests(u, operation))
    BY <1>6, <2>1
  <2>4. events[u][o] = 0
    BY <1>1, <2>2
  <2>5. Out(u)' = 0 /\ queue'[u] = Requests(u, o) /\ Requests(u, o)' = Requests(u, o)
    BY <1>3, <1>4, <2>1 DEF Out, Requests
  <2>6. Len(Requests(u, o)) \in Nat
    <3>1. o \in Operations
      BY DEF Operations
    <3>2. [v \in Users |-> Requests(v, o)] \in [Users -> Seq(Nat)]
      BY <3>1, RequestTypes DEF BookInv
    <3>3. Requests(u, o) \in Seq(Nat)
      BY <2>1, <3>2
    <3> QED
      BY <3>3
  <2>7. events[u]["add"] = Len(Adds[u])
    BY <1>1, <2>2, <2>3 DEF Requests
  <2>8. o = "search" /\ Drains => events[u]["drain"] = Len(sessions[u])
    BY <1>1, <2>3 DEF Requests
  <2>9. o # "search" => events[u]["search"] = 0
    BY <1>1, <2>2
  <2> QED
    BY <2>4, <2>5, <2>6, <2>7, <2>8, <2>9
<1>8. WaitingInv'
  BY <1>3, <1>5, OrderedUsers DEF WaitingInv
<1>9. EndInv' /\ BalanceInv'
  <2>1. \A u \in Users, p \in Operations : invoked[u][p] = events[u][p] + 0
    BY <1>4 DEF BalanceInv
  <2> QED
    BY <1>2, <1>3, <1>4, <2>1 DEF EndInv, BalanceInv
<1>10. FlushInv'
  <2> SUFFICES ASSUME NEW u \in ReadyUsers(R)
               PROVE  /\ o = "drain" => \A x \in unflushed[u] : x \in ToSet(queue'[u])
                      /\ o = "search" /\ Drains => unflushed[u] = {} \/ "drain" \in bad[u]
    BY <1>3, <1>5 DEF FlushInv
  <2>1. u \in ReadyUsers(ready) /\ u \in Users /\ fut[u] = "none"
    BY <1>4, <1>5
  <2>2. o = "drain" => \A x \in unflushed[u] : x \in ToSet(queue'[u])
    BY <1>1, <1>3, <2>1 DEF FlushInv, Requests
  <2>3. ASSUME o = "search", Drains PROVE unflushed[u] = {} \/ "drain" \in bad[u]
    <3>1. operation = "drain" /\ queue[u] = <<>>
      BY <1>1, <1>6, <2>1, <2>3
    <3>2. ToSet(queue[u]) = {}
      BY <3>1 DEF ToSet
    <3> QED
      BY <1>2, <2>1, <3>1, <3>2 DEF FlushInv, DrainFailed
  <2> QED
    BY <2>2, <2>3
<1> QED
  BY <1>7, <1>8, <1>9, <1>10

-----------------------------------------------------------------------------
\* What becomes of the requests is invariant as well.
THEOREM WorkInvariance == Spec => []WorkInv
<1>1. BookInv /\ WorkInv /\ [Next]_vars => WorkInv'
  BY LoopWork, LaunchWork, CollectWork, WorkerWork, InterruptWork, NextPhaseWork
     DEF Next, Coordinator, Worker, Terminated, Idling
<1> QED
  BY InitWork, BookInvariance, <1>1, PTL DEF Spec

\* A search never races with a write of its user that was accepted and not drained,
\* unless a drain is reported as failed, for any users and any failures
\* (run_multi_user, 401-407).
THEOREM DrainedBeforeSearch == Spec => []NothingUnflushed
<1>1. WorkInv => NothingUnflushed
  BY DEF WorkInv, FlushInv, NothingUnflushed, ReadyUsers
<1> QED
  BY WorkInvariance, <1>1, PTL

\* The report counts every request made, however the run ended, and a user it calls
\* completed has had every request answered and every session drained
\* (Replay.phase, 285-288; Replay.report, 293-310).
THEOREM ReportCountsEverything == Spec => []ReportIsHonest
<1>1. BookInv /\ WorkInv => ReportIsHonest
  <2> SUFFICES ASSUME BookInv, WorkInv, pc \in {"completed", "interrupted"}, NEW u \in Users
               PROVE  /\ events[u] = invoked[u]
                      /\ UserStatus(u) = "completed" =>
                            /\ events[u]["add"] = Len(Adds[u])
                            /\ events[u]["search"] = Searches[u]
                            /\ Drains => unflushed[u] = {} /\ events[u]["drain"] = Len(sessions[u])
    BY DEF ReportIsHonest
  <2>1. Futures = {} /\ Finished = {} /\ Out(u) = 0
    <3>1. Futures = {}
      BY DEF WorkInv, EndInv
    <3> QED
      BY <3>1 DEF Futures, Finished, Out
  <2>2. events[u] \in [Operations -> Nat] /\ invoked[u] \in [Operations -> Nat]
    BY DEF BookInv, TypeOK
  <2>3. \A o \in Operations : invoked[u][o] = events[u][o]
    BY <2>1, <2>2 DEF WorkInv, BalanceInv
  <2>4. events[u] = invoked[u]
    BY <2>2, <2>3
  <2>5. ASSUME UserStatus(u) = "completed"
        PROVE  /\ events[u]["add"] = Len(Adds[u])
               /\ events[u]["search"] = Searches[u]
               /\ Drains => unflushed[u] = {} /\ events[u]["drain"] = Len(sessions[u])
    <3>1. u \in ReadyUsers(ready) /\ pc = "completed" /\ "drain" \notin bad[u]
      BY <2>5 DEF UserStatus, ReadyUsers
    <3>2. operation = "search" /\ pending = <<>>
      BY <3>1 DEF WorkInv, EndInv
    <3>3. queue[u] = <<>>
      BY <2>1, <3>1, <3>2 DEF WorkInv, WaitingInv, Live, ToSet
    <3>4. events[u]["search"] \in Nat /\ Searches[u] \in Nat
      BY <2>2, ReplayAssumption DEF Operations
    <3>5. Len(Requests(u, "search")) = Searches[u]
      BY <3>4 DEF Requests
    <3> QED
      BY <2>1, <3>1, <3>2, <3>3, <3>4, <3>5 DEF WorkInv, RequestInv, FlushInv, Live
  <2> QED
    BY <2>4, <2>5
<1> QED
  BY BookInvariance, WorkInvariance, <1>1, PTL

-----------------------------------------------------------------------------
(***************************************************************************)
(* The instances the requests go to, for any number of instances and       *)
(* signals, with and without OpenClaw, whichever instances are managed.    *)
(*                                                                         *)
(* The argument follows the main thread.  While it sets up, the instances  *)
(* it has not come to are pending, so a ready one is behind it and was     *)
(* switched to ingest; while it switches, the ready ones behind it are in  *)
(* qa.  A changed plugin is marked as prepared and keeps its snapshot      *)
(* until stop() has come to it; an instance stop() has left is clean or    *)
(* says that it is not.  The one way to a changed plugin without either is *)
(* a signal on its way, and that ends the run without a report.            *)
(***************************************************************************)

\* The instances that set-up is not through with are pending, and get no requests.
SetupInv ==
    main = "setup" =>
        /\ at \in Instances
        /\ \A i \in Instances : served[i] = {}
        /\ \A i \in Instances : i > at \/ (i = at /\ step # "phase") => state[i] = "pending"
        /\ \A i \in Instances : i < at /\ OpenClaw /\ state[i] = "ready" => phase[i] = "ingest"
        /\ step \in {"probe", "phase"} => prepared[at]
        /\ step = "prepare" => scratch[at] = "present"

\* The plugin of a ready instance is in the phase of the requests it gets.
PhaseInv ==
    /\ main \in {"add", "drain"} =>
          at = 1 /\ \A i \in Instances : OpenClaw /\ state[i] = "ready" => phase[i] = "ingest"
    /\ main = "switch" =>
          \A i \in Instances : i < at /\ OpenClaw /\ state[i] = "ready" => phase[i] = "qa"
    /\ main = "search" =>
          \A i \in Instances : OpenClaw /\ state[i] = "ready" => phase[i] = "qa"

\* What a ready instance has been asked, phase by phase.
Writes == IF OpenClaw THEN {"add", "drain"} ELSE {"add"}

ServedInv ==
    /\ main = "drain" => \A i \in Instances : state[i] = "ready" => "add" \in served[i]
    /\ main \in {"switch", "search"} =>
          \A i \in Instances : state[i] = "ready" => Writes \subseteq served[i]
    /\ main \in {"stopping", "reported"} /\ ~interrupted =>
          \A i \in Instances : state[i] = "ready" => Writes \cup {"search"} \subseteq served[i]

\* Only an instance whose plugin was prepared is used, and only that is changed.
PreparedInv ==
    /\ \A i \in Instances :
          OpenClaw /\ state[i] \in {"ready", "phase_failed"} => prepared[i]
    /\ \A i \in Instances :
          OpenClaw /\ served[i] # {} => state[i] \in {"ready", "phase_failed"}
    /\ \A i \in Instances : plugin[i] = "changed" => prepared[i]

\* stop() has not been through the instance.
NotStopped(i) == main \in Running \/ (main = "stopping" /\ i <= at)

Tidy(i) ==
    /\ ~cleanupFailed[i] =>
          group[i] \in {"none", "gone"} /\ plugin[i] = "original" /\ scratch[i] # "present"
    /\ plugin[i] = "changed" => scratch[i] = "present"

\* The snapshot outlives the change; behind stop() the instances are tidy.
StopInv ==
    /\ \A i \in Instances : NotStopped(i) /\ prepared[i] => scratch[i] = "present"
    /\ main = "stopping" => at <= NumInstances
    /\ main = "stopping" => \A i \in Instances : i > at => Tidy(i)
    /\ main = "stopping" /\ at \in Instances =>
          /\ step # "finalize" /\ plugin[at] = "changed" => cleanupFailed[at] \/ raising
          /\ step \notin {"finalize", "kill"} => group[at] \in {"none", "gone"}
    /\ main = "reported" => \A i \in Instances : Tidy(i)

LifeInv == InstanceTypeOK /\ SetupInv /\ PhaseInv /\ ServedInv /\ PreparedInv /\ StopInv

-----------------------------------------------------------------------------
LEMMA InitLife == InstanceInit => LifeInv
<1> SUFFICES ASSUME InstanceInit PROVE LifeInv
  OBVIOUS
<1> USE InstanceAssumption DEF InstanceInit, Instances
<1>1. InstanceTypeOK
  <2>1. at \in 0..(NumInstances + 1) /\ signals \in 0..MaxSignals
    OBVIOUS
  <2>2. main \in Running /\ step = "process" /\ interrupted \in BOOLEAN /\ raising \in BOOLEAN
    BY DEF Running
  <2>3. /\ state \in [Instances -> {"pending", "ready", "setup_failed", "phase_failed"}]
        /\ group \in [Instances -> {"none", "alive", "orphans", "gone"}]
        /\ scratch \in [Instances -> {"none", "present", "removed"}]
        /\ plugin \in [Instances -> {"original", "changed"}]
        /\ phase \in [Instances -> {"none", "ingest", "qa"}]
    OBVIOUS
  <2>4. prepared \in [Instances -> BOOLEAN] /\ cleanupFailed \in [Instances -> BOOLEAN]
    OBVIOUS
  <2>5. served \in [Instances -> SUBSET {"add", "drain", "search"}]
    OBVIOUS
  <2> QED
    BY <2>1, <2>2, <2>3, <2>4, <2>5 DEF InstanceTypeOK
<1>2. SetupInv /\ PhaseInv /\ ServedInv
  BY DEF SetupInv, PhaseInv, ServedInv
<1>3. PreparedInv /\ StopInv
  BY DEF PreparedInv, StopInv, NotStopped, Tidy
<1> QED
  BY <1>1, <1>2, <1>3 DEF LifeInv

(* Set-up *)

\* What a step of set-up changes: the instance it is at.
LEMMA SetupKeeps ==
    ASSUME LifeInv,
           StartProcess \/ Health \/ MakeScratch \/ Prepare \/ Probe \/ EnterIngest
    PROVE  LifeInv'
<1> USE InstanceAssumption DEF LifeInv, InstanceTypeOK, Instances, Running, Setting, SetupFails, NextSetup
<1>1. CASE StartProcess
  <2> USE <1>1 DEF StartProcess
  <2>1. InstanceTypeOK'
    OBVIOUS
  <2>2. SetupInv'
    BY DEF SetupInv
  <2>3. PhaseInv' /\ ServedInv'
    BY DEF SetupInv, PhaseInv, ServedInv
  <2>4. PreparedInv'
    BY DEF SetupInv, PreparedInv
  <2>5. StopInv'
    BY DEF SetupInv, StopInv, NotStopped
  <2> QED
    BY <2>1, <2>2, <2>3, <2>4, <2>5
<1>2. CASE Health
  <2> USE <1>2 DEF Health
  <2>1. InstanceTypeOK'
    OBVIOUS
  <2>2. SetupInv'
    BY DEF SetupInv
  <2>3. PhaseInv' /\ ServedInv'
    BY DEF SetupInv, PhaseInv, ServedInv
  <2>4. PreparedInv'
    BY DEF SetupInv, PreparedInv
  <2>5. StopInv'
    BY DEF SetupInv, StopInv, NotStopped
  <2> QED
    BY <2>1, <2>2, <2>3, <2>4, <2>5
<1>3. CASE MakeScratch
  <2> USE <1>3 DEF MakeScratch
  <2>1. InstanceTypeOK'
    OBVIOUS
  <2>2. SetupInv'
    BY DEF SetupInv
  <2>3. PhaseInv' /\ ServedInv'
    BY DEF SetupInv, PhaseInv, ServedInv
  <2>4. PreparedInv'
    BY DEF SetupInv, PreparedInv
  <2>5. StopInv'
    BY DEF SetupInv, StopInv, NotStopped
  <2> QED
    BY <2>1, <2>2, <2>3, <2>4, <2>5
<1>4. CASE Prepare
  <2> USE <1>4 DEF Prepare
  <2>1. InstanceTypeOK'
    OBVIOUS
  <2>2. SetupInv'
    BY DEF SetupInv
  <2>3. PhaseInv' /\ ServedInv'
    BY DEF SetupInv, PhaseInv, ServedInv
  <2>4. PreparedInv'
    BY DEF SetupInv, PreparedInv
  <2>5. StopInv'
    BY DEF SetupInv, StopInv, NotStopped
  <2> QED
    BY <2>1, <2>2, <2>3, <2>4, <2>5
<1>5. CASE Probe
  <2> USE <1>5 DEF Probe
  <2>1. InstanceTypeOK'
    OBVIOUS
  <2>2. SetupInv'
    BY DEF SetupInv
  <2>3. PhaseInv' /\ ServedInv'
    BY DEF SetupInv, PhaseInv, ServedInv
  <2>4. PreparedInv'
    BY DEF SetupInv, PreparedInv
  <2>5. StopInv'
    BY DEF SetupInv, StopInv, NotStopped
  <2> QED
    BY <2>1, <2>2, <2>3, <2>4, <2>5
<1>6. CASE EnterIngest
  <2> USE <1>6 DEF EnterIngest
  <2>1. InstanceTypeOK'
    <3>1. phase' \in [Instances -> {"none", "ingest", "qa"}]
      OBVIOUS
    <3>2. state' \in [Instances -> {"pending", "ready", "setup_failed", "phase_failed"}]
      OBVIOUS
    <3>3. at' \in 0..(NumInstances + 1) /\ main' \in Running /\ step' = "process"
      OBVIOUS
    <3> QED
      BY <3>1, <3>2, <3>3
  <2>2. SetupInv'
    BY DEF SetupInv
  <2>3. PhaseInv' /\ ServedInv'
    BY DEF SetupInv, PhaseInv, ServedInv
  <2>4. PreparedInv'
    BY DEF SetupInv, PreparedInv
  <2>5. StopInv'
    BY DEF SetupInv, StopInv, NotStopped
  <2> QED
    BY <2>1, <2>2, <2>3, <2>4, <2>5
<1> QED
  BY <1>1, <1>2, <1>3, <1>4, <1>5, <1>6

(* The phases of requests *)

LEMMA PhaseKeeps ==
    ASSUME LifeInv, Phase("add") \/ Phase("drain") \/ Phase("search") \/ EnterQa \/ InterruptRun
    PROVE  LifeInv'
<1> USE InstanceAssumption DEF LifeInv, InstanceTypeOK, Instances, Running, ToStopping
<1>1. CASE Phase("add") \/ Phase("drain") \/ Phase("search")
  <2> USE <1>1 DEF Phase, Then, Ready
  <2>1. InstanceTypeOK'
    <3>1. served' \in [Instances -> SUBSET {"add", "drain", "search"}]
      OBVIOUS
    <3>2. at' \in 0..(NumInstances + 1) /\ main' \in Running \cup {"stopping"}
      OBVIOUS
    <3> QED
      BY <3>1, <3>2
  <2>2. SetupInv'
    BY DEF SetupInv
  <2>3. PhaseInv'
    BY DEF PhaseInv
  <2>4. ServedInv'
    BY DEF ServedInv, Writes
  <2>5. PreparedInv'
    BY DEF PreparedInv
  <2>6. StopInv'
    BY DEF StopInv, NotStopped, Tidy
  <2> QED
    BY <2>1, <2>2, <2>3, <2>4, <2>5, <2>6
<1>2. CASE EnterQa
  <2> USE <1>2 DEF EnterQa
  <2>1. InstanceTypeOK'
    <3>1. phase' \in [Instances -> {"none", "ingest", "qa"}]
      OBVIOUS
    <3>2. state' \in [Instances -> {"pending", "ready", "setup_failed", "phase_failed"}]
      OBVIOUS
    <3>3. at' \in 0..(NumInstances + 1) /\ main' \in Running
      OBVIOUS
    <3> QED
      BY <3>1, <3>2, <3>3
  <2>2. SetupInv'
    BY DEF SetupInv
  <2>3. PhaseInv'
    <3>1. ASSUME NEW i \in Instances, i <= at, OpenClaw, state'[i] = "ready"
          PROVE  phase'[i] = "qa"
      <4>1. state[i] = "ready"
        BY <3>1
      <4>2. CASE i = at
        BY <3>1, <4>1, <4>2
      <4>3. CASE i < at
        BY <3>1, <4>1, <4>3 DEF PhaseInv
      <4> QED
        BY <3>1, <4>2, <4>3
    <3>2. CASE at < NumInstances
      BY <3>1, <3>2 DEF PhaseInv
    <3>3. CASE ~(at < NumInstances)
      <4>1. at = NumInstances
        BY <3>3
      <4> QED
        BY <3>1, <3>3, <4>1 DEF PhaseInv
    <3> QED
      BY <3>2, <3>3
  <2>4. ServedInv'
    BY DEF ServedInv
  <2>5. PreparedInv'
    BY DEF PreparedInv
  <2>6. StopInv'
    BY DEF StopInv, NotStopped
  <2> QED
    BY <2>1, <2>2, <2>3, <2>4, <2>5, <2>6
<1>3. CASE InterruptRun
  <2> USE <1>3 DEF InterruptRun, Setting
  <2>1. InstanceTypeOK'
    <3>1. prepared' \in [Instances -> BOOLEAN]
      OBVIOUS
    <3>2. plugin' \in [Instances -> {"original", "changed"}]
      OBVIOUS
    <3>3. at' \in 0..(NumInstances + 1) /\ step' = "finalize" /\ main' = "stopping"
      OBVIOUS
    <3>4. signals' \in 0..MaxSignals
      OBVIOUS
    <3> QED
      BY <3>1, <3>2, <3>3, <3>4
  <2>2. SetupInv' /\ PhaseInv' /\ ServedInv'
    BY DEF SetupInv, PhaseInv, ServedInv
  <2>3. PreparedInv'
    <3>1. CASE UNCHANGED <<prepared, plugin>>
      BY <3>1 DEF PreparedInv
    <3>2. CASE /\ at \in Instances /\ prepared' = [prepared EXCEPT ![at] = TRUE]
               /\ \E p \in {"original", "changed"} : plugin' = [plugin EXCEPT ![at] = p]
      BY <3>2 DEF PreparedInv
    <3> QED
      BY <3>1, <3>2
  <2>4. StopInv'
    BY DEF StopInv, NotStopped, Tidy, SetupInv
  <2> QED
    BY <2>1, <2>2, <2>3, <2>4
<1> QED
  BY <1>1, <1>2, <1>3

(* Clean-up, and a process that exits *)

LEMMA StoppingKeeps ==
    ASSUME LifeInv, Finalize \/ Kill \/ RemoveScratch \/ InterruptStop \/ ReportRun
    PROVE  LifeInv'
<1> USE InstanceAssumption DEF LifeInv, InstanceTypeOK, Instances, Running, Stopping, StopRaises, LeaveStop
<1>1. CASE Finalize
  <2> USE <1>1 DEF Finalize
  <2>1. InstanceTypeOK'
    OBVIOUS
  <2>2. SetupInv' /\ PhaseInv' /\ ServedInv'
    BY DEF SetupInv, PhaseInv, ServedInv
  <2>3. PreparedInv'
    BY DEF PreparedInv
  <2>4. StopInv'
    BY DEF StopInv, NotStopped, Tidy, PreparedInv
  <2> QED
    BY <2>1, <2>2, <2>3, <2>4
<1>2. CASE Kill
  <2> USE <1>2 DEF Kill
  <2>1. InstanceTypeOK'
    <3>1. cleanupFailed' \in [Instances -> BOOLEAN]
      OBVIOUS
    <3>2. group' \in [Instances -> {"none", "alive", "orphans", "gone"}]
      OBVIOUS
    <3>3. /\ at' \in 0..(NumInstances + 1)
          /\ step' \in {"finalize", "kill", "remove"}
          /\ main' \in {"stopping", "died"}
      OBVIOUS
    <3>4. raising' \in BOOLEAN
      OBVIOUS
    <3> QED
      BY <3>1, <3>2, <3>3, <3>4
  <2>2. SetupInv' /\ PhaseInv' /\ ServedInv'
    BY DEF SetupInv, PhaseInv, ServedInv
  <2>3. PreparedInv'
    BY DEF PreparedInv
  <2>4. StopInv'
    BY DEF StopInv, NotStopped, Tidy, PreparedInv
  <2> QED
    BY <2>1, <2>2, <2>3, <2>4
<1>3. CASE RemoveScratch
  <2> USE <1>3 DEF RemoveScratch
  <2>1. InstanceTypeOK'
    <3>1. cleanupFailed' \in [Instances -> BOOLEAN]
      OBVIOUS
    <3>2. scratch' \in [Instances -> {"none", "present", "removed"}]
      OBVIOUS
    <3>3. /\ at' \in 0..(NumInstances + 1)
          /\ step' \in {"finalize", "kill", "remove"}
          /\ main' \in {"stopping", "died"}
      OBVIOUS
    <3>4. raising' \in BOOLEAN
      OBVIOUS
    <3> QED
      BY <3>1, <3>2, <3>3, <3>4
  <2>2. SetupInv' /\ PhaseInv' /\ ServedInv'
    BY DEF SetupInv, PhaseInv, ServedInv
  <2>3. PreparedInv'
    BY DEF PreparedInv
  <2>4. StopInv'
    BY DEF StopInv, NotStopped, Tidy, PreparedInv
  <2> QED
    BY <2>1, <2>2, <2>3, <2>4
<1>4. CASE InterruptStop
  <2> USE <1>4 DEF InterruptStop, world
  <2>1. InstanceTypeOK'
    <3>1. at' = at /\ step' \in {step, "kill"} /\ main' \in {"stopping", "died"}
      OBVIOUS
    <3>2. raising' \in BOOLEAN
      OBVIOUS
    <3>3. signals' \in 0..MaxSignals
      OBVIOUS
    <3> QED
      BY <3>1, <3>2, <3>3
  <2>2. SetupInv' /\ PhaseInv' /\ ServedInv' /\ PreparedInv'
    BY DEF SetupInv, PhaseInv, ServedInv, PreparedInv
  <2>3. StopInv'
    BY DEF StopInv, NotStopped, Tidy, PreparedInv
  <2> QED
    BY <2>1, <2>2, <2>3
<1>5. CASE ReportRun
  <2> USE <1>5 DEF ReportRun, world
  <2>1. InstanceTypeOK'
    OBVIOUS
  <2>2. SetupInv' /\ PhaseInv' /\ ServedInv' /\ PreparedInv'
    BY DEF SetupInv, PhaseInv, ServedInv, PreparedInv
  <2>3. StopInv'
    BY DEF StopInv, NotStopped, Tidy
  <2> QED
    BY <2>1, <2>2, <2>3
<1> QED
  BY <1>1, <1>2, <1>3, <1>4, <1>5

LEMMA ExitKeeps ==
    ASSUME LifeInv, NEW j \in Instances, Exit(j)
    PROVE  LifeInv'
  BY DEF LifeInv, InstanceTypeOK, SetupInv, PhaseInv, ServedInv, PreparedInv, StopInv, NotStopped, Tidy,
         Instances, Running, Exit

LEMMA UnchangedKeeps == LifeInv /\ UNCHANGED instanceVars => LifeInv'
  BY DEF instanceVars, LifeInv, InstanceTypeOK, SetupInv, PhaseInv, ServedInv, PreparedInv, StopInv, NotStopped,
         Tidy

-----------------------------------------------------------------------------
\* The inductive invariant of the instances holds in every reachable state.
THEOREM LifeInvariance == InstanceSpec => []LifeInv
<1>1. LifeInv /\ [InstanceNext]_instanceVars => LifeInv'
  BY SetupKeeps, PhaseKeeps, StoppingKeeps, ExitKeeps, UnchangedKeeps DEF InstanceNext, Main, RunEnded
<1> QED
  BY InitLife, <1>1, PTL DEF InstanceSpec

\* For any number of instances and wherever calls fail or signals arrive, requests
\* reach an instance only in the phase its plugin was switched to, and none that
\* failed its set-up or probe (run_multi_user, 378-407).
THEOREM UsedAsSetUp == InstanceSpec => []InstanceInv
<1>1. LifeInv => InstanceInv
  BY DEF LifeInv, InstanceInv, ServedInPhase, PhaseInv, PreparedInv, Ready
<1> QED
  BY LifeInvariance, <1>1, PTL

\* A run that reports has stopped and restored every instance, or says of it that
\* its clean-up failed and keeps its snapshot (InstanceRuntime.stop, 411-415).
THEOREM StopIsThorough == InstanceSpec => []NothingLeftBehind
<1>1. LifeInv => NothingLeftBehind
  BY DEF LifeInv, StopInv, NothingLeftBehind, Tidy
<1> QED
  BY LifeInvariance, <1>1, PTL

\* A report that says "completed" is of a run in which every instance took part in
\* every phase and was left as it was found (Replay.report, 300-332).
THEOREM CompletedMeansComplete == InstanceSpec => []CompletedIsComplete
<1>1. LifeInv => CompletedIsComplete
  <2> SUFFICES ASSUME LifeInv, main = "reported", Completed, NEW i \in Instances
               PROVE  /\ Writes \cup {"search"} \subseteq served[i]
                      /\ Tidy(i) /\ ~cleanupFailed[i]
    BY DEF CompletedIsComplete, Tidy, Writes
  <2>1. state[i] = "ready"
    BY DEF Completed, Ready
  <2> QED
    BY <2>1 DEF Completed, LifeInv, ServedInv, StopInv
<1> QED
  BY LifeInvariance, <1>1, PTL
=============================================================================
