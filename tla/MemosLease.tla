----------------------------- MODULE MemosLease -----------------------------
(***************************************************************************)
(* The lease that the openclaw-memos-local plugin gives to one request at  *)
(* a time: _dispatch, dispatch and run of its run_lifecycle.py, together   *)
(* with the hooks _execute_agent puts around a call of the agent           *)
(* (workflow_operators.py), the gateway, and the memory inside it.         *)
(*                                                                         *)
(* A hook is a process of its own.  It holds lifecycle.lock from "check"   *)
(* to its end and may raise, or die, at every stage; the gateway goes on   *)
(* beneath it.  Several runs may have been pointed at one runtime by       *)
(* mistake.  A run makes its calls one after the other (agent_plugin       *)
(* requires qa_concurrency 1), in any order: plans may be written by hand, *)
(* and a soft gate lets a case go on after a failure.                      *)
(***************************************************************************)
EXTENDS Integers, FiniteSets

CONSTANTS
    Runs,
    Ingests,        \* requests whose purpose is memory_ingest
    Questions,
    RunOf,          \* the run each request belongs to; its session is its own
    MaxAttempts,    \* bound: attempts at one step
    None

Requests == Ingests \cup Questions

ASSUME LeaseAssumption ==
    /\ Ingests \cap Questions = {}
    /\ RunOf \in [Requests -> Runs]
    /\ MaxAttempts \in Nat \ {0}
    /\ None \notin Runs \cup Requests

VARIABLES
    state,      \* phase.json, always replaced as a whole
    exported,   \* qa-workspace: none, torn or done
    proofs,     \* the receipts on disk for each request
    holder,     \* the run whose hook holds the lock
    hook,       \* the action of that hook
    stage,      \* how far it is
    snapshot,   \* what db_snapshot returned to it
    at,         \* where each run is with its request
    request,    \* the request each run is busy with
    attempts,
    leases,     \* history: how often each request was given the lease
    deserted,   \* history: a hook of theirs died, or the answer was another's
    turn,       \* the turn of each request in the gateway
    capturing,  \* memory_add is enabled in the running gateway
    memory,     \* the requests with a stored trace
    queued      \* those of them still in embedding_retry_queue

leaseVars == <<state, exported, proofs, holder, hook, stage, snapshot, at, request,
               attempts, leases, deserted, turn, capturing, memory, queued>>

disk    == <<state, exported, proofs>>
clients == <<at, request, attempts, leases, deserted>>
gateway == <<turn, capturing, memory, queued>>

db_snapshot == [traces |-> memory, retries |-> queued]
NoSnapshot  == [traces |-> {}, retries |-> {}]

Fresh == [owner |-> None, phase |-> "none", pending |-> None, before |-> NoSnapshot,
          traces |-> {}, failed |-> {}]

LeaseTypeOK ==
    /\ state \in [owner : Runs \cup {None},
                  phase : {"none", "ingest", "qa", "finished"},
                  pending : Requests \cup {None},
                  before : [traces : SUBSET Requests, retries : SUBSET Requests],
                  traces : SUBSET Ingests, failed : SUBSET Questions]
    /\ exported \in {"none", "torn", "done"}
    /\ proofs \in [Requests -> SUBSET {"valid", "invalid", "blocked", "recovered"}]
    /\ holder \in Runs \cup {None}
    /\ hook \in {"none", "prepare", "ingest", "qa", "before", "after", "recover", "finalize"}
    /\ stage \in {"none", "check", "export", "configure", "ready", "save", "reply"}
    /\ snapshot \in [traces : SUBSET Requests, retries : SUBSET Requests]
    /\ at \in [Runs -> {"idle", "granted", "calling", "answered", "mismatched", "raised"}]
    /\ request \in [Runs -> Requests \cup {None}]
    /\ attempts \in [Requests -> 0..MaxAttempts]
    /\ leases \in [Requests -> 0..MaxAttempts]
    /\ deserted \subseteq Questions
    /\ turn \in [Requests -> {"none", "running", "replied", "over", "broken", "dead"}]
    /\ capturing \in BOOLEAN
    /\ memory \subseteq Requests
    /\ queued \subseteq memory

LeaseInit ==
    /\ state = Fresh
    /\ exported = "none"
    /\ proofs = [r \in Requests |-> {}]
    /\ holder = None
    /\ hook = "none"
    /\ stage = "none"
    /\ snapshot = NoSnapshot
    /\ at = [n \in Runs |-> "idle"]
    /\ request = [n \in Runs |-> None]
    /\ attempts = [r \in Requests |-> 0]
    /\ leases = [r \in Requests |-> 0]
    /\ deserted = {}
    /\ turn = [r \in Requests |-> "none"]
    /\ capturing = TRUE
    /\ memory = {}
    /\ queued = {}

-----------------------------------------------------------------------------
(* The workflow starts a hook *)

Acquire(n, action) ==
    /\ holder = None
    /\ holder' = n
    /\ hook' = action
    /\ stage' = "check"
    /\ UNCHANGED <<disk, snapshot, leases, deserted, gateway>>

CallPlugin(n) ==
    /\ at[n] = "idle"
    /\ \E action \in {"prepare", "ingest", "qa", "finalize"} : Acquire(n, action)
    /\ UNCHANGED <<at, request, attempts>>

CallBefore(n) ==
    /\ at[n] = "idle"
    /\ Acquire(n, "before")
    /\ \E r \in {r \in Requests : RunOf[r] = n /\ attempts[r] < MaxAttempts} :
        /\ request' = [request EXCEPT ![n] = r]
        /\ attempts' = [attempts EXCEPT ![r] = @ + 1]
    /\ UNCHANGED at

\* The agent has answered, or the call raised: the lease is settled either way.
CallAfter(n) ==
    /\ at[n] \in {"answered", "mismatched", "raised"}
    /\ Acquire(n, "after")
    /\ UNCHANGED <<at, request, attempts>>

-----------------------------------------------------------------------------
(* Inside a hook *)

Current == request[holder]
At(s) == holder # None /\ stage = s
Proceed(s) == stage' = s /\ UNCHANGED <<holder, hook>>

Active == state.owner = holder /\ state.phase # "finished"

CheckPrepare ==
    /\ At("check")
    /\ hook = "prepare"
    /\ state.owner = None
    /\ memory = {}
    /\ Proceed("configure")
    /\ UNCHANGED <<disk, snapshot, clients, gateway>>

CheckFinalize ==
    /\ At("check")
    /\ hook = "finalize"
    /\ state.owner = holder
    /\ Proceed("configure")
    /\ UNCHANGED <<disk, snapshot, clients, gateway>>

\* Mutant: a phase is left although a request has not been settled.
MayLeaveWhenever == Active

MayLeave == Active /\ state.pending = None

StayInPhase ==
    /\ At("check")
    /\ hook = state.phase
    /\ MayLeave
    /\ Proceed("reply")
    /\ UNCHANGED <<disk, snapshot, clients, gateway>>

\* From ingest to qa only, and once: qa-workspace must not exist yet.
EnterQa ==
    /\ At("check")
    /\ hook = "qa"
    /\ state.phase = "ingest"
    /\ MayLeave
    /\ queued = {}
    /\ exported = "none"
    /\ exported' = "torn"
    /\ Proceed("export")
    /\ UNCHANGED <<state, proofs, snapshot, clients, gateway>>

Export ==
    /\ At("export")
    /\ exported' = "done"
    /\ Proceed("configure")
    /\ UNCHANGED <<state, proofs, snapshot, clients, gateway>>

PhaseOf(r) == IF r \in Ingests THEN "ingest" ELSE "qa"

\* sessions.json of the gateway has every session that ever had a turn.
HasSession(r) == turn[r] # "none"

verify_exports == exported = "done"

CheckBefore ==
    /\ At("check")
    /\ hook = "before"
    /\ Active
    /\ state.pending = None
    /\ PhaseOf(Current) = state.phase
    /\ Current \notin state.failed
    /\ ~HasSession(Current)
    /\ Current \in Questions => verify_exports
    /\ snapshot' = db_snapshot
    /\ Proceed("save")
    /\ UNCHANGED <<disk, clients, gateway>>

Settles == Active /\ state.pending = Current

\* The lines of the log from the turn's window: both hooks ran, none complained.
recall_receipt(r) == turn[r] = "over"

capture_receipt(r) == r \in memory

\* The poll of after_agent ends.  A question must leave the memory untouched.
Completed(r) ==
    /\ recall_receipt(r)
    /\ r \in Ingests => capture_receipt(r) /\ queued = {}
    /\ r \in Questions => memory = state.before.traces

\* A finished answer may still rest on a history it had no right to read.
audit_session(r) == IF r \in Questions THEN {"valid", "invalid"} ELSE {"valid"}

CheckAfter ==
    /\ At("check")
    /\ hook = "after"
    /\ Settles
    /\ at[holder] = "answered"
    /\ Completed(Current)
    /\ Current \notin state.traces
    /\ \E verdict \in audit_session(Current) :
          proofs' = [proofs EXCEPT ![Current] = @ \cup {verdict}]
    /\ Proceed("save")
    /\ UNCHANGED <<state, exported, snapshot, clients, gateway>>

\* Mutant: only a call that raised is recovered from.
OnlyRaised == at[holder] = "raised"

\* An answer of another session says nothing of this one.
Identified == at[holder] \in {"answered", "raised"}

MayRecover ==
    /\ stage \in {"check", "save"}
    /\ hook = "after"
    /\ Settles
    /\ state.phase = "qa"
    /\ Current \in Questions
    /\ Identified

\* Whatever raised in after_agent: a call that failed, a warning of the plugin,
\* a memory that was written to, a receipt that did not come in time.
Recover ==
    /\ MayRecover
    /\ hook' = "recover"
    /\ stage' = "check"
    /\ proofs' = [proofs EXCEPT ![Current] = @ \cup {"blocked"}]
    /\ UNCHANGED <<state, exported, holder, snapshot, clients, gateway>>

CheckRecover ==
    /\ At("check")
    /\ hook = "recover"
    /\ db_snapshot = state.before
    /\ Proceed("configure")
    /\ UNCHANGED <<disk, snapshot, clients, gateway>>

\* Mutant: the configuration is written, and the gateway goes on as it is.
WithoutRestart ==
    /\ At("configure")
    /\ capturing' = (hook = "prepare")
    /\ Proceed("ready")
    /\ UNCHANGED <<disk, snapshot, clients, turn, memory, queued>>

\* configure: whatever was going on in the gateway ends with its restart.
Restart ==
    /\ At("configure")
    /\ capturing' = (hook = "prepare")
    /\ turn' = [r \in Requests |-> IF turn[r] \in {"running", "replied"} THEN "dead" ELSE turn[r]]
    /\ Proceed("ready")
    /\ UNCHANGED <<disk, snapshot, clients, memory, queued>>

Ready ==
    /\ At("ready")
    /\ hook = "recover" => db_snapshot = state.before /\ verify_exports
    /\ Proceed("save")
    /\ UNCHANGED <<disk, snapshot, clients, gateway>>

Captured == {Current} \cap Ingests

Released == [state EXCEPT !.failed = @ \cup {Current}, !.pending = None]

NextState ==
    CASE hook = "prepare"  -> [Fresh EXCEPT !.owner = holder, !.phase = "ingest"]
      [] hook = "qa"       -> [state EXCEPT !.phase = "qa"]
      [] hook = "finalize" -> [state EXCEPT !.phase = "finished"]
      [] hook = "before"   -> [state EXCEPT !.pending = Current, !.before = snapshot]
      [] hook = "after"    -> [state EXCEPT !.pending = None,
                                            !.traces = @ \cup Captured]
      [] hook = "recover"  -> Released

\* The state is replaced last; what the hook says comes after it.
Save ==
    /\ At("save")
    /\ state' = NextState
    /\ proofs' = IF hook = "recover"
                 THEN [proofs EXCEPT ![Current] = (@ \ {"blocked"}) \cup {"recovered"}]
                 ELSE proofs
    /\ leases' = IF hook = "before" THEN [leases EXCEPT ![Current] = @ + 1] ELSE leases
    /\ snapshot' = NoSnapshot
    /\ Proceed("reply")
    /\ UNCHANGED <<exported, at, request, attempts, deserted, gateway>>

Release ==
    /\ holder' = None
    /\ hook' = "none"
    /\ stage' = "none"
    /\ snapshot' = NoSnapshot
    /\ UNCHANGED <<disk, attempts, leases, gateway>>

\* The agent is called only with a lease; everything else ends the step.
Reply ==
    /\ At("reply")
    /\ at' = [at EXCEPT ![holder] = IF hook = "before" THEN "granted" ELSE "idle"]
    /\ request' = IF hook = "before" THEN request ELSE [request EXCEPT ![holder] = None]
    /\ UNCHANGED deserted
    /\ Release

EndStep ==
    /\ at' = [at EXCEPT ![holder] = "idle"]
    /\ request' = [request EXCEPT ![holder] = None]
    /\ Release

\* A check does not hold, or something it calls raises.  An error in after_agent
\* is first given to the recovery of a failed question.
Raise ==
    /\ holder # None
    /\ stage # "reply"
    /\ ~MayRecover
    /\ UNCHANGED deserted
    /\ EndStep

Die ==
    /\ holder # None
    /\ deserted' = deserted \cup ({Current} \cap Questions \cap {state.pending})
    /\ EndStep

-----------------------------------------------------------------------------
(* The agent call *)

CallAgent(n) ==
    /\ at[n] = "granted"
    /\ at' = [at EXCEPT ![n] = "calling"]
    /\ UNCHANGED <<disk, holder, hook, stage, snapshot, request, attempts, leases, deserted, gateway>>

Answered(n) ==
    /\ at[n] = "calling"
    /\ turn[request[n]] \in {"replied", "over", "broken"}
    /\ \/ at' = [at EXCEPT ![n] = "answered"] /\ UNCHANGED deserted
       \/ at' = [at EXCEPT ![n] = "mismatched"] /\ deserted' = deserted \cup ({request[n]} \cap Questions)
    /\ UNCHANGED <<disk, holder, hook, stage, snapshot, request, attempts, leases, gateway>>

\* The runner reports a failure, or raises; the gateway may go on.
Raised(n) ==
    /\ at[n] = "calling"
    /\ at' = [at EXCEPT ![n] = "raised"]
    /\ UNCHANGED <<disk, holder, hook, stage, snapshot, request, attempts, leases, deserted, gateway>>

-----------------------------------------------------------------------------
(* The gateway *)

Local == <<disk, holder, hook, stage, snapshot, clients>>

TurnStarts(n) ==
    /\ at[n] = "calling"
    /\ turn[request[n]] = "none"
    /\ turn' = [turn EXCEPT ![request[n]] = "running"]
    /\ UNCHANGED <<Local, capturing, memory, queued>>

TurnReplies(r) ==
    /\ turn[r] = "running"
    /\ turn' = [turn EXCEPT ![r] = "replied"]
    /\ UNCHANGED <<Local, capturing, memory, queued>>

\* agent_end: the turn is captured if capture is on, and its embedding may have
\* to be tried again; a hook that fails may have stored it all the same.
TurnEnds(r) ==
    /\ turn[r] = "replied"
    /\ \E how \in {"over", "broken"} :
        /\ turn' = [turn EXCEPT ![r] = how]
        /\ \E stored \in SUBSET {r} :
            /\ stored # {} => capturing
            /\ how = "over" /\ capturing => stored = {r}
            /\ memory' = memory \cup stored
            /\ \E later \in SUBSET stored : queued' = queued \cup later
    /\ UNCHANGED <<Local, capturing>>

Embed ==
    /\ \E r \in queued : queued' = queued \ {r}
    /\ UNCHANGED <<Local, turn, capturing, memory>>

-----------------------------------------------------------------------------
Hook ==
    \/ CheckPrepare \/ CheckFinalize \/ StayInPhase \/ EnterQa \/ Export
    \/ CheckBefore \/ CheckAfter \/ Recover \/ CheckRecover
    \/ Restart \/ Ready \/ Save \/ Reply \/ Raise

LeaseNext ==
    \/ Hook
    \/ Die
    \/ \E n \in Runs :
        \/ CallPlugin(n) \/ CallBefore(n) \/ CallAfter(n)
        \/ CallAgent(n) \/ Answered(n) \/ Raised(n) \/ TurnStarts(n)
    \/ \E r \in Requests : TurnReplies(r) \/ TurnEnds(r)
    \/ Embed

LeaseSpec == LeaseInit /\ [][LeaseNext]_leaseVars

\* A hook goes on, the call of the agent has a timeout, and the lock is given to
\* a run that waits for it.
LeaseFairness ==
    /\ WF_leaseVars(Hook)
    /\ \A n \in Runs :
        /\ WF_leaseVars(CallAgent(n))
        /\ WF_leaseVars(Answered(n) \/ Raised(n))
        /\ SF_leaseVars(CallAfter(n))

LeaseFairSpec == LeaseSpec /\ LeaseFairness

-----------------------------------------------------------------------------
(* Properties *)

\* While questions are asked, the memory holds the captured history, all of it
\* and nothing else, and nothing can be written to it: no ingest that failed or
\* was given up on, and no hook that came late, has left a trace (_dispatch,
\* 409-422 and 446-467).
QaMemoryIsExactlyTheCaptures ==
    state.phase = "qa" => memory = state.traces /\ queued = {} /\ ~capturing

\* Never do two turns live in the gateway, not even one that its caller has
\* given up on and the next one: receipts are read from a log that does not say
\* whose they are (recall_receipt, 86-99; dispatch, 520-534).
OneTurnAtATime ==
    \A r \in Requests : turn[r] \in {"running", "replied"} => state.pending = r

\* No request gets the lease twice, whatever is retried and wherever a hook or a
\* recovery was cut short: a failed question is not asked again, and a step that
\* may have written to the memory is not repeated (_dispatch, 424-435).
LeasedOnce == \A r \in Requests : leases[r] <= 1

\* The lease keeps turns apart: one lives at a time, and none is leased again.
LeaseKeepsApart == LeaseTypeOK /\ OneTurnAtATime /\ LeasedOnce

\* A question does not keep the lease: it is settled, or its receipt says that
\* the runtime is blocked, unless a hook of its own was killed or the answer named
\* another session (dispatch, 492-540; _execute_agent, 137-150).
QuestionsAreSettled ==
    \A q \in Questions :
        state.pending = q ~> \/ state.pending # q
                             \/ "blocked" \in proofs[q]
                             \/ q \in deserted
=============================================================================
