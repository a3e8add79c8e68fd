---------------------------- MODULE RunLifecycle ----------------------------
(***************************************************************************)
(* One run of the platform from its directory to its summary: main of      *)
(* cli.py after init_run, for native entry points, which execute a plan    *)
(* themselves, and for external ones, which start a runner and import what *)
(* it left.  The trace runtime goes on beneath it.                         *)
(*                                                                         *)
(* What happens while the plan executes is the subject of CasePipeline and *)
(* WorkflowScheduler: here execution returns or raises, and what it leaves *)
(* to evaluate is drawn.  Failures of writes to the run directory, of the  *)
(* monitor and of the summary of an evaluation are left out.               *)
(***************************************************************************)
EXTENDS TraceRuntime

VARIABLES
    entrypoint,     \* native or external
    plugin,         \* finalize of the memory plugin: none, due, ok, failed
    stage,
    status,         \* in run.json
    summary,        \* reports/summary.json
    report,         \* the summary that is to be written
    error,          \* execution_error, trace_finalize_error, or a signal on its way out
    verification,   \* trace_verification_payload
    executed,       \* history: execution has begun
    cut             \* history: a signal arrived, or the process died

runVars == <<entrypoint, plugin, stage, status, summary, report, error, verification, executed, cut>>
vars == <<traceVars, runVars>>

Final == {"passed", "partial", "failed", "invalid"}

NoReport == [status |-> "none", valid |-> FALSE, score |-> FALSE]

TypeOK ==
    /\ TraceTypeOK
    /\ entrypoint \in {"native", "external"}
    /\ plugin \in {"none", "due", "ok", "failed"}
    /\ stage \in {"configure", "smoke", "prepare", "start", "setup", "execute", "finalize",
                  "stop", "stopping", "verify", "evaluate", "report", "ended"}
    /\ status \in Final \cup {"running"}
    /\ {summary, report} \subseteq [status : Final \cup {"none"}, valid : BOOLEAN, score : BOOLEAN]
    /\ error \in {"none", "execution", "trace", "signal"}
    /\ verification \in BOOLEAN
    /\ executed \in BOOLEAN
    /\ cut \in BOOLEAN

\* init_run has written "running".
Init ==
    /\ TraceInit
    /\ entrypoint \in {"native", "external"}
    /\ plugin \in IF entrypoint = "native" THEN {"none", "due"} ELSE {"none"}
    /\ stage = "configure"
    /\ status = "running"
    /\ summary = NoReport
    /\ report = NoReport
    /\ error = "none"
    /\ verification = TRUE
    /\ executed = FALSE
    /\ cut = FALSE

-----------------------------------------------------------------------------
Native   == entrypoint = "native"
External == entrypoint = "external"

Goto(s, t) == stage = s /\ stage' = t
Keep(others) == UNCHANGED <<entrypoint, summary, cut, others>>
NoTrace == UNCHANGED traceVars

\* The status is written first, the summary after it.
Settle(s, valid, score) ==
    /\ status' = s
    /\ report' = [status |-> s, valid |-> valid, score |-> score]

archive_run_failure(s) == Settle(s, FALSE, FALSE)

\* build_trace_runtime_config
Configure ==
    /\ NoTrace
    /\ \/ Goto("configure", "smoke") /\ UNCHANGED <<status, report>>
       \/ Goto("configure", "report") /\ archive_run_failure("failed")
    /\ Keep(<<plugin, error, verification, executed>>)

\* The gate is passed, or there is none; it raises; it is not passed.
SmokeGate ==
    /\ NoTrace
    /\ \/ Goto("smoke", IF Native THEN "prepare" ELSE "start") /\ UNCHANGED <<status, report>>
       \/ Goto("smoke", "report") /\ archive_run_failure("failed")
       \/ Goto("smoke", "report") /\ Settle("failed", TRUE, FALSE)
    /\ Keep(<<plugin, error, verification, executed>>)

\* The scenario is built and composed, and the plan is validated: a run that the
\* compatibility or the governance of its evaluation refuses is invalid.
Prepare ==
    /\ NoTrace
    /\ \/ Goto("prepare", "start") /\ UNCHANGED <<status, report>>
       \/ Goto("prepare", "report") /\ \E s \in {"failed", "invalid"} : archive_run_failure(s)
    /\ Keep(<<plugin, error, verification, executed>>)

\* Nobody knows an endpoint of a runtime that does not start, so it stops at once.
StartTrace ==
    /\ \/ /\ Goto("start", "setup")
          /\ IF mode = "off" THEN NoTrace ELSE start
          /\ UNCHANGED <<status, report>>
       \/ /\ Goto("start", "report")
          /\ mode # "off"
          /\ NoTrace
          /\ archive_run_failure("failed")
    /\ Keep(<<plugin, error, verification, executed>>)

\* Phase sink, trace cursor and monitor.  Only an external run still looks after
\* what it has started when this raises.
Setup ==
    /\ NoTrace
    /\ \/ Goto("setup", "execute") /\ UNCHANGED error
       \/ Goto("setup", "stop") /\ External /\ error' = "execution"
       \/ Goto("setup", "ended") /\ Native /\ UNCHANGED error
    /\ executed' = (stage' = "execute")
    /\ Keep(<<plugin, status, report, verification>>)

\* execute_cases, or the external runner, returns or raises.
Execute ==
    /\ NoTrace
    /\ Goto("execute", IF Native THEN "finalize" ELSE "stop")
    /\ error' \in {"none", "execution"}
    /\ Keep(<<plugin, status, report, verification, executed>>)

\* An error of finalize is a result like others.  The import of the profiler's
\* trace comes after it.
Finalize ==
    /\ NoTrace
    /\ Goto("finalize", "stop")
    /\ plugin' \in IF plugin = "due" THEN {"ok", "failed"} ELSE {plugin}
    /\ error' \in IF error = "none" THEN {"none", "execution"} ELSE {error}
    /\ Keep(<<status, report, verification, executed>>)

StopTrace ==
    /\ stage = "stop"
    /\ IF mode = "off"
       THEN stage' = "evaluate" /\ NoTrace
       ELSE /\ stage' = "stopping"
            /\ stopped' = "stopping"
            /\ UNCHANGED <<mode, loop, asked, conn, req, recorder>>
    /\ Keep(<<plugin, status, report, error, verification, executed>>)

StopOne ==
    /\ stage = "stopping"
    /\ \E c \in Channels : Shutdown(c)
    /\ UNCHANGED runVars

TraceError == IF error = "none" THEN "trace" ELSE error

StopEnds ==
    /\ Drain
    /\ Goto("stopping", IF stopped' = "drained" THEN "verify" ELSE "evaluate")
    /\ error' = IF stopped' = "drained" THEN error ELSE TraceError
    /\ Keep(<<plugin, status, report, verification, executed>>)

\* The bundle may exist already, an archive of it may not be writable.
Verify ==
    /\ NoTrace
    /\ Goto("verify", "evaluate")
    /\ \/ verification' = verify_and_collect /\ UNCHANGED error
       \/ error' = TraceError /\ UNCHANGED verification
    /\ Keep(<<plugin, status, report, executed>>)

-----------------------------------------------------------------------------
(* The end of main *)

\* A signal that came while the plan executed goes on after the clean-up.
GoesOn ==
    /\ error = "signal"
    /\ Goto("evaluate", "ended")
    /\ NoTrace
    /\ Keep(<<plugin, status, report, error, verification, executed>>)

\* Mutant: the error is raised and nothing is archived.
RaiseOnly ==
    /\ error \in {"execution", "trace"}
    /\ Goto("evaluate", "ended")
    /\ NoTrace
    /\ Keep(<<plugin, status, report, error, verification, executed>>)

Raise ==
    /\ error \in {"execution", "trace"}
    /\ Goto("evaluate", "report")
    /\ archive_run_failure("failed")
    /\ NoTrace
    /\ Keep(<<plugin, error, verification, executed>>)

final_status(scored, valid, all) ==
    IF ~scored THEN "failed"
    ELSE IF ~valid \/ ~verification THEN "invalid"
    ELSE IF all THEN "passed" ELSE "partial"

\* The score is decided before the verification of the traces is looked at.
SettleNative ==
    /\ Native
    /\ error = "none"
    /\ Goto("evaluate", "report")
    /\ \E scored, within, all \in BOOLEAN :
        LET valid == within /\ plugin # "failed" IN
        Settle(final_status(scored, valid, all), valid /\ verification, scored /\ valid)
    /\ NoTrace
    /\ Keep(<<plugin, error, verification, executed>>)

\* What was imported is missing, or cannot be read; it says itself that it is not
\* valid, which makes the run a partial one; the runner failed; or all is well.
SettleExternal ==
    /\ External
    /\ error = "none"
    /\ Goto("evaluate", "report")
    /\ \E imported \in {"failed", "partial", "passed"} :
        Settle(IF imported # "failed" /\ ~verification THEN "invalid" ELSE imported,
               verification, FALSE)
    /\ NoTrace
    /\ Keep(<<plugin, error, verification, executed>>)

\* write_summary; what is analysed after it changes neither of them.
Report ==
    /\ Goto("report", "ended")
    /\ summary' = report
    /\ NoTrace
    /\ UNCHANGED <<entrypoint, plugin, status, report, error, verification, executed, cut>>

\* A signal.  A native run cleans up when it was executing; the end of the trace
\* runtime takes the signal for an error of its own.
Interrupt ==
    /\ stage # "ended"
    /\ ~cut
    /\ cut' = TRUE
    /\ stage' = CASE Native /\ stage = "execute" -> "finalize"
                  [] Native /\ stage = "finalize" -> "stop"
                  [] Native /\ stage \in {"stopping", "verify"} -> "evaluate"
                  [] OTHER -> "ended"
    /\ error' = IF stage' \in {"finalize", "stop"} THEN "signal"
                ELSE IF stage' = "evaluate" THEN TraceError ELSE error
    /\ NoTrace
    /\ UNCHANGED <<entrypoint, plugin, status, summary, report, verification, executed>>

Crash ==
    /\ stage # "ended"
    /\ cut' = TRUE
    /\ stage' = "ended"
    /\ NoTrace
    /\ UNCHANGED <<entrypoint, plugin, status, summary, report, error, verification, executed>>
-----------------------------------------------------------------------------
Main ==
    \/ Configure \/ SmokeGate \/ Prepare \/ StartTrace \/ Setup \/ Execute \/ Finalize
    \/ StopTrace \/ StopOne \/ StopEnds \/ Verify
    \/ GoesOn \/ Raise \/ SettleNative \/ SettleExternal \/ Report

\* The handlers are threads of the same process, and end with it.
Beneath ==
    /\ stage # "ended"
    /\ UNCHANGED runVars
    /\ TraceNext

\* The endpoints are known while the plan executes, and are not forgotten after it.
Reachable == executed

Next ==
    \/ Main
    \/ Interrupt
    \/ Crash
    \/ Reachable /\ Beneath

Spec == Init /\ [][Next]_vars

\* main goes on, execution returns, and whatever holds a slot has a timeout.
Fairness ==
    /\ WF_vars(Main)
    /\ WF_vars(stage # "ended" /\ UNCHANGED runVars /\ Accepting)
    /\ \A c \in Channels : WF_vars(stage # "ended" /\ UNCHANGED runVars /\ LoopEnds(c))
    /\ \A k \in Conns : WF_vars(stage # "ended" /\ UNCHANGED runVars /\ ConnectionEnds(k))
    /\ \A r \in Requests : WF_vars(stage # "ended" /\ UNCHANGED runVars /\ Progress(r))

FairSpec == Spec /\ Fairness

-----------------------------------------------------------------------------
(* Properties *)

\* A run that is published as a result rests on a faithful trace, with nothing
\* still going on that could change it, and on a plugin that was put back
\* (1594-1628; verify_and_collect, 918-984).
PublishedRunIsFaithful ==
    status \in {"passed", "partial"} =>
        /\ Faithful
        /\ \A k \in Conns : conn[k] \notin {"waiting", "open"}
        /\ plugin \in {"none", "ok"}

\* With the types of the run and of its trace runtime.
PublishedInv == TypeOK /\ PublishedRunIsFaithful

Outcome == INSTANCE RunOutcome WITH summary <- summary.status, ended <- (stage = "ended")

\* A run that has executed ends with one final status and a summary that says the
\* same, whatever raised, failed or timed out in it (1500-1628, 1243-1300).
ImplementsOutcome == Outcome!Spec

\* The clean-up comes to an end, also when every slot of a server is taken and its
\* loop waits for one (stop, 895-916; process_request, 413-424).
MainReturns == <>(stage = "ended")

\* A score is published only of a valid run.
ScoreOnlyOfValidRuns == summary.score => summary.valid
=============================================================================
