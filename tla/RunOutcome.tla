----------------------------- MODULE RunOutcome -----------------------------
(***************************************************************************)
(* What somebody who looks at the run directory may rely on: a run that    *)
(* has executed ends with one final status, and its summary says the same. *)
(* Only a run that was cut, by a signal or a crash, or that never came to  *)
(* execute anything, may still be "running" when its process is gone.      *)
(***************************************************************************)
VARIABLES
    status,     \* run.json
    summary,    \* the status in reports/summary.json
    executed,
    cut,
    ended

Final == {"passed", "partial", "failed", "invalid"}

Init ==
    /\ status = "running"
    /\ summary = "none"
    /\ executed = FALSE
    /\ cut = FALSE
    /\ ended = FALSE

Execute ==
    /\ status = "running"
    /\ executed' = TRUE
    /\ UNCHANGED <<status, summary, cut, ended>>

Settle ==
    /\ status = "running"
    /\ status' \in Final
    /\ UNCHANGED <<summary, executed, cut, ended>>

\* The summary is the last thing that matters; the process may end with it.
Publish ==
    /\ status \in Final
    /\ summary = "none"
    /\ summary' = status
    /\ ended' = TRUE
    /\ UNCHANGED <<status, executed, cut>>

Cut ==
    /\ cut' = TRUE
    /\ ended' \in BOOLEAN
    /\ ended => ended'
    /\ UNCHANGED <<status, summary, executed>>

GiveUp ==
    /\ ~executed \/ cut
    /\ ended' = TRUE
    /\ UNCHANGED <<status, summary, executed, cut>>

Next == ~ended /\ (Execute \/ Settle \/ Publish \/ Cut \/ GiveUp)

Spec == Init /\ [][Next]_<<status, summary, executed, cut, ended>>
=============================================================================
