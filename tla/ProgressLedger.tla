--------------------------- MODULE ProgressLedger ---------------------------
(***************************************************************************)
(* What execute_cases promises about records/case-progress: an abstract    *)
(* ledger with one entry per case.  An entry appears with the outcome of   *)
(* the execution, never changes its outcome, and is settled once; entries  *)
(* of one group of cases appear only when those of earlier groups are      *)
(* settled.  Nothing is said of threads, pools or futures.                 *)
(***************************************************************************)
CONSTANTS
    Cases,
    Judged,         \* the cases that want a judge
    DependsOn,      \* the cases each case depends on
    Before          \* the cases of the groups before that of each case

VARIABLES
    entry,          \* absent, answered or settled
    outcome         \* none, passed or failed

vars == <<entry, outcome>>

Init ==
    /\ entry = [c \in Cases |-> "absent"]
    /\ outcome = [c \in Cases |-> "none"]

\* A passed case that wants a judge waits for it; any other is settled at once.
Record(c, o) ==
    /\ entry[c] = "absent"
    /\ \A d \in Before[c] : entry[d] = "settled"
    /\ o = "passed" => \A d \in DependsOn[c] : outcome[d] = "passed"
    /\ outcome' = [outcome EXCEPT ![c] = o]
    /\ entry' = [entry EXCEPT ![c] =
                    IF o = "passed" /\ c \in Judged THEN "answered" ELSE "settled"]

Settle(c) ==
    /\ entry[c] = "answered"
    /\ entry' = [entry EXCEPT ![c] = "settled"]
    /\ UNCHANGED outcome

Next == \E c \in Cases :
    \/ \E o \in {"passed", "failed"} : Record(c, o)
    \/ Settle(c)

Spec == Init /\ [][Next]_vars
=============================================================================
