------------------------ MODULE MCWorkflowScheduler ------------------------
(***************************************************************************)
(* Two checkpoints of a LoCoMo-like plan: case 1 ingests, cases 2 to 6     *)
(* are questions on what it wrote (one group, they share a key), case 7    *)
(* ingests the next checkpoint after those questions.                      *)
(***************************************************************************)
EXTENDS WorkflowScheduler

MCKey == <<"none", "q1", "q1", "q1", "q1", "q1", "none">>
MCDependsOn == <<{}, {1}, {1}, {1}, {1}, {1}, 2..6>>
MCJudged == 2..6
=============================================================================
