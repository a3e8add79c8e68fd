-------------------------- MODULE MCCasePipeline --------------------------
(* Two checkpoints of one sample and one of another. *)
EXTENDS CasePipeline

CONSTANTS s1, s2, e1, e2, e3, e4, q1, q2

MCSampleOf == <<s1, s1, s2>>
MCThresholds ==
    {[coverage |-> 100, ready |-> 100, failures |-> 0],
     [coverage |-> 30, ready |-> 30, failures |-> 40]}
MCPending == <<<<e1, e2>>, <<e3>>, <<e4>>>>
=============================================================================
