--------------------------- MODULE ReplayInstances ---------------------------
(***************************************************************************)
(* The instances of a multi-user replay, numbered in the order of its      *)
(* configuration: Replay.runtimes of memory_bench_platform/                *)
(* multi_user_replay.py.  InstanceLifecycle starts and stops them,         *)
(* MultiUserReplay sends them requests.                                    *)
(***************************************************************************)
EXTENDS Integers, FiniteSets

CONSTANT NumInstances

Instances == 1..NumInstances
=============================================================================
