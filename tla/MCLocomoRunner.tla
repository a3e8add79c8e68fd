--------------------------- MODULE MCLocomoRunner ---------------------------
(***************************************************************************)
(* Two conversations and three questions in two samples, answered by two   *)
(* workers and graded two at a time; OpenViking with and without sessions  *)
(* of their own, oGMemory and memory-core.                                 *)
(***************************************************************************)
EXTENDS LocomoRunner

MCSampleOf == <<1, 1, 2>>
MCConfigs ==
    {[mode |-> "openviking", policy |-> "isolated"],
     [mode |-> "openviking", policy |-> "shared"],
     [mode |-> "ogmem", policy |-> "isolated"],
     [mode |-> "memcore", policy |-> "shared"]}
=============================================================================
