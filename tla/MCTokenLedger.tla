--------------------------- MODULE MCTokenLedger ---------------------------
(***************************************************************************)
(* One behaviour for each kind of evidence, with the trouble that kind can *)
(* meet.                                                                   *)
(***************************************************************************)
EXTENDS TokenLedger

MCMaxTrouble == [agent |-> 3, task |-> 0, counter |-> 2, proxy |-> 2]

PromptSymmetry == Permutations(Prompts)
=============================================================================
