------------------------- MODULE MCInstanceLifecycle -------------------------
(***************************************************************************)
(* Two OpenClaw instances, the first one managed; two signals, so that one *)
(* may end the phases and one may hit the clean-up.                        *)
(***************************************************************************)
EXTENDS InstanceLifecycle

MCManaged == {1}
=============================================================================
