-------------------------- MODULE MCPluginRuntime --------------------------
(***************************************************************************)
(* Two runs of each of the three plugins.  What the plugins have to cope   *)
(* with differs, and so do the sizes: a second request meets the lease of  *)
(* the first under mem0, and a second sample changes the identity under    *)
(* it.                                                                     *)
(***************************************************************************)
EXTENDS PluginRuntime, TLC

Of(name, scopes, turns, trouble) ==
    [plugin |-> name, scopes |-> scopes, turns |-> turns, trouble |-> trouble]

MCInstances == {Of("openviking", 1, 1, 1), Of("ogmemory", 1, 1, 1),
                Of("mem0", 1, 2, 1), Of("mem0", 2, 1, 1)}

Symmetry == Permutations(Runs)
=============================================================================
