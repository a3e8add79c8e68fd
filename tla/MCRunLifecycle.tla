--------------------------- MODULE MCRunLifecycle ---------------------------
(***************************************************************************)
(* Two servers; the two connections to the first one share its only slot.  *)
(* r2 repeats r1 on the other connection.                                  *)
(***************************************************************************)
EXTENDS RunLifecycle, TLC

MCChannels    == {"A", "B"}
MCConns       == {"k1", "k2", "k3"}
MCRequests    == {"r1", "r2", "r3"}
MCChannelOf   == "k1" :> "A" @@ "k2" :> "A" @@ "k3" :> "B"
MCConnOf      == "r1" :> "k1" @@ "r2" :> "k2" @@ "r3" :> "k3"
MCIdOf        == "r1" :> "i" @@ "r2" :> "i" @@ "r3" :> "j"
MCKeyOf       == "r1" :> "p" @@ "r2" :> "p" @@ "r3" :> "q"
MCRecorded    == "p" :> 1 @@ "q" :> 1
MCConcurrency == "A" :> 1 @@ "B" :> 1
=============================================================================
