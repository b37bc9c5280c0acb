--------------------------- MODULE MCDeferredJobs ---------------------------
(* Instances of DeferredJobs for TLC. *)
EXTENDS DeferredJobs, TLC

CONSTANTS a, b, c, nojob, nothread

ThreeJobs == {a, b, c}
OnlyB == {b}

AllKinds == a :> "analysis" @@ b :> "memory" @@ c :> "progress"
ProgressAndMemory == a :> "progress" @@ b :> "memory" @@ c :> "memory"

=============================================================================
