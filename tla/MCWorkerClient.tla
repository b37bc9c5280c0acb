--------------------------- MODULE MCWorkerClient ---------------------------
(* Instances of WorkerClient for TLC. *)
EXTENDS WorkerClient, TLC

CONSTANTS t1, t2

Start(first, second, once, limit, mostFaults, mostRuns) ==
    [kind |-> t1 :> first @@ t2 :> second, once |-> once, limit |-> limit,
     faults |-> mostFaults, runs |-> mostRuns]

\* The four branches of the pipeline, one of them with a fault; then runs that
\* end early, and one that follows another.
MCOptions ==
    {Start("embedding", "heads", FALSE, 0, 0, 1),
     Start("features", "direct", FALSE, 0, 1, 1),
     Start("embedding", "embedding", TRUE, 1, 1, 1),
     Start("direct", "direct", TRUE, 1, 0, 2)}

=============================================================================
