-------------------------- MODULE MCAnalysisQueue --------------------------
(* The instance of AnalysisQueue for TLC. *)
EXTENDS AnalysisQueue

CONSTANTS j1, j2, t1, w1, local, h1, m, nobody

TwoJobs == {j1, j2}
OneTask == {t1}
RemoteAndLocal == {w1, local}
OnlyLocal == {local}
OneHandler == {h1}

\* The second job has no tasks.
AllOfFirstJob == [t \in Tasks |-> j1]

=============================================================================
