----------------------------- MODULE MCToolJobs -----------------------------
(* Small instances of ToolJobs for TLC. *)
EXTENDS ToolJobs, TLC

CONSTANTS w1, w2, l1, l2, a1

TwoWorkers == {w1, w2}

\* A list of two labels, in this order, for one job.
LongList == <<<<l1, l2>>>>

\* One job of one label.
OneList == <<<<l1>>>>

\* Two jobs with the same label.
TwoLists == <<<<l1>>, <<l1>>>>

\* What the admins ask for a single job, and for the first of two jobs.
PauseOrCancel == <<{"pause", "cancel"}>>
CancelAndResume == <<{"run", "cancel"}>>
ResumeTheFirst == <<{"run", "cancel"}, {"cancel"}>>

SameWorkers == Permutations(TwoWorkers)

=============================================================================
