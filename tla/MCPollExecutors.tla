--------------------------- MODULE MCPollExecutors ---------------------------
(* A small instance of PollExecutors for TLC. *)
EXTENDS PollExecutors, TLC

CONSTANTS a1, a2

TwoApps == {a1, a2}
OneApp == {a1}
AppSymmetry == Permutations(TwoApps)

AllMutexTypes == {"normal", "errorcheck", "recursive"}
Glibc == {"normal"}
Recursive == {"recursive"}

AllCallbackOps == {"readNis", "stopPoll", "deinit"}
NoCallbackOps == {}
StopInCallback == {"stopPoll"}

=============================================================================
