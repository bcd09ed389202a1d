---------------------------- MODULE MCSemaphores ----------------------------
(* Instances of the semaphores for TLC.                                    *)
EXTENDS Semaphores

MCPriorities  == {0}
MCOneName     == {<<"a">>}
MCTwoNames    == {<<"a">>, <<"b">>}
MCValues      == {-1, 0, 1}
MCNoPermits   == {-1, 0}
MCFirstSem    == {0}
MCSems        == -1..MAX_SEMAPHORES - 1
MCNone        == {}

=============================================================================
