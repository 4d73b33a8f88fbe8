----------------------- MODULE SerialTaskQueuePauses -----------------------
(***************************************************************************)
(* The queue with a history variable, which remembers the threads that     *)
(* were inside pickNextTask, past its test of m_pauseCount, when the queue *)
(* was paused.                                                             *)
(***************************************************************************)
EXTENDS SerialTaskQueue

VARIABLE late

lateVars == <<vars, late>>

Picking == {"take", "pop", "release", "recheck", "retake", "repop"}

LateInit == Init /\ late = {}

LateNext ==
    /\ Next
    /\ late' = IF m_pauseCount = 0 /\ m_pauseCount' > 0
               THEN {t \in Threads : pc[t] \in Picking}
               ELSE {t \in late : pc'[t] \in Picking}

LateSpec == LateInit /\ [][LateNext]_lateVars
FairLateSpec == LateSpec /\ Fairness

\* A pause can be overtaken, but only by threads that had tested m_pauseCount
\* before it, and by each of them at most once: nothing that finishes after
\* the pause keeps the queue going.
PauseOvertakenOnlyByLatePicks ==
    [][(m_pauseCount > 0 /\ Chosen' \ Chosen # {}) => late' # late]_lateVars
=============================================================================
