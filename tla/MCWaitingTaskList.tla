------------------------- MODULE MCWaitingTaskList -------------------------
(* Three threads add three tasks to a list with room for one, over two rounds. *)
EXTENDS WaitingTaskList

\* Tasks are alike, and so are idle threads: tasks are added in one order of
\* their names, and a call is made by one of the idle threads.  Every order of
\* their steps remains.
InOrder ==
    /\ \A x \in Tasks : joined'[x] # joined[x] => x = CHOOSE y \in Tasks : joined[y] = Null
    /\ \A t \in Threads :
          (pc[t] = "idle" /\ pc'[t] # "idle") => t = CHOOSE u \in Threads : pc[u] = "idle"
=============================================================================
