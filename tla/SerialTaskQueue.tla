-------------------------- MODULE SerialTaskQueue --------------------------
(***************************************************************************)
(* edm::SerialTaskQueue (FWCore/Concurrency): a lock-free queue that lets  *)
(* TBB run its tasks one at a time.  One action per atomic operation of    *)
(* the code: a read of m_pauseCount, a test_and_set or clear of            *)
(* m_taskChosen, a push to, a pop from or an emptiness test of m_tasks.    *)
(*                                                                         *)
(* Any thread may call push, pushAndWait, pause and resume, and any idle   *)
(* thread may be given a spawned task by TBB.  A thread blocked in         *)
(* pushAndWait still executes spawned tasks, as tbb::task::wait_for_all    *)
(* does.  An action that throws ends like one that returns: execute()      *)
(* swallows the exception.                                                 *)
(***************************************************************************)
EXTENDS Naturals, Sequences

CONSTANTS
    Threads,
    Tasks,       \* every task that is ever pushed, each of them once
    NoTask,
    MaxPauses    \* bound: pauses outstanding at one time

ASSUME NoTaskAssumption == NoTask \notin Tasks

ASSUME MaxPausesAssumption == MaxPauses \in Nat

VARIABLES
    m_tasks,        \* tbb::concurrent_queue<TaskBase*>
    m_taskChosen,   \* std::atomic_flag
    m_pauseCount,   \* std::atomic<unsigned long>
    pc,             \* what each thread does next
    task,           \* the task whose execute() the thread is inside, or NoTask
    waitFor,        \* the task the thread's pushAndWait waits for, or NoTask
    spawned,        \* tasks given to TBB that no thread has taken up
    ended           \* tasks whose action is over and whose flag was cleared

vars == <<m_tasks, m_taskChosen, m_pauseCount, pc, task, waitFor, spawned, ended>>

ThreadState == {"idle", "check", "take", "pop", "release", "recheck",
                "retake", "repop", "rerelease", "run"}

Queued == {m_tasks[i] : i \in DOMAIN m_tasks}

\* The tasks that left m_tasks and whose action is not over.
Chosen == spawned \union {task[t] : t \in {u \in Threads : pc[u] = "run"}}

TypeOK ==
    /\ m_tasks \in Seq(Tasks)
    /\ m_taskChosen \in BOOLEAN
    /\ m_pauseCount \in 0..MaxPauses
    /\ pc \in [Threads -> ThreadState]
    /\ task \in [Threads -> Tasks \union {NoTask}]
    /\ waitFor \in [Threads -> Tasks \union {NoTask}]
    /\ spawned \subseteq Tasks
    /\ ended \subseteq Tasks

Init ==
    /\ m_tasks = <<>>
    /\ m_taskChosen = FALSE
    /\ m_pauseCount = 0
    /\ pc = [t \in Threads |-> "idle"]
    /\ task = [t \in Threads |-> NoTask]
    /\ waitFor = [t \in Threads |-> NoTask]
    /\ spawned = {}
    /\ ended = {}

-----------------------------------------------------------------------------
(* The client's calls.  A thread that waits makes none. *)

MayCall(t) == pc[t] = "idle" /\ waitFor[t] = NoTask

\* Mutant: the tasks are kept on a stack.
PushInFront(t, x, wait) ==
    /\ MayCall(t)
    /\ x \notin Queued \union Chosen \union ended
    /\ m_tasks' = <<x>> \o m_tasks
    /\ waitFor' = [waitFor EXCEPT ![t] = IF wait THEN x ELSE NoTask]
    /\ pc' = [pc EXCEPT ![t] = "check"]
    /\ UNCHANGED <<m_taskChosen, m_pauseCount, task, spawned, ended>>

\* push, pushAndGetNextTaskToRun and pushAndWait up to m_tasks.push.
Push(t, x, wait) ==
    /\ MayCall(t)
    /\ x \notin Queued \union Chosen \union ended
    /\ m_tasks' = Append(m_tasks, x)
    /\ waitFor' = [waitFor EXCEPT ![t] = IF wait THEN x ELSE NoTask]
    /\ pc' = [pc EXCEPT ![t] = "check"]
    /\ UNCHANGED <<m_taskChosen, m_pauseCount, task, spawned, ended>>

Pause(t) ==
    /\ MayCall(t)
    /\ m_pauseCount < MaxPauses
    /\ m_pauseCount' = m_pauseCount + 1
    /\ UNCHANGED <<m_tasks, m_taskChosen, pc, task, waitFor, spawned, ended>>

\* Balanced calls only: each resume answers an earlier pause.
Resume(t) ==
    /\ MayCall(t)
    /\ m_pauseCount > 0
    /\ m_pauseCount' = m_pauseCount - 1
    /\ pc' = [pc EXCEPT ![t] = IF m_pauseCount = 1 THEN "check" ELSE "idle"]
    /\ UNCHANGED <<m_tasks, m_taskChosen, task, waitFor, spawned, ended>>

-----------------------------------------------------------------------------
(* pickNextTask.  Called from a push or a resume (task[t] = NoTask) it has  *)
(* its result spawned; called from a task's execute (through finishedTask)  *)
(* the result is what execute returns, which TBB runs next in this thread.  *)

\* pickNextTask returns 0: the thread is done with its call or its task.
GiveUp(t) ==
    /\ pc' = [pc EXCEPT ![t] = "idle"]
    /\ task' = [task EXCEPT ![t] = NoTask]

GoOn(t, next) ==
    /\ pc' = [pc EXCEPT ![t] = next]
    /\ UNCHANGED task

\* Mutant: a finishing task picks its successor without regard to a pause.
CheckPausedInPushOnly(t) ==
    /\ pc[t] = "check"
    /\ IF m_pauseCount = 0 \/ task[t] # NoTask THEN GoOn(t, "take") ELSE GiveUp(t)
    /\ UNCHANGED <<m_tasks, m_taskChosen, m_pauseCount, waitFor, spawned, ended>>

CheckPaused(t) ==
    /\ pc[t] = "check"
    /\ IF m_pauseCount = 0 THEN GoOn(t, "take") ELSE GiveUp(t)
    /\ UNCHANGED <<m_tasks, m_taskChosen, m_pauseCount, waitFor, spawned, ended>>

TestAndSet(t, at, next) ==
    /\ pc[t] = at
    /\ m_taskChosen' = TRUE
    /\ IF m_taskChosen THEN GiveUp(t) ELSE GoOn(t, next)
    /\ UNCHANGED <<m_tasks, m_pauseCount, waitFor, spawned, ended>>

\* Mutant: the front is read and not removed.
TryPeek(t, at, next) ==
    /\ pc[t] = at
    /\ IF m_tasks = <<>>
       THEN GoOn(t, next) /\ UNCHANGED spawned
       ELSE spawned' = spawned \union {Head(m_tasks)} /\ GiveUp(t)
    /\ UNCHANGED <<m_tasks, m_taskChosen, m_pauseCount, waitFor, ended>>

\* Mutant: pushAndWait waits without spawning the task it was handed back.
TryPopForgetOwn(t, at, next) ==
    /\ pc[t] = at
    /\ IF m_tasks = <<>>
       THEN GoOn(t, next) /\ UNCHANGED <<m_tasks, spawned>>
       ELSE /\ m_tasks' = Tail(m_tasks)
            /\ spawned' = spawned \union ({Head(m_tasks)} \ {waitFor[t]})
            /\ GiveUp(t)
    /\ UNCHANGED <<m_taskChosen, m_pauseCount, waitFor, ended>>

TryPop(t, at, next) ==
    /\ pc[t] = at
    /\ IF m_tasks = <<>>
       THEN GoOn(t, next) /\ UNCHANGED <<m_tasks, spawned>>
       ELSE /\ m_tasks' = Tail(m_tasks)
            /\ IF task[t] = NoTask
               THEN /\ spawned' = spawned \union {Head(m_tasks)}
                    /\ GiveUp(t)
               ELSE /\ task' = [task EXCEPT ![t] = Head(m_tasks)]
                    /\ pc' = [pc EXCEPT ![t] = "run"]
                    /\ UNCHANGED spawned
    /\ UNCHANGED <<m_taskChosen, m_pauseCount, waitFor, ended>>

Clear(t) ==
    /\ pc[t] \in {"release", "rerelease"}
    /\ m_taskChosen' = FALSE
    /\ IF pc[t] = "release" THEN GoOn(t, "recheck") ELSE GiveUp(t)
    /\ UNCHANGED <<m_tasks, m_pauseCount, waitFor, spawned, ended>>

\* Mutant: the second try does not take the flag again.
CheckEmptyThenPop(t) ==
    /\ pc[t] = "recheck"
    /\ IF m_tasks = <<>> THEN GiveUp(t) ELSE GoOn(t, "repop")
    /\ UNCHANGED <<m_tasks, m_taskChosen, m_pauseCount, waitFor, spawned, ended>>

CheckEmpty(t) ==
    /\ pc[t] = "recheck"
    /\ IF m_tasks = <<>> THEN GiveUp(t) ELSE GoOn(t, "retake")
    /\ UNCHANGED <<m_tasks, m_taskChosen, m_pauseCount, waitFor, spawned, ended>>

PickNextTask(t) ==
    \/ CheckPaused(t)
    \/ TestAndSet(t, "take", "pop")
    \/ TryPop(t, "pop", "release")
    \/ Clear(t)
    \/ CheckEmpty(t)
    \/ TestAndSet(t, "retake", "repop")
    \/ TryPop(t, "repop", "rerelease")

-----------------------------------------------------------------------------
(* TBB and the tasks. *)

Execute(t, x) ==
    /\ pc[t] = "idle"
    /\ x \in spawned
    /\ spawned' = spawned \ {x}
    /\ task' = [task EXCEPT ![t] = x]
    /\ pc' = [pc EXCEPT ![t] = "run"]
    /\ UNCHANGED <<m_tasks, m_taskChosen, m_pauseCount, waitFor, ended>>

\* The action is over; finishedTask clears the flag, then picks.
FinishedTask(t) ==
    /\ pc[t] = "run"
    /\ m_taskChosen' = FALSE
    /\ ended' = ended \union {task[t]}
    /\ pc' = [pc EXCEPT ![t] = "check"]
    /\ UNCHANGED <<m_tasks, m_pauseCount, task, waitFor, spawned>>

\* TBB drops the waiter's count once the task's execute() has returned.
WaitOver(t) ==
    /\ pc[t] = "idle"
    /\ waitFor[t] \in ended
    /\ \A u \in Threads : task[u] # waitFor[t]
    /\ waitFor' = [waitFor EXCEPT ![t] = NoTask]
    /\ UNCHANGED <<m_tasks, m_taskChosen, m_pauseCount, pc, task, spawned, ended>>

Call(t) ==
    \/ \E x \in Tasks, wait \in BOOLEAN : Push(t, x, wait)
    \/ Pause(t)
    \/ Resume(t)

Next ==
    \E t \in Threads :
        \/ Call(t)
        \/ PickNextTask(t)
        \/ \E x \in Tasks : Execute(t, x)
        \/ FinishedTask(t)
        \/ WaitOver(t)

Spec == Init /\ [][Next]_vars

\* The operating system runs every thread that is inside the queue or a task;
\* a spawned task is taken up as long as idle threads keep turning up, however
\* busy they are with calls of their own.  Clients need not call anything.
Fairness ==
    /\ \A t \in Threads : WF_vars(PickNextTask(t)) /\ WF_vars(FinishedTask(t))
                          /\ WF_vars(WaitOver(t))
    /\ \A x \in Tasks : SF_vars(\E t \in Threads : Execute(t, x))

FairSpec == Spec /\ Fairness

-----------------------------------------------------------------------------
(* Properties *)

\* The threads between a successful test_and_set and the clear or the spawn.
Holders == {t \in Threads : pc[t] \in {"pop", "release", "repop", "rerelease", "run"}}

\* At most one task of the queue is running or on its way to run, and nobody
\* else believes to hold the flag: the clear of a thread that found nothing to
\* pop can never release the flag of a task that runs.
MutualExclusion ==
    /\ \A t, u \in Holders : t = u
    /\ \A x, y \in Chosen : x = y
    /\ Holders # {} => spawned = {}

\* A task is in one place only: waiting in the queue once, chosen, or over.
\* No interleaving runs a task twice or runs one that still waits.
OnePlace ==
    /\ \A i, j \in DOMAIN m_tasks : m_tasks[i] = m_tasks[j] => i = j
    /\ Queued \intersect Chosen = {}
    /\ (Queued \union Chosen) \intersect ended = {}

\* The queue is a serial execution of its tasks in the order of the pushes.
Active == IF Chosen = {} THEN NoTask ELSE CHOOSE x \in Chosen : TRUE

Abstract == INSTANCE SerialExecution WITH waiting <- m_tasks, active <- Active

RunsSerially == Abstract!AbsSpec

\* A task that left the queue runs to its end, and whoever waits in
\* pushAndWait for a task that left the queue gets control back.
ChosenTasksEnd ==
    /\ \A x \in Tasks : x \in Chosen ~> x \in ended
    /\ \A t \in Threads :
          waitFor[t] \notin {NoTask} \union Queued ~> waitFor[t] = NoTask

\* What push's comment promises (SerialTaskQueue.h:106): the action runs
\* concurrently or waits for the resource or a CPU.  So when nothing runs, no
\* thread is inside the queue and it is not paused, nothing waits.
NothingStranded ==
    (/\ \A t \in Threads : pc[t] = "idle"
     /\ Chosen = {}
     /\ m_pauseCount = 0) => m_tasks = <<>>
=============================================================================
