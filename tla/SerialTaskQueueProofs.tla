----------------------- MODULE SerialTaskQueueProofs -----------------------
(***************************************************************************)
(* For any number of threads and tasks: the queue's types, the exclusion   *)
(* of its tasks, the place of each task, that the queue implements         *)
(* SerialExecution, and what a pause may still let through.                *)
(***************************************************************************)
EXTENDS SerialTaskQueuePauses, TLAPS

(* The strengthening.  MutualExclusion is not inductive: a thread that      *)
(* passes test_and_set must find no other holder, so the flag itself has to *)
(* be tied to the holders.                                                  *)

RunHasTask == \A t \in Threads : pc[t] = "run" => task[t] \in Tasks

\* The flag is set while somebody holds it, or a task carries it through TBB.
FlagHeld ==
    /\ \A t, u \in Holders : t = u
    /\ \A x, y \in spawned : x = y
    /\ Holders # {} => m_taskChosen /\ spawned = {}
    /\ spawned # {} => m_taskChosen

IInv == TypeOK /\ RunHasTask /\ FlagHeld /\ OnePlace

-----------------------------------------------------------------------------

\* The constructor leaves an empty queue: nothing is held, chosen or over
\* (SerialTaskQueue.h:68).
LEMMA InitIInv == Init => IInv
<1> SUFFICES ASSUME Init PROVE IInv
  OBVIOUS
<1>1. Holders = {} /\ Chosen = {} /\ DOMAIN m_tasks = {} /\ Queued = {}
  BY DEF Init, Holders, Chosen, Queued
<1>2. TypeOK
  <2>1. m_tasks \in Seq(Tasks) /\ m_pauseCount \in 0..MaxPauses
    BY MaxPausesAssumption DEF Init
  <2>2. /\ pc \in [Threads -> ThreadState]
        /\ task \in [Threads -> Tasks \union {NoTask}]
        /\ waitFor \in [Threads -> Tasks \union {NoTask}]
    BY DEF Init, ThreadState
  <2>3. QED  BY <2>1, <2>2 DEF Init, TypeOK
<1>3. QED  BY <1>1, <1>2 DEF Init, IInv, RunHasTask, FlagHeld, OnePlace

\* Every atomic operation of the queue keeps its types, and a thread that runs
\* has a task (SerialTaskQueue.cc:26-103).
LEMMA TypeStep ==
  ASSUME TypeOK, RunHasTask, [Next]_vars
  PROVE  TypeOK' /\ RunHasTask'
<1> USE NoTaskAssumption, MaxPausesAssumption DEF TypeOK, RunHasTask, ThreadState
<1>1. CASE UNCHANGED vars
  BY <1>1 DEF vars
<1>2. ASSUME NEW t \in Threads, NEW x \in Tasks, NEW wait \in BOOLEAN, Push(t, x, wait)
      PROVE  TypeOK' /\ RunHasTask'
  BY <1>2 DEF Push, MayCall
<1>3. ASSUME NEW t \in Threads, Pause(t)
      PROVE  TypeOK' /\ RunHasTask'
  BY <1>3 DEF Pause, MayCall
<1>4. ASSUME NEW t \in Threads, Resume(t)
      PROVE  TypeOK' /\ RunHasTask'
  BY <1>4 DEF Resume, MayCall
<1>5. ASSUME NEW t \in Threads, CheckPaused(t)
      PROVE  TypeOK' /\ RunHasTask'
  BY <1>5 DEF CheckPaused, GoOn, GiveUp
<1>6. ASSUME NEW t \in Threads, NEW at, NEW next \in {"pop", "repop"}, TestAndSet(t, at, next)
      PROVE  TypeOK' /\ RunHasTask'
  BY <1>6 DEF TestAndSet, GoOn, GiveUp
<1>7. ASSUME NEW t \in Threads, NEW at, NEW next \in {"release", "rerelease"}, TryPop(t, at, next)
      PROVE  TypeOK' /\ RunHasTask'
  <2>1. CASE m_tasks = <<>>
    BY <1>7, <2>1 DEF TryPop, GoOn
  <2>2. CASE m_tasks # <<>>
    <3>1. Head(m_tasks) \in Tasks /\ Tail(m_tasks) \in Seq(Tasks)
      BY <2>2
    <3>2. QED  BY <1>7, <2>2, <3>1 DEF TryPop, GiveUp
  <2>3. QED  BY <2>1, <2>2
<1>8. ASSUME NEW t \in Threads, Clear(t)
      PROVE  TypeOK' /\ RunHasTask'
  BY <1>8 DEF Clear, GoOn, GiveUp
<1>9. ASSUME NEW t \in Threads, CheckEmpty(t)
      PROVE  TypeOK' /\ RunHasTask'
  BY <1>9 DEF CheckEmpty, GoOn, GiveUp
<1>10. ASSUME NEW t \in Threads, NEW x \in Tasks, Execute(t, x)
       PROVE  TypeOK' /\ RunHasTask'
  BY <1>10 DEF Execute
<1>11. ASSUME NEW t \in Threads, FinishedTask(t)
       PROVE  TypeOK' /\ RunHasTask'
  BY <1>11 DEF FinishedTask
<1>12. ASSUME NEW t \in Threads, WaitOver(t)
       PROVE  TypeOK' /\ RunHasTask'
  BY <1>12 DEF WaitOver
<1>13. QED
  BY <1>1, <1>2, <1>3, <1>4, <1>5, <1>6, <1>7, <1>8, <1>9, <1>10, <1>11, <1>12
     DEF Next, Call, PickNextTask

\* The flag protocol of pickNextTask and finishedTask: test_and_set admits one
\* holder, and only the holder clears (SerialTaskQueue.cc:57-86).
LEMMA FlagStep ==
  ASSUME TypeOK, RunHasTask, FlagHeld, [Next]_vars
  PROVE  FlagHeld'
<1> USE DEF TypeOK, FlagHeld, Holders
<1>1. CASE UNCHANGED vars
  BY <1>1 DEF vars
<1>2. ASSUME NEW t \in Threads, NEW x \in Tasks, NEW wait \in BOOLEAN, Push(t, x, wait)
      PROVE  FlagHeld'
  BY <1>2 DEF Push, MayCall
<1>3. ASSUME NEW t \in Threads, Pause(t)
      PROVE  FlagHeld'
  BY <1>3 DEF Pause, MayCall
<1>4. ASSUME NEW t \in Threads, Resume(t)
      PROVE  FlagHeld'
  BY <1>4 DEF Resume, MayCall
<1>5. ASSUME NEW t \in Threads, CheckPaused(t)
      PROVE  FlagHeld'
  BY <1>5 DEF CheckPaused, GoOn, GiveUp
<1>6. ASSUME NEW t \in Threads, NEW at \in {"take", "retake"},
             NEW next \in {"pop", "repop"}, TestAndSet(t, at, next)
      PROVE  FlagHeld'
  <2>1. CASE m_taskChosen
    BY <1>6, <2>1 DEF TestAndSet, GiveUp
  <2>2. CASE ~m_taskChosen
    <3>1. Holders = {} /\ spawned = {}
      BY <2>2
    <3>2. Holders' = {t} /\ spawned' = {} /\ m_taskChosen'
      BY <1>6, <2>2, <3>1 DEF TestAndSet, GoOn
    <3>3. QED  BY <3>2
  <2>3. QED  BY <2>1, <2>2
<1>7. ASSUME NEW t \in Threads, NEW at \in {"pop", "repop"},
             NEW next \in {"release", "rerelease"}, TryPop(t, at, next)
      PROVE  FlagHeld'
  <2>1. Holders = {t} /\ spawned = {} /\ m_taskChosen
    BY <1>7 DEF TryPop
  <2>2. CASE m_tasks = <<>>
    BY <1>7, <2>1, <2>2 DEF TryPop, GoOn
  <2>3. CASE m_tasks # <<>> /\ task[t] = NoTask
    BY <1>7, <2>1, <2>3 DEF TryPop, GiveUp
  <2>4. CASE m_tasks # <<>> /\ task[t] # NoTask
    BY <1>7, <2>1, <2>4 DEF TryPop
  <2>5. QED  BY <2>2, <2>3, <2>4
<1>8. ASSUME NEW t \in Threads, Clear(t)
      PROVE  FlagHeld'
  <2>1. Holders = {t} /\ spawned = {}
    BY <1>8 DEF Clear
  <2>2. Holders' = {} /\ spawned' = {}
    BY <1>8, <2>1 DEF Clear, GoOn, GiveUp
  <2>3. QED  BY <2>2
<1>9. ASSUME NEW t \in Threads, CheckEmpty(t)
      PROVE  FlagHeld'
  BY <1>9 DEF CheckEmpty, GoOn, GiveUp
<1>10. ASSUME NEW t \in Threads, NEW x \in Tasks, Execute(t, x)
       PROVE  FlagHeld'
  <2>1. Holders = {} /\ spawned = {x} /\ m_taskChosen
    BY <1>10 DEF Execute
  <2>2. Holders' = {t} /\ spawned' = {} /\ m_taskChosen'
    BY <1>10, <2>1 DEF Execute
  <2>3. QED  BY <2>2
<1>11. ASSUME NEW t \in Threads, FinishedTask(t)
       PROVE  FlagHeld'
  <2>1. Holders = {t} /\ spawned = {}
    BY <1>11 DEF FinishedTask
  <2>2. Holders' = {} /\ spawned' = {}
    BY <1>11, <2>1 DEF FinishedTask
  <2>3. QED  BY <2>2
<1>12. ASSUME NEW t \in Threads, WaitOver(t)
       PROVE  FlagHeld'
  BY <1>12 DEF WaitOver
<1>13. QED
  BY <1>1, <1>2, <1>3, <1>4, <1>5, <1>6, <1>7, <1>8, <1>9, <1>10, <1>11, <1>12
     DEF Next, Call, PickNextTask

\* What a state of the invariant says of the tasks that left m_tasks: there is
\* at most one, spawned or run by the holder (SerialTaskQueue.cc:57-86).
LEMMA ChosenFacts ==
  ASSUME TypeOK, RunHasTask, FlagHeld
  PROVE  /\ Chosen \subseteq Tasks
         /\ \A x, y \in Chosen : x = y
         /\ \A t \in Threads : pc[t] = "run" => Chosen = {task[t]}
         /\ \A t \in Holders : pc[t] # "run" => Chosen = {}
         /\ ~m_taskChosen => Chosen = {}
BY DEF TypeOK, RunHasTask, FlagHeld, Holders, Chosen

\* What a step does to the tasks, seen from outside: nothing, a push, a pick,
\* or the end of the chosen task.
Unseen == m_tasks' = m_tasks /\ Chosen' = Chosen /\ ended' = ended

Pushed ==
    \E x \in Tasks \ (Queued \union Chosen \union ended) :
        m_tasks' = Append(m_tasks, x) /\ Chosen' = Chosen /\ ended' = ended

Picked ==
    /\ m_tasks # <<>>
    /\ m_tasks' = Tail(m_tasks)
    /\ Chosen = {} /\ Chosen' = {Head(m_tasks)}
    /\ ended' = ended

Ended ==
    \E x \in Tasks :
        /\ Chosen = {x} /\ Chosen' = {}
        /\ ended' = ended \union {x}
        /\ m_tasks' = m_tasks

\* What a step does to the tasks: it pushes one at the back, starts the front
\* one, ends the active one, or leaves all as they are (SerialTaskQueue.cc:38-86).
LEMMA TaskStep ==
  ASSUME TypeOK, RunHasTask, FlagHeld, [Next]_vars
  PROVE  Unseen \/ Pushed \/ Picked \/ Ended
<1> DEFINE Goal == Unseen \/ Pushed \/ Picked \/ Ended
<1> USE DEF TypeOK
<1>1. CASE UNCHANGED vars
  BY <1>1 DEF vars, Unseen, Chosen
<1>2. ASSUME NEW t \in Threads, NEW x \in Tasks, NEW wait \in BOOLEAN, Push(t, x, wait)
      PROVE  Goal
  <2>1. Chosen' = Chosen
    BY <1>2 DEF Push, MayCall, Chosen
  <2>2. QED  BY <1>2, <2>1 DEF Push, Pushed
<1>3. ASSUME NEW t \in Threads, Pause(t)
      PROVE  Goal
  BY <1>3 DEF Pause, Unseen, Chosen
<1>4. ASSUME NEW t \in Threads, Resume(t)
      PROVE  Goal
  BY <1>4 DEF Resume, MayCall, Unseen, Chosen
<1>5. ASSUME NEW t \in Threads, CheckPaused(t)
      PROVE  Goal
  BY <1>5 DEF CheckPaused, GoOn, GiveUp, Unseen, Chosen
<1>6. ASSUME NEW t \in Threads, NEW at \in {"take", "retake"},
             NEW next \in {"pop", "repop"}, TestAndSet(t, at, next)
      PROVE  Goal
  BY <1>6 DEF TestAndSet, GoOn, GiveUp, Unseen, Chosen
<1>7. ASSUME NEW t \in Threads, NEW at \in {"pop", "repop"},
             NEW next \in {"release", "rerelease"}, TryPop(t, at, next)
      PROVE  Goal
  <2>1. CASE m_tasks = <<>>
    BY <1>7, <2>1 DEF TryPop, GoOn, Unseen, Chosen
  <2>2. CASE m_tasks # <<>>
    <3>1. Chosen = {}
      <4>1. t \in Holders /\ pc[t] # "run"
        BY <1>7 DEF TryPop, Holders
      <4>2. QED  BY <4>1, ChosenFacts
    <3>2. Chosen' = {Head(m_tasks)}
      <4>1. spawned = {} /\ \A u \in Threads : pc[u] # "run"
        BY <1>7 DEF TryPop, FlagHeld, Holders
      <4>2. CASE task[t] = NoTask
        BY <1>7, <2>2, <4>1, <4>2 DEF TryPop, GiveUp, Chosen
      <4>3. CASE task[t] # NoTask
        BY <1>7, <2>2, <4>1, <4>3 DEF TryPop, Chosen
      <4>4. QED  BY <4>2, <4>3
    <3>3. QED  BY <1>7, <2>2, <3>1, <3>2 DEF TryPop, Picked
  <2>3. QED  BY <2>1, <2>2
<1>8. ASSUME NEW t \in Threads, Clear(t)
      PROVE  Goal
  BY <1>8 DEF Clear, GoOn, GiveUp, Unseen, Chosen
<1>9. ASSUME NEW t \in Threads, CheckEmpty(t)
      PROVE  Goal
  BY <1>9 DEF CheckEmpty, GoOn, GiveUp, Unseen, Chosen
<1>10. ASSUME NEW t \in Threads, NEW x \in Tasks, Execute(t, x)
       PROVE  Goal
  <2>1. Chosen' = Chosen
    BY <1>10 DEF Execute, Chosen
  <2>2. QED  BY <1>10, <2>1 DEF Execute, Unseen
<1>11. ASSUME NEW t \in Threads, FinishedTask(t)
       PROVE  Goal
  <2>1. task[t] \in Tasks /\ Chosen = {task[t]}
    BY <1>11, ChosenFacts DEF FinishedTask, RunHasTask
  <2>2. spawned = {} /\ \A u \in Threads : pc[u] = "run" => u = t
    BY <1>11 DEF FinishedTask, FlagHeld, Holders
  <2>3. Chosen' = {}
    BY <1>11, <2>2 DEF FinishedTask, Chosen
  <2>4. QED  BY <1>11, <2>1, <2>3 DEF FinishedTask, Ended
<1>12. ASSUME NEW t \in Threads, WaitOver(t)
       PROVE  Goal
  BY <1>12 DEF WaitOver, Unseen, Chosen
<1>13. QED
  BY <1>1, <1>2, <1>3, <1>4, <1>5, <1>6, <1>7, <1>8, <1>9, <1>10, <1>11, <1>12
     DEF Next, Call, PickNextTask

\* No step puts a task in two places (SerialTaskQueue.cc:38-86).
LEMMA PlaceStep ==
  ASSUME TypeOK, OnePlace, Unseen \/ Pushed \/ Picked \/ Ended
  PROVE  OnePlace'
<1> USE DEF TypeOK
<1>1. CASE Unseen
  BY <1>1 DEF Unseen, OnePlace, Queued
<1>2. CASE Pushed
  <2>1. PICK x \in Tasks \ (Queued \union Chosen \union ended) :
               m_tasks' = Append(m_tasks, x) /\ Chosen' = Chosen /\ ended' = ended
    BY <1>2 DEF Pushed
  <2>2. /\ DOMAIN m_tasks' = 1..(Len(m_tasks) + 1)
        /\ \A i \in 1..Len(m_tasks) : m_tasks'[i] = m_tasks[i]
        /\ m_tasks'[Len(m_tasks) + 1] = x
    BY <2>1
  <2>3. Queued' = Queued \union {x}
    BY <2>2 DEF Queued
  <2>4. \A i, j \in DOMAIN m_tasks' : m_tasks'[i] = m_tasks'[j] => i = j
    BY <2>2 DEF OnePlace, Queued
  <2>5. QED  BY <2>1, <2>3, <2>4 DEF OnePlace
<1>3. CASE Picked
  <2>1. /\ Len(m_tasks) \in Nat \ {0}
        /\ m_tasks' \in Seq(Tasks) /\ Len(m_tasks') = Len(m_tasks) - 1
        /\ DOMAIN m_tasks = 1..Len(m_tasks) /\ DOMAIN m_tasks' = 1..(Len(m_tasks) - 1)
        /\ \A i \in 1..(Len(m_tasks) - 1) : m_tasks'[i] = m_tasks[i + 1]
        /\ Head(m_tasks) = m_tasks[1]
    BY <1>3 DEF Picked
  <2>. HIDE DEF TypeOK
  <2>2. \A i \in DOMAIN m_tasks' :
          /\ i \in Nat /\ i + 1 \in DOMAIN m_tasks /\ i + 1 # 1 /\ 1 \in DOMAIN m_tasks
          /\ m_tasks'[i] = m_tasks[i + 1]
    BY <2>1
  <2>3. \A i, j \in DOMAIN m_tasks' : m_tasks'[i] = m_tasks'[j] => i = j
    <3>1. SUFFICES ASSUME NEW i \in DOMAIN m_tasks', NEW j \in DOMAIN m_tasks',
                          m_tasks'[i] = m_tasks'[j]
                   PROVE  i = j
      OBVIOUS
    <3>2. i + 1 = j + 1
      BY <2>2, <3>1 DEF OnePlace
    <3>3. QED  BY <2>2, <3>2
  <2>4. 1 \in DOMAIN m_tasks /\ Head(m_tasks) = m_tasks[1]
    BY <2>1
  <2>5. Queued' \subseteq Queued /\ Head(m_tasks) \in Queued
    BY <2>2, <2>4 DEF Queued
  <2>6. Head(m_tasks) \notin Queued'
    <3>1. \A i \in DOMAIN m_tasks' : m_tasks'[i] # Head(m_tasks)
      BY <2>2, <2>4 DEF OnePlace
    <3>2. QED  BY <3>1 DEF Queued
  <2>7. QED  BY <1>3, <2>3, <2>5, <2>6 DEF Picked, OnePlace
<1>4. CASE Ended
  <2>1. Queued' = Queued
    BY <1>4 DEF Ended, Queued
  <2>2. QED  BY <1>4, <2>1 DEF Ended, OnePlace
<1>5. QED  BY <1>1, <1>2, <1>3, <1>4

\* The strengthened invariant holds of every behaviour of the queue
\* (SerialTaskQueue.cc).
LEMMA InvariantIInv == Spec => []IInv
<1>1. IInv /\ [Next]_vars => IInv'
  BY TypeStep, FlagStep, TaskStep, PlaceStep DEF IInv
<1>2. QED  BY InitIInv, <1>1, PTL DEF Spec

-----------------------------------------------------------------------------

\* The queue's variables keep their types: the flag, the count of pauses and
\* the threads' places in pickNextTask (SerialTaskQueue.cc:64).
THEOREM TypeCorrect == Spec => []TypeOK
<1>1. IInv => TypeOK
  BY DEF IInv
<1>2. QED  BY InvariantIInv, <1>1, PTL

\* However many threads push, pause, resume and finish, one task at most is
\* running or on its way to run (SerialTaskQueue.cc:58, 64).
THEOREM Exclusion == Spec => []MutualExclusion
<1>1. IInv => MutualExclusion
  BY ChosenFacts DEF IInv, FlagHeld, MutualExclusion
<1>2. QED  BY InvariantIInv, <1>1, PTL

\* No task is run twice, and none waits that is running or over
\* (SerialTaskQueue.cc:47, 64).
THEOREM Placement == Spec => []OnePlace
<1>1. IInv => OnePlace
  BY DEF IInv
<1>2. QED  BY InvariantIInv, <1>1, PTL

\* The lock-free queue implements the serial execution in push order that its
\* documentation describes (SerialTaskQueue.h).
THEOREM Refinement == Spec => RunsSerially
<1>1. Init => Abstract!AbsInit
  <2>1. Init => Chosen = {}
    BY DEF Init, Chosen
  <2>2. QED  BY <2>1 DEF Init, Abstract!AbsInit, Active
<1>2. IInv /\ IInv' /\ [Next]_vars => [Abstract!AbsNext]_(Abstract!absVars)
  <2> SUFFICES ASSUME IInv, IInv', [Next]_vars
               PROVE  [Abstract!AbsNext]_(Abstract!absVars)
    OBVIOUS
  <2> USE DEF Abstract!absVars, Abstract!AbsNext
  <2>1. /\ Chosen = {} => Active = NoTask
        /\ Chosen # {} => Active \in Chosen
    BY DEF Active
  <2>2. /\ Chosen' = {} => Active' = NoTask
        /\ Chosen' # {} => Active' \in Chosen'
    BY DEF Active
  <2>3. Chosen' = Chosen => Active' = Active
    <3>1. \A x, y \in Chosen : x = y
      BY ChosenFacts DEF IInv
    <3>2. QED  BY <2>1, <2>2, <3>1
  <2>4. Unseen \/ Pushed \/ Picked \/ Ended
    BY TaskStep DEF IInv
  <2>5. CASE Unseen
    BY <2>3, <2>5 DEF Unseen
  <2>6. CASE Pushed
    <3>1. PICK x \in Tasks \ (Queued \union Chosen \union ended) :
                 m_tasks' = Append(m_tasks, x) /\ Chosen' = Chosen /\ ended' = ended
      BY <2>6 DEF Pushed
    <3>2. ~Abstract!Known(x)
      <4>1. \A i \in 1..Len(m_tasks) : m_tasks[i] \in Queued
        BY DEF IInv, TypeOK, Queued
      <4>2. x # Active
        BY <2>1, <3>1, NoTaskAssumption
      <4>3. QED  BY <3>1, <4>1, <4>2 DEF Abstract!Known
    <3>3. Abstract!Submit(x)
      BY <2>3, <3>1, <3>2 DEF Abstract!Submit
    <3>4. QED  BY <3>3
  <2>7. CASE Picked
    <3>1. Abstract!Begin
      BY <2>1, <2>2, <2>7 DEF Picked, Abstract!Begin
    <3>2. QED  BY <3>1
  <2>8. CASE Ended
    <3>1. Abstract!End
      BY <2>1, <2>2, <2>8, NoTaskAssumption DEF Ended, Abstract!End
    <3>2. QED  BY <3>1
  <2>9. QED  BY <2>4, <2>5, <2>6, <2>7, <2>8
<1>3. QED  BY InvariantIInv, <1>1, <1>2, PTL DEF Spec, RunsSerially, Abstract!AbsSpec

-----------------------------------------------------------------------------
(* Pauses *)

\* While the queue is paused whoever is past the test of m_pauseCount was there
\* before the pause.
LateInv == m_pauseCount > 0 => \A t \in Threads : pc[t] \in Picking => t \in late

\* Only Pause raises the count; a thread gets past the test only when it is 0.
LEMMA PastTheTest ==
  ASSUME TypeOK, Next
  PROVE  /\ m_pauseCount > 0 =>
              \A t \in Threads : pc'[t] \in Picking => pc[t] \in Picking
         /\ m_pauseCount = 0 /\ m_pauseCount' > 0 => pc' = pc
<1> USE DEF TypeOK, Picking
<1>1. ASSUME NEW t \in Threads, NEW x \in Tasks, NEW wait \in BOOLEAN, Push(t, x, wait)
      PROVE  m_pauseCount' = m_pauseCount /\ pc' = [pc EXCEPT ![t] = "check"]
  BY <1>1 DEF Push
<1>2. ASSUME NEW t \in Threads, Pause(t) PROVE pc' = pc
  BY <1>2 DEF Pause
<1>3. ASSUME NEW t \in Threads, Resume(t)
      PROVE  /\ m_pauseCount > 0
             /\ \E at \in {"check", "idle"} : pc' = [pc EXCEPT ![t] = at]
  BY <1>3 DEF Resume
<1>4. ASSUME NEW t \in Threads, PickNextTask(t)
      PROVE  /\ m_pauseCount' = m_pauseCount
             /\ \A u \in Threads \ {t} : pc'[u] = pc[u]
             /\ m_pauseCount > 0 /\ pc'[t] \in Picking => pc[t] \in Picking
  <2>1. CASE CheckPaused(t) BY <2>1 DEF CheckPaused, GoOn, GiveUp
  <2>2. CASE TestAndSet(t, "take", "pop") BY <2>2 DEF TestAndSet, GoOn, GiveUp
  <2>3. CASE TryPop(t, "pop", "release") BY <2>3 DEF TryPop, GoOn, GiveUp
  <2>4. CASE Clear(t) BY <2>4 DEF Clear, GoOn, GiveUp
  <2>5. CASE CheckEmpty(t) BY <2>5 DEF CheckEmpty, GoOn, GiveUp
  <2>6. CASE TestAndSet(t, "retake", "repop") BY <2>6 DEF TestAndSet, GoOn, GiveUp
  <2>7. CASE TryPop(t, "repop", "rerelease") BY <2>7 DEF TryPop, GoOn, GiveUp
  <2>8. QED  BY <1>4, <2>1, <2>2, <2>3, <2>4, <2>5, <2>6, <2>7 DEF PickNextTask
<1>5. ASSUME NEW t \in Threads, NEW x \in Tasks, Execute(t, x)
      PROVE  m_pauseCount' = m_pauseCount /\ pc' = [pc EXCEPT ![t] = "run"]
  BY <1>5 DEF Execute
<1>6. ASSUME NEW t \in Threads, FinishedTask(t)
      PROVE  m_pauseCount' = m_pauseCount /\ pc' = [pc EXCEPT ![t] = "check"]
  BY <1>6 DEF FinishedTask
<1>7. ASSUME NEW t \in Threads, WaitOver(t)
      PROVE  m_pauseCount' = m_pauseCount /\ pc' = pc
  BY <1>7 DEF WaitOver
<1>8. PICK t \in Threads : \/ Call(t) \/ PickNextTask(t) \/ (\E x \in Tasks : Execute(t, x))
                            \/ FinishedTask(t) \/ WaitOver(t)
  BY DEF Next
<1>9. QED  BY <1>1, <1>2, <1>3, <1>4, <1>5, <1>6, <1>7, <1>8 DEF Call

LEMMA LateStep ==
  ASSUME TypeOK, LateInv, LateNext
  PROVE  LateInv'
<1>1. Next BY DEF LateNext
<1>2. m_pauseCount \in Nat BY MaxPausesAssumption DEF TypeOK
<1>3. CASE m_pauseCount = 0 /\ m_pauseCount' > 0
  BY <1>1, <1>3, PastTheTest DEF LateInv, LateNext
<1>4. CASE m_pauseCount > 0 /\ m_pauseCount' > 0
  <2>1. late' = {t \in late : pc'[t] \in Picking} BY <1>2, <1>4 DEF LateNext
  <2>2. QED  BY <1>1, <1>4, <2>1, PastTheTest DEF LateInv
<1>5. CASE ~(m_pauseCount' > 0) BY <1>5 DEF LateInv
<1>6. QED  BY <1>2, <1>3, <1>4, <1>5

\* A task leaves the paused queue only by a thread that is past the test, which
\* then is past it no more.
LEMMA ChosenByLate ==
  ASSUME IInv, LateInv, LateNext, m_pauseCount > 0, Chosen' \ Chosen # {}
  PROVE  late' # late
<1>1. TypeOK /\ RunHasTask /\ FlagHeld /\ Next BY DEF IInv, LateNext
<1>2. late' = {t \in late : pc'[t] \in Picking} BY <1>1, MaxPausesAssumption DEF LateNext, TypeOK
<1>3. Picked
  BY <1>1, TaskStep DEF Unseen, Pushed, Picked, Ended
<1>4. PICK t \in Threads : TryPop(t, "pop", "release") \/ TryPop(t, "repop", "rerelease")
  <2>1. m_tasks \in Seq(Tasks) /\ m_tasks # <<>> /\ m_tasks' = Tail(m_tasks)
    BY <1>1, <1>3 DEF TypeOK, Picked
  <2>2. Len(m_tasks') = Len(m_tasks) - 1 /\ Len(m_tasks) \in Nat BY <2>1
  <2>a. \A x \in Tasks : Len(Append(m_tasks, x)) = Len(m_tasks) + 1 BY <2>1
  <2>3. m_tasks' # m_tasks /\ \A x \in Tasks : m_tasks' # Append(m_tasks, x)
    <3>1. m_tasks' # m_tasks BY <2>2
    <3>2. ASSUME NEW x \in Tasks, m_tasks' = Append(m_tasks, x) PROVE FALSE
      BY <2>2, <2>a, <3>2
    <3>3. QED  BY <3>1, <3>2
  <2>4. \A t \in Threads :
          /\ Call(t) => m_tasks' = m_tasks \/ \E x \in Tasks : m_tasks' = Append(m_tasks, x)
          /\ (\E x \in Tasks : Execute(t, x)) \/ FinishedTask(t) \/ WaitOver(t) => m_tasks' = m_tasks
    BY DEF Call, Push, Pause, Resume, Execute, FinishedTask, WaitOver
  <2>5. \A t \in Threads :
          CheckPaused(t) \/ TestAndSet(t, "take", "pop") \/ TestAndSet(t, "retake", "repop")
            \/ Clear(t) \/ CheckEmpty(t) => m_tasks' = m_tasks
    BY DEF CheckPaused, TestAndSet, Clear, CheckEmpty
  <2>6. QED  BY <1>1, <2>3, <2>4, <2>5 DEF Next, PickNextTask
<1>5. pc[t] \in Picking /\ pc'[t] \in {"idle", "run"}
  BY <1>1, <1>3, <1>4 DEF TryPop, GiveUp, TypeOK, Picked, Picking
<1>6. t \in late BY <1>5 DEF LateInv
<1>7. QED  BY <1>2, <1>5, <1>6 DEF Picking

\* Once the queue is paused tasks are picked only by threads that had tested
\* m_pauseCount before, each at most once.
THEOREM PausesHold == LateSpec => PauseOvertakenOnlyByLatePicks
<1>1. LateInit => IInv /\ LateInv
  BY InitIInv DEF LateInit, LateInv, Init
<1>2. IInv /\ [Next]_vars => IInv'
  BY TypeStep, FlagStep, TaskStep, PlaceStep DEF IInv
<1>3. IInv /\ LateInv /\ [LateNext]_lateVars => IInv' /\ LateInv'
  <2>1. ASSUME IInv, LateInv, LateNext PROVE IInv' /\ LateInv'
    BY <1>2, <2>1, LateStep DEF IInv, LateNext
  <2>2. ASSUME IInv, LateInv, UNCHANGED lateVars PROVE IInv' /\ LateInv'
    BY <1>2, <2>2 DEF lateVars, vars, LateInv
  <2>3. QED  BY <2>1, <2>2
<1>4. IInv /\ LateInv /\ [LateNext]_lateVars =>
        [(m_pauseCount > 0 /\ Chosen' \ Chosen # {}) => late' # late]_lateVars
  BY ChosenByLate
<1>5. QED  BY <1>1, <1>3, <1>4, PTL DEF LateSpec, PauseOvertakenOnlyByLatePicks
=============================================================================
