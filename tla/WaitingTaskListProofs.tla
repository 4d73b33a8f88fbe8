----------------------- MODULE WaitingTaskListProofs -----------------------
(***************************************************************************)
(* For any number of threads, any finite set of tasks, any size of the     *)
(* cache and any number of rounds: no task is let go before its signal or  *)
(* twice, the exception reaches those it is for, and no thread touches a   *)
(* node that is gone.                                                      *)
(***************************************************************************)
EXTENDS WaitingTaskList, FiniteSetTheorems, TLAPS

(* The strengthening.  None of the three is inductive: that a task is let   *)
(* go once rests on there being one way to its node.  So the pointers to    *)
(* nodes that wait are counted: the head, a thread's node or next, and      *)
(* m_next of another node that waits.  Each points to a node that waits,    *)
(* and no two to the same.                                                  *)

\* The nodes made in this round, and those whose task has not been let go.
Made == {c \in Cells : m_task[c] # Null /\ joined[m_task[c]] = round}
Waits == {c \in Made : spawns[m_task[c]] = 0}

Adds(t) == pc[t] \in {"test", "create"}
Builds(t) == pc[t] \in {"link", "attach", "terminate"}
Holds(t) == pc[t] \in {"link", "follow", "deliver"}
Follows(t) == pc[t] \in {"attach", "dispose"} /\ following[t] # Null
Linked(c) == m_next[c] \notin {c, Null}

\* What has happened in the round.
RoundInv ==
    /\ \A t \in Threads : pc[t] \in {"swap", "follow", "deliver", "dispose"} => ~m_waiting
    /\ \A t \in Threads : pc[t] \in {"fail", "open"} => m_waiting /\ signalled
    /\ \A t, u \in Threads : {pc[t], pc[u]} \subseteq {"fail", "open"} => t = u
    /\ ~signalled => m_waiting
    /\ array <= round
    /\ \A x \in Tasks : joined[x] # Null => joined[x] <= round
    /\ \A x \in Tasks : (joined[x] = Null => spawns[x] = 0) /\ (spawns[x] = 0 => x \notin failed)

\* The tasks that have no node yet.
TaskInv ==
    /\ \A t \in Threads : Adds(t) =>
          /\ task[t] \in Tasks /\ joined[task[t]] = round /\ spawns[task[t]] = 0
          /\ \A c \in Cells : m_task[c] # task[t]
    /\ \A t, u \in Threads : (Adds(t) /\ Adds(u) /\ task[t] = task[u]) => t = u
    /\ \A x \in Tasks : joined[x] = Null => \A c \in Cells : m_task[c] # x

Nodeless == {x \in Tasks : joined[x] = Null} \union {task[t] : t \in {u \in Threads : Adds(u)}}
RoomForNodes == m_lastAssignedCacheIndex + Cardinality(Nodeless) <= Cardinality(Tasks)

\* A node made in this round is the only one of its task, in the part of the
\* cache already assigned or on the heap.
NodeInv ==
    /\ \A c, d \in Made : m_task[c] = m_task[d] => c = d
    /\ \A c \in Made :
          \/ \E i \in 0 .. MaxSize : c = Cached(array, i) /\ i < m_lastAssignedCacheIndex /\ i < m_nodeCacheSize
          \/ c = OnHeap(m_task[c])
    /\ \A x \in Tasks : OnHeap(x) \in Waits => OnHeap(x) \in heap

PointersWait ==
    /\ m_head \in Waits \union {Null}
    /\ \A t \in Threads : Holds(t) => node[t] \in Waits
    /\ \A t \in Threads : Follows(t) => following[t] \in Waits
    /\ \A c \in Waits : Linked(c) => m_next[c] \in Waits

OnePointer ==
    /\ \A t \in Threads : Holds(t) => node[t] # m_head
    /\ \A t \in Threads : Follows(t) => following[t] # m_head
    /\ \A c \in Waits : Linked(c) => m_next[c] # m_head
    /\ \A t, u \in Threads : (Holds(t) /\ Holds(u) /\ node[t] = node[u]) => t = u
    /\ \A t, u \in Threads : (Holds(t) /\ Follows(u)) => node[t] # following[u]
    /\ \A t \in Threads, c \in Waits : (Holds(t) /\ Linked(c)) => m_next[c] # node[t]
    /\ \A t, u \in Threads : (Follows(t) /\ Follows(u) /\ following[t] = following[u]) => t = u
    /\ \A t \in Threads, c \in Waits : (Follows(t) /\ Linked(c)) => m_next[c] # following[t]
    /\ \A c, d \in Waits : (Linked(c) /\ Linked(d) /\ m_next[c] = m_next[d]) => c = d

\* A node whose add() is not over points to itself, which keeps announce()
\* from it; one that was let go belongs to the thread that disposes of it.
ThreadInv ==
    /\ \A t \in Threads : Builds(t) => node[t] \in Waits /\ m_next[node[t]] = node[t]
    /\ \A t, u \in Threads : (Builds(t) /\ Builds(u) /\ node[t] = node[u]) => t = u
    /\ \A t \in Threads : pc[t] = "attach" => following[t] \notin {Null, node[t]}
    /\ \A t \in Threads : pc[t] = "terminate" => following[t] = Null
    /\ \A t \in Threads : pc[t] = "deliver" =>
          following[t] = m_next[node[t]] /\ following[t] # node[t]
    /\ \A t \in Threads : pc[t] = "dispose" =>
          /\ node[t] \in Made \ Waits
          /\ \A x \in Tasks : node[t] = OnHeap(x) => node[t] \in heap
    /\ \A t, u \in Threads : (pc[t] = "dispose" /\ pc[u] = "dispose" /\ node[t] = node[u]) => t = u

IInv ==
    /\ TypeOK /\ RoundInv /\ TaskInv /\ RoomForNodes
    /\ NodeInv /\ PointersWait /\ OnePointer /\ ThreadInv
    /\ NotBeforeDone /\ ExceptionReachesAll

-----------------------------------------------------------------------------

\* The cells of the arrays and of the heap are different, and none is Null.
LEMMA CellFacts ==
  /\ Null \notin Cells /\ Null \notin Tasks /\ Null \notin Nat
  /\ \A a, i, x : Cached(a, i) # OnHeap(x)
  /\ \A a, i, b, j : Cached(a, i) = Cached(b, j) => a = b /\ i = j
  /\ \A x, y : OnHeap(x) = OnHeap(y) => x = y
  /\ \A x \in Tasks : OnHeap(x) \in Cells
  /\ \A a \in 0 .. MaxResets, i \in 0 .. MaxSize : Cached(a, i) \in Cells
BY NullAssumption DEF Cells, Cached, OnHeap

\* The sizes are numbers.
LEMMA SizeFacts ==
  /\ MaxSize \in Nat /\ InitialSize \in 0 .. MaxSize /\ Cardinality(Tasks) \in 0 .. MaxSize
  /\ MaxResets \in Nat /\ Cardinality(Tasks) \in Nat
<1>1. Cardinality(Tasks) \in Nat
  BY SizeAssumption, FS_CardinalityType
<1>2. QED  BY <1>1, SizeAssumption DEF MaxSize

\* The constructor: an empty list that waits, room for every task.
LEMMA InitIInv == Init => IInv
<1> SUFFICES ASSUME Init PROVE IInv
  OBVIOUS
<1> USE SizeFacts DEF Init
<1>1. Made = {} /\ Waits = {} /\ \A t \in Threads : ~Adds(t) /\ ~Builds(t) /\ ~Holds(t) /\ ~Follows(t)
  BY DEF Made, Waits, Adds, Builds, Holds, Follows
<1>2. TypeOK
  <2>1. m_nodeCacheSize \in 0 .. MaxSize /\ m_lastAssignedCacheIndex \in 0 .. Cardinality(Tasks)
    BY SizeFacts
  <2>2. /\ pc \in [Threads -> ThreadState] /\ task \in [Threads -> Tasks \union {Null}]
        /\ node \in [Threads -> Cells \union {Null}] /\ following \in [Threads -> Cells \union {Null}]
    BY DEF ThreadState
  <2>3. /\ m_task \in [Cells -> Tasks \union {Null}] /\ m_next \in [Cells -> Cells \union {Null}]
        /\ joined \in [Tasks -> 0..MaxResets \union {Null}] /\ spawns \in [Tasks -> 0..1]
    OBVIOUS
  <2>4. array \in 0..MaxResets /\ round \in 0..MaxResets
    BY SizeFacts
  <2>5. QED  BY <2>1, <2>2, <2>3, <2>4 DEF TypeOK
<1>3. Cardinality(Nodeless) <= Cardinality(Tasks)
  <2>1. Nodeless \in SUBSET Tasks
    BY <1>1 DEF Nodeless
  <2>2. QED  BY <2>1, SizeAssumption, FS_Subset
<1>4. Cardinality(Nodeless) \in Nat
  <2>1. Nodeless \in SUBSET Tasks
    BY <1>1 DEF Nodeless
  <2>2. QED  BY <2>1, SizeAssumption, FS_Subset, FS_CardinalityType
<1>5. RoundInv /\ NotBeforeDone /\ ExceptionReachesAll
  BY DEF RoundInv, NotBeforeDone, ExceptionReachesAll
<1>6. TaskInv /\ RoomForNodes
  <2>1. TaskInv
    BY <1>1, NullAssumption DEF TaskInv
  <2>2. RoomForNodes
    BY <1>3, <1>4 DEF RoomForNodes
  <2>3. QED  BY <2>1, <2>2
<1>7. NodeInv /\ PointersWait /\ OnePointer
  BY <1>1 DEF NodeInv, PointersWait, OnePointer
<1>8. ThreadInv
  BY <1>1 DEF ThreadInv
<1>9. QED  BY <1>2, <1>5, <1>6, <1>7, <1>8 DEF IInv

-----------------------------------------------------------------------------

\* A thread in add() before it has made a node has a task that has none.
LEMMA TaskToAdd ==
  ASSUME IInv, NEW t \in Threads, Adds(t)
  PROVE  /\ task[t] \in Tasks /\ joined[task[t]] = round /\ spawns[task[t]] = 0 /\ task[t] \notin failed
         /\ task[t] # Null /\ \A c \in Cells : m_task[c] # task[t]
         /\ task[t] \in Nodeless
BY NullAssumption DEF IInv, TaskInv, RoundInv, Nodeless

\* A node that waits has a task of this round, not yet let go.
LEMMA WaitingNode ==
  ASSUME IInv, NEW c \in Waits
  PROVE  /\ c \in Cells /\ c # Null /\ m_task[c] \in Tasks /\ joined[m_task[c]] = round
         /\ spawns[m_task[c]] = 0 /\ m_task[c] \notin failed
BY NullAssumption DEF IInv, TypeOK, RoundInv, Waits, Made

\* The tasks without a node can be counted.
LEMMA NodelessCount ==
  ASSUME IInv
  PROVE  /\ IsFiniteSet(Nodeless) /\ Cardinality(Nodeless) \in Nat
         /\ Nodeless \in SUBSET Tasks
<1>1. Nodeless \in SUBSET Tasks
  BY TaskToAdd DEF Nodeless
<1>2. QED  BY <1>1, SizeAssumption, FS_Subset, FS_CardinalityType

NewNode(t) == IF m_lastAssignedCacheIndex < m_nodeCacheSize
              THEN Cached(array, m_lastAssignedCacheIndex)
              ELSE OnHeap(task[t])

\* The node that createNode makes is in no use (WaitingTaskList.cc:88-108).
LEMMA NewNodeIsFree ==
  ASSUME IInv, NEW t \in Threads, pc[t] = "create"
  PROVE  /\ NewNode(t) \in Cells /\ NewNode(t) \notin Made
         /\ m_lastAssignedCacheIndex < Cardinality(Tasks)
<1>1. Adds(t)
  BY DEF Adds
<1>2. task[t] \in Tasks /\ task[t] \in Nodeless /\ \A c \in Cells : m_task[c] # task[t]
  BY <1>1, TaskToAdd
<1>3. m_lastAssignedCacheIndex < Cardinality(Tasks)
  <2>1. Cardinality(Nodeless) # 0
    BY <1>2, NodelessCount, FS_EmptySet
  <2>2. QED  BY <2>1, NodelessCount, SizeFacts DEF IInv, TypeOK, RoomForNodes
<1>4. CASE m_lastAssignedCacheIndex < m_nodeCacheSize
  <2>1. NewNode(t) = Cached(array, m_lastAssignedCacheIndex)
    BY <1>4 DEF NewNode
  <2>2. m_lastAssignedCacheIndex \in 0 .. MaxSize /\ array \in 0 .. MaxResets
    BY <1>4, SizeFacts DEF IInv, TypeOK
  <2>3. NewNode(t) \in Cells
    BY <2>1, <2>2, CellFacts
  <2>4. ASSUME NewNode(t) \in Made PROVE FALSE
    <3>1. CASE NewNode(t) = OnHeap(m_task[NewNode(t)])
      BY <2>1, <3>1, CellFacts
    <3>2. ASSUME NEW i \in 0 .. MaxSize, NewNode(t) = Cached(array, i), i < m_lastAssignedCacheIndex
          PROVE  FALSE
      <4>1. i = m_lastAssignedCacheIndex
        BY <2>1, <3>2, CellFacts
      <4>2. QED  BY <2>2, <3>2, <4>1, SizeFacts
    <3>3. QED  BY <2>4, <3>1, <3>2 DEF IInv, NodeInv
  <2>5. QED  BY <1>3, <2>3, <2>4
<1>5. CASE ~(m_lastAssignedCacheIndex < m_nodeCacheSize)
  <2>1. NewNode(t) = OnHeap(task[t])
    BY <1>5 DEF NewNode
  <2>2. NewNode(t) \in Cells
    BY <1>2, <2>1, CellFacts
  <2>3. ASSUME NewNode(t) \in Made PROVE FALSE
    <3>1. CASE NewNode(t) = OnHeap(m_task[NewNode(t)])
      BY <1>2, <2>1, <2>2, <3>1, CellFacts
    <3>2. ASSUME NEW i \in 0 .. MaxSize, NewNode(t) = Cached(array, i)
          PROVE  FALSE
      BY <2>1, <3>2, CellFacts
    <3>3. QED  BY <2>3, <3>1, <3>2 DEF IInv, NodeInv
  <2>4. QED  BY <1>3, <2>2, <2>3
<1>6. QED  BY <1>4, <1>5

\* Every access to the list keeps its types (WaitingTaskList.cc:62-184).
LEMMA TypeStep ==
  ASSUME IInv, [Next]_vars
  PROVE  TypeOK'
<1> USE SizeFacts, NullAssumption DEF TypeOK, ThreadState
<1> TypeOK
  BY DEF IInv
<1>1. CASE UNCHANGED vars
  BY <1>1 DEF vars, list, nodes, locals, history
<1>2. ASSUME NEW t \in Threads, NEW x \in Tasks, CallAdd(t, x)
      PROVE  TypeOK'
  BY <1>2 DEF CallAdd, Goto, Keep, Return, Deliver, list, nodes, history
<1>3. ASSUME NEW t \in Threads, TestWaiting(t)
      PROVE  TypeOK'
  <2>1. task[t] \in Tasks /\ spawns[task[t]] = 0
    BY <1>3, TaskToAdd DEF TestWaiting, Adds
  <2>2. QED  BY <1>3, <2>1 DEF TestWaiting, Goto, Keep, Return, Deliver, nodes, list, history
<1>4. ASSUME NEW t \in Threads, CreateNode(t)
      PROVE  TypeOK'
  <2>1. task[t] \in Tasks /\ NewNode(t) \in Cells /\ m_lastAssignedCacheIndex < Cardinality(Tasks)
    BY <1>4, TaskToAdd, NewNodeIsFree DEF CreateNode, Adds
  <2>2. /\ heap' \in {heap, heap \union {OnHeap(task[t])}}
        /\ m_task' = [m_task EXCEPT ![NewNode(t)] = task[t]]
        /\ m_next' = [m_next EXCEPT ![NewNode(t)] = NewNode(t)]
        /\ node' = [node EXCEPT ![t] = NewNode(t)]
    BY <1>4 DEF CreateNode, NewNode
  <2>3. QED  BY <1>4, <2>1, <2>2 DEF CreateNode, Goto, history
<1>5. ASSUME NEW t \in Threads, ExchangeHead(t)
      PROVE  TypeOK'
  BY <1>5 DEF ExchangeHead, Goto, Keep, Return, Deliver, list, nodes, history
<1>6. ASSUME NEW t \in Threads, SetNextNode(t)
      PROVE  TypeOK'
  BY <1>6 DEF SetNextNode, Goto, Keep, Return, Deliver, list, nodes, history
<1>7. ASSUME NEW t \in Threads, RetestWaiting(t)
      PROVE  TypeOK'
  BY <1>7 DEF RetestWaiting, Goto, Keep, Return, Deliver, list, nodes, history
<1>8. ASSUME NEW t \in Threads, CallDoneWaiting(t)
      PROVE  TypeOK'
  BY <1>8 DEF CallDoneWaiting, Goto, Keep, Return, Deliver, list, nodes, history
<1>9. ASSUME NEW t \in Threads, NEW e \in BOOLEAN, DoneWaiting(t, e)
      PROVE  TypeOK'
  BY <1>9 DEF DoneWaiting, Goto, Keep, Return, Deliver, list, nodes, history
<1>10. ASSUME NEW t \in Threads, TakeHead(t)
      PROVE  TypeOK'
  BY <1>10 DEF TakeHead, Goto, Keep, Return, Deliver, list, nodes, history
<1>11. ASSUME NEW t \in Threads, NextNode(t)
      PROVE  TypeOK'
  <2>1. node[t] \in Cells
    BY <1>11 DEF NextNode, IInv, PointersWait, Holds, Waits, Made
  <2>2. QED  BY <1>11, <2>1 DEF NextNode, Goto, list, nodes, history
<1>12. ASSUME NEW t \in Threads, Announce(t)
      PROVE  TypeOK'
  <2>1. m_task[node[t]] \in Tasks /\ spawns[m_task[node[t]]] = 0
    BY <1>12, WaitingNode DEF Announce, IInv, PointersWait, Holds
  <2>2. QED  BY <1>12, <2>1 DEF Announce, Goto, Keep, Deliver, nodes, list
<1>13. ASSUME NEW t \in Threads, Dispose(t)
      PROVE  TypeOK'
  BY <1>13 DEF Dispose, Goto, Keep, Return, Deliver, list, nodes, history
<1>14. CASE Reset
  <2>1. array < MaxResets /\ m_lastAssignedCacheIndex \in 0 .. MaxSize /\ round + 1 \in 0 .. MaxResets
    BY <1>14 DEF Reset, IInv, RoundInv
  <2>2. m_nodeCacheSize' \in 0 .. MaxSize /\ array' \in 0 .. MaxResets
    BY <1>14, <2>1 DEF Reset
  <2>3. /\ m_exceptionPtr' = FALSE /\ m_waiting' = TRUE /\ signalled' = FALSE /\ round' = round + 1
        /\ m_lastAssignedCacheIndex' \in 0 .. Cardinality(Tasks)
    BY <1>14 DEF Reset
  <2>4. UNCHANGED <<m_head, heap, m_task, m_next, pc, node, following, task, joined, spawns, failed>>
    BY <1>14 DEF Reset, nodes, locals
  <2>5. QED  BY <2>1, <2>2, <2>3, <2>4
<1>15. QED
  BY <1>1, <1>2, <1>3, <1>4, <1>5, <1>6, <1>7, <1>8, <1>9, <1>10, <1>11, <1>12, <1>13, <1>14 DEF Next, Step, Add

\* reset() begins another round.
LEMMA RoundAtReset ==
  ASSUME IInv, Reset
  PROVE  RoundInv'
<1>1. /\ pc' = pc /\ joined' = joined /\ spawns' = spawns /\ failed' = failed
      /\ m_waiting' = TRUE /\ signalled' = FALSE /\ round' = round + 1 /\ array' \in {array, array + 1}
  BY DEF Reset, locals
<1>2. \A u \in Threads : pc'[u] = "idle"
  BY <1>1 DEF Reset, MayReset, Quiet
<1>3. array \in Nat /\ round \in Nat /\ array <= round
  BY SizeFacts DEF IInv, TypeOK, RoundInv
<1>4. \A x \in Tasks : joined[x] # Null => joined[x] \in Nat /\ joined[x] <= round
  BY SizeFacts DEF IInv, TypeOK, RoundInv
<1>5. \A x \in Tasks : joined'[x] # Null => joined'[x] <= round'
  BY <1>1, <1>3, <1>4
<1>6. array' <= round'
  BY <1>1, <1>3
<1>7. \A x \in Tasks : (joined'[x] = Null => spawns'[x] = 0) /\ (spawns'[x] = 0 => x \notin failed')
  BY <1>1 DEF IInv, RoundInv
<1>8. QED  BY <1>1, <1>2, <1>5, <1>6, <1>7 DEF RoundInv

\* Every step keeps what is known of the round.
LEMMA RoundStep ==
  ASSUME IInv, [Next]_vars
  PROVE  RoundInv'
<1> USE SizeFacts, NullAssumption DEF TypeOK, ThreadState, RoundInv
<1> TypeOK /\ RoundInv
  BY DEF IInv
<1>1. CASE UNCHANGED vars
  BY <1>1 DEF vars, list, nodes, locals, history
<1>2. ASSUME NEW t \in Threads, NEW x \in Tasks, CallAdd(t, x)
      PROVE  RoundInv'
  BY <1>2 DEF CallAdd, Goto, Keep, Return, Deliver, list, nodes, history
<1>3. ASSUME NEW t \in Threads, TestWaiting(t)
      PROVE  RoundInv'
  <2>1. task[t] \in Tasks /\ spawns[task[t]] = 0 /\ joined[task[t]] # Null
    BY <1>3, TaskToAdd DEF TestWaiting, Adds
  <2>2. QED  BY <1>3, <2>1 DEF TestWaiting, Goto, Keep, Return, Deliver, nodes, list, history
<1>4. ASSUME NEW t \in Threads, CreateNode(t)
      PROVE  RoundInv'
  BY <1>4 DEF CreateNode, Goto, Keep, Return, Deliver, list, nodes, history
<1>5. ASSUME NEW t \in Threads, ExchangeHead(t)
      PROVE  RoundInv'
  BY <1>5 DEF ExchangeHead, Goto, Keep, Return, Deliver, list, nodes, history
<1>6. ASSUME NEW t \in Threads, SetNextNode(t)
      PROVE  RoundInv'
  BY <1>6 DEF SetNextNode, Goto, Keep, Return, Deliver, list, nodes, history
<1>7. ASSUME NEW t \in Threads, RetestWaiting(t)
      PROVE  RoundInv'
  BY <1>7 DEF RetestWaiting, Goto, Keep, Return, Deliver, list, nodes, history
<1>8. ASSUME NEW t \in Threads, CallDoneWaiting(t)
      PROVE  RoundInv'
  BY <1>8 DEF CallDoneWaiting, Goto, Keep, Return, Deliver, list, nodes, history
<1>9. ASSUME NEW t \in Threads, NEW e \in BOOLEAN, DoneWaiting(t, e)
      PROVE  RoundInv'
  BY <1>9 DEF DoneWaiting, Goto, Keep, Return, Deliver, list, nodes, history
<1>10. ASSUME NEW t \in Threads, TakeHead(t)
      PROVE  RoundInv'
  BY <1>10 DEF TakeHead, Goto, Keep, Return, Deliver, list, nodes, history
<1>11. ASSUME NEW t \in Threads, NextNode(t)
      PROVE  RoundInv'
  BY <1>11 DEF NextNode, Goto, Keep, Return, Deliver, list, nodes, history
<1>12. ASSUME NEW t \in Threads, Announce(t)
      PROVE  RoundInv'
  <2>1. m_task[node[t]] \in Tasks /\ spawns[m_task[node[t]]] = 0 /\ joined[m_task[node[t]]] # Null
    BY <1>12, WaitingNode DEF Announce, IInv, PointersWait, Holds
  <2>2. QED  BY <1>12, <2>1 DEF Announce, Goto, Keep, Deliver, nodes, list
<1>13. ASSUME NEW t \in Threads, Dispose(t)
      PROVE  RoundInv'
  BY <1>13 DEF Dispose, Goto, Keep, Return, Deliver, list, nodes, history
<1>14. CASE Reset
  BY <1>14, RoundAtReset
<1>15. QED
  BY <1>1, <1>2, <1>3, <1>4, <1>5, <1>6, <1>7, <1>8, <1>9, <1>10, <1>11, <1>12, <1>13, <1>14 DEF Next, Step, Add

-----------------------------------------------------------------------------

\* The nodes of the round and those that wait change with m_task, joined, spawns
\* and round alone.
LEMMA SameSets ==
  ASSUME UNCHANGED <<m_task, joined, spawns, round>>
  PROVE  Made' = Made /\ Waits' = Waits
BY DEF Made, Waits

\* A call of add() makes no node yet.
LEMMA SetsAtCall ==
  ASSUME IInv, NEW t \in Threads, NEW x \in Tasks, CallAdd(t, x)
  PROVE  Made' = Made /\ Waits' = Waits
<1>1. \A c \in Cells : m_task[c] # x
  BY DEF CallAdd, IInv, TaskInv
<1>2. /\ m_task' = m_task /\ spawns' = spawns /\ round' = round
      /\ \A c \in Cells : m_task[c] # Null => joined'[m_task[c]] = joined[m_task[c]]
  BY <1>1 DEF CallAdd, nodes, IInv, TypeOK
<1>3. Made' = Made
  BY <1>2 DEF Made
<1>4. QED  BY <1>2, <1>3 DEF Waits

\* A task that is let go at once has no node.
LEMMA SetsAtTest ==
  ASSUME IInv, NEW t \in Threads, TestWaiting(t)
  PROVE  Made' = Made /\ Waits' = Waits
<1>1. task[t] \in Tasks /\ \A c \in Cells : m_task[c] # task[t]
  BY TaskToAdd DEF TestWaiting, Adds
<1>2. /\ m_task' = m_task /\ joined' = joined /\ round' = round
      /\ \A c \in Cells : m_task[c] # Null => spawns'[m_task[c]] = spawns[m_task[c]]
  BY <1>1 DEF TestWaiting, Deliver, nodes, history, IInv, TypeOK
<1>3. Made' = Made
  BY <1>2 DEF Made
<1>4. Waits' = {c \in Made : spawns'[m_task[c]] = 0}
  BY <1>2, <1>3 DEF Waits
<1>5. QED  BY <1>2, <1>4 DEF Waits, Made

\* createNode adds its node to both.
LEMMA SetsAtCreate ==
  ASSUME IInv, NEW t \in Threads, CreateNode(t)
  PROVE  /\ Made' = Made \union {NewNode(t)} /\ Waits' = Waits \union {NewNode(t)}
         /\ NewNode(t) \notin Made /\ NewNode(t) \in Cells /\ NewNode(t) # Null
         /\ m_task' = [m_task EXCEPT ![NewNode(t)] = task[t]]
         /\ m_next' = [m_next EXCEPT ![NewNode(t)] = NewNode(t)]
         /\ node' = [node EXCEPT ![t] = NewNode(t)]
         /\ pc' = [pc EXCEPT ![t] = "link"]
<1> DEFINE n == NewNode(t)
<1>1. n \in Cells /\ n \notin Made /\ n # Null
  BY NewNodeIsFree, CellFacts DEF CreateNode
<1>2. task[t] \in Tasks /\ joined[task[t]] = round /\ spawns[task[t]] = 0 /\ task[t] # Null
  BY TaskToAdd DEF CreateNode, Adds
<1>3. /\ m_task' = [m_task EXCEPT ![n] = task[t]] /\ m_next' = [m_next EXCEPT ![n] = n]
      /\ node' = [node EXCEPT ![t] = n] /\ pc' = [pc EXCEPT ![t] = "link"]
      /\ joined' = joined /\ spawns' = spawns /\ round' = round
  BY DEF CreateNode, NewNode, Goto, history
<1> HIDE DEF n
<1>4. m_task'[n] = task[t] /\ \A c \in Cells \ {n} : m_task'[c] = m_task[c]
  BY <1>1, <1>3 DEF IInv, TypeOK
<1>5. Made' = Made \union {n}
  BY <1>1, <1>2, <1>3, <1>4 DEF Made
<1>6. \A c \in Made : c # n /\ m_task'[c] = m_task[c]
  BY <1>1, <1>4 DEF Made
<1>7. Waits' = Waits \union {n}
  BY <1>2, <1>3, <1>4, <1>5, <1>6 DEF Waits
<1>8. QED  BY <1>1, <1>3, <1>5, <1>7 DEF n

\* announce() lets the task of one node go, and it has no other node.
LEMMA SetsAtAnnounce ==
  ASSUME IInv, NEW t \in Threads, Announce(t)
  PROVE  /\ Made' = Made /\ Waits' = Waits \ {node[t]} /\ node[t] \in Waits
         /\ m_task[node[t]] \in Tasks /\ joined[m_task[node[t]]] = round
         /\ spawns[m_task[node[t]]] = 0 /\ m_task[node[t]] \notin failed
         /\ spawns' = [spawns EXCEPT ![m_task[node[t]]] = 1]
<1> DEFINE x == m_task[node[t]]
<1>1. node[t] \in Waits
  BY DEF Announce, IInv, PointersWait, Holds
<1>2. x \in Tasks /\ joined[x] = round /\ spawns[x] = 0 /\ x \notin failed
  BY <1>1, WaitingNode
<1>3. /\ spawns' = [spawns EXCEPT ![x] = 1]
      /\ m_task' = m_task /\ joined' = joined /\ round' = round
  BY <1>2 DEF Announce, Deliver, nodes, IInv, TypeOK
<1>4. Made' = Made
  BY <1>3 DEF Made
<1>5. \A c \in Made : m_task[c] = x <=> c = node[t]
  BY <1>1 DEF Waits, IInv, NodeInv
<1>6. \A c \in Made : m_task[c] \in Tasks
  BY DEF Made, IInv, TypeOK
<1>7. \A c \in Made : spawns'[m_task[c]] = 0 <=> (spawns[m_task[c]] = 0 /\ c # node[t])
  BY <1>2, <1>3, <1>5, <1>6 DEF IInv, TypeOK
<1>8. Waits' = Waits \ {node[t]}
  BY <1>3, <1>4, <1>7 DEF Waits
<1>9. QED  BY <1>1, <1>2, <1>3, <1>4, <1>8

\* When reset() may be called nothing waits, and the list is empty
\* (the assert of reset(), WaitingTaskList.cc:68).
LEMMA SetsAtReset ==
  ASSUME IInv, Reset
  PROVE  /\ Waits = {} /\ Made' = {} /\ Waits' = {} /\ m_head = Null
         /\ \A t \in Threads : pc[t] = "idle"
<1>1. \A t \in Threads : pc[t] = "idle"
  BY DEF Reset, MayReset, Quiet
<1>2. Waits = {}
  <2>1. ASSUME NEW c \in Waits PROVE FALSE
    <3>1. m_task[c] \in Tasks /\ joined[m_task[c]] = round /\ spawns[m_task[c]] = 0
      BY <2>1, WaitingNode
    <3>2. round # Null
      BY NullAssumption, SizeFacts DEF IInv, TypeOK
    <3>3. QED  BY <3>1, <3>2 DEF Reset, MayReset, AllSpawned
  <2>2. QED  BY <2>1
<1>3. Made' = {}
  <2>1. ASSUME NEW c \in Made' PROVE FALSE
    <3>1. m_task[c] \in Tasks /\ joined[m_task[c]] = round + 1
      BY <2>1 DEF Made, Reset, nodes, IInv, TypeOK
    <3>2. round \in Nat /\ round + 1 # Null
      BY NullAssumption, SizeFacts DEF IInv, TypeOK
    <3>3. QED  BY <3>1, <3>2 DEF IInv, RoundInv
  <2>2. QED  BY <2>1
<1>4. m_head = Null
  BY <1>2 DEF IInv, PointersWait
<1>5. QED  BY <1>1, <1>2, <1>3, <1>4 DEF Waits

-----------------------------------------------------------------------------

\* Every step keeps the tasks without a node apart from those that have one.
LEMMA TaskStep ==
  ASSUME IInv, [Next]_vars
  PROVE  TaskInv'
<1> USE NullAssumption, SizeFacts DEF TypeOK, ThreadState
<1> TypeOK /\ TaskInv
  BY DEF IInv
<1>1. CASE UNCHANGED vars
  BY <1>1 DEF TaskInv, Adds, vars, list, nodes, locals, history
<1>2. ASSUME NEW t \in Threads, NEW x \in Tasks, CallAdd(t, x)
      PROVE  TaskInv'
  <2>1. /\ task' = [task EXCEPT ![t] = x] /\ joined' = [joined EXCEPT ![x] = round] /\ joined[x] = Null
        /\ pc' = [pc EXCEPT ![t] = "test"] /\ round' = round /\ spawns' = spawns /\ m_task' = m_task
    BY <1>2 DEF CallAdd, Goto, nodes
  <2>2. spawns[x] = 0 /\ (\A c \in Cells : m_task[c] # x) /\ round # Null
    BY <2>1 DEF IInv, RoundInv, TaskInv
  <2>3. \A u \in Threads \ {t} : (Adds(u)' <=> Adds(u)) /\ task'[u] = task[u]
    BY <2>1 DEF Adds
  <2>4. \A u \in Threads \ {t} : Adds(u) => task[u] # x
    BY <2>1, <2>2 DEF TaskInv
  <2>5. task'[t] = x /\ joined'[x] = round /\ \A y \in Tasks \ {x} : joined'[y] = joined[y]
    BY <2>1
  <2>6. \A u \in Threads : Adds(u)' =>
          /\ task'[u] \in Tasks /\ joined'[task'[u]] = round' /\ spawns'[task'[u]] = 0
          /\ \A c \in Cells : m_task'[c] # task'[u]
    BY <2>1, <2>2, <2>3, <2>4, <2>5 DEF TaskInv
  <2>7. \A u, v \in Threads : (Adds(u)' /\ Adds(v)' /\ task'[u] = task'[v]) => u = v
    BY <2>3, <2>4, <2>5 DEF TaskInv
  <2>8. \A y \in Tasks : joined'[y] = Null => \A c \in Cells : m_task'[c] # y
    BY <2>1, <2>2, <2>5 DEF TaskInv
  <2>9. QED  BY <2>6, <2>7, <2>8 DEF TaskInv
<1>3. ASSUME NEW t \in Threads, TestWaiting(t)
      PROVE  TaskInv'
  <2>1. task[t] \in Tasks /\ joined[task[t]] # Null /\ Adds(t)
    BY <1>3, TaskToAdd DEF TestWaiting, Adds
  <2>2. QED  BY <1>3, <2>1 DEF TestWaiting, Goto, Keep, Return, Deliver, nodes, list, history, TaskInv, Adds
<1>4. ASSUME NEW t \in Threads, CreateNode(t)
      PROVE  TaskInv'
  <2>1. /\ m_task' = [m_task EXCEPT ![NewNode(t)] = task[t]] /\ NewNode(t) \in Cells
        /\ pc' = [pc EXCEPT ![t] = "link"] /\ task' = task /\ joined' = joined /\ spawns' = spawns
        /\ round' = round /\ pc[t] = "create"
    BY <1>4, SetsAtCreate DEF CreateNode, history
  <2>2. \A c \in Cells : m_task'[c] \in {m_task[c], task[t]}
    BY <2>1
  <2>3. Adds(t) /\ task[t] \in Tasks /\ joined[task[t]] = round /\ round # Null
    BY <2>1, TaskToAdd DEF Adds
  <2>4. \A u \in Threads : Adds(u)' => Adds(u) /\ task[u] # task[t]
    BY <2>1, <2>3 DEF Adds, TaskInv
  <2>5. QED  BY <2>1, <2>2, <2>3, <2>4 DEF TaskInv
<1>5. ASSUME NEW t \in Threads, ExchangeHead(t)
      PROVE  TaskInv'
  BY <1>5 DEF TaskInv, Adds, ExchangeHead, Goto, Keep, Return, Deliver, list, nodes, history
<1>6. ASSUME NEW t \in Threads, SetNextNode(t)
      PROVE  TaskInv'
  BY <1>6 DEF TaskInv, Adds, SetNextNode, Goto, Keep, Return, Deliver, list, nodes, history
<1>7. ASSUME NEW t \in Threads, RetestWaiting(t)
      PROVE  TaskInv'
  BY <1>7 DEF TaskInv, Adds, RetestWaiting, Goto, Keep, Return, Deliver, list, nodes, history
<1>8. ASSUME NEW t \in Threads, CallDoneWaiting(t)
      PROVE  TaskInv'
  BY <1>8 DEF TaskInv, Adds, CallDoneWaiting, Goto, Keep, Return, Deliver, list, nodes, history
<1>9. ASSUME NEW t \in Threads, NEW e \in BOOLEAN, DoneWaiting(t, e)
      PROVE  TaskInv'
  BY <1>9 DEF TaskInv, Adds, DoneWaiting, Goto, Keep, Return, Deliver, list, nodes, history
<1>10. ASSUME NEW t \in Threads, TakeHead(t)
      PROVE  TaskInv'
  BY <1>10 DEF TaskInv, Adds, TakeHead, Goto, Keep, Return, Deliver, list, nodes, history
<1>11. ASSUME NEW t \in Threads, NextNode(t)
      PROVE  TaskInv'
  BY <1>11 DEF TaskInv, Adds, NextNode, Goto, Keep, Return, Deliver, list, nodes, history
<1>12. ASSUME NEW t \in Threads, Announce(t)
      PROVE  TaskInv'
  <2>1. /\ \A u \in Threads : Adds(u)' <=> Adds(u)
        /\ task' = task /\ m_task' = m_task /\ joined' = joined /\ round' = round
    BY <1>12 DEF Announce, Goto, Keep, Deliver, nodes, Adds
  <2>2. m_task[node[t]] \in Tasks /\ node[t] \in Cells /\ spawns' = [spawns EXCEPT ![m_task[node[t]]] = 1]
    BY <1>12, SetsAtAnnounce DEF Waits, Made
  <2>3. QED  BY <2>1, <2>2 DEF TaskInv
<1>13. ASSUME NEW t \in Threads, Dispose(t)
      PROVE  TaskInv'
  BY <1>13 DEF TaskInv, Adds, Dispose, Goto, Keep, Return, Deliver, list, nodes, history
<1>14. CASE Reset
  <2>1. \A u \in Threads : ~Adds(u)'
    BY <1>14, SetsAtReset DEF Reset, locals, Adds
  <2>2. QED  BY <1>14, <2>1 DEF Reset, nodes, TaskInv
<1>15. QED
  BY <1>1, <1>2, <1>3, <1>4, <1>5, <1>6, <1>7, <1>8, <1>9, <1>10, <1>11, <1>12, <1>13, <1>14 DEF Next, Step, Add

\* Every step keeps room in the numbers of the cells for the tasks without a node.
LEMMA RoomStep ==
  ASSUME IInv, [Next]_vars
  PROVE  RoomForNodes'
<1> RoomForNodes /\ Cardinality(Nodeless) \in Nat /\ IsFiniteSet(Nodeless)
  BY NodelessCount DEF IInv
<1>a. pc \in [Threads -> ThreadState] /\ task \in [Threads -> Tasks \union {Null}] /\ joined \in [Tasks -> 0..MaxResets \union {Null}]
  BY DEF IInv, TypeOK
<1>b. ASSUME joined' = joined, m_lastAssignedCacheIndex' = m_lastAssignedCacheIndex,
             \A u \in Threads : (Adds(u)' <=> Adds(u)) /\ (Adds(u) => task'[u] = task[u])
      PROVE  RoomForNodes'
  <2>1. Nodeless' = Nodeless
    BY <1>b DEF Nodeless
  <2>2. QED  BY <1>b, <2>1 DEF RoomForNodes
<1>c. m_lastAssignedCacheIndex \in Nat /\ Cardinality(Tasks) \in Nat
  BY SizeFacts DEF IInv, TypeOK
<1>1. CASE UNCHANGED vars
  BY <1>1, <1>b DEF vars, list, locals, history, Adds
<1>2. ASSUME NEW t \in Threads, NEW x \in Tasks, CallAdd(t, x)
      PROVE  RoomForNodes'
  <2>1. /\ task' = [task EXCEPT ![t] = x] /\ joined' = [joined EXCEPT ![x] = round] /\ joined[x] = Null
        /\ pc' = [pc EXCEPT ![t] = "test"] /\ m_lastAssignedCacheIndex' = m_lastAssignedCacheIndex /\ ~Adds(t)
    BY <1>2 DEF CallAdd, Goto, list, Adds
  <2>2. round # Null
    BY NullAssumption, SizeFacts DEF IInv, TypeOK
  <2>3. {u \in Threads : Adds(u)}' = {u \in Threads : Adds(u)} \union {t}
    BY <1>a, <2>1 DEF Adds
  <2>4. {task[u] : u \in {v \in Threads : Adds(v)}}' = {task[u] : u \in {v \in Threads : Adds(v)}} \union {x}
    BY <1>a, <2>1, <2>3
  <2>5. {y \in Tasks : joined[y] = Null}' = {y \in Tasks : joined[y] = Null} \ {x} /\ x \in {y \in Tasks : joined[y] = Null}
    BY <1>a, <2>1, <2>2
  <2>6. Nodeless' = Nodeless
    BY <2>4, <2>5 DEF Nodeless
  <2>7. QED  BY <2>1, <2>6 DEF RoomForNodes
<1>3. ASSUME NEW t \in Threads, TestWaiting(t)
      PROVE  RoomForNodes'
  <2>1. joined' = joined /\ m_lastAssignedCacheIndex' = m_lastAssignedCacheIndex
    BY <1>3 DEF TestWaiting, Deliver, history, list
  <2>2. \A u \in Threads : Adds(u)' => Adds(u) /\ task'[u] = task[u]
    BY <1>3, <1>a DEF TestWaiting, Goto, Keep, Return, Adds
  <2>3. Nodeless' \in SUBSET Nodeless
    BY <2>1, <2>2 DEF Nodeless
  <2>4. Cardinality(Nodeless') \in Nat /\ Cardinality(Nodeless') <= Cardinality(Nodeless)
    BY <2>3, FS_Subset, FS_CardinalityType
  <2>5. QED  BY <1>c, <2>1, <2>4 DEF RoomForNodes
<1>4. ASSUME NEW t \in Threads, CreateNode(t)
      PROVE  RoomForNodes'
  <2>1. /\ joined' = joined /\ m_lastAssignedCacheIndex' = m_lastAssignedCacheIndex + 1 /\ task' = task
        /\ pc' = [pc EXCEPT ![t] = "link"] /\ Adds(t)
    BY <1>4 DEF CreateNode, Goto, history, Adds
  <2>2. task[t] \in Tasks /\ joined[task[t]] = round /\ round # Null /\ task[t] \in Nodeless
    BY <2>1, TaskToAdd, NullAssumption, SizeFacts DEF IInv, TypeOK
  <2>3. \A u \in Threads : Adds(u)' <=> (Adds(u) /\ u # t)
    BY <1>a, <2>1 DEF Adds
  <2>4. \A u \in Threads : (Adds(u) /\ u # t) => task[u] # task[t]
    BY <2>1 DEF IInv, TaskInv
  <2>5. Nodeless' = Nodeless \ {task[t]}
    BY <2>1, <2>2, <2>3, <2>4 DEF Nodeless
  <2>6. Cardinality(Nodeless') = Cardinality(Nodeless) - 1
    BY <2>2, <2>5, FS_RemoveElement
  <2>7. QED  BY <1>c, <2>1, <2>6 DEF RoomForNodes
<1>5. ASSUME NEW t \in Threads, ExchangeHead(t)
      PROVE  RoomForNodes'
  BY <1>5, <1>a, <1>b DEF ExchangeHead, Goto, Keep, Return, Deliver, list, history, Adds, ThreadState
<1>6. ASSUME NEW t \in Threads, SetNextNode(t)
      PROVE  RoomForNodes'
  BY <1>6, <1>a, <1>b DEF SetNextNode, Goto, Keep, Return, Deliver, list, history, Adds, ThreadState
<1>7. ASSUME NEW t \in Threads, RetestWaiting(t)
      PROVE  RoomForNodes'
  BY <1>7, <1>a, <1>b DEF RetestWaiting, Goto, Keep, Return, Deliver, list, history, Adds, ThreadState
<1>8. ASSUME NEW t \in Threads, CallDoneWaiting(t)
      PROVE  RoomForNodes'
  BY <1>8, <1>a, <1>b DEF CallDoneWaiting, Goto, Keep, Return, Deliver, list, history, Adds, ThreadState
<1>9. ASSUME NEW t \in Threads, NEW e \in BOOLEAN, DoneWaiting(t, e)
      PROVE  RoomForNodes'
  BY <1>9, <1>a, <1>b DEF DoneWaiting, Goto, Keep, Return, Deliver, list, history, Adds, ThreadState
<1>10. ASSUME NEW t \in Threads, TakeHead(t)
      PROVE  RoomForNodes'
  BY <1>10, <1>a, <1>b DEF TakeHead, Goto, Keep, Return, Deliver, list, history, Adds, ThreadState
<1>11. ASSUME NEW t \in Threads, NextNode(t)
      PROVE  RoomForNodes'
  BY <1>11, <1>a, <1>b DEF NextNode, Goto, Keep, Return, Deliver, list, history, Adds, ThreadState
<1>12. ASSUME NEW t \in Threads, Announce(t)
      PROVE  RoomForNodes'
  BY <1>12, <1>a, <1>b DEF Announce, Goto, Keep, Return, Deliver, list, history, Adds, ThreadState
<1>13. ASSUME NEW t \in Threads, Dispose(t)
      PROVE  RoomForNodes'
  BY <1>13, <1>a, <1>b DEF Dispose, Goto, Keep, Return, Deliver, list, history, Adds, ThreadState
<1>14. CASE Reset
  <2>1. Nodeless' = Nodeless /\ m_lastAssignedCacheIndex' = 0
    BY <1>14 DEF Reset, locals, Nodeless, Adds
  <2>2. QED  BY <1>c, <2>1 DEF RoomForNodes
<1>15. QED
  BY <1>1, <1>2, <1>3, <1>4, <1>5, <1>6, <1>7, <1>8, <1>9, <1>10, <1>11, <1>12, <1>13, <1>14 DEF Next, Step, Add

\* Every step keeps a node of the round the only one of its task and in its place.
LEMMA NodeStep ==
  ASSUME IInv, [Next]_vars
  PROVE  NodeInv'
<1> NodeInv
  BY DEF IInv
<1>a. ASSUME Made' = Made, Waits' = Waits, m_task' = m_task, array' = array, m_nodeCacheSize' = m_nodeCacheSize,
             m_lastAssignedCacheIndex' = m_lastAssignedCacheIndex, heap' = heap
      PROVE  NodeInv'
  BY <1>a DEF NodeInv
<1>1. CASE UNCHANGED vars
  BY <1>1, <1>a, SameSets DEF vars, list, nodes, history
<1>2. ASSUME NEW t \in Threads, NEW x \in Tasks, CallAdd(t, x)
      PROVE  NodeInv'
  BY <1>2, <1>a, SetsAtCall DEF CallAdd, list, nodes
<1>3. ASSUME NEW t \in Threads, TestWaiting(t)
      PROVE  NodeInv'
  BY <1>3, <1>a, SetsAtTest DEF TestWaiting, list, nodes
<1>4. ASSUME NEW t \in Threads, CreateNode(t)
      PROVE  NodeInv'
  <2> DEFINE n == NewNode(t)
  <2>1. /\ Made' = Made \union {n} /\ Waits' = Waits \union {n} /\ n \notin Made /\ n \in Cells
        /\ m_task' = [m_task EXCEPT ![n] = task[t]]
    BY <1>4, SetsAtCreate
  <2>2. /\ array' = array /\ m_nodeCacheSize' = m_nodeCacheSize
        /\ m_lastAssignedCacheIndex' = m_lastAssignedCacheIndex + 1
        /\ heap' = IF n = OnHeap(task[t]) THEN heap \union {n} ELSE heap
    BY <1>4 DEF CreateNode, NewNode
  <2>3. \/ /\ n = Cached(array, m_lastAssignedCacheIndex)
           /\ m_lastAssignedCacheIndex < m_nodeCacheSize /\ m_lastAssignedCacheIndex \in 0 .. MaxSize
        \/ n = OnHeap(task[t])
    BY SizeFacts DEF NewNode, IInv, TypeOK
  <2>4. /\ task[t] \in Tasks /\ \A c \in Cells : m_task[c] # task[t]
        /\ m_task \in [Cells -> Tasks \union {Null}] /\ m_lastAssignedCacheIndex \in Nat
    BY <1>4, TaskToAdd, SizeFacts DEF CreateNode, Adds, IInv, TypeOK
  <2> HIDE DEF n
  <2>5. \A c \in Made : c # n /\ c \in Cells /\ m_task'[c] = m_task[c]
    BY <2>1, <2>4 DEF Made
  <2>6. m_task'[n] = task[t]
    BY <2>1, <2>4
  <2>7. \A c, d \in Made' : m_task'[c] = m_task'[d] => c = d
    BY <2>1, <2>4, <2>5, <2>6 DEF NodeInv
  <2>8. ASSUME NEW c \in Made'
        PROVE  \/ \E i \in 0 .. MaxSize : c = Cached(array', i) /\ i < m_lastAssignedCacheIndex' /\ i < m_nodeCacheSize'
               \/ c = OnHeap(m_task'[c])
    <3>1. CASE c = n
      BY <2>2, <2>3, <2>4, <2>6, <3>1
    <3>2. CASE c \in Made
      BY <2>2, <2>4, <2>5, <3>2 DEF NodeInv
    <3>3. QED  BY <2>1, <3>1, <3>2
  <2>9. ASSUME NEW x \in Tasks, OnHeap(x) \in Waits'
        PROVE  OnHeap(x) \in heap'
    <3>1. CASE OnHeap(x) \in Waits
      BY <2>2, <3>1 DEF NodeInv
    <3>2. CASE OnHeap(x) = n
      BY <2>2, <2>3, <3>2, CellFacts
    <3>3. QED  BY <2>1, <2>9, <3>1, <3>2
  <2>10. QED  BY <2>7, <2>8, <2>9 DEF NodeInv
<1>5. ASSUME NEW t \in Threads, ExchangeHead(t)
      PROVE  NodeInv'
  BY <1>5, <1>a, SameSets DEF ExchangeHead, list, nodes, history
<1>6. ASSUME NEW t \in Threads, SetNextNode(t)
      PROVE  NodeInv'
  BY <1>6, <1>a, SameSets DEF SetNextNode, list, nodes, history
<1>7. ASSUME NEW t \in Threads, RetestWaiting(t)
      PROVE  NodeInv'
  BY <1>7, <1>a, SameSets DEF RetestWaiting, list, nodes, history
<1>8. ASSUME NEW t \in Threads, CallDoneWaiting(t)
      PROVE  NodeInv'
  BY <1>8, <1>a, SameSets DEF CallDoneWaiting, list, nodes, history
<1>9. ASSUME NEW t \in Threads, NEW e \in BOOLEAN, DoneWaiting(t, e)
      PROVE  NodeInv'
  BY <1>9, <1>a, SameSets DEF DoneWaiting, list, nodes, history
<1>10. ASSUME NEW t \in Threads, TakeHead(t)
      PROVE  NodeInv'
  BY <1>10, <1>a, SameSets DEF TakeHead, list, nodes, history
<1>11. ASSUME NEW t \in Threads, NextNode(t)
      PROVE  NodeInv'
  BY <1>11, <1>a, SameSets DEF NextNode, list, nodes, history
<1>12. ASSUME NEW t \in Threads, Announce(t)
      PROVE  NodeInv'
  <2>1. Made' = Made /\ Waits' \in SUBSET Waits
    BY <1>12, SetsAtAnnounce
  <2>2. QED  BY <1>12, <2>1 DEF Announce, list, nodes, NodeInv
<1>13. ASSUME NEW t \in Threads, Dispose(t)
      PROVE  NodeInv'
  <2>1. Made' = Made /\ Waits' = Waits
    BY <1>13, SameSets DEF Dispose, history
  <2>2. node[t] \notin Waits /\ heap' = heap \ {node[t]}
    BY <1>13 DEF Dispose, IInv, ThreadInv
  <2>3. UNCHANGED <<m_task, array, m_nodeCacheSize, m_lastAssignedCacheIndex>>
    BY <1>13 DEF Dispose, list
  <2>4. QED  BY <2>1, <2>2, <2>3 DEF NodeInv
<1>14. CASE Reset
  <2>1. Made' = {} /\ Waits' = {}
    BY <1>14, SetsAtReset
  <2>2. QED  BY <2>1 DEF NodeInv
<1>15. QED
  BY <1>1, <1>2, <1>3, <1>4, <1>5, <1>6, <1>7, <1>8, <1>9, <1>10, <1>11, <1>12, <1>13, <1>14 DEF Next, Step, Add

\* What the pointers to waiting nodes are made of.
SamePointers(t) ==
    /\ Holds(t)' <=> Holds(t)
    /\ Holds(t) => node'[t] = node[t]
    /\ Follows(t)' <=> Follows(t)
    /\ Follows(t) => following'[t] = following[t]

\* Every step keeps one pointer to each node that waits: it moves from the head to a
\* thread, from there to m_next, and back to a thread.
LEMMA PointerStep ==
  ASSUME IInv, [Next]_vars
  PROVE  PointersWait' /\ OnePointer'
<1> PointersWait /\ OnePointer
  BY DEF IInv
<1>t. /\ pc \in [Threads -> ThreadState] /\ node \in [Threads -> Cells \union {Null}]
      /\ following \in [Threads -> Cells \union {Null}] /\ m_next \in [Cells -> Cells \union {Null}]
      /\ Waits \in SUBSET Cells /\ Null \notin Cells
  BY CellFacts DEF IInv, TypeOK, Waits, Made
<1>a. ASSUME Waits' = Waits, m_head' = m_head, m_next' = m_next, \A u \in Threads : SamePointers(u)
      PROVE  PointersWait' /\ OnePointer'
  <2>1. PointersWait'
    BY <1>a DEF PointersWait, SamePointers, Linked
  <2>2. OnePointer'
    BY <1>a DEF OnePointer, SamePointers, Linked
  <2>3. QED  BY <2>1, <2>2
<1>1. CASE UNCHANGED vars
  BY <1>1, <1>a, SameSets DEF vars, list, nodes, locals, history, SamePointers, Holds, Follows
<1>2. ASSUME NEW t \in Threads, NEW x \in Tasks, CallAdd(t, x)
      PROVE  PointersWait' /\ OnePointer'
  BY <1>2, <1>t, <1>a, SetsAtCall DEF CallAdd, Goto, list, nodes, SamePointers, Holds, Follows
<1>3. ASSUME NEW t \in Threads, TestWaiting(t)
      PROVE  PointersWait' /\ OnePointer'
  BY <1>3, <1>t, <1>a, SetsAtTest DEF TestWaiting, Goto, Keep, Return, list, nodes, SamePointers, Holds, Follows
<1>4. ASSUME NEW t \in Threads, CreateNode(t)
      PROVE  PointersWait' /\ OnePointer'
  <2> PICK n \in Cells : n = NewNode(t)
    BY <1>4, NewNodeIsFree DEF CreateNode
  <2>1. /\ Waits' = Waits \union {n} /\ n \notin Waits /\ n \in Cells /\ n # Null
        /\ m_next' = [m_next EXCEPT ![n] = n] /\ node' = [node EXCEPT ![t] = n]
        /\ pc' = [pc EXCEPT ![t] = "link"] /\ pc[t] = "create"
        /\ following' = following /\ m_head' = m_head
    BY <1>4, SetsAtCreate DEF CreateNode, Waits
  <2>2. Holds(t)' /\ node'[t] = n /\ ~Follows(t)' /\ ~Holds(t) /\ ~Follows(t)
    BY <1>t, <2>1 DEF Holds, Follows
  <2>3. \A u \in Threads \ {t} : SamePointers(u)
    BY <1>t, <2>1 DEF SamePointers, Holds, Follows
  <2>4. ~Linked(n)' /\ \A c \in Waits : (Linked(c)' <=> Linked(c)) /\ m_next'[c] = m_next[c]
    BY <1>t, <2>1 DEF Linked
  <2>5. PointersWait'
    BY <2>1, <2>2, <2>3, <2>4 DEF PointersWait, SamePointers
  <2>6. OnePointer'
    BY <2>1, <2>2, <2>3, <2>4 DEF OnePointer, PointersWait, SamePointers
  <2>7. QED  BY <2>5, <2>6
<1>5. ASSUME NEW t \in Threads, ExchangeHead(t)
      PROVE  PointersWait' /\ OnePointer'
  <2>1. /\ Waits' = Waits /\ m_next' = m_next /\ m_head' = node[t] /\ following' = [following EXCEPT ![t] = m_head]
        /\ pc' = [pc EXCEPT ![t] = IF m_head = Null THEN "terminate" ELSE "attach"] /\ node' = node /\ pc[t] = "link"
    BY <1>5, SameSets DEF ExchangeHead, Goto, nodes, history
  <2>2. Holds(t) /\ ~Follows(t) /\ ~Holds(t)' /\ (Follows(t)' <=> m_head # Null) /\ following'[t] = m_head
    BY <1>t, <2>1 DEF Holds, Follows
  <2>3. \A u \in Threads \ {t} : SamePointers(u)
    BY <1>t, <2>1 DEF SamePointers, Holds, Follows
  <2>4. \A c \in Waits : Linked(c)' <=> Linked(c)
    BY <2>1 DEF Linked
  <2>5. PointersWait'
    BY <2>1, <2>2, <2>3, <2>4 DEF PointersWait, SamePointers
  <2>6. OnePointer'
    BY <2>1, <2>2, <2>3, <2>4 DEF OnePointer, PointersWait, SamePointers
  <2>7. QED  BY <2>5, <2>6
<1>6. ASSUME NEW t \in Threads, SetNextNode(t)
      PROVE  PointersWait' /\ OnePointer'
  <2> PICK n \in Cells : n = node[t]
    BY <1>6, <1>t DEF SetNextNode, IInv, ThreadInv, Builds
  <2>1. /\ Waits' = Waits /\ m_head' = m_head /\ m_next' = [m_next EXCEPT ![n] = following[t]]
        /\ pc[t] \in {"attach", "terminate"} /\ pc' = [pc EXCEPT ![t] = IF pc[t] = "attach" THEN "idle" ELSE "retest"]
    BY <1>6, SameSets DEF SetNextNode, Goto, Keep, Return, list, history
  <2>2. n \in Waits /\ ~Linked(n) /\ following[t] # n /\ (pc[t] = "attach" <=> following[t] # Null)
    BY <1>t, <2>1 DEF IInv, ThreadInv, Builds, Linked
  <2>3. ~Holds(t) /\ ~Holds(t)' /\ ~Follows(t)' /\ (Follows(t) <=> following[t] # Null)
    BY <1>t, <2>1, <2>2 DEF Holds, Follows
  <2>4. \A u \in Threads \ {t} : SamePointers(u)
    BY <1>6, <1>t, <2>1 DEF SetNextNode, Keep, Return, SamePointers, Holds, Follows
  <2>5. m_next'[n] = following[t] /\ (Linked(n)' <=> Follows(t))
    BY <1>t, <2>1, <2>2, <2>3 DEF Linked
  <2>6. \A c \in Waits \ {n} : m_next'[c] = m_next[c] /\ (Linked(c)' <=> Linked(c))
    BY <1>t, <2>1 DEF Linked
  <2>7. PointersWait'
    BY <2>1, <2>2, <2>3, <2>4, <2>5, <2>6 DEF PointersWait, SamePointers
  <2>8. OnePointer'
    BY <2>1, <2>2, <2>3, <2>4, <2>5, <2>6 DEF OnePointer, PointersWait, SamePointers
  <2>9. QED  BY <2>7, <2>8
<1>7. ASSUME NEW t \in Threads, RetestWaiting(t)
      PROVE  PointersWait' /\ OnePointer'
  BY <1>7, <1>t, <1>a, SameSets DEF RetestWaiting, Goto, Keep, Return, list, nodes, history, SamePointers, Holds, Follows
<1>8. ASSUME NEW t \in Threads, CallDoneWaiting(t)
      PROVE  PointersWait' /\ OnePointer'
  BY <1>8, <1>t, <1>a, SameSets DEF CallDoneWaiting, Goto, Keep, Return, list, nodes, history, SamePointers, Holds, Follows
<1>9. ASSUME NEW t \in Threads, NEW e \in BOOLEAN, DoneWaiting(t, e)
      PROVE  PointersWait' /\ OnePointer'
  BY <1>9, <1>t, <1>a, SameSets DEF DoneWaiting, Goto, Keep, Return, list, nodes, history, SamePointers, Holds, Follows
<1>10. ASSUME NEW t \in Threads, TakeHead(t)
      PROVE  PointersWait' /\ OnePointer'
  <2>1. /\ Waits' = Waits /\ m_next' = m_next /\ m_head' = Null /\ pc[t] = "swap"
        /\ \/ m_head = Null /\ pc' = [pc EXCEPT ![t] = "idle"]
           \/ m_head # Null /\ pc' = [pc EXCEPT ![t] = "follow"]
    BY <1>10, SameSets DEF TakeHead, Goto, Return, nodes, history
  <2>2. ~Holds(t) /\ ~Follows(t) /\ ~Follows(t)' /\ (Holds(t)' <=> m_head # Null) /\ (Holds(t)' => node'[t] = m_head)
    BY <1>10, <1>t, <2>1 DEF TakeHead, Holds, Follows
  <2>3. \A u \in Threads \ {t} : SamePointers(u)
    BY <1>10, <1>t, <2>1 DEF TakeHead, Return, SamePointers, Holds, Follows
  <2>4. \A c \in Waits : Linked(c)' <=> Linked(c)
    BY <2>1 DEF Linked
  <2>5. PointersWait'
    BY <2>1, <2>2, <2>3, <2>4 DEF PointersWait, SamePointers
  <2>6. OnePointer'
    BY <1>t, <2>1, <2>2, <2>3, <2>4 DEF OnePointer, PointersWait, SamePointers, Linked
  <2>7. QED  BY <2>5, <2>6
<1>11. ASSUME NEW t \in Threads, NextNode(t)
      PROVE  PointersWait' /\ OnePointer'
  <2>1. Waits' = Waits /\ m_head' = m_head /\ m_next' = m_next
    BY <1>11, SameSets DEF NextNode, list, nodes, history
  <2>2. \A u \in Threads : SamePointers(u)
    BY <1>11, <1>t DEF NextNode, Goto, SamePointers, Holds, Follows
  <2>3. QED  BY <1>a, <2>1, <2>2
<1>12. ASSUME NEW t \in Threads, Announce(t)
      PROVE  PointersWait' /\ OnePointer'
  <2> PICK n \in Cells : n = node[t]
    BY <1>12, <1>t, SetsAtAnnounce
  <2>1. /\ Waits' = Waits \ {n} /\ n \in Waits /\ m_head' = m_head /\ m_next' = m_next
        /\ pc[t] = "deliver" /\ pc' = [pc EXCEPT ![t] = "dispose"] /\ node' = node /\ following' = following
    BY <1>12, SetsAtAnnounce DEF Announce, Keep, Goto, list, nodes
  <2>2. following[t] = m_next[n] /\ following[t] # n
    BY <2>1 DEF IInv, ThreadInv
  <2>3. Holds(t) /\ ~Follows(t) /\ ~Holds(t)' /\ (Follows(t)' <=> Linked(n)) /\ following'[t] = m_next[n]
    BY <1>t, <2>1, <2>2 DEF Holds, Follows, Linked
  <2>4. \A u \in Threads \ {t} : SamePointers(u)
    BY <1>t, <2>1 DEF SamePointers, Holds, Follows
  <2>5. \A c \in Waits : Linked(c)' <=> Linked(c)
    BY <2>1 DEF Linked
  <2>6. n = node[t]
    OBVIOUS
  <2>7. PointersWait'
    BY <1>t, <2>1, <2>2, <2>3, <2>4, <2>5, <2>6 DEF PointersWait, OnePointer, SamePointers, Linked
  <2>8. OnePointer'
    BY <2>1, <2>2, <2>3, <2>4, <2>5, <2>6 DEF OnePointer, PointersWait, SamePointers
  <2>9. QED  BY <2>7, <2>8
<1>13. ASSUME NEW t \in Threads, Dispose(t)
      PROVE  PointersWait' /\ OnePointer'
  <2>1. /\ Waits' = Waits /\ m_head' = m_head /\ m_next' = m_next /\ pc[t] = "dispose"
        /\ \/ following[t] = Null /\ pc' = [pc EXCEPT ![t] = "idle"]
           \/ following[t] # Null /\ pc' = [pc EXCEPT ![t] = "follow"]
    BY <1>13, SameSets DEF Dispose, Goto, Return, list, history
  <2>2. ~Holds(t) /\ ~Follows(t)' /\ (Follows(t) <=> following[t] # Null) /\ (Holds(t)' <=> Follows(t))
        /\ (Holds(t)' => node'[t] = following[t])
    BY <1>13, <1>t, <2>1 DEF Dispose, Holds, Follows
  <2>3. \A u \in Threads \ {t} : SamePointers(u)
    BY <1>13, <1>t, <2>1 DEF Dispose, Return, SamePointers, Holds, Follows
  <2>4. \A c \in Waits : Linked(c)' <=> Linked(c)
    BY <2>1 DEF Linked
  <2>5. PointersWait'
    BY <2>1, <2>2, <2>3, <2>4 DEF PointersWait, SamePointers
  <2>6. OnePointer'
    BY <2>1, <2>2, <2>3, <2>4 DEF OnePointer, PointersWait, SamePointers
  <2>7. QED  BY <2>5, <2>6
<1>14. CASE Reset
  <2>1. Waits' = {} /\ m_head' = Null /\ \A u \in Threads : ~Holds(u)' /\ ~Follows(u)'
    BY <1>14, SetsAtReset DEF Reset, locals, Holds, Follows
  <2>2. QED  BY <2>1 DEF PointersWait, OnePointer
<1>15. QED
  BY <1>1, <1>2, <1>3, <1>4, <1>5, <1>6, <1>7, <1>8, <1>9, <1>10, <1>11, <1>12, <1>13, <1>14 DEF Next, Step, Add

SameThread(u) == pc'[u] = pc[u] /\ node'[u] = node[u] /\ following'[u] = following[u]

\* Where a thread has nothing to do with a node, or only owns it.
Elsewhere == {"idle", "test", "create", "retest", "fail", "open", "swap", "follow"}

\* Every step keeps a node with the one thread that builds or disposes of it.
LEMMA ThreadStep ==
  ASSUME IInv, [Next]_vars
  PROVE  ThreadInv'
<1> ThreadInv
  BY DEF IInv
<1>t. /\ pc \in [Threads -> ThreadState] /\ node \in [Threads -> Cells \union {Null}]
      /\ following \in [Threads -> Cells \union {Null}] /\ m_next \in [Cells -> Cells \union {Null}]
      /\ Waits \in SUBSET Cells /\ Null \notin Cells
  BY CellFacts DEF IInv, TypeOK, Waits, Made
<1>a. ASSUME Made' = Made, Waits' = Waits, m_next' = m_next, heap' = heap,
             \A u \in Threads : SameThread(u) \/ pc'[u] \in Elsewhere
      PROVE  ThreadInv'
  BY <1>a DEF ThreadInv, SameThread, Elsewhere, Builds
<1>1. CASE UNCHANGED vars
  BY <1>1, <1>a, SameSets DEF vars, list, nodes, locals, history, SameThread
<1>2. ASSUME NEW t \in Threads, NEW x \in Tasks, CallAdd(t, x)
      PROVE  ThreadInv'
  BY <1>2, <1>t, <1>a, SetsAtCall DEF CallAdd, Goto, list, nodes, SameThread, Elsewhere
<1>3. ASSUME NEW t \in Threads, TestWaiting(t)
      PROVE  ThreadInv'
  BY <1>3, <1>t, <1>a, SetsAtTest DEF TestWaiting, Goto, Keep, Return, list, nodes, SameThread, Elsewhere
<1>4. ASSUME NEW t \in Threads, CreateNode(t)
      PROVE  ThreadInv'
  <2> PICK n \in Cells : n = NewNode(t)
    BY <1>4, NewNodeIsFree DEF CreateNode
  <2>1. /\ Waits' = Waits \union {n} /\ Made' = Made \union {n} /\ n \notin Made /\ n \notin Waits
        /\ m_next' = [m_next EXCEPT ![n] = n] /\ node' = [node EXCEPT ![t] = n]
        /\ pc' = [pc EXCEPT ![t] = "link"] /\ pc[t] = "create" /\ following' = following
        /\ heap \subseteq heap'
    BY <1>4, SetsAtCreate DEF CreateNode, Waits
  <2>2. \A u \in Threads \ {t} : SameThread(u)
    BY <1>t, <2>1 DEF SameThread
  <2>3. pc'[t] = "link" /\ node'[t] = n /\ m_next'[n] = n /\ \A c \in Cells \ {n} : m_next'[c] = m_next[c]
    BY <1>t, <2>1
  <2>4. \A u \in Threads : pc[u] = "deliver" => node[u] \in Waits
    BY DEF IInv, PointersWait, Holds
  <2>5. QED  BY <1>t, <2>1, <2>2, <2>3, <2>4 DEF ThreadInv, SameThread, Builds
<1>5. ASSUME NEW t \in Threads, ExchangeHead(t)
      PROVE  ThreadInv'
  <2>1. /\ Waits' = Waits /\ Made' = Made /\ m_next' = m_next /\ heap' = heap /\ node' = node
        /\ following' = [following EXCEPT ![t] = m_head] /\ pc[t] = "link"
        /\ pc' = [pc EXCEPT ![t] = IF m_head = Null THEN "terminate" ELSE "attach"]
    BY <1>5, SameSets DEF ExchangeHead, Goto, nodes, history
  <2>2. \A u \in Threads \ {t} : SameThread(u)
    BY <1>t, <2>1 DEF SameThread
  <2>3. m_head # node[t] /\ following'[t] = m_head
    BY <1>t, <2>1 DEF IInv, OnePointer, Holds
  <2>4. QED  BY <1>t, <2>1, <2>2, <2>3 DEF ThreadInv, SameThread, Builds
<1>6. ASSUME NEW t \in Threads, SetNextNode(t)
      PROVE  ThreadInv'
  <2> PICK n \in Cells : n = node[t]
    BY <1>6, <1>t DEF SetNextNode, ThreadInv, Builds
  <2>1. /\ Waits' = Waits /\ Made' = Made /\ heap' = heap /\ m_next' = [m_next EXCEPT ![n] = following[t]]
        /\ Builds(t) /\ pc'[t] \in Elsewhere
    BY <1>6, <1>t, SameSets DEF SetNextNode, Goto, Keep, Return, history, Builds, Elsewhere
  <2>2. \A u \in Threads \ {t} : SameThread(u)
    BY <1>6, <1>t DEF SetNextNode, Goto, Keep, Return, SameThread
  <2>3. m_next[n] = n /\ \A c \in Cells \ {n} : m_next'[c] = m_next[c]
    BY <1>t, <2>1 DEF ThreadInv
  <2>4. \A u \in Threads : pc[u] = "deliver" => node[u] \in Cells /\ node[u] # n
    BY <1>t, <2>3 DEF IInv, PointersWait, Holds, ThreadInv
  <2>5. \A u \in Threads \ {t} : Builds(u) => node[u] # n
    BY <2>1 DEF ThreadInv
  <2>6. QED  BY <1>t, <2>1, <2>2, <2>3, <2>4, <2>5 DEF ThreadInv, SameThread, Builds, Elsewhere
<1>7. ASSUME NEW t \in Threads, RetestWaiting(t)
      PROVE  ThreadInv'
  BY <1>7, <1>t, <1>a, SameSets DEF RetestWaiting, Goto, Keep, Return, list, nodes, history, SameThread, Elsewhere
<1>8. ASSUME NEW t \in Threads, CallDoneWaiting(t)
      PROVE  ThreadInv'
  BY <1>8, <1>t, <1>a, SameSets DEF CallDoneWaiting, Goto, Keep, Return, list, nodes, history, SameThread, Elsewhere
<1>9. ASSUME NEW t \in Threads, NEW e \in BOOLEAN, DoneWaiting(t, e)
      PROVE  ThreadInv'
  BY <1>9, <1>t, <1>a, SameSets DEF DoneWaiting, Goto, Keep, Return, list, nodes, history, SameThread, Elsewhere
<1>10. ASSUME NEW t \in Threads, TakeHead(t)
      PROVE  ThreadInv'
  BY <1>10, <1>t, <1>a, SameSets DEF TakeHead, Goto, Keep, Return, list, nodes, history, SameThread, Elsewhere
<1>11. ASSUME NEW t \in Threads, NextNode(t)
      PROVE  ThreadInv'
  <2>1. /\ Waits' = Waits /\ Made' = Made /\ m_next' = m_next /\ heap' = heap /\ node' = node
        /\ following' = [following EXCEPT ![t] = m_next[node[t]]] /\ m_next[node[t]] # node[t]
        /\ pc' = [pc EXCEPT ![t] = "deliver"]
    BY <1>11, SameSets DEF NextNode, Goto, nodes, history
  <2>2. \A u \in Threads \ {t} : SameThread(u)
    BY <1>t, <2>1 DEF SameThread
  <2>3. QED  BY <1>t, <2>1, <2>2 DEF ThreadInv, SameThread, Builds
<1>12. ASSUME NEW t \in Threads, Announce(t)
      PROVE  ThreadInv'
  <2> PICK n \in Cells : n = node[t]
    BY <1>12, <1>t, SetsAtAnnounce
  <2>1. /\ Waits' = Waits \ {n} /\ Made' = Made /\ n \in Waits /\ n \in Made /\ m_next' = m_next /\ heap' = heap
        /\ pc[t] = "deliver" /\ pc' = [pc EXCEPT ![t] = "dispose"] /\ node' = node /\ following' = following
    BY <1>12, SetsAtAnnounce DEF Announce, Keep, Goto, nodes, Waits
  <2>2. \A u \in Threads \ {t} : SameThread(u)
    BY <1>t, <2>1 DEF SameThread
  <2>3. \A x \in Tasks : n = OnHeap(x) => n \in heap
    BY <2>1 DEF IInv, NodeInv
  <2>4. \A u \in Threads : Builds(u) => node[u] # n
    BY <2>1 DEF ThreadInv
  <2>5. \A u \in Threads : pc[u] = "dispose" => node[u] # n
    BY <2>1 DEF ThreadInv
  <2>6. pc'[t] = "dispose" /\ node'[t] = n
    BY <1>t, <2>1
  <2>7. QED  BY <2>1, <2>2, <2>3, <2>4, <2>5, <2>6 DEF ThreadInv, SameThread, Builds
<1>13. ASSUME NEW t \in Threads, Dispose(t)
      PROVE  ThreadInv'
  <2>1. /\ Waits' = Waits /\ Made' = Made /\ m_next' = m_next /\ heap' = heap \ {node[t]} /\ pc[t] = "dispose"
        /\ pc'[t] \in Elsewhere
    BY <1>13, <1>t, SameSets DEF Dispose, Goto, Return, history, Elsewhere
  <2>2. \A u \in Threads \ {t} : SameThread(u)
    BY <1>13, <1>t DEF Dispose, Goto, Return, SameThread
  <2>3. \A u \in Threads \ {t} : pc[u] = "dispose" => node[u] # node[t]
    BY <2>1 DEF ThreadInv
  <2>4. QED  BY <2>1, <2>2, <2>3 DEF ThreadInv, SameThread, Builds, Elsewhere
<1>14. CASE Reset
  <2>1. \A u \in Threads : pc'[u] = "idle"
    BY <1>14, SetsAtReset DEF Reset, locals
  <2>2. QED  BY <2>1 DEF ThreadInv, Builds
<1>15. QED
  BY <1>1, <1>2, <1>3, <1>4, <1>5, <1>6, <1>7, <1>8, <1>9, <1>10, <1>11, <1>12, <1>13, <1>14 DEF Next, Step, Add

\* Every step lets a task go only when it may, and tells it what it has to be told.
LEMMA PromiseStep ==
  ASSUME IInv, [Next]_vars
  PROVE  NotBeforeDone' /\ ExceptionReachesAll'
<1> NotBeforeDone /\ ExceptionReachesAll
  BY DEF IInv
<1>t. /\ joined \in [Tasks -> 0..MaxResets \union {Null}] /\ spawns \in [Tasks -> 0..1]
      /\ pc \in [Threads -> ThreadState] /\ round \in 0..MaxResets /\ Null \notin 0..MaxResets
  BY NullAssumption, SizeFacts DEF IInv, TypeOK
<1>a. ASSUME round' = round, joined' = joined, spawns' = spawns, failed' = failed, m_waiting' => m_waiting,
             m_exceptionPtr' # m_exceptionPtr => m_waiting
      PROVE  NotBeforeDone' /\ ExceptionReachesAll'
  <2>1. NotBeforeDone'
    BY <1>a DEF NotBeforeDone
  <2>2. ExceptionReachesAll'
    BY <1>a, <1>t DEF ExceptionReachesAll, NotBeforeDone
  <2>3. QED  BY <2>1, <2>2
<1>b. ASSUME NEW x \in Tasks, joined[x] = round, spawns[x] = 0, x \notin failed, ~m_waiting, Deliver(x), list' = list
      PROVE  NotBeforeDone' /\ ExceptionReachesAll'
  <2>1. /\ spawns' = [spawns EXCEPT ![x] = 1] /\ joined' = joined /\ round' = round
        /\ failed' = IF m_exceptionPtr THEN failed \union {x} ELSE failed
        /\ m_waiting' = m_waiting /\ m_exceptionPtr' = m_exceptionPtr
    BY <1>b, <1>t DEF Deliver, list
  <2>2. NotBeforeDone'
    BY <1>b, <1>t, <2>1 DEF NotBeforeDone
  <2>3. ExceptionReachesAll'
    BY <1>b, <1>t, <2>1 DEF ExceptionReachesAll
  <2>4. QED  BY <2>2, <2>3
<1>1. CASE UNCHANGED vars
  BY <1>1, <1>a DEF vars, list, history
<1>2. ASSUME NEW t \in Threads, NEW x \in Tasks, CallAdd(t, x)
      PROVE  NotBeforeDone' /\ ExceptionReachesAll'
  <2>1. /\ joined' = [joined EXCEPT ![x] = round] /\ spawns[x] = 0
        /\ UNCHANGED <<round, spawns, failed, m_waiting, m_exceptionPtr>>
    BY <1>2 DEF CallAdd, list, IInv, RoundInv
  <2>2. NotBeforeDone'
    BY <1>t, <2>1 DEF NotBeforeDone
  <2>3. ExceptionReachesAll'
    BY <1>t, <2>1 DEF ExceptionReachesAll
  <2>4. QED  BY <2>2, <2>3
<1>3. ASSUME NEW t \in Threads, TestWaiting(t)
      PROVE  NotBeforeDone' /\ ExceptionReachesAll'
  <2>1. CASE m_waiting
    BY <1>3, <1>a, <2>1 DEF TestWaiting, list, history
  <2>2. CASE ~m_waiting
    <3>1. /\ task[t] \in Tasks /\ joined[task[t]] = round /\ spawns[task[t]] = 0 /\ task[t] \notin failed
      BY <1>3, TaskToAdd DEF TestWaiting, Adds
    <3>2. Deliver(task[t]) /\ list' = list
      BY <1>3, <2>2 DEF TestWaiting
    <3>3. QED  BY <1>b, <2>2, <3>1, <3>2
  <2>3. QED  BY <2>1, <2>2
<1>4. ASSUME NEW t \in Threads, CreateNode(t)
      PROVE  NotBeforeDone' /\ ExceptionReachesAll'
  BY <1>4, <1>a DEF CreateNode, list, history
<1>5. ASSUME NEW t \in Threads, ExchangeHead(t)
      PROVE  NotBeforeDone' /\ ExceptionReachesAll'
  BY <1>5, <1>a DEF ExchangeHead, list, history
<1>6. ASSUME NEW t \in Threads, SetNextNode(t)
      PROVE  NotBeforeDone' /\ ExceptionReachesAll'
  BY <1>6, <1>a DEF SetNextNode, list, history
<1>7. ASSUME NEW t \in Threads, RetestWaiting(t)
      PROVE  NotBeforeDone' /\ ExceptionReachesAll'
  BY <1>7, <1>a DEF RetestWaiting, list, history
<1>8. ASSUME NEW t \in Threads, CallDoneWaiting(t)
      PROVE  NotBeforeDone' /\ ExceptionReachesAll'
  BY <1>8, <1>a DEF CallDoneWaiting, list, history
<1>9. ASSUME NEW t \in Threads, NEW e \in BOOLEAN, DoneWaiting(t, e)
      PROVE  NotBeforeDone' /\ ExceptionReachesAll'
  <2>1. m_waiting
    BY <1>9 DEF DoneWaiting, IInv, RoundInv
  <2>2. QED  BY <1>9, <1>a, <2>1 DEF DoneWaiting, history
<1>10. ASSUME NEW t \in Threads, TakeHead(t)
      PROVE  NotBeforeDone' /\ ExceptionReachesAll'
  BY <1>10, <1>a DEF TakeHead, list, history
<1>11. ASSUME NEW t \in Threads, NextNode(t)
      PROVE  NotBeforeDone' /\ ExceptionReachesAll'
  BY <1>11, <1>a DEF NextNode, list, history
<1>12. ASSUME NEW t \in Threads, Announce(t)
      PROVE  NotBeforeDone' /\ ExceptionReachesAll'
  <2>1. LET x == m_task[node[t]]
        IN  x \in Tasks /\ joined[x] = round /\ spawns[x] = 0 /\ x \notin failed
    BY <1>12, SetsAtAnnounce
  <2>2. ~m_waiting
    BY <1>12 DEF Announce, IInv, RoundInv
  <2>3. Deliver(m_task[node[t]]) /\ list' = list
    BY <1>12 DEF Announce
  <2>4. QED  BY <1>b, <2>1, <2>2, <2>3
<1>13. ASSUME NEW t \in Threads, Dispose(t)
      PROVE  NotBeforeDone' /\ ExceptionReachesAll'
  BY <1>13, <1>a DEF Dispose, list, history
<1>14. CASE Reset
  <2>1. round' = round + 1 /\ UNCHANGED <<joined, spawns, failed>>
    BY <1>14 DEF Reset
  <2>2. \A x \in Tasks : joined'[x] # round'
    <3>1. round \in Nat /\ round + 1 # Null
      BY <1>t, NullAssumption, SizeFacts
    <3>2. \A x \in Tasks : joined[x] # Null => joined[x] \in Nat /\ joined[x] <= round
      BY SizeFacts DEF IInv, TypeOK, RoundInv
    <3>3. \A x \in Tasks : joined[x] # round + 1
      BY <3>1, <3>2
    <3>4. QED  BY <2>1, <3>3
  <2>3. QED  BY <1>t, <2>1, <2>2 DEF NotBeforeDone, ExceptionReachesAll
<1>15. QED
  BY <1>1, <1>2, <1>3, <1>4, <1>5, <1>6, <1>7, <1>8, <1>9, <1>10, <1>11, <1>12, <1>13, <1>14 DEF Next, Step, Add

-----------------------------------------------------------------------------

\* What is known of the list holds from the constructor on.
LEMMA Inductive == Spec => []IInv
<1>1. IInv /\ [Next]_vars => IInv'
  BY TypeStep, RoundStep, TaskStep, RoomStep, NodeStep, PointerStep, ThreadStep, PromiseStep DEF IInv
<1>2. QED  BY <1>1, InitIInv, PTL DEF Spec

\* A node a thread touches is there: one that waits or was just let go is of this
\* round's part of the cache or still on the heap.
LEMMA TouchedNodesLive == IInv => NoDanglingNode
<1> SUFFICES ASSUME IInv, NEW t \in Threads,
                    pc[t] \in {"link", "attach", "terminate", "follow", "deliver", "dispose"}
             PROVE  node[t] \in LiveNodes
  BY DEF NoDanglingNode, NodesInUse
<1>1. node[t] \in Made /\ \A x \in Tasks : node[t] = OnHeap(x) => node[t] \in heap
  <2>1. CASE pc[t] = "dispose"
    BY <2>1 DEF IInv, ThreadInv
  <2>2. CASE pc[t] # "dispose"
    <3>1. node[t] \in Waits
      BY <2>2 DEF IInv, PointersWait, Holds, ThreadInv, Builds
    <3>2. QED  BY <3>1 DEF IInv, NodeInv, Waits
  <2>3. QED  BY <2>1, <2>2
<1>2. m_task[node[t]] \in Tasks
  BY <1>1 DEF Made, IInv, TypeOK
<1>3. CASE node[t] = OnHeap(m_task[node[t]])
  BY <1>1, <1>2, <1>3 DEF LiveNodes
<1>4. ASSUME NEW i \in 0 .. MaxSize, node[t] = Cached(array, i), i < m_nodeCacheSize
      PROVE  node[t] \in LiveNodes
  <2>1. i \in 0 .. (m_nodeCacheSize - 1)
    BY <1>4, SizeFacts DEF IInv, TypeOK
  <2>2. QED  BY <1>4, <2>1 DEF LiveNodes
<1>5. QED  BY <1>1, <1>3, <1>4 DEF IInv, NodeInv

\* No task is let go before the doneWaiting() of its round, and none twice, although
\* add() and doneWaiting() may both announce the list.
THEOREM ReleasedOnceAndInTime == Spec => []NotBeforeDone
<1>1. IInv => NotBeforeDone
  BY DEF IInv
<1>2. QED  BY <1>1, Inductive, PTL

\* If the resource failed, every task that waited for it or came after is told; if
\* not, none is.
THEOREM ExceptionForAll == Spec => []ExceptionReachesAll
<1>1. IInv => ExceptionReachesAll
  BY DEF IInv
<1>2. QED  BY <1>1, Inductive, PTL

\* A thread only touches nodes that exist, whatever reset() has replaced.
THEOREM NodesExist == Spec => []NoDanglingNode
<1>1. QED  BY Inductive, TouchedNodesLive, PTL
=============================================================================
