-------------------------- MODULE WaitingTaskList --------------------------
(***************************************************************************)
(* edm::WaitingTaskList (FWCore/Concurrency): tasks wait in a lock-free    *)
(* linked list until the owner of a resource calls doneWaiting, and then   *)
(* are spawned.  The list is reused after reset().  One action per access  *)
(* to the shared variables.                                                *)
(*                                                                         *)
(* A task is added to one list and once, so the reference its add() takes  *)
(* is the only one: decrementing it always reaches 0 and spawns the task.  *)
(* The nodes keep their identity: a cell of the current cache array, or a  *)
(* node of its own from the heap.                                          *)
(***************************************************************************)
EXTENDS Naturals, FiniteSets

CONSTANTS
    Threads,
    Tasks,
    Null,
    InitialSize,       \* the constructor's iInitialSize
    MaxResets          \* bound: calls of reset()

ASSUME SizeAssumption == InitialSize \in Nat /\ MaxResets \in Nat /\ IsFiniteSet(Tasks)

VARIABLES
    m_head,                    \* the newest node, or Null
    m_waiting,
    m_exceptionPtr,            \* whether the resource failed
    m_nodeCacheSize,
    m_lastAssignedCacheIndex,
    array,                     \* which array m_nodeCache points to: the resets that grew it
    heap,                      \* the nodes got from new and not deleted
    m_task, m_next,            \* the members of the nodes
    pc, node, following,       \* each thread's place, its node n and its variable next
    task,                      \* the task a thread is adding
    round,                     \* resets so far
    joined,                    \* the round in which add() was called for a task, or Null
    spawns,                    \* how often a task was spawned
    failed,                    \* the tasks that were told of an exception
    signalled                  \* whether doneWaiting was called in this round

list == <<m_head, m_waiting, m_exceptionPtr, m_nodeCacheSize, m_lastAssignedCacheIndex, array>>
nodes == <<heap, m_task, m_next>>
locals == <<pc, node, following, task>>
history == <<round, joined, spawns, failed, signalled>>
vars == <<list, nodes, locals, history>>

Cached(a, i) == <<"cache", a, i>>
OnHeap(x) == <<"heap", x>>

\* Every cell a run within the bounds can name; one past the end is included.
MaxSize == InitialSize + Cardinality(Tasks)
Cells == {Cached(a, i) : a \in 0..MaxResets, i \in 0..MaxSize} \union {OnHeap(x) : x \in Tasks}

ASSUME NullAssumption == Null \notin Tasks \union Cells /\ Null \notin Nat

ThreadState == {"idle", "test", "create", "link", "attach", "terminate", "retest",
                "fail", "open", "swap", "follow", "deliver", "dispose"}

TypeOK ==
    /\ m_head \in Cells \union {Null}
    /\ m_waiting \in BOOLEAN /\ m_exceptionPtr \in BOOLEAN /\ signalled \in BOOLEAN
    /\ m_nodeCacheSize \in 0..MaxSize
    /\ m_lastAssignedCacheIndex \in 0..Cardinality(Tasks)
    /\ array \in 0..MaxResets /\ round \in 0..MaxResets
    /\ heap \subseteq {OnHeap(x) : x \in Tasks}
    /\ m_task \in [Cells -> Tasks \union {Null}]
    /\ m_next \in [Cells -> Cells \union {Null}]
    /\ pc \in [Threads -> ThreadState]
    /\ node \in [Threads -> Cells \union {Null}]
    /\ following \in [Threads -> Cells \union {Null}]
    /\ task \in [Threads -> Tasks \union {Null}]
    /\ joined \in [Tasks -> 0..MaxResets \union {Null}]
    /\ spawns \in [Tasks -> 0..1]
    /\ failed \subseteq Tasks

Init ==
    /\ m_head = Null /\ m_waiting = TRUE /\ m_exceptionPtr = FALSE
    /\ m_nodeCacheSize = InitialSize /\ m_lastAssignedCacheIndex = 0 /\ array = 0
    /\ heap = {}
    /\ m_task = [c \in Cells |-> Null] /\ m_next = [c \in Cells |-> Null]
    /\ pc = [t \in Threads |-> "idle"] /\ task = [t \in Threads |-> Null]
    /\ node = [t \in Threads |-> Null] /\ following = [t \in Threads |-> Null]
    /\ round = 0 /\ joined = [x \in Tasks |-> Null]
    /\ spawns = [x \in Tasks |-> 0] /\ failed = {} /\ signalled = FALSE

Goto(t, s) == pc' = [pc EXCEPT ![t] = s]

\* The call is over; the thread's variables are gone.
Return(t) ==
    /\ Goto(t, "idle")
    /\ node' = [node EXCEPT ![t] = Null]
    /\ following' = [following EXCEPT ![t] = Null]
    /\ task' = [task EXCEPT ![t] = Null]

Keep(t, s) == Goto(t, s) /\ UNCHANGED <<node, following, task>>

\* dependentTaskFailed if there is an exception, then decrement and spawn.
Deliver(x) ==
    /\ spawns' = [spawns EXCEPT ![x] = @ + 1]
    /\ failed' = IF m_exceptionPtr THEN failed \union {x} ELSE failed
    /\ UNCHANGED <<round, joined, signalled>>

-----------------------------------------------------------------------------
(* add *)

CallAdd(t, x) ==
    /\ pc[t] = "idle"
    /\ joined[x] = Null
    /\ joined' = [joined EXCEPT ![x] = round]
    /\ task' = [task EXCEPT ![t] = x]
    /\ Goto(t, "test")
    /\ UNCHANGED <<list, nodes, node, following, round, spawns, failed, signalled>>

TestWaiting(t) ==
    /\ pc[t] = "test"
    /\ IF m_waiting
       THEN Keep(t, "create") /\ UNCHANGED history
       ELSE Deliver(task[t]) /\ Return(t)
    /\ UNCHANGED <<list, nodes>>

\* Mutant: the last cell test is off by one.
CreateNodeOffByOne(t) ==
    /\ pc[t] = "create"
    /\ LET n == IF m_lastAssignedCacheIndex <= m_nodeCacheSize
                THEN Cached(array, m_lastAssignedCacheIndex)
                ELSE OnHeap(task[t])
       IN /\ heap' = IF n = OnHeap(task[t]) THEN heap \union {n} ELSE heap
          /\ m_task' = [m_task EXCEPT ![n] = task[t]]
          /\ m_next' = [m_next EXCEPT ![n] = n]
          /\ node' = [node EXCEPT ![t] = n]
    /\ m_lastAssignedCacheIndex' = m_lastAssignedCacheIndex + 1
    /\ Goto(t, "link")
    /\ UNCHANGED <<m_head, m_waiting, m_exceptionPtr, m_nodeCacheSize, array,
                   following, task, history>>

\* Mutant: a new node is not marked as not yet linked.
CreateNodeLinked(t) ==
    /\ pc[t] = "create"
    /\ LET n == IF m_lastAssignedCacheIndex < m_nodeCacheSize
                THEN Cached(array, m_lastAssignedCacheIndex)
                ELSE OnHeap(task[t])
       IN /\ heap' = IF n = OnHeap(task[t]) THEN heap \union {n} ELSE heap
          /\ m_task' = [m_task EXCEPT ![n] = task[t]]
          /\ m_next' = [m_next EXCEPT ![n] = Null]
          /\ node' = [node EXCEPT ![t] = n]
    /\ m_lastAssignedCacheIndex' = m_lastAssignedCacheIndex + 1
    /\ Goto(t, "link")
    /\ UNCHANGED <<m_head, m_waiting, m_exceptionPtr, m_nodeCacheSize, array,
                   following, task, history>>

\* A node whose m_next is itself is in the list and not yet linked.
CreateNode(t) ==
    /\ pc[t] = "create"
    /\ LET n == IF m_lastAssignedCacheIndex < m_nodeCacheSize
                THEN Cached(array, m_lastAssignedCacheIndex)
                ELSE OnHeap(task[t])
       IN /\ heap' = IF n = OnHeap(task[t]) THEN heap \union {n} ELSE heap
          /\ m_task' = [m_task EXCEPT ![n] = task[t]]
          /\ m_next' = [m_next EXCEPT ![n] = n]
          /\ node' = [node EXCEPT ![t] = n]
    /\ m_lastAssignedCacheIndex' = m_lastAssignedCacheIndex + 1
    /\ Goto(t, "link")
    /\ UNCHANGED <<m_head, m_waiting, m_exceptionPtr, m_nodeCacheSize, array,
                   following, task, history>>

\* m_head.exchange(newHead)
ExchangeHead(t) ==
    /\ pc[t] = "link"
    /\ m_head' = node[t]
    /\ following' = [following EXCEPT ![t] = m_head]
    /\ Goto(t, IF m_head = Null THEN "terminate" ELSE "attach")
    /\ UNCHANGED <<m_waiting, m_exceptionPtr, m_nodeCacheSize, m_lastAssignedCacheIndex,
                   array, nodes, node, task, history>>

\* newHead->setNextNode(oldHead), oldHead being Null or not.
SetNextNode(t) ==
    /\ pc[t] \in {"attach", "terminate"}
    /\ m_next' = [m_next EXCEPT ![node[t]] = following[t]]
    /\ IF pc[t] = "attach" THEN Return(t) ELSE Keep(t, "retest")
    /\ UNCHANGED <<list, heap, m_task, history>>

\* Mutant: a late doneWaiting is not looked for.
RetestWaitingNever(t) ==
    /\ pc[t] = "retest"
    /\ Return(t)
    /\ UNCHANGED <<list, nodes, history>>

\* Mutant: the first node of a list always announces.
RetestWaitingAlways(t) ==
    /\ pc[t] = "retest"
    /\ Keep(t, "swap")
    /\ UNCHANGED <<list, nodes, history>>

RetestWaiting(t) ==
    /\ pc[t] = "retest"
    /\ IF m_waiting THEN Return(t) ELSE Keep(t, "swap")
    /\ UNCHANGED <<list, nodes, history>>

Add(t) ==
    TestWaiting(t) \/ CreateNode(t) \/ ExchangeHead(t) \/ SetNextNode(t) \/ RetestWaiting(t)

-----------------------------------------------------------------------------
(* doneWaiting *)

CallDoneWaiting(t) ==
    /\ pc[t] = "idle"
    /\ ~signalled
    /\ signalled' = TRUE
    /\ Keep(t, "fail")
    /\ UNCHANGED <<list, nodes, round, joined, spawns, failed>>

\* Mutant: the tasks are let go before the exception is in place.
SetExceptionAfterwards(t, e) ==
    /\ pc[t] \in {"fail", "open"}
    /\ IF pc[t] = "fail"
       THEN m_waiting' = FALSE /\ Keep(t, "open") /\ UNCHANGED m_exceptionPtr
       ELSE m_exceptionPtr' = e /\ Keep(t, "swap") /\ UNCHANGED m_waiting
    /\ UNCHANGED <<m_head, m_nodeCacheSize, m_lastAssignedCacheIndex, array, nodes, history>>

\* m_exceptionPtr = iPtr, and then m_waiting = false
DoneWaiting(t, e) ==
    /\ pc[t] \in {"fail", "open"}
    /\ IF pc[t] = "fail"
       THEN m_exceptionPtr' = e /\ Keep(t, "open") /\ UNCHANGED m_waiting
       ELSE m_waiting' = FALSE /\ Keep(t, "swap") /\ UNCHANGED m_exceptionPtr
    /\ UNCHANGED <<m_head, m_nodeCacheSize, m_lastAssignedCacheIndex, array, nodes, history>>

-----------------------------------------------------------------------------
(* announce, called by doneWaiting and by add *)

\* Mutant: the head is read and then cleared only by the next reset.
TakeHeadShared(t) ==
    /\ pc[t] = "swap"
    /\ IF m_head = Null
       THEN Return(t)
       ELSE Goto(t, "follow") /\ node' = [node EXCEPT ![t] = m_head] /\ UNCHANGED <<following, task>>
    /\ UNCHANGED <<list, nodes, history>>

\* m_head.exchange(0)
TakeHead(t) ==
    /\ pc[t] = "swap"
    /\ m_head' = Null
    /\ IF m_head = Null
       THEN Return(t)
       ELSE Goto(t, "follow") /\ node' = [node EXCEPT ![t] = m_head] /\ UNCHANGED <<following, task>>
    /\ UNCHANGED <<m_waiting, m_exceptionPtr, m_nodeCacheSize, m_lastAssignedCacheIndex,
                   array, nodes, history>>

\* The thread spins here while the node is not yet linked.
NextNode(t) ==
    /\ pc[t] = "follow"
    /\ m_next[node[t]] # node[t]
    /\ following' = [following EXCEPT ![t] = m_next[node[t]]]
    /\ Goto(t, "deliver")
    /\ UNCHANGED <<list, nodes, node, task, history>>

Announce(t) ==
    /\ pc[t] = "deliver"
    /\ Deliver(m_task[node[t]])
    /\ Keep(t, "dispose")
    /\ UNCHANGED <<list, nodes>>

\* if (!n->m_fromCache) delete n, after the task was spawned
Dispose(t) ==
    /\ pc[t] = "dispose"
    /\ heap' = heap \ {node[t]}
    /\ IF following[t] = Null
       THEN Return(t)
       ELSE Goto(t, "follow") /\ node' = [node EXCEPT ![t] = following[t]] /\ UNCHANGED <<following, task>>
    /\ UNCHANGED <<list, m_task, m_next, history>>

-----------------------------------------------------------------------------
(* reset *)

Quiet == \A t \in Threads : pc[t] = "idle"

AllSpawned == \A x \in Tasks : joined[x] = Null \/ spawns[x] > 0

\* What the owner has to see to before it calls reset() again: the header asks
\* that no call is under way.
MayReset ==
    /\ ~m_waiting
    /\ AllSpawned
    /\ Quiet

Reset ==
    /\ round < MaxResets
    /\ MayReset
    /\ m_exceptionPtr' = FALSE /\ m_waiting' = TRUE
    /\ m_lastAssignedCacheIndex' = 0
    /\ IF m_lastAssignedCacheIndex > m_nodeCacheSize
       THEN m_nodeCacheSize' = m_lastAssignedCacheIndex /\ array' = array + 1
       ELSE UNCHANGED <<m_nodeCacheSize, array>>
    /\ round' = round + 1 /\ signalled' = FALSE
    /\ UNCHANGED <<m_head, nodes, locals, joined, spawns, failed>>

-----------------------------------------------------------------------------

Step(t) ==
    \/ Add(t)
    \/ \E e \in BOOLEAN : DoneWaiting(t, e)
    \/ TakeHead(t) \/ NextNode(t) \/ Announce(t) \/ Dispose(t)

Next ==
    \/ \E t \in Threads :
          \/ \E x \in Tasks : CallAdd(t, x)
          \/ CallDoneWaiting(t)
          \/ Step(t)
    \/ Reset

Spec == Init /\ [][Next]_vars

\* A thread inside add() or doneWaiting() is run by the operating system; no
\* call has to be made.
FairSpec == Spec /\ \A t \in Threads : WF_vars(Step(t))

-----------------------------------------------------------------------------
(* Properties *)

\* No task is let go before the doneWaiting() of its round, whatever announce()
\* an add() of the same moment makes, and none is let go twice.
NotBeforeDone ==
    \A x \in Tasks : spawns[x] <= 1 /\ ((m_waiting /\ joined[x] = round) => spawns[x] = 0)

\* If the resource failed, every task that waited for it or came after is told;
\* if not, none is.
ExceptionReachesAll ==
    \A x \in Tasks : (spawns[x] > 0 /\ joined[x] = round) => (x \in failed <=> m_exceptionPtr)

\* A thread only touches nodes that exist: cells of the array m_nodeCache points
\* to, within its size, and nodes from new not yet deleted.
NodesInUse ==
    {node[t] : t \in {u \in Threads : pc[u] \in {"link", "attach", "terminate", "follow", "deliver", "dispose"}}}

LiveNodes == heap \union {Cached(array, i) : i \in 0..(m_nodeCacheSize - 1)}

NoDanglingNode == NodesInUse \subseteq LiveNodes

\* A task added in a round whose owner signals is spawned, although announce()
\* has to wait for an add() that has not linked its node yet.
EveryTaskSpawned ==
    \A x \in Tasks : (joined[x] = round /\ ~m_waiting) ~> spawns[x] > 0
=============================================================================
