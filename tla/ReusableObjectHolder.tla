------------------------ MODULE ReusableObjectHolder ------------------------
(***************************************************************************)
(* ReusableObjectHolder: a pool of objects behind a concurrent queue.      *)
(* makeOrGet loops: take an object, or make one, add it to the queue and   *)
(* try again, so that another thread may take what this one has made.  The *)
(* object goes back when the last shared_ptr to it goes.                   *)
(***************************************************************************)
EXTENDS Naturals, Sequences, FiniteSets, SequencesExt

CONSTANT Users

CONSTANT MaxObjects \* bound: objects made

ASSUME HolderAssumption == IsFiniteSet(Users) /\ MaxObjects \in Nat

VARIABLES
    at,                   \* where each user is
    using,                \* the object of each user, 0 for none
    m_availableQueue,
    m_outstandingObjects,
    made                  \* objects made so far, numbered from 1

holderVars == <<at, using, m_availableQueue, m_outstandingObjects, made>>

HolderInit ==
    /\ at = [u \in Users |-> "out"]
    /\ using = [u \in Users |-> 0]
    /\ m_availableQueue = <<>>
    /\ m_outstandingObjects = 0
    /\ made = 0

MakeOrGet(u) ==
    /\ at[u] = "out"
    /\ at' = [at EXCEPT ![u] = "trying"]
    /\ UNCHANGED <<using, m_availableQueue, m_outstandingObjects, made>>

(* tryToGet, its try_pop and its increment *)
TryPop(u) ==
    /\ at[u] = "trying"
    /\ IF m_availableQueue = <<>>
       THEN /\ at' = [at EXCEPT ![u] = "making"]
            /\ UNCHANGED <<using, m_availableQueue>>
       ELSE /\ using' = [using EXCEPT ![u] = Head(m_availableQueue)]
            /\ m_availableQueue' = Tail(m_availableQueue)
            /\ at' = [at EXCEPT ![u] = "counting"]
    /\ UNCHANGED <<m_outstandingObjects, made>>

Count(u) ==
    /\ at[u] = "counting"
    /\ m_outstandingObjects' = m_outstandingObjects + 1
    /\ at' = [at EXCEPT ![u] = "using"]
    /\ UNCHANGED <<using, m_availableQueue, made>>

(* Slip: the object made is also kept, instead of tried for.               *)
AddAndKeep(u) ==
    /\ at[u] = "making"
    /\ made < MaxObjects
    /\ made' = made + 1
    /\ m_availableQueue' = Append(m_availableQueue, made')
    /\ using' = [using EXCEPT ![u] = made']
    /\ at' = [at EXCEPT ![u] = "counting"]
    /\ UNCHANGED m_outstandingObjects

(* add(iFunc()), after which the loop of makeOrGet tries again *)
Add(u) ==
    /\ at[u] = "making"
    /\ made < MaxObjects
    /\ made' = made + 1
    /\ m_availableQueue' = Append(m_availableQueue, made')
    /\ at' = [at EXCEPT ![u] = "trying"]
    /\ UNCHANGED <<using, m_outstandingObjects>>

(* addBack *)
PushBack(u) ==
    /\ at[u] = "using"
    /\ m_availableQueue' = Append(m_availableQueue, using[u])
    /\ using' = [using EXCEPT ![u] = 0]
    /\ at' = [at EXCEPT ![u] = "uncounting"]
    /\ UNCHANGED <<m_outstandingObjects, made>>

Uncount(u) ==
    /\ at[u] = "uncounting"
    /\ m_outstandingObjects' = m_outstandingObjects - 1
    /\ at' = [at EXCEPT ![u] = "out"]
    /\ UNCHANGED <<using, m_availableQueue, made>>

HolderNext ==
    \E u \in Users : MakeOrGet(u) \/ TryPop(u) \/ Count(u) \/ Add(u) \/ PushBack(u) \/ Uncount(u)

HolderSpec == HolderInit /\ [][HolderNext]_holderVars

---------------------------------------------------------------------------
HolderState == {"out", "trying", "counting", "making", "using", "uncounting"}

HolderTypeOK ==
    /\ at \in [Users -> HolderState] /\ using \in [Users -> Nat]
    /\ m_availableQueue \in Seq(Nat)
    /\ m_outstandingObjects \in Nat /\ made \in Nat

(* No object has two users, none is lost, and although a user may lose the *)
(* object it has made to another, there are never more objects than users. *)
(* The unsigned counter never goes below zero, and is zero, as the         *)
(* destructor asserts, when no user is inside.                             *)
ObjectsHaveOneUser ==
    /\ LET inUse == {using[u] : u \in Users} \ {0}
       IN /\ \A u, v \in Users : (u # v /\ using[u] # 0) => using[u] # using[v]
          /\ IsInjective(m_availableQueue)
          /\ Range(m_availableQueue) \cup inUse = 1 .. made
          /\ Range(m_availableQueue) \cap inUse = {}
    /\ made <= Cardinality(Users)
    /\ m_outstandingObjects = Cardinality({u \in Users : at[u] \in {"using", "uncounting"}})
=============================================================================
