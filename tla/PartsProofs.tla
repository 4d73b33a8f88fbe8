----------------------------- MODULE PartsProofs -----------------------------
(* Theorems about parts that share nothing: the pool of objects, the message *)
(* scribe, the selection of events, the check of the schedule and the forked *)
(* children.                                                                 *)
EXTENDS ReusableObjectHolder, MessageLoggerScribe, EventSelector, ScheduleCheck, Forking,
        FiniteSetTheorems, TLAPS

-----------------------------------------------------------------------------
(* The pool of objects, for any finite number of users: no object has two    *)
(* of them, none is lost, there are never more objects than users, and the   *)
(* counter of the destructor's assertion is right.                           *)

(* That there are no more objects than users is not inductive: a user that *)
(* found the queue empty will make an object whatever comes back in the    *)
(* meantime.  Those users have to be counted with the objects.             *)

Making == {u \in Users : at[u] = "making"}
Holding == {u \in Users : using[u] # 0}
Counted == {u \in Users : at[u] \in {"using", "uncounting"}}

UsersHold == \A u \in Users : using[u] # 0 <=> at[u] \in {"counting", "using"}

OneUser ==
    /\ \A u, v \in Users : (u # v /\ using[u] # 0) => using[u] # using[v]
    /\ \A i, j \in DOMAIN m_availableQueue :
          m_availableQueue[i] = m_availableQueue[j] => i = j
    /\ \A u \in Users : \A i \in DOMAIN m_availableQueue : using[u] # m_availableQueue[i]

NoneLost ==
    /\ \A u \in Users : using[u] <= made
    /\ \A i \in DOMAIN m_availableQueue : m_availableQueue[i] \in 1 .. made
    /\ \A o \in 1 .. made : \/ \E u \in Users : using[u] = o
                            \/ \E i \in DOMAIN m_availableQueue : m_availableQueue[i] = o

RoomForMade == made + Cardinality(Making) <= Cardinality(Users)

RightCount == m_outstandingObjects = Cardinality(Counted)

HolderInv == HolderTypeOK /\ UsersHold /\ OneUser /\ NoneLost /\ RoomForMade /\ RightCount

-----------------------------------------------------------------------------

\* Sets of users can be counted.
LEMMA UsersCount ==
  ASSUME NEW S \in SUBSET Users
  PROVE  IsFiniteSet(S) /\ Cardinality(S) \in Nat /\ Cardinality(S) <= Cardinality(Users)
BY HolderAssumption, FS_Subset, FS_CardinalityType

\* The pool starts empty, with all its users outside.
LEMMA HolderInitInv == HolderInit => HolderInv
<1> SUFFICES ASSUME HolderInit PROVE HolderInv
  OBVIOUS
<1>1. HolderTypeOK
  BY DEF HolderInit, HolderTypeOK, HolderState
<1>2. Making = {} /\ Counted = {}
  BY DEF HolderInit, Making, Counted
<1>3. Cardinality(Users) \in Nat /\ Cardinality(Making) = 0 /\ Cardinality(Counted) = 0
  BY <1>2, FS_EmptySet, UsersCount
<1>4. QED
  BY <1>1, <1>3 DEF HolderInit, HolderInv, UsersHold, OneUser, NoneLost, RoomForMade, RightCount

\* If nobody is done with an object when a user finds the queue empty, every
\* object has a user, and those who are about to make one have none: there is
\* room for one more (the loop of makeOrGet, ReusableObjectHolder.h:111-119).
LEMMA RoomWhenEmpty ==
  ASSUME HolderInv, NEW u \in Users, at[u] = "trying", m_availableQueue = <<>>
  PROVE  made + Cardinality(Making) + 1 <= Cardinality(Users)
<1> DEFINE f == [v \in Holding |-> using[v]]
           More == Making \cup {u}
<1>1. f \in Injection(Holding, 1 .. made)
  BY DEF HolderInv, HolderTypeOK, OneUser, NoneLost, Holding, Injection, IsInjective
<1>2. f \in Surjection(Holding, 1 .. made)
  <2>1. \A o \in 1 .. made : \E v \in Holding : f[v] = o
    BY DEF HolderInv, HolderTypeOK, NoneLost, Holding
  <2>2. QED  BY <1>1, <2>1 DEF Surjection, Injection
<1>3. Cardinality(Holding) = made
  BY <1>1, <1>2, FS_Injection, FS_Interval DEF HolderInv, HolderTypeOK
<1>4. Cardinality(More) = Cardinality(Making) + 1
  BY UsersCount, FS_AddElement DEF Making
<1>5. Holding \cap More = {} /\ Holding \in SUBSET Users /\ More \in SUBSET Users
  BY DEF HolderInv, UsersHold, Holding, Making
<1>6. Cardinality(Holding \cup More) = Cardinality(Holding) + Cardinality(More)
  <2>1. IsFiniteSet(Holding) /\ IsFiniteSet(More)
    BY <1>5, UsersCount
  <2>2. Cardinality(Holding) \in Nat /\ Cardinality(More) \in Nat
    BY <1>5, UsersCount
  <2>3. Cardinality(Holding \cup More)
          = Cardinality(Holding) + Cardinality(More) - Cardinality(Holding \cap More)
    BY <2>1, FS_Union
  <2>4. Cardinality(Holding \cap More) = 0
    BY <1>5, FS_EmptySet
  <2>5. QED  BY <2>2, <2>3, <2>4
<1>7. QED
  BY <1>3, <1>4, <1>5, <1>6, UsersCount DEF HolderInv, HolderTypeOK
\* Each step of makeOrGet, tryToGet, add and addBack keeps the types
\* (ReusableObjectHolder.h:83-157).
LEMMA HolderTypeStep ==
  ASSUME HolderInv, HolderNext
  PROVE  HolderTypeOK'
<1> PICK u \in Users :
      MakeOrGet(u) \/ TryPop(u) \/ Count(u) \/ Add(u) \/ PushBack(u) \/ Uncount(u)
  BY DEF HolderNext
<1> USE DEF HolderInv, HolderTypeOK, HolderState
<1>1. CASE MakeOrGet(u)
  BY <1>1 DEF MakeOrGet
<1>2. CASE TryPop(u)
  <2>1. CASE m_availableQueue = <<>>
    BY <1>2, <2>1 DEF TryPop
  <2>2. CASE m_availableQueue # <<>>
    <3>1. Head(m_availableQueue) \in Nat /\ Tail(m_availableQueue) \in Seq(Nat)
      BY <2>2
    <3>2. QED  BY <1>2, <2>2, <3>1 DEF TryPop
  <2>3. QED  BY <2>1, <2>2
<1>3. CASE Count(u)
  BY <1>3 DEF Count
<1>4. CASE Add(u)
  BY <1>4 DEF Add
<1>5. CASE PushBack(u)
  BY <1>5 DEF PushBack
<1>6. CASE Uncount(u)
  <2>1. u \in Counted
    BY <1>6 DEF Uncount, Counted
  <2>2. Cardinality(Counted) # 0
    BY <2>1, UsersCount, FS_EmptySet DEF Counted
  <2>3. QED  BY <1>6, <2>2 DEF Uncount, RightCount
<1>7. QED  BY <1>1, <1>2, <1>3, <1>4, <1>5, <1>6

\* An object added to the queue, new or given back, is then there and nowhere else.
LEMMA AppendedObject ==
  ASSUME HolderTypeOK, OneUser, NoneLost, NEW o \in Nat, o # 0,
         m_availableQueue' = Append(m_availableQueue, o),
         \/ o = made + 1 /\ made' = o /\ using' = using
         \/ made' = made /\ \E u \in Users : using[u] = o /\ using' = [using EXCEPT ![u] = 0]
  PROVE  OneUser' /\ NoneLost'
<1> USE DEF HolderTypeOK
<1>1. /\ DOMAIN m_availableQueue = 1 .. Len(m_availableQueue) /\ Len(m_availableQueue) \in Nat
      /\ DOMAIN m_availableQueue' = 1 .. Len(m_availableQueue) + 1
      /\ \A i \in DOMAIN m_availableQueue : m_availableQueue'[i] = m_availableQueue[i]
      /\ m_availableQueue'[Len(m_availableQueue) + 1] = o
  OBVIOUS
<1>2. \A i \in DOMAIN m_availableQueue : m_availableQueue[i] \in Nat /\ m_availableQueue[i] # o
  BY <1>1 DEF OneUser, NoneLost
<1>3. \A v \in Users : using'[v] # o /\ using'[v] \in {0, using[v]}
  BY DEF OneUser, NoneLost
<1>4. OneUser'
  BY <1>1, <1>2, <1>3 DEF OneUser, NoneLost
<1>5. /\ made <= made' /\ o <= made' /\ made' \in Nat
      /\ \A p \in 1 .. made' : p = o \/ (p \in 1 .. made /\ \A v \in Users : using[v] = p => using'[v] = p)
  BY DEF NoneLost
<1>6. NoneLost'
  <2>1. \A v \in Users : using'[v] <= made'
    BY <1>3, <1>5 DEF NoneLost
  <2>2. \A i \in DOMAIN m_availableQueue' : m_availableQueue'[i] \in 1 .. made'
    BY <1>1, <1>5 DEF NoneLost
  <2>3. ASSUME NEW p \in 1 .. made'
        PROVE  \/ \E v \in Users : using'[v] = p
               \/ \E i \in DOMAIN m_availableQueue' : m_availableQueue'[i] = p
    <3>1. CASE p = o
      BY <1>1, <3>1
    <3>2. CASE p # o /\ \E v \in Users : using[v] = p
      BY <1>5, <3>2
    <3>3. CASE p # o /\ \E i \in DOMAIN m_availableQueue : m_availableQueue[i] = p
      BY <1>1, <3>3
    <3>4. QED  BY <1>5, <3>1, <3>2, <3>3 DEF NoneLost
  <2>4. QED  BY <2>1, <2>2, <2>3 DEF NoneLost
<1>7. QED  BY <1>4, <1>6

\* Each step keeps every object with one user or in one place of the queue.
LEMMA HolderPlaceStep ==
  ASSUME HolderInv, HolderNext
  PROVE  UsersHold' /\ OneUser' /\ NoneLost'
<1> PICK u \in Users :
      MakeOrGet(u) \/ TryPop(u) \/ Count(u) \/ Add(u) \/ PushBack(u) \/ Uncount(u)
  BY DEF HolderNext
<1> HolderTypeOK /\ UsersHold /\ OneUser /\ NoneLost
  BY DEF HolderInv
<1>1. CASE MakeOrGet(u)
  BY <1>1 DEF HolderTypeOK, HolderState, UsersHold, OneUser, NoneLost, MakeOrGet
<1>2. CASE TryPop(u)
  <2>1. CASE m_availableQueue = <<>>
    BY <1>2, <2>1 DEF HolderTypeOK, HolderState, UsersHold, OneUser, NoneLost, TryPop
  <2>2. CASE m_availableQueue # <<>>
    <3>1. /\ DOMAIN m_availableQueue = 1 .. Len(m_availableQueue)
          /\ Len(m_availableQueue) \in Nat /\ Len(m_availableQueue) > 0
          /\ DOMAIN m_availableQueue' = 1 .. Len(m_availableQueue) - 1
          /\ \A i \in DOMAIN m_availableQueue' : m_availableQueue'[i] = m_availableQueue[i + 1]
      BY <1>2, <2>2 DEF TryPop, HolderTypeOK
    <3>2. /\ using' = [using EXCEPT ![u] = m_availableQueue[1]]
          /\ at' = [at EXCEPT ![u] = "counting"] /\ at[u] = "trying" /\ made' = made
      BY <1>2, <2>2 DEF TryPop, HolderTypeOK
    <3>3. using[u] = 0 /\ m_availableQueue[1] \in 1 .. made
      BY <3>1, <3>2 DEF UsersHold, NoneLost, HolderTypeOK
    <3>4. UsersHold'
      BY <3>2, <3>3 DEF UsersHold, HolderTypeOK, HolderState
    <3>5. OneUser'
      <4>1. \A i \in DOMAIN m_availableQueue' :
              /\ i \in DOMAIN m_availableQueue /\ i + 1 \in DOMAIN m_availableQueue
              /\ m_availableQueue'[i] = m_availableQueue[i + 1] /\ m_availableQueue[i + 1] # m_availableQueue[1]
              /\ \A j \in DOMAIN m_availableQueue' : i + 1 = j + 1 => i = j
        BY <3>1 DEF OneUser
      <4>2. \A v \in Users : using'[v] = IF v = u THEN m_availableQueue[1] ELSE using[v]
        BY <3>2 DEF HolderTypeOK
      <4>3. \A v \in Users : using[v] # m_availableQueue[1]
        BY <3>1 DEF OneUser
      <4>4. \A v, w \in Users : (v # w /\ using'[v] # 0) => using'[v] # using'[w]
        BY <4>2, <4>3 DEF OneUser
      <4>5. \A i, j \in DOMAIN m_availableQueue' : m_availableQueue'[i] = m_availableQueue'[j] => i = j
        BY <4>1 DEF OneUser
      <4>6. \A v \in Users : \A i \in DOMAIN m_availableQueue' : using'[v] # m_availableQueue'[i]
        BY <4>1, <4>2 DEF OneUser
      <4>7. QED  BY <4>4, <4>5, <4>6 DEF OneUser
    <3>6. NoneLost'
      <4>1. ASSUME NEW o \in 1 .. made, NEW i \in DOMAIN m_availableQueue, m_availableQueue[i] = o
            PROVE  \/ \E v \in Users : using'[v] = o
                   \/ \E j \in DOMAIN m_availableQueue' : m_availableQueue'[j] = o
        <5>1. CASE i = 1
          BY <3>2, <4>1, <5>1 DEF HolderTypeOK
        <5>2. CASE i # 1
          <6>1. i - 1 \in DOMAIN m_availableQueue' /\ m_availableQueue'[i - 1] = o
            BY <3>1, <4>1, <5>2
          <6>2. QED  BY <6>1
        <5>3. QED  BY <5>1, <5>2
      <4>2. ASSUME NEW o \in 1 .. made, NEW v \in Users, using[v] = o
            PROVE  using'[v] = o
        BY <3>2, <3>3, <4>2 DEF HolderTypeOK
      <4>3. \A v \in Users : using'[v] <= made'
        BY <3>2, <3>3 DEF HolderTypeOK, NoneLost
      <4>4. \A i \in DOMAIN m_availableQueue' : m_availableQueue'[i] \in 1 .. made'
        BY <3>1, <3>2 DEF NoneLost
      <4>5. QED  BY <3>2, <4>1, <4>2, <4>3, <4>4 DEF NoneLost
    <3>7. QED  BY <3>4, <3>5, <3>6
  <2>3. QED  BY <2>1, <2>2
<1>3. CASE Count(u)
  BY <1>3 DEF HolderTypeOK, HolderState, UsersHold, OneUser, NoneLost, Count
<1>4. CASE Add(u)
  <2>1. m_availableQueue' = Append(m_availableQueue, made + 1) /\ made' = made + 1 /\ using' = using
    BY <1>4 DEF Add, HolderTypeOK
  <2>2. UsersHold'
    BY <1>4 DEF Add, UsersHold, HolderTypeOK, HolderState
  <2>3. OneUser' /\ NoneLost'
    <3>1. made + 1 \in Nat /\ made + 1 # 0
      BY DEF HolderTypeOK
    <3>2. QED  BY <2>1, <3>1, AppendedObject
  <2>4. QED  BY <2>2, <2>3
<1>5. CASE PushBack(u)
  <2>1. /\ m_availableQueue' = Append(m_availableQueue, using[u])
        /\ made' = made /\ using' = [using EXCEPT ![u] = 0]
        /\ using[u] \in 1 .. made
    BY <1>5 DEF PushBack, HolderTypeOK, UsersHold, NoneLost
  <2>2. UsersHold'
    BY <1>5 DEF PushBack, UsersHold, HolderTypeOK, HolderState
  <2>3. OneUser' /\ NoneLost'
    <3>1. using[u] \in Nat /\ using[u] # 0
      BY <2>1 DEF HolderTypeOK
    <3>2. QED  BY <2>1, <3>1, AppendedObject
  <2>4. QED  BY <2>2, <2>3
<1>6. CASE Uncount(u)
  BY <1>6 DEF HolderTypeOK, HolderState, UsersHold, OneUser, NoneLost, Uncount
<1>7. QED  BY <1>1, <1>2, <1>3, <1>4, <1>5, <1>6

\* Each step keeps the room for what is about to be made, and the count.
LEMMA HolderCountStep ==
  ASSUME HolderInv, HolderNext
  PROVE  RoomForMade' /\ RightCount'
<1> PICK u \in Users :
      MakeOrGet(u) \/ TryPop(u) \/ Count(u) \/ Add(u) \/ PushBack(u) \/ Uncount(u)
  BY DEF HolderNext
<1> HolderTypeOK /\ RoomForMade /\ RightCount
  BY DEF HolderInv
<1> USE DEF HolderTypeOK, HolderState, RoomForMade, RightCount
<1>0. /\ IsFiniteSet(Making) /\ Cardinality(Making) \in Nat
      /\ IsFiniteSet(Counted) /\ Cardinality(Counted) \in Nat
      /\ Cardinality(Users) \in Nat
  BY UsersCount DEF Making, Counted
<1>1. CASE MakeOrGet(u)
  <2>1. Making' = Making /\ Counted' = Counted
    BY <1>1 DEF MakeOrGet, Making, Counted
  <2>2. QED  BY <1>1, <2>1 DEF MakeOrGet
<1>2. CASE TryPop(u) /\ m_availableQueue = <<>>
  <2>1. Making' = Making \cup {u} /\ u \notin Making /\ Counted' = Counted
    BY <1>2 DEF TryPop, Making, Counted
  <2>2. Cardinality(Making') = Cardinality(Making) + 1
    BY <1>0, <2>1, FS_AddElement
  <2>3. made + Cardinality(Making) + 1 <= Cardinality(Users)
    BY <1>2, RoomWhenEmpty DEF TryPop
  <2>4. QED  BY <1>0, <1>2, <2>1, <2>2, <2>3 DEF TryPop
<1>3. CASE TryPop(u) /\ m_availableQueue # <<>>
  <2>1. Making' = Making /\ Counted' = Counted
    BY <1>3 DEF TryPop, Making, Counted
  <2>2. QED  BY <1>3, <2>1 DEF TryPop
<1>4. CASE Count(u)
  <2>1. Making' = Making /\ Counted' = Counted \cup {u} /\ u \notin Counted
    BY <1>4 DEF Count, Making, Counted
  <2>2. Cardinality(Counted') = Cardinality(Counted) + 1
    BY <1>0, <2>1, FS_AddElement
  <2>3. QED  BY <1>4, <2>1, <2>2 DEF Count
<1>5. CASE Add(u)
  <2>1. Making' = Making \ {u} /\ u \in Making /\ Counted' = Counted
    BY <1>5 DEF Add, Making, Counted
  <2>2. Cardinality(Making') = Cardinality(Making) - 1
    BY <1>0, <2>1, FS_RemoveElement
  <2>3. QED  BY <1>0, <1>5, <2>1, <2>2 DEF Add
<1>6. CASE PushBack(u)
  <2>1. Making' = Making /\ Counted' = Counted
    BY <1>6 DEF PushBack, Making, Counted
  <2>2. QED  BY <1>6, <2>1 DEF PushBack
<1>7. CASE Uncount(u)
  <2>1. Making' = Making /\ Counted' = Counted \ {u} /\ u \in Counted
    BY <1>7 DEF Uncount, Making, Counted
  <2>2. Cardinality(Counted') = Cardinality(Counted) - 1
    BY <1>0, <2>1, FS_RemoveElement
  <2>3. QED  BY <1>7, <2>1, <2>2 DEF Uncount
<1>8. QED  BY <1>1, <1>2, <1>3, <1>4, <1>5, <1>6, <1>7

\* The named parts are what the property says.
LEMMA HolderInvIsEnough == HolderInv => ObjectsHaveOneUser
<1> SUFFICES ASSUME HolderInv PROVE ObjectsHaveOneUser
  OBVIOUS
<1> DEFINE inUse == {using[u] : u \in Users} \ {0}
<1> USE DEF HolderInv, HolderTypeOK
<1>1. Range(m_availableQueue) \cup inUse = 1 .. made
  BY DEF NoneLost, Range
<1>2. Range(m_availableQueue) \cap inUse = {}
  BY DEF OneUser, Range
<1>3. IsInjective(m_availableQueue)
  BY DEF OneUser, IsInjective
<1>4. made <= Cardinality(Users)
  BY UsersCount DEF RoomForMade, Making
<1>5. QED
  BY <1>1, <1>2, <1>3, <1>4 DEF OneUser, RightCount, Counted, ObjectsHaveOneUser

-----------------------------------------------------------------------------

\* No object has two users and none is lost; although a user may lose the
\* object it has made to another, there are never more objects than users; the
\* count is right when the destructor asserts that it is zero
\* (ReusableObjectHolder.h:79-157).
THEOREM HolderSafe == HolderSpec => []ObjectsHaveOneUser
<1>1. HolderInv /\ [HolderNext]_holderVars => HolderInv'
  <2>1. CASE UNCHANGED holderVars
    BY <2>1 DEF holderVars, HolderInv, HolderTypeOK, UsersHold, OneUser, NoneLost, RoomForMade,
                RightCount, Making, Counted
  <2>2. CASE HolderNext
    BY <2>2, HolderTypeStep, HolderPlaceStep, HolderCountStep DEF HolderInv
  <2>3. QED  BY <2>1, <2>2
<1>2. QED
  BY <1>1, HolderInitInv, HolderInvIsEnough, PTL DEF HolderSpec

-----------------------------------------------------------------------------
(* The message scribe, for any threads, number of messages and number of     *)
(* exceptions before it gives up.                                            *)

(* The inductive invariant *)

ScribeTypeOK ==
    /\ step \in [Threads -> {"idle", "pushing", "sending", "popping", "releasing"}]
    /\ hand \in [Threads -> Nat]
    /\ {m_messageBeingSent, purge_mode, active, over} \subseteq BOOLEAN
    /\ m_waitingMessages \in Seq(Nat) /\ sent \in Seq(Nat)
    /\ count \in Nat /\ logged \in Nat

\* The threads that own the turn: m_messageBeingSent is theirs.
Owners == {"sending", "popping", "releasing"}
OneOwner ==
    \A t \in Threads : step[t] \in Owners =>
        /\ m_messageBeingSent
        /\ \A u \in Threads \ {t} : step[u] \notin Owners

Held == {hand[t] : t \in Threads} \ {0}
Hands ==
    /\ \A t \in Threads : step[t] \in {"pushing", "sending"} <=> hand[t] # 0
    /\ \A t, u \in Threads : hand[t] = hand[u] /\ hand[t] # 0 => t = u

\* Every message is in one place.
Places ==
    /\ Range(sent) \cup Range(m_waitingMessages) \cup dropped \cup Held = 1 .. logged
    /\ Range(sent) \cap Range(m_waitingMessages) = {}
    /\ Range(sent) \cap dropped = {}
    /\ Range(m_waitingMessages) \cap dropped = {}
    /\ Held \cap (Range(sent) \cup Range(m_waitingMessages) \cup dropped) = {}
    /\ IsInjective(sent) /\ IsInjective(m_waitingMessages)

Lossless ==
    /\ active /\ count = 0 /\ ~purge_mode => dropped = {}
    /\ over => m_waitingMessages = <<>> /\ \A t \in Threads : step[t] = "idle"

ScribeInv == ScribeTypeOK /\ OneOwner /\ Hands /\ Places /\ Lossless

-----------------------------------------------------------------------------
(* Sequences *)

\* Range and IsInjective by the indices of a sequence.
ByIndex(s) ==
  /\ Len(s) \in Nat /\ \A i \in 1 .. Len(s) : s[i] \in Range(s)
  /\ \A x \in Range(s) : \E i \in 1 .. Len(s) : x = s[i]
  /\ IsInjective(s) <=> \A i, j \in 1 .. Len(s) : s[i] = s[j] => i = j

LEMMA SeqFacts ==
  ASSUME NEW s \in Seq(Nat)
  PROVE  ByIndex(s)
<1>1. Len(s) \in Nat /\ DOMAIN s = 1 .. Len(s) OBVIOUS
<1>2. Range(s) = {s[i] : i \in 1 .. Len(s)} BY <1>1 DEF Range
<1>3. IsInjective(s) <=> \A i, j \in 1 .. Len(s) : s[i] = s[j] => i = j
  BY <1>1 DEF IsInjective
<1> QED BY <1>1, <1>2, <1>3 DEF ByIndex

LEMMA Appended ==
  ASSUME NEW s \in Seq(Nat), NEW x \in Nat
  PROVE  /\ Append(s, x) \in Seq(Nat)
         /\ Range(Append(s, x)) = Range(s) \cup {x}
         /\ IsInjective(s) /\ x \notin Range(s) => IsInjective(Append(s, x))
<1>0. Append(s, x) \in Seq(Nat) OBVIOUS
<1>1. PICK a \in Seq(Nat) : a = Append(s, x) BY <1>0
<1>f. ByIndex(s) /\ ByIndex(a) BY SeqFacts
<1>2. /\ Len(a) = Len(s) + 1 /\ Len(s) \in Nat
      /\ \A i \in 1 .. Len(s) : a[i] = s[i]
      /\ a[Len(s) + 1] = x
  BY <1>1
<1>3. \A i \in 1 .. Len(a) : i \in 1 .. Len(s) \/ i = Len(s) + 1 BY <1>2
<1>4. \A i \in 1 .. Len(s) : i \in 1 .. Len(a) /\ i # Len(s) + 1 BY <1>2
<1>5. Len(s) + 1 \in 1 .. Len(a) BY <1>2
<1>6. Range(a) = Range(s) \cup {x}
  <2>1. ASSUME NEW y \in Range(a) PROVE y \in Range(s) \cup {x}
    <3>1. PICK i \in 1 .. Len(a) : y = a[i] BY <1>f DEF ByIndex
    <3>2. CASE i \in 1 .. Len(s)
      <4>1. y = s[i] BY <1>2, <3>1, <3>2
      <4> QED BY <3>2, <4>1, <1>f DEF ByIndex
    <3>3. CASE i = Len(s) + 1 BY <1>2, <3>1, <3>3
    <3> QED BY <1>3, <3>2, <3>3
  <2>2. ASSUME NEW y \in Range(s) PROVE y \in Range(a)
    <3>1. PICK i \in 1 .. Len(s) : y = s[i] BY <1>f DEF ByIndex
    <3>2. y = a[i] /\ i \in 1 .. Len(a) BY <1>2, <1>4, <3>1
    <3> QED BY <3>2, <1>f DEF ByIndex
  <2>3. x \in Range(a) BY <1>2, <1>5, <1>f DEF ByIndex
  <2> QED BY <2>1, <2>2, <2>3
<1>7. IsInjective(s) /\ x \notin Range(s) => IsInjective(a)
  <2>1. SUFFICES ASSUME IsInjective(s), x \notin Range(s),
                        NEW i \in 1 .. Len(a), NEW j \in 1 .. Len(a), a[i] = a[j]
                 PROVE  i = j
    BY <1>f DEF ByIndex
  <2>2. CASE i \in 1 .. Len(s) /\ j \in 1 .. Len(s) BY <1>2, <2>1, <2>2, <1>f DEF ByIndex
  <2>3. CASE i \in 1 .. Len(s) /\ j = Len(s) + 1 BY <1>2, <2>1, <2>3, <1>f DEF ByIndex
  <2>4. CASE j \in 1 .. Len(s) /\ i = Len(s) + 1 BY <1>2, <2>1, <2>4, <1>f DEF ByIndex
  <2> QED BY <1>3, <2>2, <2>3, <2>4
<1> QED BY <1>1, <1>6, <1>7

LEMMA Taken ==
  ASSUME NEW s \in Seq(Nat), s # <<>>, IsInjective(s)
  PROVE  /\ Tail(s) \in Seq(Nat) /\ Head(s) \in Nat
         /\ Range(s) = Range(Tail(s)) \cup {Head(s)}
         /\ Head(s) \notin Range(Tail(s))
         /\ IsInjective(Tail(s))
<1>0. Tail(s) \in Seq(Nat) OBVIOUS
<1>1. PICK r \in Seq(Nat) : r = Tail(s) BY <1>0
<1>f. ByIndex(s) /\ ByIndex(r) BY SeqFacts
<1>2. /\ Len(s) \in Nat \ {0} /\ Len(r) = Len(s) - 1 /\ Head(s) = s[1] /\ Head(s) \in Nat
      /\ \A i \in 1 .. Len(r) : r[i] = s[i + 1]
  BY <1>1
<1>3. \A i \in 1 .. Len(r) : i + 1 \in 1 .. Len(s) /\ i + 1 # 1 BY <1>2
<1>4. \A j \in 1 .. Len(s) : j = 1 \/ \E i \in 1 .. Len(r) : j = i + 1
  <2>1. TAKE j \in 1 .. Len(s)
  <2>2. j = 1 \/ (j - 1 \in 1 .. Len(r) /\ j = (j - 1) + 1) BY <1>2
  <2> QED BY <2>2
<1>5. 1 \in 1 .. Len(s) BY <1>2
<1>6. Range(s) = Range(r) \cup {Head(s)}
  <2>1. ASSUME NEW y \in Range(s) PROVE y \in Range(r) \cup {Head(s)}
    <3>1. PICK j \in 1 .. Len(s) : y = s[j] BY <1>f DEF ByIndex
    <3>2. CASE j = 1 BY <1>2, <3>1, <3>2
    <3>3. CASE \E i \in 1 .. Len(r) : j = i + 1
      <4>1. PICK i \in 1 .. Len(r) : j = i + 1 BY <3>3
      <4>2. y = r[i] BY <1>2, <3>1, <4>1
      <4> QED BY <4>2, <1>f DEF ByIndex
    <3> QED BY <1>4, <3>2, <3>3
  <2>2. ASSUME NEW y \in Range(r) PROVE y \in Range(s)
    <3>1. PICK i \in 1 .. Len(r) : y = r[i] BY <1>f DEF ByIndex
    <3>2. y = s[i + 1] /\ i + 1 \in 1 .. Len(s) BY <1>2, <1>3, <3>1
    <3> QED BY <3>2, <1>f DEF ByIndex
  <2>3. Head(s) \in Range(s) BY <1>2, <1>5, <1>f DEF ByIndex
  <2> QED BY <2>1, <2>2, <2>3
<1>7. Head(s) \notin Range(r) BY <1>2, <1>3, <1>5, <1>f, SMTT(40) DEF ByIndex
<1>8. IsInjective(r)
  <2>1. SUFFICES ASSUME NEW i \in 1 .. Len(r), NEW j \in 1 .. Len(r), r[i] = r[j]
                 PROVE  i = j
    BY <1>f DEF ByIndex
  <2>2. s[i + 1] = s[j + 1] /\ i + 1 \in 1 .. Len(s) /\ j + 1 \in 1 .. Len(s)
    BY <1>2, <1>3, <2>1
  <2>3. i + 1 = j + 1 BY <2>2, <1>f DEF ByIndex
  <2> QED BY <2>3
<1> QED BY <1>1, <1>2, <1>6, <1>7, <1>8

LEMMA Joined ==
  ASSUME NEW s \in Seq(Nat), NEW r \in Seq(Nat),
         IsInjective(s), IsInjective(r), Range(s) \cap Range(r) = {}
  PROVE  s \o r \in Seq(Nat) /\ Range(s \o r) = Range(s) \cup Range(r) /\ IsInjective(s \o r)
<1>0. s \o r \in Seq(Nat) OBVIOUS
<1>1. PICK a \in Seq(Nat) : a = s \o r BY <1>0
<1>f. ByIndex(s) /\ ByIndex(a) /\ ByIndex(r) BY SeqFacts
<1>2. /\ Len(s) \in Nat /\ Len(r) \in Nat /\ Len(a) = Len(s) + Len(r)
      /\ \A i \in 1 .. Len(s) : a[i] = s[i]
      /\ \A i \in 1 .. Len(r) : a[Len(s) + i] = r[i]
  BY <1>1
<1>3. \A i \in 1 .. Len(a) : i \in 1 .. Len(s) \/ \E j \in 1 .. Len(r) : i = Len(s) + j
  <2>1. TAKE i \in 1 .. Len(a)
  <2>2. i \in 1 .. Len(s) \/ (i - Len(s) \in 1 .. Len(r) /\ i = Len(s) + (i - Len(s))) BY <1>2
  <2> QED BY <2>2
<1>4. \A i \in 1 .. Len(s) : i \in 1 .. Len(a) BY <1>2
<1>5. \A i \in 1 .. Len(r) : Len(s) + i \in 1 .. Len(a) BY <1>2
<1>6. Range(a) = Range(s) \cup Range(r)
  <2>1. ASSUME NEW y \in Range(a) PROVE y \in Range(s) \cup Range(r)
    <3>1. PICK i \in 1 .. Len(a) : y = a[i] BY <1>f DEF ByIndex
    <3>2. CASE i \in 1 .. Len(s)
      <4>1. y = s[i] BY <1>2, <3>1, <3>2
      <4> QED BY <3>2, <4>1, <1>f DEF ByIndex
    <3>3. CASE \E j \in 1 .. Len(r) : i = Len(s) + j
      <4>1. PICK j \in 1 .. Len(r) : i = Len(s) + j BY <3>3
      <4>2. y = r[j] BY <1>2, <3>1, <4>1
      <4> QED BY <4>2, <1>f DEF ByIndex
    <3> QED BY <1>3, <3>2, <3>3
  <2>2. ASSUME NEW y \in Range(s) PROVE y \in Range(a)
    <3>1. PICK i \in 1 .. Len(s) : y = s[i] BY <1>f DEF ByIndex
    <3>2. y = a[i] /\ i \in 1 .. Len(a) BY <1>2, <1>4, <3>1
    <3> QED BY <3>2, <1>f DEF ByIndex
  <2>3. ASSUME NEW y \in Range(r) PROVE y \in Range(a)
    <3>1. PICK i \in 1 .. Len(r) : y = r[i] BY <1>f DEF ByIndex
    <3>2. y = a[Len(s) + i] /\ Len(s) + i \in 1 .. Len(a) BY <1>2, <1>5, <3>1
    <3> QED BY <3>2, <1>f DEF ByIndex
  <2> QED BY <2>1, <2>2, <2>3
<1>7. IsInjective(a)
  <2>1. SUFFICES ASSUME NEW i \in 1 .. Len(a), NEW j \in 1 .. Len(a), a[i] = a[j]
                 PROVE  i = j
    BY <1>f DEF ByIndex
  <2>2. CASE i \in 1 .. Len(s) /\ j \in 1 .. Len(s)
    BY <1>2, <2>1, <2>2, <1>f DEF ByIndex
  <2>3. CASE i \in 1 .. Len(s) /\ \E k \in 1 .. Len(r) : j = Len(s) + k
    BY <1>2, <2>1, <2>3, <1>f DEF ByIndex
  <2>4. CASE j \in 1 .. Len(s) /\ \E k \in 1 .. Len(r) : i = Len(s) + k
    BY <1>2, <2>1, <2>4, <1>f, ZenonT(40) DEF ByIndex
  <2>5. CASE (\E k \in 1 .. Len(r) : i = Len(s) + k) /\ (\E k \in 1 .. Len(r) : j = Len(s) + k)
    <3>1. PICK k \in 1 .. Len(r), l \in 1 .. Len(r) : i = Len(s) + k /\ j = Len(s) + l BY <2>5
    <3>2. r[k] = r[l] BY <1>2, <2>1, <3>1
    <3> QED BY <3>1, <3>2, <1>f DEF ByIndex
  <2> QED BY <1>3, <2>2, <2>3, <2>4, <2>5
<1> QED BY <1>1, <1>6, <1>7

-----------------------------------------------------------------------------
(* The steps *)

LEMMA ScribeInitially == ScribeInit => ScribeInv
<1> SUFFICES ASSUME ScribeInit PROVE ScribeInv OBVIOUS
<1> USE DEF ScribeInit
<1>1. ScribeTypeOK
  <2>1. {m_messageBeingSent, purge_mode, active, over} \subseteq BOOLEAN OBVIOUS
  <2>2. m_waitingMessages \in Seq(Nat) /\ sent \in Seq(Nat) OBVIOUS
  <2>3. /\ hand \in [Threads -> Nat] /\ count \in Nat /\ logged \in Nat
        /\ step \in [Threads -> {"idle", "pushing", "sending", "popping", "releasing"}]
    OBVIOUS
  <2> QED BY <2>1, <2>2, <2>3 DEF ScribeTypeOK
<1>2. OneOwner /\ Hands /\ Lossless BY DEF OneOwner, Owners, Hands, Lossless
<1>3. Range(sent) = {} /\ Range(m_waitingMessages) = {} /\ Held = {} BY DEF Range, Held
<1>4. IsInjective(sent) /\ IsInjective(m_waitingMessages) BY DEF IsInjective
<1>5. Places BY <1>3, <1>4 DEF Places
<1> QED BY <1>1, <1>2, <1>5 DEF ScribeInv

\* What a step does to the messages: a change of hands, sequences and dropped.
LEMMA HandGiven ==
  ASSUME ScribeTypeOK, NEW t \in Threads, NEW m \in Nat, hand' = [hand EXCEPT ![t] = m],
         \A u \in Threads : hand[u] = hand[t] /\ hand[t] # 0 => u = t
  PROVE  Held' = (Held \ {hand[t]}) \cup ({m} \ {0})
<1>1. hand'[t] = m /\ \A u \in Threads \ {t} : hand'[u] = hand[u] BY DEF ScribeTypeOK
<1>2. ASSUME NEW x \in Held' PROVE x \in (Held \ {hand[t]}) \cup ({m} \ {0})
  <2>1. PICK u \in Threads : x = hand'[u] /\ x # 0 BY <1>2 DEF Held
  <2>2. CASE u = t BY <1>1, <2>1, <2>2
  <2>3. CASE u # t
    <3>1. x = hand[u] /\ x # 0 BY <1>1, <2>1, <2>3
    <3>2. x # hand[t] BY <2>3, <3>1
    <3> QED BY <3>1, <3>2 DEF Held
  <2> QED BY <2>2, <2>3
<1>3. ASSUME NEW x \in Held \ {hand[t]} PROVE x \in Held'
  <2>1. PICK u \in Threads : x = hand[u] /\ x # 0 BY <1>3 DEF Held
  <2>2. u # t /\ hand'[u] = x BY <1>1, <1>3, <2>1
  <2> QED BY <2>1, <2>2 DEF Held
<1>4. ASSUME m # 0 PROVE m \in Held' BY <1>1, <1>4 DEF Held
<1> QED BY <1>2, <1>3, <1>4

LEMMA ScribeTypeStep ==
  ASSUME ScribeInv, ScribeNext
  PROVE  ScribeTypeOK'
<1>0. ScribeTypeOK BY DEF ScribeInv
<1> USE DEF ScribeTypeOK
<1>1. ASSUME NEW t \in Threads, LogAMessage(t) PROVE ScribeTypeOK'
  <2>1. logged' = logged + 1 /\ logged' \in Nat BY <1>0, <1>1 DEF LogAMessage
  <2> QED BY <1>0, <1>1, <2>1 DEF LogAMessage
<1>2. ASSUME NEW t \in Threads, Push(t) PROVE ScribeTypeOK'
  <2>1. hand[t] \in Nat BY <1>0
  <2>2. m_waitingMessages' \in Seq(Nat) BY <1>0, <1>2, <2>1, Appended DEF Push
  <2> QED BY <1>0, <1>2, <2>2 DEF Push
<1>3. ASSUME NEW t \in Threads, Send(t) PROVE ScribeTypeOK'
  <2>1. hand[t] \in Nat BY <1>0
  <2>2. sent' \in Seq(Nat) BY <1>0, <1>3, <2>1, Appended DEF Send
  <2> QED BY <1>0, <1>3, <2>2 DEF Send
<1>4. ASSUME NEW t \in Threads, Pop(t) PROVE ScribeTypeOK'
  <2>1. CASE ~purge_mode /\ m_waitingMessages # <<>>
    <3>1. Head(m_waitingMessages) \in Nat /\ Tail(m_waitingMessages) \in Seq(Nat)
      BY <1>0, <2>1, Taken DEF ScribeInv, Places
    <3> QED BY <1>0, <1>4, <2>1, <3>1 DEF Pop
  <2>2. CASE ~(~purge_mode /\ m_waitingMessages # <<>>) BY <1>0, <1>4, <2>2 DEF Pop
  <2> QED BY <2>1, <2>2
<1>5. ASSUME NEW t \in Threads, Release(t) PROVE ScribeTypeOK'
  BY <1>0, <1>5 DEF Release
<1>6. ASSUME NEW t \in Threads, NEW c \in BOOLEAN, Throw(t, c) PROVE ScribeTypeOK'
  <2>1. count' \in Nat BY <1>0, <1>6 DEF Throw
  <2>2. purge_mode' \in BOOLEAN BY <1>0, <1>6 DEF Throw
  <2> QED BY <1>0, <1>6, <2>1, <2>2 DEF Throw
<1>7. CASE ShutUp BY <1>0, <1>7 DEF ShutUp
<1>8. CASE Destruct
  <2>1. sent \o m_waitingMessages \in Seq(Nat) BY <1>0
  <2> QED BY <1>0, <1>8, <2>1 DEF Destruct
<1> QED BY <1>1, <1>2, <1>3, <1>4, <1>5, <1>6, <1>7, <1>8 DEF ScribeNext

\* One thread owns the turn: the flag it found clear is set until it lets go,
\* and an exception leaves the flag set for nobody.
LEMMA OneOwnerStep ==
  ASSUME ScribeInv, ScribeNext
  PROVE  OneOwner' /\ Lossless'
<1>0. ScribeTypeOK /\ OneOwner /\ Lossless BY DEF ScribeInv
<1> USE DEF ScribeTypeOK, OneOwner, Owners, Lossless
<1>1. ASSUME NEW t \in Threads, LogAMessage(t) PROVE OneOwner' /\ Lossless'
  <2>1. CASE active /\ ~purge_mode
    <3>1. CASE m_messageBeingSent BY <1>0, <1>1, <2>1, <3>1 DEF LogAMessage
    <3>2. CASE ~m_messageBeingSent
      <4>1. \A u \in Threads : step[u] \notin Owners BY <1>0, <3>2
      <4> QED BY <1>0, <1>1, <2>1, <3>2, <4>1 DEF LogAMessage
    <3> QED BY <3>1, <3>2
  <2>2. CASE ~(active /\ ~purge_mode) BY <1>0, <1>1, <2>2 DEF LogAMessage
  <2> QED BY <2>1, <2>2
<1>2. ASSUME NEW t \in Threads, Push(t) PROVE OneOwner' /\ Lossless' BY <1>0, <1>2 DEF Push
<1>3. ASSUME NEW t \in Threads, Send(t) PROVE OneOwner' /\ Lossless' BY <1>0, <1>3 DEF Send
<1>4. ASSUME NEW t \in Threads, Pop(t) PROVE OneOwner' /\ Lossless' BY <1>0, <1>4 DEF Pop
<1>5. ASSUME NEW t \in Threads, Release(t) PROVE OneOwner' /\ Lossless' BY <1>0, <1>5 DEF Release
<1>6. ASSUME NEW t \in Threads, NEW c \in BOOLEAN, Throw(t, c) PROVE OneOwner' /\ Lossless'
  <2>1. count' # 0 \/ purge_mode' BY <1>0, <1>6 DEF Throw
  <2>2. OneOwner' BY <1>0, <1>6 DEF Throw
  <2>3. ~over /\ UNCHANGED over BY <1>0, <1>6 DEF Throw
  <2> QED BY <2>1, <2>2, <2>3
<1>7. CASE ShutUp BY <1>0, <1>7 DEF ShutUp
<1>8. CASE Destruct BY <1>0, <1>8 DEF Destruct
<1> QED BY <1>1, <1>2, <1>3, <1>4, <1>5, <1>6, <1>7, <1>8 DEF ScribeNext

\* A message passes from one place to the next, whole.
LEMMA PlacesStep ==
  ASSUME ScribeInv, ScribeNext
  PROVE  Hands' /\ Places'
<1>0. ScribeTypeOK /\ Hands /\ Places BY DEF ScribeInv
<1>a. \A x \in Held : x \in 1 .. logged BY <1>0 DEF Places
<1>b. \A t \in Threads : hand[t] \in Nat /\ (hand[t] # 0 => hand[t] \in Held)
  BY <1>0 DEF ScribeTypeOK, Held
<1>c. \A t, u \in Threads : hand[u] = hand[t] /\ hand[t] # 0 => u = t BY <1>0 DEF Hands
<1>d. logged \in Nat /\ logged + 1 \notin 1 .. logged /\ logged + 1 # 0
      /\ 1 .. logged + 1 = (1 .. logged) \cup {logged + 1}
  BY <1>0 DEF ScribeTypeOK
<1>1. ASSUME NEW t \in Threads, LogAMessage(t) PROVE Hands' /\ Places'
  <2>1. logged' = logged + 1 /\ 1 .. logged' = (1 .. logged) \cup {logged + 1}
        /\ hand[t] = 0 /\ UNCHANGED <<sent, m_waitingMessages>>
    BY <1>0, <1>1, <1>d DEF LogAMessage, Hands
  <2>2. CASE active /\ ~purge_mode
    <3>1. hand' = [hand EXCEPT ![t] = logged + 1] /\ UNCHANGED dropped
          /\ step' = [step EXCEPT ![t] = IF m_messageBeingSent THEN "pushing" ELSE "sending"]
      <4>1. hand' = [hand EXCEPT ![t] = logged'] /\ UNCHANGED dropped
            /\ step' = [step EXCEPT ![t] = IF m_messageBeingSent THEN "pushing" ELSE "sending"]
        BY <1>1, <2>2, Zenon DEF LogAMessage
      <4> QED BY <2>1, <4>1
    <3>a. PICK m \in Nat : m = logged + 1 BY <1>d
    <3>b. Held' = (Held \ {hand[t]}) \cup ({m} \ {0})
      BY <1>0, <1>c, <3>1, <3>a, HandGiven
    <3>2. Held' = (Held \ {hand[t]}) \cup ({logged + 1} \ {0}) BY <3>a, <3>b
    <3>3. Held' = Held \cup {logged + 1} BY <1>d, <2>1, <3>2 DEF Held
    <3>4. \A u \in Threads : hand[u] # logged + 1 BY <1>a, <1>b, <1>d
    <3>5. Hands' BY <1>0, <1>d, <3>1, <3>4 DEF Hands, ScribeTypeOK
    <3>6. Places' BY <1>0, <1>d, <2>1, <3>1, <3>3 DEF Places
    <3> QED BY <3>5, <3>6
  <2>3. CASE ~(active /\ ~purge_mode)
    <3>1. dropped' = dropped \cup {logged + 1} /\ UNCHANGED <<hand, step>>
      BY <1>1, <2>1, <2>3 DEF LogAMessage
    <3>2. Held' = Held BY <3>1 DEF Held
    <3> QED BY <1>0, <1>d, <2>1, <3>1, <3>2 DEF Hands, Places
  <2> QED BY <2>2, <2>3
<1>e. ASSUME NEW t \in Threads, hand[t] # 0, hand' = [hand EXCEPT ![t] = 0],
             step'[t] \in {"idle", "popping"},
             \A u \in Threads \ {t} : step'[u] = step[u]
      PROVE  Hands' /\ Held' = Held \ {hand[t]} /\ hand[t] \in Held
  <2>1. Held' = (Held \ {hand[t]}) \cup ({0} \ {0}) BY <1>0, <1>c, <1>e, HandGiven
  <2>2. hand'[t] = 0 /\ \A u \in Threads \ {t} : hand'[u] = hand[u] BY <1>0, <1>e DEF ScribeTypeOK
  <2>3. Hands' BY <1>0, <1>e, <2>2 DEF Hands
  <2> QED BY <1>b, <1>e, <2>1, <2>3
<1>2. ASSUME NEW t \in Threads, Push(t) PROVE Hands' /\ Places'
  <2>1. /\ hand[t] # 0 /\ hand' = [hand EXCEPT ![t] = 0] /\ hand[t] \in Nat
        /\ step'[t] = "idle" /\ \A u \in Threads \ {t} : step'[u] = step[u]
        /\ m_waitingMessages' = Append(m_waitingMessages, hand[t])
        /\ UNCHANGED <<sent, dropped, logged>>
    BY <1>0, <1>2 DEF Push, Hands, ScribeTypeOK
  <2>2. Hands' /\ Held' = Held \ {hand[t]} /\ hand[t] \in Held BY <1>e, <2>1
  <2>3. hand[t] \notin Range(m_waitingMessages) BY <1>0, <2>2 DEF Places
  <2>4. /\ Range(m_waitingMessages') = Range(m_waitingMessages) \cup {hand[t]}
        /\ IsInjective(m_waitingMessages')
    BY <1>0, <2>1, <2>3, Appended DEF Places, ScribeTypeOK
  <2> QED BY <1>0, <2>1, <2>2, <2>4 DEF Places
<1>3. ASSUME NEW t \in Threads, Send(t) PROVE Hands' /\ Places'
  <2>1. /\ hand[t] # 0 /\ hand' = [hand EXCEPT ![t] = 0] /\ hand[t] \in Nat
        /\ step'[t] = "popping" /\ \A u \in Threads \ {t} : step'[u] = step[u]
        /\ sent' = Append(sent, hand[t])
        /\ UNCHANGED <<m_waitingMessages, dropped, logged>>
    BY <1>0, <1>3 DEF Send, Hands, ScribeTypeOK
  <2>2. Hands' /\ Held' = Held \ {hand[t]} /\ hand[t] \in Held BY <1>e, <2>1
  <2>3. hand[t] \notin Range(sent) BY <1>0, <2>2 DEF Places
  <2>4. /\ Range(sent') = Range(sent) \cup {hand[t]} /\ IsInjective(sent')
    BY <1>0, <2>1, <2>3, Appended DEF Places, ScribeTypeOK
  <2> QED BY <1>0, <2>1, <2>2, <2>4 DEF Places
<1>4. ASSUME NEW t \in Threads, Pop(t) PROVE Hands' /\ Places'
  <2>1. CASE ~purge_mode /\ m_waitingMessages # <<>>
    <3>1. /\ hand[t] = 0 /\ step'[t] = "sending" /\ \A u \in Threads \ {t} : step'[u] = step[u]
          /\ hand' = [hand EXCEPT ![t] = Head(m_waitingMessages)]
          /\ m_waitingMessages' = Tail(m_waitingMessages)
          /\ UNCHANGED <<sent, dropped, logged>>
      BY <1>0, <1>4, <2>1 DEF Pop, Hands, ScribeTypeOK
    <3>2. /\ Head(m_waitingMessages) \in Nat /\ Tail(m_waitingMessages) \in Seq(Nat)
          /\ Range(m_waitingMessages) = Range(m_waitingMessages') \cup {Head(m_waitingMessages)}
          /\ Head(m_waitingMessages) \notin Range(m_waitingMessages')
          /\ IsInjective(m_waitingMessages')
      BY <1>0, <2>1, <3>1, Taken DEF Places, ScribeTypeOK
    <3>3. PICK m \in Nat : m = Head(m_waitingMessages) BY <3>2
    <3>4. m \in 1 .. logged /\ m # 0 /\ m \notin Held
      BY <1>0, <1>d, <3>2, <3>3 DEF Places
    <3>5. Held' = (Held \ {hand[t]}) \cup ({m} \ {0})
      BY <1>0, <1>c, <3>1, <3>3, HandGiven
    <3>6. Held' = Held \cup {m} BY <3>1, <3>4, <3>5 DEF Held
    <3>7. hand'[t] = m /\ \A u \in Threads \ {t} : hand'[u] = hand[u] /\ hand[u] # m
      BY <1>0, <1>b, <3>1, <3>3, <3>4 DEF ScribeTypeOK
    <3>8. Hands' BY <1>0, <3>1, <3>4, <3>7 DEF Hands
    <3>9. Places' BY <1>0, <3>1, <3>2, <3>3, <3>6 DEF Places
    <3> QED BY <3>8, <3>9
  <2>2. CASE ~(~purge_mode /\ m_waitingMessages # <<>>)
    <3>1. /\ step'[t] = "releasing" /\ step[t] = "popping"
          /\ \A u \in Threads \ {t} : step'[u] = step[u]
          /\ UNCHANGED <<hand, sent, m_waitingMessages, dropped, logged>>
      BY <1>0, <1>4, <2>2 DEF Pop, ScribeTypeOK
    <3>2. Held' = Held BY <3>1 DEF Held
    <3> QED BY <1>0, <3>1, <3>2 DEF Hands, Places
  <2> QED BY <2>1, <2>2
<1>5. ASSUME NEW t \in Threads, Release(t) PROVE Hands' /\ Places'
  <2>1. /\ step'[t] = "idle" /\ step[t] = "releasing"
        /\ \A u \in Threads \ {t} : step'[u] = step[u]
        /\ UNCHANGED <<hand, sent, m_waitingMessages, dropped, logged>>
    BY <1>0, <1>5 DEF Release, ScribeTypeOK
  <2>2. Held' = Held BY <2>1 DEF Held
  <2> QED BY <1>0, <2>1, <2>2 DEF Hands, Places
<1>6. ASSUME NEW t \in Threads, NEW c \in BOOLEAN, Throw(t, c) PROVE Hands' /\ Places'
  <2>1. /\ hand[t] # 0 /\ hand' = [hand EXCEPT ![t] = 0]
        /\ step'[t] = "idle" /\ \A u \in Threads \ {t} : step'[u] = step[u]
        /\ dropped' = dropped \cup {hand[t]}
        /\ UNCHANGED <<m_waitingMessages, sent, logged>>
    BY <1>0, <1>6 DEF Throw, Hands, ScribeTypeOK
  <2>2. Hands' /\ Held' = Held \ {hand[t]} /\ hand[t] \in Held BY <1>e, <2>1
  <2> QED BY <1>0, <2>1, <2>2 DEF Places
<1>7. CASE ShutUp
  <2>1. UNCHANGED <<step, hand, sent, m_waitingMessages, dropped, logged>> BY <1>7 DEF ShutUp
  <2>2. Held' = Held BY <2>1 DEF Held
  <2> QED BY <1>0, <2>1, <2>2 DEF Hands, Places
<1>8. CASE Destruct
  <2>1. UNCHANGED <<step, hand, logged>> /\ m_waitingMessages' = <<>> BY <1>8 DEF Destruct
  <2>2. Held' = Held /\ Hands' BY <1>0, <2>1 DEF Held, Hands
  <2>3. Range(m_waitingMessages') = {} /\ IsInjective(m_waitingMessages')
    BY <2>1 DEF Range, IsInjective
  <2>4. CASE purge_mode
    <3>1. sent' = sent /\ dropped' = dropped \cup Range(m_waitingMessages)
      BY <1>8, <2>4 DEF Destruct
    <3> QED BY <1>0, <2>1, <2>2, <2>3, <3>1 DEF Places
  <2>5. CASE ~purge_mode
    <3>1. sent' = sent \o m_waitingMessages /\ dropped' = dropped BY <1>8, <2>5 DEF Destruct
    <3>2. Range(sent') = Range(sent) \cup Range(m_waitingMessages) /\ IsInjective(sent')
      BY <1>0, <3>1, Joined DEF Places, ScribeTypeOK
    <3> QED BY <1>0, <2>1, <2>2, <2>3, <3>1, <3>2 DEF Places
  <2> QED BY <2>4, <2>5
<1> QED BY <1>1, <1>2, <1>3, <1>4, <1>5, <1>6, <1>7, <1>8 DEF ScribeNext

LEMMA ScribeInductive == ScribeInv /\ [ScribeNext]_scribeVars => ScribeInv'
<1>1. ASSUME ScribeInv, ScribeNext PROVE ScribeInv'
  BY <1>1, ScribeTypeStep, OneOwnerStep, PlacesStep DEF ScribeInv
<1>2. ASSUME ScribeInv, UNCHANGED scribeVars PROVE ScribeInv'
  BY <1>2 DEF ScribeInv, scribeVars, ScribeTypeOK, OneOwner, Hands, Places, Lossless, Held
<1> QED BY <1>1, <1>2

LEMMA FourParts ==
  ASSUME NEW a, NEW b, NEW c, NEW d
  PROVE  UNION Range(<<a, b, c, d>>) = a \cup b \cup c \cup d
<1>1. DOMAIN <<a, b, c, d>> = 1 .. 4 OBVIOUS
<1>2. 1 .. 4 = {1, 2, 3, 4} OBVIOUS
<1>3. Range(<<a, b, c, d>>) = {a, b, c, d} BY <1>1, <1>2 DEF Range
<1> QED BY <1>3

\* A destination is used by one thread at a time, no message is lost or sent
\* twice, and what waits when the job ends is sent then: log, runCommand and the
\* destructor of ThreadSafeLogMessageLoggerScribe.
THEOREM ScribeKeepsMessages == ScribeSpec => []MessagesKept
<1>1. ScribeInv => MessagesKept
  <2> SUFFICES ASSUME ScribeInv PROVE MessagesKept OBVIOUS
  <2>0. ScribeTypeOK /\ OneOwner /\ Places /\ Lossless BY DEF ScribeInv
  <2>1. Cardinality({t \in Threads : step[t] \in {"sending", "popping"}}) <= 1
    <3>1. PICK O : O = {t \in Threads : step[t] \in {"sending", "popping"}} OBVIOUS
    <3>2. O = {} \/ \E t : O = {t} BY <2>0, <3>1 DEF OneOwner, Owners
    <3>3. Cardinality(O) \in {0, 1} BY <3>2, FS_EmptySet, FS_Singleton
    <3> QED BY <3>1, <3>3
  <2>2. IsInjective(sent \o m_waitingMessages)
    BY <2>0, Joined DEF Places, ScribeTypeOK
  <2>3. /\ UNION Range(<<Range(sent), Range(m_waitingMessages), dropped, Held>>) = 1 .. logged
        /\ \A i, j \in DOMAIN <<Range(sent), Range(m_waitingMessages), dropped, Held>> :
              i # j => <<Range(sent), Range(m_waitingMessages), dropped, Held>>[i]
                       \cap <<Range(sent), Range(m_waitingMessages), dropped, Held>>[j] = {}
    <3>1. UNION Range(<<Range(sent), Range(m_waitingMessages), dropped, Held>>) = 1 .. logged
      BY <2>0, FourParts DEF Places
    <3>2. DOMAIN <<Range(sent), Range(m_waitingMessages), dropped, Held>> = {1, 2, 3, 4}
      OBVIOUS
    <3> QED BY <2>0, <3>1, <3>2 DEF Places
  <2>4. over /\ active /\ count = 0 /\ ~purge_mode => Range(sent) = 1 .. logged
    <3> SUFFICES ASSUME over, active, count = 0, ~purge_mode PROVE Range(sent) = 1 .. logged
      OBVIOUS
    <3>1. dropped = {} /\ m_waitingMessages = <<>> BY <2>0 DEF Lossless
    <3>2. Range(m_waitingMessages) = {} BY <3>1 DEF Range
    <3>3. \A t \in Threads : hand[t] = 0 BY <2>0 DEF ScribeInv, Hands, Lossless
    <3>4. Held = {} BY <3>3 DEF Held
    <3> QED BY <2>0, <3>1, <3>2, <3>4 DEF Places
  <2> QED BY <2>1, <2>2, <2>3, <2>4 DEF MessagesKept, Held
<1> QED BY <1>1, ScribeInitially, ScribeInductive, PTL DEF ScribeSpec

-----------------------------------------------------------------------------
(* The selection of events: for any criteria and any menus, however these    *)
(* change from one event to the next, an event is accepted exactly if one of *)
(* the criteria, read by itself, accepts it.                                 *)

\* The lists of a process fit the paths `names`, all of whose criteria can be used.
Fits(p, names) ==
    /\ ~\E c \in CriteriaOf(p) : Unusable(c, names)
    /\ lists[p] = Fill(Empty, CriteriaOf(p), names)

Needs(p) == CriteriaOf(p) # {} /\ ~accept_all(p)

\* What is known between events: the lists of the current process are there from the start, those
\* of the earlier one are those of the paths that psetID stands for, or were for one event only.
SelectorInv ==
    /\ criteria \subseteq Criterion
    /\ state \in {"made", "event", "stopped"}
    /\ DOMAIN lists = Processes /\ DOMAIN menu = Processes
    /\ menu["now"] = TrigPaths
    /\ state = "event" => menu["before"] \in Menus
    /\ state # "stopped" =>
         /\ Needs("now") => Fits("now", TrigPaths)
         /\ Needs("before") /\ psetID # <<>> => Fits("before", psetID)
         /\ Needs("before") /\ state = "event" => Fits("before", menu["before"])

-----------------------------------------------------------------------------
(* The lists of bits. *)

Bits(cs, names, neg, noex) ==
    {<<i, ~neg>> : i \in UNION {Matches(c, names) :
        c \in {d \in cs : d.neg = neg /\ d.noex = noex /\ ~d.exc
                          /\ (neg => Cardinality(Matches(d, names)) = 1)}}}
Together(cs, names, noex) ==
    {Matches(c, names) :
        c \in {d \in cs : d.neg /\ d.noex = noex /\ Cardinality(Matches(d, names)) > 1}}

\* The lists that initPathNames makes.
LEMMA Filled ==
  ASSUME NEW cs, NEW names
  PROVE  /\ Fill(Empty, cs, names).absolute_acceptors
              = Bits(cs, names, FALSE, FALSE) \cup Bits(cs, names, TRUE, FALSE)
         /\ Fill(Empty, cs, names).conditional_acceptors
              = Bits(cs, names, FALSE, TRUE) \cup Bits(cs, names, TRUE, TRUE)
         /\ Fill(Empty, cs, names).exception_acceptors
              = UNION {Matches(c, names) : c \in {d \in cs : d.exc}}
         /\ Fill(Empty, cs, names).all_must_fail = Together(cs, names, FALSE)
         /\ Fill(Empty, cs, names).all_must_fail_noex = Together(cs, names, TRUE)
BY DEF Fill, Empty, Bits, Together

\* A criterion for single paths, negated and with &noexception or not, finds a path in the state it
\* asks for.
ByOnePath(cs, names, tr, neg, noex) ==
    \E c \in cs : /\ c.neg = neg /\ c.noex = noex /\ ~c.exc
                  /\ neg => Cardinality(Matches(c, names)) = 1
                  /\ \E i \in Matches(c, names) : tr[i] = (IF neg THEN "Fail" ELSE "Pass")

\* One bit accepts exactly if a criterion of its kind has a path in the state it asks for.
LEMMA OneBit ==
  ASSUME NEW cs, NEW names, NEW tr, NEW neg \in BOOLEAN, NEW noex \in BOOLEAN
  PROVE  acceptOneBit(Bits(cs, names, neg, noex), tr) <=> ByOnePath(cs, names, tr, neg, noex)
<1>1. ASSUME NEW b \in Bits(cs, names, neg, noex), tr[b[1]] = (IF b[2] THEN "Pass" ELSE "Fail")
      PROVE  \E c \in cs : /\ c.neg = neg /\ c.noex = noex /\ ~c.exc
                           /\ neg => Cardinality(Matches(c, names)) = 1
                           /\ \E i \in Matches(c, names) : tr[i] = (IF neg THEN "Fail" ELSE "Pass")
  <2>a. PICK c \in cs :
          /\ \E i \in Matches(c, names) : b = <<i, ~neg>>
          /\ c.neg = neg /\ c.noex = noex /\ ~c.exc
          /\ neg => Cardinality(Matches(c, names)) = 1
    BY DEF Bits
  <2>1. PICK i \in Matches(c, names) : b = <<i, ~neg>> BY <2>a
  <2>2. b[1] = i /\ b[2] = ~neg BY <2>1
  <2>3. tr[i] = (IF neg THEN "Fail" ELSE "Pass") BY <1>1, <2>2
  <2> QED BY <2>a, <2>3
<1>2. ASSUME NEW c \in cs, c.neg = neg, c.noex = noex, ~c.exc,
             neg => Cardinality(Matches(c, names)) = 1,
             NEW i \in Matches(c, names), tr[i] = (IF neg THEN "Fail" ELSE "Pass")
      PROVE  \E b \in Bits(cs, names, neg, noex) : tr[b[1]] = (IF b[2] THEN "Pass" ELSE "Fail")
  <2>1. <<i, ~neg>> \in Bits(cs, names, neg, noex) BY <1>2 DEF Bits
  <2> QED BY <1>2, <2>1
<1> QED BY <1>1, <1>2 DEF acceptOneBit, ByOnePath

\* A negated criterion that can be used matches one path or several.
LEMMA Matched ==
  ASSUME NEW names \in Seq(STRING), NEW c \in Criterion
  PROVE  /\ IsFiniteSet(Matches(c, names)) /\ Cardinality(Matches(c, names)) \in Nat
         /\ Matches(c, names) # {} => Cardinality(Matches(c, names)) >= 1
         /\ Cardinality(Matches(c, names)) = 1 => \E i : Matches(c, names) = {i}
<1>1. DOMAIN names = 1 .. Len(names) /\ Len(names) \in Nat OBVIOUS
<1>2. IsFiniteSet(1 .. Len(names)) BY <1>1, FS_Interval
<1>3. IsFiniteSet(Matches(c, names)) BY <1>1, <1>2, FS_Subset DEF Matches
<1>4. Cardinality(Matches(c, names)) \in Nat BY <1>3, FS_CardinalityType
<1>5. Matches(c, names) # {} => Cardinality(Matches(c, names)) >= 1
  <2>1. PICK n \in Nat : n = Cardinality(Matches(c, names)) BY <1>4
  <2>2. Matches(c, names) # {} => n # 0 BY <1>3, <2>1, FS_EmptySet
  <2>3. n # 0 => n >= 1 OBVIOUS
  <2> QED BY <2>1, <2>2, <2>3
<1>6. Cardinality(Matches(c, names)) = 1 => \E i : Matches(c, names) = {i}
  BY <1>3, FS_Singleton
<1> QED BY <1>3, <1>4, <1>5, <1>6

\* The decision on the lists is that of the criteria, one by one.
LEMMA Decision ==
  ASSUME NEW names \in Seq(STRING), NEW cs \in SUBSET Criterion,
         ~\E c \in cs : Unusable(c, names), NEW tr
  PROVE  selectionDecision(Fill(Empty, cs, names), tr) <=> \E c \in cs : Satisfied(c, names, tr)
<1> DEFINE l == Fill(Empty, cs, names)
<1>f. /\ l.absolute_acceptors = Bits(cs, names, FALSE, FALSE) \cup Bits(cs, names, TRUE, FALSE)
      /\ l.conditional_acceptors = Bits(cs, names, FALSE, TRUE) \cup Bits(cs, names, TRUE, TRUE)
      /\ l.exception_acceptors = UNION {Matches(c, names) : c \in {d \in cs : d.exc}}
      /\ l.all_must_fail = Together(cs, names, FALSE)
      /\ l.all_must_fail_noex = Together(cs, names, TRUE)
  BY Filled
<1>t. \A c \in cs : /\ c \in Criterion /\ c.neg \in BOOLEAN /\ c.noex \in BOOLEAN /\ c.exc \in BOOLEAN
                    /\ ~(c.neg /\ c.exc) /\ ~(c.noex /\ c.exc)
                    /\ c.neg => Matches(c, names) # {}
  BY DEF Criterion, Unusable
<1> HIDE DEF l
<1>1. ASSUME NEW neg \in BOOLEAN, NEW noex \in BOOLEAN, NEW c \in cs,
             c.neg = neg, c.noex = noex, ~c.exc, neg => Cardinality(Matches(c, names)) = 1,
             NEW i \in Matches(c, names), tr[i] = (IF neg THEN "Fail" ELSE "Pass"),
             noex => ~containsExceptions(tr)
      PROVE  Satisfied(c, names, tr)
  <2>1. CASE neg
    <3>1. PICK j : Matches(c, names) = {j} BY <1>1, <1>t, <2>1, Matched
    <3> QED BY <1>1, <2>1, <3>1 DEF Satisfied
  <2>2. CASE ~neg BY <1>1, <2>2 DEF Satisfied
  <2> QED BY <2>1, <2>2
<1>2. ASSUME selectionDecision(l, tr)
      PROVE  \E c \in cs : Satisfied(c, names, tr)
  <2>1. CASE acceptOneBit(l.absolute_acceptors, tr)
    <3>1. PICK neg \in BOOLEAN : acceptOneBit(Bits(cs, names, neg, FALSE), tr)
      BY <1>f, <2>1 DEF acceptOneBit
    <3>a. ByOnePath(cs, names, tr, neg, FALSE) BY <3>1, OneBit
    <3>2. PICK c \in cs : /\ c.neg = neg /\ c.noex = FALSE /\ ~c.exc
                          /\ neg => Cardinality(Matches(c, names)) = 1
                          /\ \E i \in Matches(c, names) : tr[i] = (IF neg THEN "Fail" ELSE "Pass")
      BY <3>a DEF ByOnePath
    <3>3. PICK i \in Matches(c, names) : tr[i] = (IF neg THEN "Fail" ELSE "Pass") BY <3>2
    <3> QED BY <1>1, <3>2, <3>3
  <2>2. CASE acceptOneBit(l.conditional_acceptors, tr) /\ ~containsExceptions(tr)
    <3>1. PICK neg \in BOOLEAN : acceptOneBit(Bits(cs, names, neg, TRUE), tr)
      BY <1>f, <2>2 DEF acceptOneBit
    <3>a. ByOnePath(cs, names, tr, neg, TRUE) BY <3>1, OneBit
    <3>2. PICK c \in cs : /\ c.neg = neg /\ c.noex = TRUE /\ ~c.exc
                          /\ neg => Cardinality(Matches(c, names)) = 1
                          /\ \E i \in Matches(c, names) : tr[i] = (IF neg THEN "Fail" ELSE "Pass")
      BY <3>a DEF ByOnePath
    <3>3. PICK i \in Matches(c, names) : tr[i] = (IF neg THEN "Fail" ELSE "Pass") BY <3>2
    <3> QED BY <2>2, <1>1, <3>2, <3>3
  <2>3. CASE \E i \in l.exception_acceptors : tr[i] = "Exception"
    <3>1. PICK c \in cs : c.exc /\ \E i \in Matches(c, names) : tr[i] = "Exception" BY <1>f, <2>3
    <3> QED BY <1>t, <3>1 DEF Satisfied
  <2>4. CASE \E m \in l.all_must_fail : acceptAllBits(m, tr)
    <3>1. PICK c \in cs : c.neg /\ ~c.noex /\ acceptAllBits(Matches(c, names), tr)
      BY <1>f, <1>t, <2>4 DEF Together
    <3> QED BY <3>1 DEF Satisfied, acceptAllBits
  <2>5. CASE \E m \in l.all_must_fail_noex : acceptAllBits(m, tr) /\ ~containsExceptions(tr)
    <3>1. PICK c \in cs : c.neg /\ c.noex /\ acceptAllBits(Matches(c, names), tr)
      BY <1>f, <1>t, <2>5 DEF Together
    <3> QED BY <2>5, <3>1 DEF Satisfied, acceptAllBits
  <2> QED BY <1>2, <2>1, <2>2, <2>3, <2>4, <2>5 DEF selectionDecision
<1>3. ASSUME NEW c \in cs, Satisfied(c, names, tr)
      PROVE  selectionDecision(l, tr)
  <2>1. CASE c.exc
    <3>1. PICK i \in Matches(c, names) : tr[i] = "Exception" BY <1>3, <1>t, <2>1 DEF Satisfied
    <3>2. i \in l.exception_acceptors BY <1>f, <2>1, <3>1
    <3> QED BY <3>1, <3>2 DEF selectionDecision
  <2>2. CASE ~c.exc /\ (c.neg => Cardinality(Matches(c, names)) = 1)
    <3>1. PICK i \in Matches(c, names) : tr[i] = (IF c.neg THEN "Fail" ELSE "Pass")
      BY <1>3, <1>t, <2>2 DEF Satisfied
    <3>2. acceptOneBit(Bits(cs, names, c.neg, c.noex), tr) BY <1>t, <2>2, <3>1, OneBit DEF ByOnePath
    <3>3. CASE c.noex
      <4>1. acceptOneBit(l.conditional_acceptors, tr) BY <1>f, <1>t, <3>2, <3>3 DEF acceptOneBit
      <4> QED BY <1>3, <3>3, <4>1 DEF selectionDecision, Satisfied
    <3>4. CASE ~c.noex
      <4>1. acceptOneBit(l.absolute_acceptors, tr) BY <1>f, <1>t, <3>2, <3>4 DEF acceptOneBit
      <4> QED BY <4>1 DEF selectionDecision
    <3> QED BY <3>3, <3>4
  <2>3. CASE c.neg /\ Cardinality(Matches(c, names)) # 1
    <3>1. Cardinality(Matches(c, names)) > 1 BY <1>t, <2>3, Matched
    <3>2. acceptAllBits(Matches(c, names), tr) BY <1>3, <2>3 DEF Satisfied, acceptAllBits
    <3>3. Matches(c, names) \in Together(cs, names, c.noex) BY <2>3, <3>1 DEF Together
    <3>4. CASE c.noex BY <1>3, <1>f, <1>t, <3>2, <3>3, <3>4 DEF selectionDecision, Satisfied
    <3>5. CASE ~c.noex BY <1>f, <1>t, <3>2, <3>3, <3>5 DEF selectionDecision
    <3> QED BY <3>4, <3>5
  <2> QED BY <1>t, <2>1, <2>2, <2>3
<1> QED BY <1>2, <1>3 DEF l

\* Three criteria for every path, one for each state, accept whatever happened.
LEMMA AllAccepted ==
  ASSUME NEW p, accept_all(p), criteria \subseteq Criterion, NEW names, NEW tr \in Outcomes(names)
  PROVE  \E c \in CriteriaOf(p) : Satisfied(c, names, tr)
<1>1. PICK pass \in CriteriaOf(p), fail \in CriteriaOf(p), thrown \in CriteriaOf(p) :
        IsStar(pass, FALSE, FALSE) /\ IsStar(fail, TRUE, FALSE) /\ IsStar(thrown, FALSE, TRUE)
  BY DEF accept_all
<1>2. \A c \in {pass, fail, thrown} : Matches(c, names) = DOMAIN names
  BY <1>1 DEF Matches, IsStar
<1>3. \A i \in DOMAIN names : tr[i] \in {"Pass", "Fail", "Exception"} BY DEF Outcomes
<1>4. CASE \E i \in DOMAIN names : tr[i] = "Pass" BY <1>1, <1>2, <1>4 DEF Satisfied, IsStar
<1>5. CASE \E i \in DOMAIN names : tr[i] = "Exception" BY <1>1, <1>2, <1>5 DEF Satisfied, IsStar
<1>6. CASE \A i \in DOMAIN names : tr[i] = "Fail" BY <1>1, <1>2, <1>6 DEF Satisfied, IsStar
<1> QED BY <1>3, <1>4, <1>5, <1>6

-----------------------------------------------------------------------------
(* The invariant. *)

\* The selector of the current process is filled when it is made.
LEMMA SelectorStarts ==
  ASSUME SelectorInit
  PROVE  SelectorInv
<1>1. criteria \subseteq Criterion BY SelectorAssumption DEF SelectorInit
<1>2. /\ DOMAIN lists = Processes /\ DOMAIN menu = Processes /\ menu["now"] = TrigPaths
      /\ state \in {"made", "stopped"} /\ psetID = <<>>
  BY DEF SelectorInit, Processes
<1>3. ASSUME state # "stopped", Needs("now") PROVE Fits("now", TrigPaths)
  <2>1. lists["now"] = initPathNames(Empty, CriteriaOf("now"), TrigPaths)
    BY <1>2, <1>3 DEF SelectorInit, Needs, Processes
  <2>2. ~\E c \in CriteriaOf("now") : Unusable(c, TrigPaths)
    BY <1>2, <1>3 DEF SelectorInit, Needs
  <2> QED BY <2>1, <2>2 DEF Fits, initPathNames, Cleared
<1> QED BY <1>1, <1>2, <1>3 DEF SelectorInv

\* An event fills the lists of the earlier process unless they are those of its paths.
LEMMA SelectorStep ==
  ASSUME SelectorInv, NEW names \in Menus, NEW known \in BOOLEAN, StartEvent(names, known)
  PROVE  SelectorInv'
<1>1. /\ criteria' = criteria /\ menu' = [menu EXCEPT !["before"] = names] /\ state # "stopped"
      /\ names # <<>>
  BY SelectorAssumption DEF StartEvent
<1>2. menu'["before"] = names /\ menu'["now"] = TrigPaths /\ DOMAIN menu' = Processes
  BY <1>1 DEF SelectorInv, Processes
<1>3. \A p : CriteriaOf(p)' = CriteriaOf(p) /\ accept_all(p)' = accept_all(p)
  BY <1>1 DEF CriteriaOf, accept_all
<1>4. \A p : Needs(p)' <=> Needs(p) BY <1>3 DEF Needs
<1>5. CASE Needs("before") /\ psetID # names
  <2>1. lists' = [lists EXCEPT !["before"] = Fill(Empty, CriteriaOf("before"), names)]
    BY <1>5 DEF StartEvent, Needs, initPathNames, Cleared
  <2>2. /\ DOMAIN lists' = Processes /\ lists'["now"] = lists["now"]
        /\ lists'["before"] = Fill(Empty, CriteriaOf("before"), names)
    BY <2>1 DEF SelectorInv, Processes
  <2>3. CASE \E c \in CriteriaOf("before") : Unusable(c, names)
    <3>1. state' = "stopped" BY <1>5, <2>3 DEF StartEvent, Needs
    <3> QED BY <1>1, <1>2, <2>2, <3>1 DEF SelectorInv
  <2>4. CASE ~\E c \in CriteriaOf("before") : Unusable(c, names)
    <3>1. state' = "event" /\ psetID' \in {names, <<>>} BY <1>5, <2>4 DEF StartEvent, Needs
    <3>2. Fits("before", names)' BY <1>3, <2>2, <2>4 DEF Fits, Unusable, Fill, Empty
    <3>3. Needs("now") => Fits("now", TrigPaths)' BY <1>1, <1>3, <2>2 DEF SelectorInv, Fits
    <3> QED BY <1>1, <1>2, <1>4, <2>2, <3>1, <3>2, <3>3 DEF SelectorInv
  <2> QED BY <2>3, <2>4
<1>6. CASE ~(Needs("before") /\ psetID # names)
  <2>1. state' = "event" /\ lists' = lists /\ psetID' = psetID BY <1>6 DEF StartEvent, Needs
  <2>2. \A p, ns : Fits(p, ns)' <=> Fits(p, ns) BY <1>3, <2>1 DEF Fits
  <2> QED BY <1>1, <1>2, <1>4, <1>6, <2>1, <2>2 DEF SelectorInv
<1> QED BY <1>5, <1>6

\* The decision of the selector of a process whose lists fit.
LEMMA OfProcess ==
  ASSUME SelectorInv, state = "event", NEW p \in Processes, NEW tr \in Outcomes(menu[p])
  PROVE  (CriteriaOf(p) # {} /\ (accept_all(p) \/ selectionDecision(lists[p], tr)))
           <=> \E c \in CriteriaOf(p) : Satisfied(c, menu[p], tr)
<1>1. criteria \subseteq Criterion BY DEF SelectorInv
<1>2. menu[p] \in Seq(STRING) BY SelectorAssumption DEF SelectorInv, Processes
<1>3. CASE CriteriaOf(p) = {} BY <1>3
<1>4. CASE accept_all(p)
  <2>1. CriteriaOf(p) # {} BY <1>4 DEF accept_all
  <2> QED BY <1>1, <1>4, <2>1, AllAccepted
<1>5. CASE Needs(p)
  <2>1. Fits(p, menu[p]) BY <1>5 DEF SelectorInv, Processes
  <2>2. CriteriaOf(p) \in SUBSET Criterion BY <1>1 DEF CriteriaOf
  <2>3. selectionDecision(lists[p], tr) <=> \E c \in CriteriaOf(p) : Satisfied(c, menu[p], tr)
    BY <1>2, <2>1, <2>2, Decision DEF Fits
  <2> QED BY <1>5, <2>3 DEF Needs
<1> QED BY <1>3, <1>4, <1>5 DEF Needs

\* The decision on an event is that of the criteria.
LEMMA DecidedByACriterion ==
  ASSUME SelectorInv
  PROVE  AcceptedByACriterion
<1> SUFFICES ASSUME state = "event", NEW now \in Outcomes(menu["now"]),
                    NEW before \in Outcomes(menu["before"])
             PROVE  LET tr == [p \in Processes |-> IF p = "now" THEN now ELSE before]
                    IN  wantEvent(tr) <=>
                          \/ criteria = {}
                          \/ \E c \in criteria : Satisfied(c, menu[c.process], tr[c.process])
  BY DEF AcceptedByACriterion
<1> DEFINE tr == [p \in Processes |-> IF p = "now" THEN now ELSE before]
<1>1. \A p \in Processes : tr[p] \in Outcomes(menu[p]) BY DEF Processes
<1>2. \A p \in Processes :
        (CriteriaOf(p) # {} /\ (accept_all(p) \/ selectionDecision(lists[p], tr[p])))
          <=> \E c \in CriteriaOf(p) : Satisfied(c, menu[p], tr[p])
  BY <1>1, OfProcess
<1> HIDE DEF tr
<1>3. \A c \in criteria : c.process \in Processes BY DEF SelectorInv, Criterion
<1>4. (\E p \in Processes : \E c \in CriteriaOf(p) : Satisfied(c, menu[p], tr[p]))
        <=> \E c \in criteria : Satisfied(c, menu[c.process], tr[c.process])
  <2>1. ASSUME NEW c \in criteria, Satisfied(c, menu[c.process], tr[c.process])
        PROVE  \E p \in Processes : \E d \in CriteriaOf(p) : Satisfied(d, menu[p], tr[p])
    <3>1. c \in CriteriaOf(c.process) BY DEF CriteriaOf
    <3> QED BY <1>3, <2>1, <3>1
  <2>2. ASSUME NEW p \in Processes, NEW c \in CriteriaOf(p), Satisfied(c, menu[p], tr[p])
        PROVE  \E d \in criteria : Satisfied(d, menu[d.process], tr[d.process])
    <3>1. c \in criteria /\ c.process = p BY DEF CriteriaOf
    <3> QED BY <2>2, <3>1
  <2> QED BY <2>1, <2>2
<1>5. wantEvent(tr) <=> \/ criteria = {}
                        \/ \E c \in criteria : Satisfied(c, menu[c.process], tr[c.process])
  BY <1>2, <1>4 DEF wantEvent
<1> QED BY <1>5 DEF tr

\* Whatever the criteria, and whatever menus the earlier process of the events had, the lists of
\* bits accept an event exactly if one of the criteria does (EventSelector::acceptEvent).
THEOREM SelectionIsByCriteria == SelectorSpec => []AcceptedByACriterion
<1>1. SelectorInit => SelectorInv BY SelectorStarts
<1>2. SelectorInv /\ [SelectorNext]_selectorVars => SelectorInv'
  <2> SUFFICES ASSUME SelectorInv, [SelectorNext]_selectorVars PROVE SelectorInv' OBVIOUS
  <2>1. CASE SelectorNext BY <2>1, SelectorStep DEF SelectorNext
  <2>2. CASE UNCHANGED selectorVars
    BY <2>2 DEF selectorVars, SelectorInv, Needs, Fits, CriteriaOf, accept_all
  <2> QED BY <2>1, <2>2
<1>3. SelectorInv => AcceptedByACriterion BY DecidedByACriterion
<1> QED BY <1>1, <1>2, <1>3, PTL DEF SelectorSpec

-----------------------------------------------------------------------------
(* The check of the schedule, for any number of modules, paths and products: *)
(* what is refused has a cycle.                                              *)

(* boost keeps no list of the modules whose visit has begun, and the         *)
(* detector's stack is its own.  The two agree: the stack holds the tree     *)
(* edges along the trail, although finish_edge is called for other edges     *)
(* too, and although nothing but the last edge is ever compared.             *)

CheckTypeOK ==
    /\ colour \in [Modules -> {"white", "gray", "black"}]
    /\ trail \in Seq(Modules)
    /\ todo \in [Modules -> SUBSET Modules]
    /\ stack \in Seq(Modules \X Modules)

LookedAtAreEdges == \A m \in Modules : todo[m] \subseteq OutEdges(m)

TrailIsGray ==
    /\ \A m \in Modules : colour[m] = "gray" <=> \E i \in DOMAIN trail : trail[i] = m
    /\ \A i, j \in DOMAIN trail : trail[i] = trail[j] => i = j

StackIsTrail ==
    /\ Len(stack) = IF trail = <<>> THEN 0 ELSE Len(trail) - 1
    /\ \A i \in DOMAIN stack : stack[i] = <<trail[i], trail[i + 1]>> /\ stack[i] \in Edges

CheckInv == CheckTypeOK /\ LookedAtAreEdges /\ TrailIsGray /\ StackIsTrail /\ RefusedForACycle

-----------------------------------------------------------------------------

\* The search starts with an empty stack, and all edges before it.
LEMMA CheckInitInv == CheckInit => CheckInv
<1> SUFFICES ASSUME CheckInit PROVE CheckInv
  OBVIOUS
<1>1. CheckTypeOK
  BY DEF CheckInit, CheckTypeOK, OutEdges
<1>2. LookedAtAreEdges
  BY DEF CheckInit, LookedAtAreEdges
<1>3. QED
  BY <1>1, <1>2 DEF CheckInit, CheckInv, TrailIsGray, StackIsTrail, RefusedForACycle

\* The edges along the trail from the k-th module on, closed by an edge back to it, are a cycle.
LEMMA TrailCloses ==
  ASSUME CheckInv, NEW k \in 1 .. Len(trail) - 1, <<Top, trail[k]>> \in Edges
  PROVE  IsCycle(Append(SubSeq(stack, k, Len(stack)), <<Top, trail[k]>>))
<1> DEFINE s == Append(SubSeq(stack, k, Len(stack)), <<Top, trail[k]>>)
<1>1. /\ trail \in Seq(Modules) /\ stack \in Seq(Modules \X Modules)
      /\ Len(stack) = Len(trail) - 1 /\ trail # <<>>
  BY DEF CheckInv, CheckTypeOK, StackIsTrail
<1>2. Len(s) = Len(trail) - k + 1 /\ DOMAIN s = 1 .. Len(trail) - k + 1
  BY <1>1
<1>3. ASSUME NEW i \in 1 .. Len(trail) - k
      PROVE  s[i] = <<trail[k + i - 1], trail[k + i]>> /\ s[i] \in Edges
  <2>1. s[i] = stack[k + i - 1] /\ k + i - 1 \in DOMAIN stack /\ (k + i - 1) + 1 = k + i
    BY <1>1
  <2>2. QED
    BY <2>1 DEF CheckInv, StackIsTrail
<1>4. s[Len(trail) - k + 1] = <<trail[Len(trail)], trail[k]>>
  BY <1>1 DEF Top
<1> HIDE DEF s
<1>5. \A i \in DOMAIN s : s[i] \in Edges
  <2> SUFFICES ASSUME NEW i \in DOMAIN s PROVE s[i] \in Edges
    OBVIOUS
  <2>1. CASE i \in 1 .. Len(trail) - k
    BY <2>1, <1>3
  <2>2. CASE i = Len(trail) - k + 1
    BY <2>2, <1>1, <1>2, <1>4 DEF Top
  <2>3. QED
    BY <2>1, <2>2, <1>1, <1>2
<1>6. \A i \in DOMAIN s : s[i][1] = trail[k + i - 1]
  <2> SUFFICES ASSUME NEW i \in DOMAIN s PROVE s[i][1] = trail[k + i - 1]
    OBVIOUS
  <2>1. CASE i \in 1 .. Len(trail) - k
    <3>1. s[i] = <<trail[k + i - 1], trail[k + i]>>
      BY <2>1, <1>3
    <3>2. QED
      BY <3>1
  <2>2. CASE i = Len(trail) - k + 1
    BY <2>2, <1>1, <1>4
  <2>3. QED
    BY <2>1, <2>2, <1>1, <1>2
<1>7. \A i \in 1 .. Len(s) - 1 : s[i][2] = s[i + 1][1]
  <2> SUFFICES ASSUME NEW i \in 1 .. Len(s) - 1 PROVE s[i][2] = s[i + 1][1]
    OBVIOUS
  <2>1. s[i] = <<trail[k + i - 1], trail[k + i]>> /\ i + 1 \in DOMAIN s /\ k + (i + 1) - 1 = k + i
    BY <1>1, <1>2, <1>3
  <2>2. s[i + 1][1] = trail[k + i]
    BY <1>6, <2>1
  <2>3. QED
    BY <2>1, <2>2
<1>8. s[Len(s)][2] = s[1][1] /\ s # <<>>
  <2>1. 1 \in DOMAIN s /\ k + 1 - 1 = k
    BY <1>1, <1>2
  <2>2. s[1][1] = trail[k]
    BY <1>6, <2>1
  <2>3. QED
    BY <1>2, <1>4, <2>1, <2>2
<1>9. \A i, j \in DOMAIN s : s[i][1] = s[j][1] => i = j
  <2> SUFFICES ASSUME NEW i \in DOMAIN s, NEW j \in DOMAIN s, s[i][1] = s[j][1] PROVE i = j
    OBVIOUS
  <2>1. trail[k + i - 1] = trail[k + j - 1] /\ k + i - 1 \in DOMAIN trail /\ k + j - 1 \in DOMAIN trail
    BY <1>1, <1>2, <1>6
  <2>2. k + i - 1 = k + j - 1 /\ i \in Nat /\ j \in Nat
    BY <2>1, <1>2 DEF CheckInv, TrailIsGray
  <2>3. QED
    BY <2>2
<1>10. IsCycle(s)
  BY <1>5, <1>7, <1>8, <1>9 DEF IsCycle
<1>11. QED
  BY <1>10 DEF s

\* What tempStack holds when an edge leads back to the trail: the edges from there to the last
\* module, or, for an edge from the last module to itself, the last edge of the stack if any.
LEMMA TempStackIs ==
  ASSUME CheckInv, trail # <<>>, NEW d \in Modules, colour[d] = "gray", <<Top, d>> \in Edges
  PROVE  \E q \in Seq(Modules \X Modules) :
           /\ TempStack(<<Top, d>>) = Append(q, <<Top, d>>)
           /\ d = Top \/ IsCycle(Append(q, <<Top, d>>))
<1>1. /\ trail \in Seq(Modules) /\ stack \in Seq(Modules \X Modules)
      /\ Len(stack) = Len(trail) - 1
  BY DEF CheckInv, CheckTypeOK, StackIsTrail
<1>2. PICK k \in DOMAIN trail : trail[k] = d
  BY DEF CheckInv, TrailIsGray
<1>3. \A i \in DOMAIN stack : stack[i][1] = d <=> i = k
  BY <1>1, <1>2 DEF CheckInv, TrailIsGray, StackIsTrail
<1>4. CASE k < Len(trail)
  <2>1. FirstEdge(d) = {k}
    <3>1. k \in DOMAIN stack
      BY <1>1, <1>4
    <3>2. k \in FirstEdge(d)
      <4>1. stack[k][1] = d /\ (k = Len(stack) \/ stack[k + 1][1] # d)
        BY <1>1, <1>3, <3>1
      <4>2. \A j \in 1 .. k - 1 : stack[j][1] # d
        BY <1>1, <1>3, <3>1
      <4>3. QED
        BY <3>1, <4>1, <4>2 DEF FirstEdge
    <3>3. FirstEdge(d) \subseteq {k}
      BY <1>3 DEF FirstEdge
    <3>4. QED
      BY <3>2, <3>3
  <2>2. TempStack(<<Top, d>>) = Append(SubSeq(stack, k, Len(stack)), <<Top, d>>)
    <3>1. <<Top, d>>[2] = d /\ stack # <<>>
      BY <1>1, <1>2, <1>4
    <3>2. QED
      BY <2>1, <3>1 DEF TempStack
  <2>3. IsCycle(Append(SubSeq(stack, k, Len(stack)), <<Top, d>>))
    <3>1. k \in 1 .. Len(trail) - 1 /\ <<Top, trail[k]>> \in Edges
      BY <1>1, <1>2, <1>4
    <3>2. IsCycle(Append(SubSeq(stack, k, Len(stack)), <<Top, trail[k]>>))
      BY <3>1, TrailCloses
    <3>3. QED
      BY <1>2, <3>2
  <2>4. SubSeq(stack, k, Len(stack)) \in Seq(Modules \X Modules)
    BY <1>1, <1>4
  <2>5. QED
    BY <2>2, <2>3, <2>4
<1>5. CASE k = Len(trail)
  <2>1. FirstEdge(d) = {} /\ d = Top
    BY <1>1, <1>2, <1>3, <1>5 DEF FirstEdge, Top
  <2> DEFINE q == IF stack = <<>> THEN <<>> ELSE SubSeq(stack, Len(stack), Len(stack))
  <2>2. q \in Seq(Modules \X Modules)
    BY <1>1
  <2>3. <<Top, d>>[2] = d
    OBVIOUS
  <2>4. TempStack(<<Top, d>>) = Append(q, <<Top, d>>)
    BY <2>1, <2>3 DEF TempStack
  <2>5. QED
    BY <2>1, <2>2, <2>4
<1>6. k < Len(trail) \/ k = Len(trail)
  BY <1>1, <1>2
<1>7. QED
  BY <1>4, <1>5, <1>6

\* What is reported ends in a cycle: all of it does, or its last edge alone.
LEMMA EndsInCycle ==
  ASSUME NEW q \in Seq(Modules \X Modules), NEW e \in Modules \X Modules, e \in Edges,
         NEW r, r = Append(q, e), e[1] = e[2] \/ IsCycle(r), NumberOfPathOnly(r) < 2
  PROVE  \E n \in DOMAIN r : /\ IsCycle(SubSeq(r, n, Len(r)))
                             /\ NumberOfPathOnly(SubSeq(r, n, Len(r))) < 2
<1>1. r \in Seq(Modules \X Modules) /\ Len(r) >= 1 /\ r[Len(r)] = e
  OBVIOUS
<1>2. CASE IsCycle(r)
  <2>1. SubSeq(r, 1, Len(r)) = r /\ 1 \in DOMAIN r
    BY <1>1
  <2>2. QED
    BY <1>2, <2>1
<1>3. CASE e[1] = e[2]
  <2> DEFINE c == SubSeq(r, Len(r), Len(r))
  <2>1. DOMAIN c = {1} /\ Len(c) = 1 /\ c[1] = e /\ c # <<>> /\ Len(r) \in DOMAIN r
    BY <1>1
  <2> HIDE DEF c
  <2>2. IsCycle(c)
    BY <1>3, <2>1 DEF IsCycle
  <2>3. NumberOfPathOnly(c) < 2
    <3>1. {i \in DOMAIN c : PathDependencyOnly(c[i])} \in SUBSET {1}
      BY <2>1
    <3>2. IsFiniteSet({1}) /\ Cardinality({1}) = 1
      BY FS_Singleton
    <3>3. QED
      BY <3>1, <3>2, FS_Subset, FS_CardinalityType DEF NumberOfPathOnly
  <2>4. QED
    BY <2>1, <2>2, <2>3 DEF c
<1>4. QED
  BY <1>2, <1>3

\* finish_edge for an edge that is not the last tree edge leaves the stack as it is.
LEMMA OthersStay ==
  ASSUME CheckInv, trail # <<>>, NEW d
  PROVE  Finished(<<Top, d>>, stack) = stack
<1>1. stack # <<>> => stack[Len(stack)][1] # Top
  BY DEF CheckInv, CheckTypeOK, StackIsTrail, TrailIsGray, Top
<1>2. QED
  BY <1>1 DEF Finished

\* Every step of the search.
LEMMA CheckStep == CheckInv /\ [CheckNext]_checkVars => CheckInv'
<1> SUFFICES ASSUME CheckInv, [CheckNext]_checkVars PROVE CheckInv'
  OBVIOUS
<1> USE DEF CheckInv
<1>1. ASSUME paths' = paths, consumes' = consumes
      PROVE  /\ Edges' = Edges
             /\ \A m \in Modules : OutEdges(m)' = OutEdges(m)
             /\ RefusedForACycle /\ report' = report => RefusedForACycle'
  <2>1. Edges' = Edges
    BY <1>1 DEF Edges, AfterOnPath
  <2>2. \A s : IsCycle(s)' <=> IsCycle(s)
    BY <2>1 DEF IsCycle
  <2>3. \A s : NumberOfPathOnly(s)' = NumberOfPathOnly(s)
    BY <1>1 DEF NumberOfPathOnly, PathDependencyOnly
  <2>4. QED
    BY <2>1, <2>2, <2>3 DEF OutEdges, RefusedForACycle
<1>2. CASE StartVertex
  <2>1. PICK m \in Modules : /\ colour[m] = "white"
                             /\ colour' = [colour EXCEPT ![m] = "gray"]
                             /\ trail' = <<m>>
    BY <1>2 DEF StartVertex
  <2>2. /\ trail = <<>> /\ paths' = paths /\ consumes' = consumes /\ todo' = todo
        /\ stack' = stack /\ report' = report
    BY <1>2 DEF StartVertex
  <2>3. stack = <<>>
    BY <2>2 DEF StackIsTrail, CheckTypeOK
  <2>4. CheckTypeOK'
    BY <2>1, <2>2 DEF CheckTypeOK
  <2>5. LookedAtAreEdges'
    BY <1>1, <2>2 DEF LookedAtAreEdges
  <2>6. TrailIsGray'
    BY <2>1, <2>2 DEF TrailIsGray, CheckTypeOK
  <2>7. StackIsTrail'
    BY <2>1, <2>2, <2>3 DEF StackIsTrail
  <2>8. QED
    BY <1>1, <2>2, <2>4, <2>5, <2>6, <2>7
<1>3. ASSUME NEW d \in Modules, NextEdge(d)
      PROVE  /\ paths' = paths /\ consumes' = consumes /\ report = <<>>
             /\ trail # <<>> /\ Top \in Modules /\ <<Top, d>> \in Edges
             /\ todo' \in [Modules -> SUBSET Modules] /\ LookedAtAreEdges'
  <2>1. /\ paths' = paths /\ consumes' = consumes /\ report = <<>> /\ trail # <<>>
        /\ d \in todo[Top] /\ todo' = [todo EXCEPT ![Top] = @ \ {d}]
    BY <1>3 DEF NextEdge
  <2>2. Top \in Modules
    BY <2>1 DEF CheckTypeOK, Top
  <2>3. <<Top, d>> \in Edges
    BY <2>1, <2>2 DEF LookedAtAreEdges, OutEdges
  <2>4. /\ todo' \in [Modules -> SUBSET Modules]
        /\ \A m \in Modules : todo'[m] \subseteq todo[m]
    BY <2>1, <2>2 DEF CheckTypeOK
  <2>5. LookedAtAreEdges'
    BY <1>1, <2>1, <2>4 DEF LookedAtAreEdges
  <2>6. QED
    BY <2>1, <2>2, <2>3, <2>4, <2>5
<1>4. ASSUME NEW d \in Modules, TreeEdge(d) PROVE CheckInv'
  <2>1. /\ NextEdge(d) /\ colour[d] = "white"
        /\ stack' = Append(stack, <<Top, d>>)
        /\ colour' = [colour EXCEPT ![d] = "gray"]
        /\ trail' = Append(trail, d)
        /\ report' = report
    BY <1>4 DEF TreeEdge
  <2>2. /\ paths' = paths /\ consumes' = consumes
        /\ trail # <<>> /\ Top \in Modules /\ <<Top, d>> \in Edges
        /\ todo' \in [Modules -> SUBSET Modules] /\ LookedAtAreEdges'
    BY <1>3, <2>1
  <2>3. CheckTypeOK'
    <3>1. colour' \in [Modules -> {"white", "gray", "black"}] /\ trail' \in Seq(Modules)
      BY <2>1 DEF CheckTypeOK
    <3>2. <<Top, d>> \in Modules \X Modules
      BY <2>2
    <3>3. stack' \in Seq(Modules \X Modules)
      BY <2>1, <3>2 DEF CheckTypeOK
    <3>4. QED
      BY <2>2, <3>1, <3>3 DEF CheckTypeOK
  <2>4. /\ DOMAIN trail' = 1 .. Len(trail) + 1 /\ trail'[Len(trail) + 1] = d
        /\ \A i \in DOMAIN trail : trail'[i] = trail[i]
        /\ DOMAIN trail = 1 .. Len(trail) /\ Len(trail) \in Nat
    BY <2>1 DEF CheckTypeOK
  <2>5. \A i \in DOMAIN trail : trail[i] # d
    BY <2>1 DEF TrailIsGray
  <2>6. TrailIsGray'
    <3>1. \A m \in Modules : colour'[m] = "gray" <=> colour[m] = "gray" \/ m = d
      BY <2>1 DEF CheckTypeOK
    <3>2. ASSUME NEW m \in Modules
          PROVE (\E i \in DOMAIN trail' : trail'[i] = m) <=> (\E i \in DOMAIN trail : trail[i] = m) \/ m = d
      BY <2>4
    <3>3. \A i, j \in DOMAIN trail' : trail'[i] = trail'[j] => i = j
      BY <2>4, <2>5 DEF TrailIsGray
    <3>4. QED
      BY <3>1, <3>2, <3>3 DEF TrailIsGray
  <2>7. StackIsTrail'
    <3>1. Edges' = Edges /\ Len(stack) = Len(trail) - 1
      BY <1>1, <2>2 DEF StackIsTrail
    <3>2. /\ DOMAIN stack' = 1 .. Len(trail) /\ Len(stack') = Len(trail)
          /\ stack'[Len(trail)] = <<trail[Len(trail)], d>>
          /\ \A i \in 1 .. Len(trail) - 1 : stack'[i] = stack[i] /\ i \in DOMAIN stack
      BY <2>1, <3>1, <2>2, <2>4 DEF CheckTypeOK, Top
    <3>3. Len(trail') = Len(trail) + 1 /\ trail' # <<>>
      BY <2>1 DEF CheckTypeOK
    <3>4. ASSUME NEW i \in DOMAIN stack' PROVE stack'[i] = <<trail'[i], trail'[i + 1]>> /\ stack'[i] \in Edges
      <4>1. CASE i = Len(trail)
        BY <4>1, <3>2, <2>2, <2>4 DEF Top
      <4>2. CASE i \in 1 .. Len(trail) - 1
        <5>1. stack'[i] = stack[i] /\ i \in DOMAIN stack
          BY <4>2, <3>2
        <5>2. trail'[i] = trail[i] /\ trail'[i + 1] = trail[i + 1]
          BY <4>2, <2>4
        <5>3. QED
          BY <5>1, <5>2 DEF StackIsTrail
      <4>3. QED
        BY <4>1, <4>2, <3>2, <2>4
    <3>5. QED
      BY <3>1, <3>2, <3>3, <3>4, <2>4 DEF StackIsTrail
  <2>8. QED
    BY <1>1, <2>1, <2>2, <2>3, <2>6, <2>7
<1>5. ASSUME NEW d \in Modules, BackEdge(d) PROVE CheckInv'
  <2>1. /\ NextEdge(d) /\ colour[d] = "gray" /\ colour' = colour /\ trail' = trail
    BY <1>5 DEF BackEdge
  <2>2. /\ paths' = paths /\ consumes' = consumes
        /\ trail # <<>> /\ Top \in Modules /\ <<Top, d>> \in Edges /\ report = <<>>
        /\ todo' \in [Modules -> SUBSET Modules] /\ LookedAtAreEdges'
    BY <1>3, <2>1
  <2>3. \/ /\ NumberOfPathOnly(TempStack(<<Top, d>>)) < 2
           /\ report' = TempStack(<<Top, d>>) /\ stack' = stack
        \/ stack' = stack /\ report' = report
    BY <1>5, <2>2, OthersStay DEF BackEdge
  <2>4. CheckTypeOK' /\ TrailIsGray'
    BY <2>1, <2>2, <2>3 DEF CheckTypeOK, TrailIsGray
  <2>5. StackIsTrail'
    BY <1>1, <2>1, <2>2, <2>3 DEF StackIsTrail
  <2>6. RefusedForACycle'
    <3>1. CASE stack' = stack /\ report' = report
      BY <1>1, <2>2, <3>1
    <3>2. CASE NumberOfPathOnly(TempStack(<<Top, d>>)) < 2 /\ report' = TempStack(<<Top, d>>)
      <4>1. PICK n \in DOMAIN report' : /\ IsCycle(SubSeq(report', n, Len(report')))
                                       /\ NumberOfPathOnly(SubSeq(report', n, Len(report'))) < 2
        <5>1. PICK q \in Seq(Modules \X Modules) :
                /\ TempStack(<<Top, d>>) = Append(q, <<Top, d>>)
                /\ d = Top \/ IsCycle(Append(q, <<Top, d>>))
          BY <2>1, <2>2, TempStackIs
        <5>2. PICK e \in Modules \X Modules : e = <<Top, d>> /\ e[1] = Top /\ e[2] = d
          BY <2>2
        <5>3. PICK r : r = report'
          OBVIOUS
        <5>4. /\ r = Append(q, e) /\ e \in Edges /\ NumberOfPathOnly(r) < 2
              /\ e[1] = e[2] \/ IsCycle(r)
          BY <2>2, <3>2, <5>1, <5>2, <5>3
        <5>5. QED
          BY <5>3, <5>4, EndsInCycle
      <4>2. \A s : (IsCycle(s) <=> IsCycle(s)') /\ NumberOfPathOnly(s)' = NumberOfPathOnly(s)
        BY <1>1, <2>2 DEF IsCycle, NumberOfPathOnly, PathDependencyOnly
      <4>3. QED
        BY <4>1, <4>2 DEF RefusedForACycle
    <3>3. QED
      BY <2>3, <3>1, <3>2
  <2>7. QED
    BY <2>2, <2>4, <2>5, <2>6
<1>6. ASSUME NEW d \in Modules, ForwardOrCrossEdge(d) PROVE CheckInv'
  <2>1. /\ NextEdge(d) /\ colour' = colour /\ trail' = trail /\ report' = report
        /\ stack' = Finished(<<Top, d>>, stack)
    BY <1>6 DEF ForwardOrCrossEdge
  <2>2. /\ paths' = paths /\ consumes' = consumes /\ trail # <<>>
        /\ todo' \in [Modules -> SUBSET Modules] /\ LookedAtAreEdges'
    BY <1>3, <2>1
  <2>3. stack' = stack
    BY <2>1, <2>2, OthersStay
  <2>4. CheckTypeOK' /\ TrailIsGray' /\ StackIsTrail'
    BY <1>1, <2>1, <2>2, <2>3 DEF CheckTypeOK, TrailIsGray, StackIsTrail
  <2>5. QED
    BY <1>1, <2>1, <2>2, <2>4
<1>7. CASE FinishVertex
  <2>1. /\ trail # <<>> /\ paths' = paths /\ consumes' = consumes /\ todo' = todo /\ report' = report
        /\ colour' = [colour EXCEPT ![Top] = "black"]
        /\ trail' = SubSeq(trail, 1, Len(trail) - 1)
        /\ stack' = IF Len(trail) = 1 THEN stack ELSE Finished(<<trail[Len(trail) - 1], Top>>, stack)
    BY <1>7 DEF FinishVertex
  <2>2. /\ Len(trail) \in Nat \ {0} /\ Len(stack) = Len(trail) - 1 /\ Top = trail[Len(trail)]
        /\ DOMAIN trail = 1 .. Len(trail) /\ Top \in Modules
        /\ DOMAIN stack = 1 .. Len(trail) - 1
    BY <2>1 DEF CheckTypeOK, StackIsTrail, Top
  <2>3. /\ trail' \in Seq(Modules) /\ Len(trail') = Len(trail) - 1
        /\ DOMAIN trail' = 1 .. Len(trail) - 1
        /\ \A i \in 1 .. Len(trail) - 1 : trail'[i] = trail[i]
    BY <2>1, <2>2 DEF CheckTypeOK
  <2>4. /\ stack' \in Seq(Modules \X Modules)
        /\ Len(stack') = IF Len(trail) = 1 THEN 0 ELSE Len(trail) - 2
        /\ \A i \in DOMAIN stack' : i \in DOMAIN stack /\ stack'[i] = stack[i] /\ i < Len(trail) - 1
    <3>1. CASE Len(trail) = 1
      BY <3>1, <2>1, <2>2 DEF CheckTypeOK
    <3>2. CASE Len(trail) # 1
      <4>1. stack # <<>> /\ stack[Len(stack)] = <<trail[Len(trail) - 1], Top>>
        BY <3>2, <2>2 DEF StackIsTrail
      <4>2. stack' = SubSeq(stack, 1, Len(stack) - 1)
        BY <2>1, <3>2, <4>1 DEF Finished
      <4>3. QED
        BY <4>2, <3>2, <2>2 DEF CheckTypeOK
    <3>3. QED
      BY <3>1, <3>2
  <2>5. CheckTypeOK'
    BY <2>1, <2>2, <2>3, <2>4 DEF CheckTypeOK
  <2>6. LookedAtAreEdges'
    BY <1>1, <2>1 DEF LookedAtAreEdges
  <2>7. TrailIsGray'
    <3>1. \A m \in Modules : colour'[m] = "gray" <=> colour[m] = "gray" /\ m # Top
      BY <2>1, <2>2 DEF CheckTypeOK
    <3>2. ASSUME NEW m \in Modules
          PROVE (\E i \in DOMAIN trail' : trail'[i] = m) <=> (\E i \in DOMAIN trail : trail[i] = m) /\ m # Top
      BY <2>2, <2>3 DEF TrailIsGray
    <3>3. \A i, j \in DOMAIN trail' : trail'[i] = trail'[j] => i = j
      BY <2>2, <2>3 DEF TrailIsGray
    <3>4. QED
      BY <3>1, <3>2, <3>3 DEF TrailIsGray
  <2>8. StackIsTrail'
    <3>1. Edges' = Edges
      BY <1>1, <2>1
    <3>2. trail' = <<>> <=> Len(trail) = 1
      BY <2>2, <2>3
    <3>3. \A i \in DOMAIN stack' : i \in DOMAIN trail' /\ i + 1 \in DOMAIN trail'
      BY <2>2, <2>3, <2>4
    <3>4. \A i \in DOMAIN stack' : stack'[i] = <<trail'[i], trail'[i + 1]>> /\ stack'[i] \in Edges
      BY <2>2, <2>3, <2>4, <3>3 DEF StackIsTrail
    <3>5. QED
      BY <2>2, <2>3, <2>4, <3>1, <3>2, <3>4 DEF StackIsTrail
  <2>9. QED
    BY <1>1, <2>1, <2>5, <2>6, <2>7, <2>8
<1>8. CASE UNCHANGED checkVars
  BY <1>1, <1>8 DEF checkVars, CheckTypeOK, LookedAtAreEdges, TrailIsGray, StackIsTrail
<1>9. QED
  BY <1>2, <1>4, <1>5, <1>6, <1>7, <1>8 DEF CheckNext

\* A schedule is refused for a reason: what the exception of checkForCorrectness reports ends in
\* a cycle of the dependencies in which at most one edge is there only because of a path.
THEOREM RefusalIsJustified == CheckSpec => []RefusedForACycle
<1>1. CheckInv => RefusedForACycle
  BY DEF CheckInv
<1>2. QED
  BY CheckInitInv, CheckStep, <1>1, PTL DEF CheckSpec

-----------------------------------------------------------------------------
(* What a forked job promises, for any number of children, any input, chunk  *)
(* size and number of failures: EventsSharedOut.  The invariant ties the     *)
(* place of each child to the chunks it was given and these to the next      *)
(* index of the parent, and says why each process ended.                     *)

\* A record of the kind Child.
ChildType ==
  [pc : {"ask", "wait", "loop", "exited", "stopped", "failed"}, start : Nat, count : Nat, left : Nat,
   remaining : Int, next : Nat, stop : BOOLEAN]

\* The types of the variables.
ForkTypeOK ==
  /\ forkJob \in ForkJobs
  /\ child \in [Children -> ChildType]
  /\ requests \subseteq Children /\ bytes \subseteq Children /\ numDone \subseteq Children
  /\ answers \in [Children -> Nat \cup {-1}]
  /\ sender \in [pc : {"none", "running", "ended"}, next : Nat,
                 pipes : SUBSET Children, sockets : SUBSET Children]
  /\ childFailed \in BOOLEAN
  /\ asked \in {"no", "pending", "seen"}
  /\ times \in [0 .. forkJob.events - 1 -> Nat]
  /\ given \in [Children -> SUBSET Nat]

\* A child has a request or an answer on its way only while it waits, and never both; it asks
\* when its chunk is used up.
Talk ==
  /\ \A c \in Children :
       child[c].pc \in {"ask", "loop", "exited", "stopped"} => c \notin requests /\ answers[c] = -1
  /\ \A c \in requests : answers[c] = -1
  /\ \A c \in Children : child[c].pc \in {"ask", "wait"} => child[c].left = 0

\* Where a child stands: in the chunk from start on, left indices from its end; what it was given
\* and did not reach is the chunk in its socket; it knows how many events of the job remain.
ChunkOf(c) ==
  /\ child[c].left <= child[c].count
  /\ child[c].next = child[c].start + child[c].count - child[c].left
  /\ \A e \in given[c] :
       \/ e < child[c].start + child[c].count
       \/ answers[c] # -1 /\ answers[c] <= e /\ e < answers[c] + forkJob.chunk
  /\ child[c].start .. child[c].start + child[c].count - 1 \subseteq given[c]
  /\ child[c].start + child[c].count <= sender.next
  /\ answers[c] # -1 =>
       /\ child[c].start + child[c].count <= answers[c]
       /\ answers[c] + forkJob.chunk <= sender.next
       /\ answers[c] .. answers[c] + forkJob.chunk - 1 \subseteq given[c]
  /\ child[c].remaining = IF forkJob.maxEvents = -1 THEN -1
                          ELSE IF child[c].next < forkJob.maxEvents
                               THEN forkJob.maxEvents - child[c].next
                               ELSE 0
\* Every child stands as ChunkOf says.
InChunk == \A c \in Children : ChunkOf(c)

\* The indices below the next one were all given, each to one child.
Shares ==
  /\ \A c, d \in Children : c # d => given[c] \cap given[d] = {}
  /\ \A c \in Children : given[c] \subseteq 0 .. sender.next - 1
  /\ \A e \in 0 .. sender.next - 1 : \E c \in Children : e \in given[c]

\* Event e was processed: the child that was given it has gone past it.
Done(e) == \E c \in Children : e \in given[c] /\ e < child[c].next

\* Events are counted once, and only those below the limit.
Counts ==
  \A e \in DOMAIN times :
    /\ times[e] = IF Done(e) THEN 1 ELSE 0
    /\ times[e] = 1 => e < EventLimit

\* The main thread has left its first wait.
Late == {"checking", "killed", "stopping", "suspended again", "join", "returned"}

\* Why a process came to its end: a child by itself or because it was told to stop, the parent's
\* waits because a stop was asked for, all children ended, or one failed and that matters.
Ends ==
  /\ \A c \in Children : child[c].pc = "exited" /\ ~child[c].stop =>
       child[c].remaining = 0 \/ child[c].next >= forkJob.events
  /\ \A c \in Children : child[c].pc = "stopped" => child[c].stop
  /\ \A c \in Children : child[c].stop => asked = "seen" \/ (childFailed /\ ~forkJob.goOn)
  /\ \A c \in numDone : HasEnded(c) /\ (EndedBadly(c) => forkJob.goOn \/ childFailed)
  /\ main \in Late => asked = "seen" \/ numDone = Children \/ (childFailed /\ ~forkJob.goOn)
  /\ main = "returned" => sender.pc = "ended" /\ (forkJob.goOn \/ ~childFailed)
  /\ \A c \in Children : c \notin sender.pipes => HasEnded(c)
  /\ sender.pc = "ended" => sender.pipes = {}

\* The inductive invariant.
ForkInv == ForkTypeOK /\ Talk /\ InChunk /\ Shares /\ Counts /\ Ends

\* The parameters of the job as numbers.
LEMMA JobFacts ==
  ASSUME ForkTypeOK
  PROVE  /\ forkJob.events \in Nat /\ forkJob.maxEvents \in Nat \cup {-1}
         /\ forkJob.chunk \in Nat \ {0} /\ forkJob.goOn \in BOOLEAN
         /\ sender.next \in Nat /\ EventLimit \in Nat
         /\ \A c \in Children :
              /\ child[c].start \in Nat /\ child[c].count \in Nat /\ child[c].left \in Nat
              /\ child[c].next \in Nat /\ child[c].remaining \in Int /\ child[c].stop \in BOOLEAN
              /\ answers[c] \in Nat \cup {-1} /\ given[c] \subseteq Nat
<1>1. forkJob \in ForkJob BY ForkJobsAreValid DEF ForkTypeOK
<1>2. /\ forkJob.events \in Nat /\ forkJob.maxEvents \in Nat \cup {-1}
      /\ forkJob.chunk \in Nat \ {0} /\ forkJob.goOn \in BOOLEAN
  BY <1>1 DEF ForkJob
<1>3. EventLimit \in Nat BY <1>2 DEF EventLimit
<1>4. sender.next \in Nat BY DEF ForkTypeOK
<1> QED BY <1>2, <1>3, <1>4 DEF ForkTypeOK, ChildType

\* What a child's receive leaves: it stands at the start of the chunk it got.
LEMMA ReceiveFacts ==
  ASSUME ForkTypeOK, Talk, InChunk, NEW c \in Children, Receive(c)
  PROVE  /\ answers[c] \in Nat /\ answers[c] # -1
         /\ child'[c] = [child[c] EXCEPT !.pc = "loop", !.start = answers[c],
                           !.count = forkJob.chunk, !.left = forkJob.chunk, !.next = answers[c],
                           !.remaining = Decreased(child[c].remaining, answers[c] - child[c].next)]
         /\ child[c].next = child[c].start + child[c].count /\ child[c].next <= answers[c]
         /\ \A d \in Children \ {c} : child'[d] = child[d]
         /\ answers' = [answers EXCEPT ![c] = -1]
         /\ UNCHANGED <<parentVars, requests, bytes, times>>
<1>1. child[c].pc = "wait" /\ answers[c] # -1 BY DEF Receive, Continue
<1>2. /\ answers[c] \in Nat /\ child[c].start \in Nat /\ child[c].count \in Nat
      /\ child[c].left \in Nat /\ child[c].next \in Nat
  BY <1>1, JobFacts
<1>3. child[c].left = 0 BY <1>1 DEF Talk
<1>4. child[c].next = child[c].start + child[c].count /\ child[c].next <= answers[c]
  BY <1>1, <1>2, <1>3 DEF InChunk, ChunkOf
<1>5. answers[c] - child[c].start - child[c].count = answers[c] - child[c].next
      /\ child[c].next + (answers[c] - child[c].next) = answers[c]
  BY <1>2, <1>4
<1>6. child' = [child EXCEPT ![c] = [child[c] EXCEPT !.pc = "loop", !.start = answers[c],
                  !.count = forkJob.chunk, !.left = forkJob.chunk,
                  !.next = child[c].next + (answers[c] - child[c].next),
                  !.remaining = Decreased(child[c].remaining, answers[c] - child[c].next)]]
  BY <1>5 DEF Receive, Continue, ForkTypeOK, ChildType
<1>7. child'[c] = [child[c] EXCEPT !.pc = "loop", !.start = answers[c],
                  !.count = forkJob.chunk, !.left = forkJob.chunk, !.next = answers[c],
                  !.remaining = Decreased(child[c].remaining, answers[c] - child[c].next)]
      /\ \A d \in Children \ {c} : child'[d] = child[d]
  BY <1>5, <1>6 DEF ForkTypeOK, ChildType
<1> QED BY <1>1, <1>2, <1>4, <1>7 DEF Receive, Continue

\* A chunk sent to a child that lives is the next one, and is this child's alone.
LEMMA SendFacts ==
  ASSUME ForkTypeOK, NEW c \in Children, SendChunk(c)
  PROVE  /\ c \in requests /\ requests' = requests \ {c}
         /\ UNCHANGED <<forkJob, child, times, main, numDone, childFailed, asked, bytes>>
         /\ sender'.pc = sender.pc /\ sender'.pipes = sender.pipes
         /\ HasEnded(c) => UNCHANGED <<answers, given, sender.next>>
         /\ ~HasEnded(c) =>
              /\ sender'.next = sender.next + forkJob.chunk
              /\ answers' = [answers EXCEPT ![c] = sender.next]
              /\ given' = [given EXCEPT ![c] =
                             @ \cup sender.next .. sender.next + forkJob.chunk - 1]
         /\ sender' \in [pc : {"none", "running", "ended"}, next : Nat,
                         pipes : SUBSET Children, sockets : SUBSET Children]
<1>1. sender \in [pc : {"none", "running", "ended"}, next : Nat,
                  pipes : SUBSET Children, sockets : SUBSET Children]
  BY DEF ForkTypeOK
<1>2. sender.next \in Nat /\ sender.next + forkJob.chunk \in Nat BY JobFacts
<1>3. PICK n \in Nat : /\ n = IF HasEnded(c) THEN sender.next ELSE sender.next + forkJob.chunk
                       /\ Answer(c, n)
  BY <1>2 DEF SendChunk
<1>4. sender' = [sender EXCEPT !.next = n,
                    !.sockets = IF HasEnded(c) THEN sender.sockets \ {c} ELSE sender.sockets]
  BY <1>3 DEF Answer
<1>5. /\ sender'.pc = sender.pc /\ sender'.pipes = sender.pipes /\ sender'.next = n
      /\ sender' \in [pc : {"none", "running", "ended"}, next : Nat,
                      pipes : SUBSET Children, sockets : SUBSET Children]
  BY <1>1, <1>4
<1>6. /\ c \in requests /\ requests' = requests \ {c}
      /\ UNCHANGED <<forkJob, child, times, main, numDone, childFailed, asked, bytes>>
      /\ answers' = IF HasEnded(c) THEN answers ELSE [answers EXCEPT ![c] = sender.next]
      /\ given' = IF HasEnded(c) THEN given ELSE [given EXCEPT ![c] = @ \cup Chunk]
  BY <1>3 DEF Answer, childVars, mainVars
<1> QED BY <1>3, <1>5, <1>6 DEF Chunk

\* A child's step keeps the types of its fields.
LEMMA FieldTypes ==
  ASSUME NEW r \in ChildType
  PROVE  /\ \A p \in {"ask", "wait", "loop", "exited", "stopped", "failed"} :
              [r EXCEPT !.pc = p] \in ChildType
         /\ r.left # 0 =>
              [r EXCEPT !.next = @ + 1, !.left = @ - 1,
                        !.remaining = IF @ > 0 THEN @ - 1 ELSE @] \in ChildType
         /\ \A a \in Nat, k \in Nat, m \in Int :
              [r EXCEPT !.pc = "loop", !.start = a, !.count = k, !.left = k, !.next = a,
                        !.remaining = m] \in ChildType
         /\ \A b \in BOOLEAN : [r EXCEPT !.stop = b] \in ChildType
<1>1. /\ r.pc \in {"ask", "wait", "loop", "exited", "stopped", "failed"} /\ r.start \in Nat /\ r.count \in Nat
      /\ r.left \in Nat /\ r.remaining \in Int /\ r.next \in Nat /\ r.stop \in BOOLEAN
  BY DEF ChildType
<1>2. ASSUME NEW a \in Nat, NEW k \in Nat, NEW m \in Int
      PROVE  [r EXCEPT !.pc = "loop", !.start = a, !.count = k, !.left = k, !.next = a,
                       !.remaining = m] \in ChildType
  BY <1>1 DEF ChildType
<1>3. ASSUME r.left # 0
      PROVE  [r EXCEPT !.next = @ + 1, !.left = @ - 1,
                       !.remaining = IF @ > 0 THEN @ - 1 ELSE @] \in ChildType
  <2>1. /\ r.next + 1 \in Nat /\ r.left - 1 \in Nat
        /\ (IF r.remaining > 0 THEN r.remaining - 1 ELSE r.remaining) \in Int
    BY <1>1, <1>3
  <2> QED BY <1>1, <2>1 DEF ChildType
<1> QED BY <1>1, <1>2, <1>3 DEF ChildType

\* Every step keeps the types.
LEMMA TypeStep ==
  ASSUME ForkInv, ForkNext
  PROVE  ForkTypeOK'
<1>0. ForkTypeOK /\ Talk /\ InChunk BY DEF ForkInv
<1>a. /\ forkJob.events \in Nat /\ forkJob.maxEvents \in Nat \cup {-1}
      /\ forkJob.chunk \in Nat \ {0} /\ forkJob.goOn \in BOOLEAN /\ sender.next \in Nat
  BY <1>0, JobFacts
<1>1. ASSUME NEW c \in Children, ChildStep(c) \/ Fail(c) \/ SendChunk(c) \/ ReadPipe(c)
      PROVE  ForkTypeOK'
  <2>1. CASE Ask(c)
    <3>1. PICK p \in {"wait", "failed"} : child' = [child EXCEPT ![c].pc = p]
      BY <2>1 DEF Ask
    <3>2. child' \in [Children -> ChildType] BY <1>0, <3>1, FieldTypes DEF ForkTypeOK
    <3>3. requests' \subseteq Children BY <1>0, <2>1 DEF Ask, ForkTypeOK
    <3> QED BY <1>0, <3>2, <3>3, <2>1 DEF Ask, ForkTypeOK, parentVars
  <2>2. CASE Timeout(c) BY <1>0, <1>a, <2>2, ZenonT(40) DEF Timeout, parentVars, ForkTypeOK, ChildType
  <2>3. CASE Receive(c)
    <3>1. PICK m \in Int : m = Decreased(child[c].remaining, answers[c] - child[c].next)
      <4>1. /\ child[c].remaining \in Int /\ answers[c] \in Nat /\ child[c].next \in Nat
        BY <1>0, <2>3, JobFacts, ReceiveFacts
      <4> QED BY <4>1 DEF Decreased
    <3>a. /\ answers[c] \in Nat
          /\ child'[c] = [child[c] EXCEPT !.pc = "loop", !.start = answers[c],
                            !.count = forkJob.chunk, !.left = forkJob.chunk, !.next = answers[c],
                            !.remaining = m]
      BY <1>0, <2>3, <3>1, ReceiveFacts
    <3>b. child[c] \in ChildType /\ forkJob.chunk \in Nat BY <1>0, <1>a DEF ForkTypeOK
    <3>c. \A a, k \in Nat : [child[c] EXCEPT !.pc = "loop", !.start = a, !.count = k, !.left = k,
                                            !.next = a, !.remaining = m] \in ChildType
      BY <3>b, FieldTypes
    <3>d. PICK a \in Nat, k \in Nat : a = answers[c] /\ k = forkJob.chunk BY <3>a, <3>b
    <3>2. child'[c] \in ChildType BY <3>a, <3>c, <3>d
    <3>3. child' = [child EXCEPT ![c] = child'[c]]
      BY <1>0, <2>3 DEF Receive, Continue, ForkTypeOK
    <3>4. child' \in [Children -> ChildType] BY <1>0, <3>2, <3>3 DEF ForkTypeOK
    <3>5. UNCHANGED <<parentVars, requests, bytes, times>> /\ answers' = [answers EXCEPT ![c] = -1]
      BY <1>0, <2>3, ReceiveFacts
    <3> QED BY <1>0, <3>4, <3>5 DEF ForkTypeOK, parentVars
  <2>4. CASE Process(c)
    <3>1. child' = [child EXCEPT ![c] =
                      [child[c] EXCEPT !.next = @ + 1, !.left = @ - 1,
                                       !.remaining = IF @ > 0 THEN @ - 1 ELSE @]]
      BY <2>4 DEF Process
    <3>2. child[c].left # 0 BY <2>4 DEF Process
    <3>3. child' \in [Children -> ChildType] BY <1>0, <3>1, <3>2, FieldTypes DEF ForkTypeOK
    <3>4. times' = [times EXCEPT ![child[c].next] = @ + 1] BY <2>4 DEF Process
    <3>5. times \in [0 .. forkJob.events - 1 -> Nat] BY <1>0 DEF ForkTypeOK
    <3>a. child[c].next \in 0 .. forkJob.events - 1
      BY <1>0, <1>a, <2>4, JobFacts DEF Process
    <3>6. times' \in [0 .. forkJob.events - 1 -> Nat] BY <3>4, <3>5, <3>a
    <3>7. UNCHANGED <<parentVars, requests, answers, bytes>> BY <2>4 DEF Process
    <3> QED BY <1>0, <3>3, <3>6, <3>7 DEF parentVars, ForkTypeOK
  <2>5. CASE NeedsWork(c) BY <1>0, <1>a, <2>5, ZenonT(40) DEF NeedsWork, parentVars, ForkTypeOK, ChildType
  <2>6. CASE Exit(c) BY <1>0, <1>a, <2>6, ZenonT(40) DEF Exit, parentVars, ForkTypeOK, ChildType
  <2>7. CASE Fail(c) BY <1>0, <1>a, <2>7, ZenonT(40) DEF Fail, parentVars, ForkTypeOK, ChildType
  <2>8. CASE SendChunk(c)
    <3>1. answers' \in [Children -> Nat \cup {-1}] /\ given' \in [Children -> SUBSET Nat]
      <4>1. CASE HasEnded(c) BY <1>0, <2>8, <4>1, SendFacts DEF ForkTypeOK
      <4>2. CASE ~HasEnded(c)
        <5>1. PICK K \in SUBSET Nat : K = sender.next .. sender.next + forkJob.chunk - 1
          BY <1>a
        <5>2. given' = [given EXCEPT ![c] = @ \cup K] /\ answers' = [answers EXCEPT ![c] = sender.next]
          BY <1>0, <2>8, <4>2, <5>1, SendFacts
        <5> QED BY <1>0, <1>a, <5>2 DEF ForkTypeOK
      <4> QED BY <4>1, <4>2
    <3> QED BY <1>0, <2>8, <3>1, SendFacts DEF ForkTypeOK
  <2>9. CASE ReadPipe(c)
    BY <1>0, <1>a, <2>9 DEF ReadPipe, SenderRuns, childVars, mainVars, ForkTypeOK, ChildType
  <2> QED BY <1>1, <2>1, <2>2, <2>3, <2>4, <2>5, <2>6, <2>7, <2>8, <2>9 DEF ChildStep
<1>2. CASE SenderEnds
  BY <1>0, <1>a, <1>2 DEF SenderEnds, SenderRuns, childVars, mainVars, ForkTypeOK, ChildType
<1>3. CASE StartSender
  BY <1>0, <1>a, <1>3 DEF StartSender, talkVars, ForkTypeOK, ChildType
<1>4. CASE TestChildren
  BY <1>0, <1>a, <1>4 DEF TestChildren, Goto, MustWait, talkVars, ForkTypeOK, ChildType
<1>5. CASE Suspend("suspended", "waiting", forkJob.goOn)
  BY <1>0, <1>a, <1>5 DEF Suspend, HandleSignals, Zombies, talkVars, ForkTypeOK, ChildType
<1>6. CASE Kill
  BY <1>0, <1>a, <1>6, ZenonT(40) DEF Kill, talkVars, ForkTypeOK, ChildType
<1>7. CASE TestStopped
  BY <1>0, <1>a, <1>7 DEF TestStopped, Goto, talkVars, ForkTypeOK, ChildType
<1>8. CASE Suspend("suspended again", "stopping", FALSE)
  BY <1>0, <1>a, <1>8 DEF Suspend, HandleSignals, Zombies, talkVars, ForkTypeOK, ChildType
<1>9. CASE Join
  BY <1>0, <1>a, <1>9 DEF Join, Goto, talkVars, ForkTypeOK, ChildType
<1>10. CASE SignalArrives
  BY <1>0, <1>a, <1>10 DEF SignalArrives, HandleSignals, Zombies, talkVars, ForkTypeOK, ChildType
<1>11. CASE AskToStop
  BY <1>0, <1>a, <1>11 DEF AskToStop, talkVars, ForkTypeOK, ChildType
<1>12. CASE ParentDies
  BY <1>0, <1>a, <1>12 DEF ParentDies, talkVars, ForkTypeOK, ChildType
<1> QED BY <1>1, <1>2, <1>3, <1>4, <1>5, <1>6, <1>7, <1>8, <1>9, <1>10, <1>11, <1>12
          DEF ForkNext, SenderStep, MainStep

\* Every step keeps Talk.
LEMMA TalkStep ==
  ASSUME ForkInv, ForkNext
  PROVE  Talk'
<1>0. ForkTypeOK /\ Talk BY DEF ForkInv
<1>a. forkJob.chunk \in Nat \ {0} BY <1>0, JobFacts
<1>1. ASSUME NEW c \in Children, ChildStep(c) \/ Fail(c) \/ SendChunk(c) \/ ReadPipe(c)
      PROVE  Talk'
  <2>1. CASE Ask(c) BY <1>0, <1>a, <2>1 DEF Ask, parentVars, ForkTypeOK, ChildType, Talk, HasEnded, EndedBadly
  <2>2. CASE Timeout(c)
    BY <1>0, <1>a, <2>2 DEF Timeout, parentVars, ForkTypeOK, ChildType, Talk, HasEnded, EndedBadly
  <2>3. CASE Receive(c)
    BY <1>0, <1>a, <2>3, SMTT(40) DEF Receive, Continue, Decreased, parentVars, ForkTypeOK, ChildType, Talk,
           HasEnded, EndedBadly
  <2>4. CASE Process(c)
    BY <1>0, <1>a, <2>4, ZenonT(40) DEF Process, parentVars, ForkTypeOK, ChildType, Talk, HasEnded, EndedBadly
  <2>5. CASE NeedsWork(c)
    BY <1>0, <1>a, <2>5 DEF NeedsWork, parentVars, ForkTypeOK, ChildType, Talk, HasEnded, EndedBadly
  <2>6. CASE Exit(c) BY <1>0, <1>a, <2>6 DEF Exit, parentVars, ForkTypeOK, ChildType, Talk, HasEnded, EndedBadly
  <2>7. CASE Fail(c) BY <1>0, <1>a, <2>7 DEF Fail, parentVars, ForkTypeOK, ChildType, Talk, HasEnded, EndedBadly
  <2>8. CASE SendChunk(c)
    BY <1>0, <1>a, <2>8 DEF SendChunk, Answer, SenderRuns, Chunk, childVars, mainVars, ForkTypeOK,
           ChildType, Talk, HasEnded, EndedBadly
  <2>9. CASE ReadPipe(c)
    BY <1>0, <1>a, <2>9 DEF ReadPipe, SenderRuns, childVars, mainVars, ForkTypeOK, ChildType,
           Talk, HasEnded, EndedBadly
  <2> QED BY <1>1, <2>1, <2>2, <2>3, <2>4, <2>5, <2>6, <2>7, <2>8, <2>9 DEF ChildStep
<1>2. CASE SenderEnds
  BY <1>0, <1>a, <1>2 DEF SenderEnds, SenderRuns, childVars, mainVars, ForkTypeOK, ChildType,
           Talk, HasEnded, EndedBadly
<1>3. CASE StartSender
  BY <1>0, <1>a, <1>3 DEF StartSender, talkVars, ForkTypeOK, ChildType, Talk, HasEnded, EndedBadly
<1>4. CASE TestChildren
  BY <1>0, <1>a, <1>4 DEF TestChildren, Goto, MustWait, talkVars, ForkTypeOK, ChildType, Talk,
           HasEnded, EndedBadly
<1>5. CASE Suspend("suspended", "waiting", forkJob.goOn)
  BY <1>0, <1>a, <1>5 DEF Suspend, HandleSignals, Zombies, talkVars, ForkTypeOK, ChildType, Talk,
           HasEnded, EndedBadly
<1>6. CASE Kill
  BY <1>0, <1>a, <1>6 DEF Kill, talkVars, ForkTypeOK, ChildType, Talk, HasEnded, EndedBadly
<1>7. CASE TestStopped
  BY <1>0, <1>a, <1>7 DEF TestStopped, Goto, talkVars, ForkTypeOK, ChildType, Talk, HasEnded, EndedBadly
<1>8. CASE Suspend("suspended again", "stopping", FALSE)
  BY <1>0, <1>a, <1>8 DEF Suspend, HandleSignals, Zombies, talkVars, ForkTypeOK, ChildType, Talk,
           HasEnded, EndedBadly
<1>9. CASE Join
  BY <1>0, <1>a, <1>9 DEF Join, Goto, talkVars, ForkTypeOK, ChildType, Talk, HasEnded, EndedBadly
<1>10. CASE SignalArrives
  BY <1>0, <1>a, <1>10 DEF SignalArrives, HandleSignals, Zombies, talkVars, ForkTypeOK, ChildType,
           Talk, HasEnded, EndedBadly
<1>11. CASE AskToStop
  BY <1>0, <1>a, <1>11 DEF AskToStop, talkVars, ForkTypeOK, ChildType, Talk, HasEnded, EndedBadly
<1>12. CASE ParentDies
  BY <1>0, <1>a, <1>12 DEF ParentDies, talkVars, ForkTypeOK, ChildType, Talk, HasEnded, EndedBadly
<1> QED BY <1>1, <1>2, <1>3, <1>4, <1>5, <1>6, <1>7, <1>8, <1>9, <1>10, <1>11, <1>12
          DEF ForkNext, SenderStep, MainStep

\* Only SendChunk hands out indices, and only new ones.
LEMMA SharesStep ==
  ASSUME ForkInv, ForkNext
  PROVE  Shares'
<1>0. ForkTypeOK /\ Shares BY DEF ForkInv
<1>a. forkJob.chunk \in Nat \ {0} /\ sender.next \in Nat BY <1>0, JobFacts
<1>1. ASSUME NEW c \in Children, ChildStep(c) \/ Fail(c) \/ SendChunk(c) \/ ReadPipe(c)
      PROVE  Shares'
  <2>1. CASE Ask(c) BY <1>0, <1>a, <2>1 DEF Ask, parentVars, ForkTypeOK, Shares
  <2>2. CASE Timeout(c) BY <1>0, <1>a, <2>2 DEF Timeout, parentVars, ForkTypeOK, Shares
  <2>3. CASE Receive(c)
    BY <1>0, <1>a, <2>3 DEF Receive, Continue, Decreased, parentVars, ForkTypeOK, Shares
  <2>4. CASE Process(c) BY <1>0, <1>a, <2>4 DEF Process, parentVars, ForkTypeOK, Shares
  <2>5. CASE NeedsWork(c) BY <1>0, <1>a, <2>5 DEF NeedsWork, parentVars, ForkTypeOK, Shares
  <2>6. CASE Exit(c) BY <1>0, <1>a, <2>6 DEF Exit, parentVars, ForkTypeOK, Shares
  <2>7. CASE Fail(c) BY <1>0, <1>a, <2>7 DEF Fail, parentVars, ForkTypeOK, Shares
  <2>8. CASE SendChunk(c)
    <3>1. CASE HasEnded(c) BY <1>0, <2>8, <3>1, SendFacts DEF Shares
    <3>2. CASE ~HasEnded(c)
      <4>1. PICK K : K = sender.next .. sender.next + forkJob.chunk - 1 OBVIOUS
      <4>2. /\ given'[c] = given[c] \cup K /\ \A d \in Children \ {c} : given'[d] = given[d]
            /\ sender'.next = sender.next + forkJob.chunk
        BY <1>0, <2>8, <3>2, <4>1, SendFacts DEF ForkTypeOK
      <4>3. \A e \in K : e \notin 0 .. sender.next - 1 BY <1>a, <4>1
      <4>n. PICK n \in Nat : n = sender.next + forkJob.chunk BY <1>a
      <4>4. 0 .. n - 1 = (0 .. sender.next - 1) \cup K BY <1>a, <4>1, <4>n
      <4>5. \A d \in Children : given[d] \cap K = {} BY <1>0, <4>3 DEF Shares
      <4>6. \A b, d \in Children : b # d => given'[b] \cap given'[d] = {}
        BY <1>0, <4>2, <4>5 DEF Shares
      <4>p. PICK P : P = 0 .. sender.next - 1 OBVIOUS
      <4>q. 0 .. sender'.next - 1 = P \cup K
        <5>1. 0 .. n - 1 = P \cup K BY <4>4, <4>p
        <5>2. sender'.next = n BY <4>2, <4>n
        <5> QED BY <5>1, <5>2
      <4>7. \A d \in Children : given'[d] \subseteq P \cup K BY <1>0, <4>2, <4>p DEF Shares
      <4>8. ASSUME NEW e \in P \cup K PROVE \E d \in Children : e \in given'[d]
        <5>1. CASE e \in K BY <4>2, <5>1
        <5>2. CASE e \in P
          <6>1. PICK d \in Children : e \in given[d] BY <1>0, <4>p, <5>2 DEF Shares
          <6>2. e \in given'[d] BY <4>2, <6>1
          <6> QED BY <6>2
        <5> QED BY <5>1, <5>2
      <4> QED BY <4>6, <4>7, <4>8, <4>q DEF Shares
    <3> QED BY <3>1, <3>2
  <2>9. CASE ReadPipe(c)
    BY <1>0, <1>a, <2>9 DEF ReadPipe, SenderRuns, childVars, mainVars, ForkTypeOK, Shares
  <2> QED BY <1>1, <2>1, <2>2, <2>3, <2>4, <2>5, <2>6, <2>7, <2>8, <2>9 DEF ChildStep
<1>2. CASE SenderEnds
  BY <1>0, <1>a, <1>2 DEF SenderEnds, SenderRuns, childVars, mainVars, ForkTypeOK, Shares
<1>3. CASE StartSender
  BY <1>0, <1>a, <1>3 DEF StartSender, talkVars, ForkTypeOK, Shares
<1>4. CASE TestChildren
  BY <1>0, <1>a, <1>4 DEF TestChildren, Goto, MustWait, talkVars, ForkTypeOK, Shares
<1>5. CASE Suspend("suspended", "waiting", forkJob.goOn)
  BY <1>0, <1>a, <1>5 DEF Suspend, HandleSignals, Zombies, talkVars, ForkTypeOK, Shares
<1>6. CASE Kill
  BY <1>0, <1>a, <1>6 DEF Kill, talkVars, ForkTypeOK, Shares
<1>7. CASE TestStopped
  BY <1>0, <1>a, <1>7 DEF TestStopped, Goto, talkVars, ForkTypeOK, Shares
<1>8. CASE Suspend("suspended again", "stopping", FALSE)
  BY <1>0, <1>a, <1>8 DEF Suspend, HandleSignals, Zombies, talkVars, ForkTypeOK, Shares
<1>9. CASE Join
  BY <1>0, <1>a, <1>9 DEF Join, Goto, talkVars, ForkTypeOK, Shares
<1>10. CASE SignalArrives
  BY <1>0, <1>a, <1>10 DEF SignalArrives, HandleSignals, Zombies, talkVars, ForkTypeOK, Shares
<1>11. CASE AskToStop
  BY <1>0, <1>a, <1>11 DEF AskToStop, talkVars, ForkTypeOK, Shares
<1>12. CASE ParentDies
  BY <1>0, <1>a, <1>12 DEF ParentDies, talkVars, ForkTypeOK, Shares
<1> QED BY <1>1, <1>2, <1>3, <1>4, <1>5, <1>6, <1>7, <1>8, <1>9, <1>10, <1>11, <1>12
          DEF ForkNext, SenderStep, MainStep

\* Every step keeps Ends.
LEMMA EndsStep ==
  ASSUME ForkInv, ForkNext
  PROVE  Ends'
<1>0. ForkTypeOK /\ Ends BY DEF ForkInv
<1>a. forkJob.goOn \in BOOLEAN BY <1>0, JobFacts
<1>b. ASSUME UNCHANGED <<forkJob, sender, main, numDone, childFailed, asked>>,
             NEW c \in Children, ~HasEnded(c), child'[c].stop = child[c].stop,
             child'[c].pc \notin {"exited", "stopped"}, \A d \in Children \ {c} : child'[d] = child[d]
      PROVE  Ends'
  <2>1. /\ \A d \in Children : child'[d].stop = child[d].stop
        /\ \A d \in Children : HasEnded(d) => child'[d] = child[d] /\ d # c
    BY <1>b
  <2>2. \A d \in Children : child'[d].pc \in {"exited", "stopped"} => child'[d] = child[d] BY <1>b
  <2>3. c \notin numDone /\ c \in sender.pipes BY <1>0, <1>b DEF Ends
  <2>4. \A d \in numDone : HasEnded(d)' /\ child'[d] = child[d]
    BY <1>0, <1>b, <2>1 DEF Ends, HasEnded, EndedBadly, ForkTypeOK
  <2>5. \A d \in Children : d \notin sender.pipes => HasEnded(d)'
    BY <1>0, <1>b, <2>1 DEF Ends, HasEnded, EndedBadly
  <2>6. \A d \in numDone : EndedBadly(d)' => forkJob.goOn \/ childFailed
    BY <1>0, <2>4 DEF Ends, EndedBadly
  <2>7. \A d \in Children : child'[d].pc = "stopped" => child'[d].stop BY <1>0, <2>1, <2>2 DEF Ends
  <2> QED BY <1>0, <1>b, <2>1, <2>2, <2>4, <2>5, <2>6, <2>7 DEF Ends, Late, ForkTypeOK
<1>1. ASSUME NEW c \in Children, ChildStep(c) \/ Fail(c) \/ SendChunk(c) \/ ReadPipe(c)
      PROVE  Ends'
  <2>1. CASE Ask(c)
    <3>1. ~HasEnded(c) /\ child'[c].stop = child[c].stop /\ child'[c].pc \notin {"exited", "stopped"}
          /\ \A d \in Children \ {c} : child'[d] = child[d]
      BY <1>0, <2>1 DEF Ask, parentVars, ForkTypeOK, ChildType, HasEnded, EndedBadly
    <3>2. UNCHANGED <<forkJob, sender, main, numDone, childFailed, asked>>
      BY <2>1 DEF Ask, parentVars
    <3> QED BY <1>b, <3>1, <3>2
  <2>2. CASE Timeout(c)
    BY <1>0, <1>a, <2>2, ZenonT(40) DEF Timeout, parentVars, ForkTypeOK, ChildType, Ends, HasEnded, EndedBadly, Late,
           ParentIsGone
  <2>3. CASE Receive(c)
    <3>1. ~HasEnded(c) /\ child'[c].stop = child[c].stop /\ child'[c].pc \notin {"exited", "stopped"}
          /\ \A d \in Children \ {c} : child'[d] = child[d]
      BY <1>0, <2>3 DEF Receive, Continue, Decreased, parentVars, ForkTypeOK, ChildType, HasEnded, EndedBadly
    <3>2. UNCHANGED <<forkJob, sender, main, numDone, childFailed, asked>>
      BY <2>3 DEF Receive, Continue, Decreased, parentVars
    <3> QED BY <1>b, <3>1, <3>2
  <2>4. CASE Process(c)
    <3>1. ~HasEnded(c) /\ child'[c].stop = child[c].stop /\ child'[c].pc \notin {"exited", "stopped"}
          /\ \A d \in Children \ {c} : child'[d] = child[d]
      BY <1>0, <2>4 DEF Process, parentVars, ForkTypeOK, ChildType, HasEnded, EndedBadly
    <3>2. UNCHANGED <<forkJob, sender, main, numDone, childFailed, asked>>
      BY <2>4 DEF Process, parentVars
    <3> QED BY <1>b, <3>1, <3>2
  <2>5. CASE NeedsWork(c)
    BY <1>0, <1>a, <2>5, ZenonT(40) DEF NeedsWork, parentVars, ForkTypeOK, ChildType, Ends, HasEnded, EndedBadly, Late,
           ParentIsGone
  <2>6. CASE Exit(c)
    BY <1>0, <1>a, <2>6, ZenonT(40) DEF Exit, parentVars, ForkTypeOK, ChildType, Ends, HasEnded, EndedBadly, Late,
           ParentIsGone
  <2>7. CASE Fail(c)
    <3>1. ~HasEnded(c) /\ child'[c].stop = child[c].stop /\ child'[c].pc \notin {"exited", "stopped"}
          /\ \A d \in Children \ {c} : child'[d] = child[d]
      BY <1>0, <2>7 DEF Fail, parentVars, ForkTypeOK, ChildType, HasEnded, EndedBadly
    <3>2. UNCHANGED <<forkJob, sender, main, numDone, childFailed, asked>>
      BY <2>7 DEF Fail, parentVars
    <3> QED BY <1>b, <3>1, <3>2
  <2>8. CASE SendChunk(c)
    BY <1>0, <1>a, <2>8 DEF SendChunk, Answer, SenderRuns, Chunk, childVars, mainVars, ForkTypeOK,
           ChildType, Ends, HasEnded, EndedBadly, Late, ParentIsGone
  <2>9. CASE ReadPipe(c)
    BY <1>0, <1>a, <2>9 DEF ReadPipe, SenderRuns, childVars, mainVars, ForkTypeOK, ChildType,
           Ends, HasEnded, EndedBadly, Late, ParentIsGone
  <2> QED BY <1>1, <2>1, <2>2, <2>3, <2>4, <2>5, <2>6, <2>7, <2>8, <2>9 DEF ChildStep
<1>2. CASE SenderEnds
  BY <1>0, <1>a, <1>2 DEF SenderEnds, SenderRuns, childVars, mainVars, ForkTypeOK, ChildType,
           Ends, HasEnded, EndedBadly, Late, ParentIsGone
<1>3. CASE StartSender
  BY <1>0, <1>a, <1>3 DEF StartSender, talkVars, ForkTypeOK, ChildType, Ends, HasEnded, EndedBadly, Late,
           ParentIsGone
<1>4. CASE TestChildren
  BY <1>0, <1>a, <1>4 DEF TestChildren, Goto, MustWait, talkVars, ForkTypeOK, ChildType, Ends,
           HasEnded, EndedBadly, Late, ParentIsGone
<1>5. CASE Suspend("suspended", "waiting", forkJob.goOn)
  BY <1>0, <1>a, <1>5 DEF Suspend, HandleSignals, Zombies, talkVars, ForkTypeOK, ChildType, Ends,
           HasEnded, EndedBadly, Late, ParentIsGone
<1>6. CASE Kill
  <2>1. PICK must \in BOOLEAN : must = (asked = "seen" \/ (childFailed /\ numDone # Children))
    OBVIOUS
  <2>a. /\ main' \in {"killed", "join"}
        /\ child' = [c \in Children |-> [child[c] EXCEPT !.stop = @ \/ (must /\ ~HasEnded(c))]]
    BY <1>6, <2>1, Zenon DEF Kill
  <2>2. UNCHANGED <<forkJob, sender, numDone, childFailed, asked>> /\ main = "checking"
    BY <1>6 DEF Kill, talkVars
  <2>3. \A c \in Children :
          /\ child'[c].pc = child[c].pc /\ child'[c].remaining = child[c].remaining
          /\ child'[c].next = child[c].next
          /\ child'[c].stop = (child[c].stop \/ (must /\ ~HasEnded(c)))
    <3>1. ASSUME NEW r \in ChildType, NEW b \in BOOLEAN
          PROVE  LET q == [r EXCEPT !.stop = b]
                 IN  q.pc = r.pc /\ q.remaining = r.remaining /\ q.next = r.next /\ q.stop = b
      BY DEF ChildType
    <3> SUFFICES ASSUME NEW c \in Children
                 PROVE  /\ child'[c].pc = child[c].pc /\ child'[c].remaining = child[c].remaining
                        /\ child'[c].next = child[c].next
                        /\ child'[c].stop = (child[c].stop \/ (must /\ ~HasEnded(c)))
      OBVIOUS
    <3>2. child'[c] = [child[c] EXCEPT !.stop = child[c].stop \/ (must /\ ~HasEnded(c))]
      BY <1>0, <2>a DEF ForkTypeOK
    <3>3. child[c] \in ChildType BY <1>0 DEF ForkTypeOK
    <3>4. PICK b \in BOOLEAN : b = (child[c].stop \/ (must /\ ~HasEnded(c))) OBVIOUS
    <3>5. child'[c] = [child[c] EXCEPT !.stop = b] BY <3>2, <3>4
    <3>6. /\ child'[c].pc = child[c].pc /\ child'[c].remaining = child[c].remaining
          /\ child'[c].next = child[c].next /\ child'[c].stop = b
      BY <3>1, <3>3, <3>5
    <3> QED BY <3>4, <3>6
  <2>4. must => asked = "seen" \/ (childFailed /\ ~forkJob.goOn)
    BY <1>0, <1>a, <2>1, <2>2 DEF Ends, Late
  <2>5. \A c \in Children : HasEnded(c)' <=> HasEnded(c) BY <2>3 DEF HasEnded, EndedBadly
  <2>6. \A c \in Children : child'[c].stop => asked = "seen" \/ (childFailed /\ ~forkJob.goOn)
    BY <1>0, <2>3, <2>4 DEF Ends
  <2>7. \A c \in Children : child'[c].pc = "exited" /\ ~child'[c].stop =>
          child'[c].remaining = 0 \/ child'[c].next >= forkJob.events
    BY <1>0, <2>3 DEF Ends
  <2>8. \A c \in numDone : HasEnded(c)' /\ (EndedBadly(c)' => forkJob.goOn \/ childFailed)
    BY <1>0, <2>3, <2>5 DEF Ends, EndedBadly, ForkTypeOK
  <2>10. \A c \in Children : child'[c].pc = "stopped" => child'[c].stop
    BY <1>0, <2>3 DEF Ends
  <2>9. asked = "seen" \/ numDone = Children \/ (childFailed /\ ~forkJob.goOn)
    BY <1>0, <2>2 DEF Ends, Late
  <2> QED BY <1>0, <2>a, <2>2, <2>5, <2>6, <2>7, <2>8, <2>9, <2>10 DEF Ends
<1>7. CASE TestStopped
  BY <1>0, <1>a, <1>7 DEF TestStopped, Goto, talkVars, ForkTypeOK, ChildType, Ends, HasEnded, EndedBadly,
           Late, ParentIsGone
<1>8. CASE Suspend("suspended again", "stopping", FALSE)
  BY <1>0, <1>a, <1>8 DEF Suspend, HandleSignals, Zombies, talkVars, ForkTypeOK, ChildType, Ends,
           HasEnded, EndedBadly, Late, ParentIsGone
<1>9. CASE Join
  BY <1>0, <1>a, <1>9 DEF Join, Goto, talkVars, ForkTypeOK, ChildType, Ends, HasEnded, EndedBadly, Late,
           ParentIsGone
<1>10. CASE SignalArrives
  BY <1>0, <1>a, <1>10 DEF SignalArrives, HandleSignals, Zombies, talkVars, ForkTypeOK, ChildType,
           Ends, HasEnded, EndedBadly, Late, ParentIsGone
<1>11. CASE AskToStop
  BY <1>0, <1>a, <1>11 DEF AskToStop, talkVars, ForkTypeOK, ChildType, Ends, HasEnded, EndedBadly, Late,
           ParentIsGone
<1>12. CASE ParentDies
  BY <1>0, <1>a, <1>12 DEF ParentDies, talkVars, ForkTypeOK, ChildType, Ends, HasEnded, EndedBadly, Late,
           ParentIsGone
<1> QED BY <1>1, <1>2, <1>3, <1>4, <1>5, <1>6, <1>7, <1>8, <1>9, <1>10, <1>11, <1>12
          DEF ForkNext, SenderStep, MainStep

\* Where a child stands, but not what it does.
Place(c) == <<child[c].start, child[c].count, child[c].left, child[c].next, child[c].remaining>>

\* The steps that neither hand out work nor use it up leave the children where they are.
LEMMA Standing ==
  ASSUME ForkTypeOK, NEW c \in Children,
         Ask(c) \/ Timeout(c) \/ NeedsWork(c) \/ Exit(c) \/ Fail(c)
  PROVE  \A d \in Children : Place(d)' = Place(d)
<1> SUFFICES ASSUME NEW d \in Children PROVE Place(d)' = Place(d) OBVIOUS
<1>1. child' = child \/ \E p \in {"ask", "wait", "exited", "stopped", "failed"} : child' = [child EXCEPT ![c].pc = p]
  BY DEF Ask, Timeout, NeedsWork, Exit, Fail
<1>2. child[d] \in ChildType /\ child[c] \in ChildType BY DEF ForkTypeOK
<1>3. CASE child' = child BY <1>3 DEF Place
<1>4. CASE \E p \in {"ask", "wait", "exited", "stopped", "failed"} : child' = [child EXCEPT ![c].pc = p]
  <2>1. PICK p : child' = [child EXCEPT ![c] = [child[c] EXCEPT !.pc = p]] BY <1>4
  <2>2. child'[d] = IF d = c THEN [child[c] EXCEPT !.pc = p] ELSE child[d]
    BY <2>1 DEF ForkTypeOK
  <2> QED BY <1>2, <2>2 DEF Place, ChildType
<1> QED BY <1>1, <1>3, <1>4

\* Kill tells the children to stop and nothing else.
LEMMA KillStands ==
  ASSUME ForkTypeOK, Kill
  PROVE  \A d \in Children : Place(d)' = Place(d)
<1> SUFFICES ASSUME NEW d \in Children PROVE Place(d)' = Place(d) OBVIOUS
<1>1. child[d] \in ChildType BY DEF ForkTypeOK
<1>2. PICK b : child'[d] = [child[d] EXCEPT !.stop = b] BY DEF Kill
<1> QED BY <1>1, <1>2 DEF Place, ChildType

\* What ChunkOf reads.
LEMMA SameChunk ==
  ASSUME NEW c \in Children, ForkTypeOK, ChunkOf(c), forkJob' = forkJob, Place(c)' = Place(c),
         answers'[c] = answers[c], given'[c] = given[c],
         sender'.next \in Nat, sender.next <= sender'.next
  PROVE  ChunkOf(c)'
<1>1. /\ forkJob.chunk \in Nat /\ sender.next \in Nat /\ answers[c] \in Nat \cup {-1}
      /\ child[c].start \in Nat /\ child[c].count \in Nat
  BY JobFacts
<1>2. /\ child'[c].start = child[c].start /\ child'[c].count = child[c].count
      /\ child'[c].left = child[c].left /\ child'[c].next = child[c].next
      /\ child'[c].remaining = child[c].remaining
  BY DEF Place
<1>3. child[c].start + child[c].count <= sender'.next BY <1>1 DEF ChunkOf
<1>4. answers[c] # -1 => answers[c] + forkJob.chunk <= sender'.next BY <1>1 DEF ChunkOf
<1> QED BY <1>2, <1>3, <1>4 DEF ChunkOf

\* Every step keeps the children in their chunks: only Receive, Process and SendChunk move them.
LEMMA InChunkStep ==
  ASSUME ForkInv, ForkNext
  PROVE  InChunk'
<1>0. ForkTypeOK /\ Talk /\ InChunk /\ Shares BY DEF ForkInv
<1>a. /\ forkJob.events \in Nat /\ forkJob.maxEvents \in Nat \cup {-1}
      /\ forkJob.chunk \in Nat \ {0} /\ sender.next \in Nat
  BY <1>0, JobFacts
<1>b. ASSUME UNCHANGED <<forkJob, answers, given, sender.next>>,
             \A d \in Children : Place(d)' = Place(d)
      PROVE  InChunk'
  BY <1>0, <1>a, <1>b, SameChunk DEF InChunk
<1>1. ASSUME NEW c \in Children, ChildStep(c) \/ Fail(c) \/ SendChunk(c) \/ ReadPipe(c)
      PROVE  InChunk'
  <2>1. CASE Ask(c)
    <3>1. UNCHANGED <<forkJob, answers, given, sender.next>> BY <2>1 DEF Ask, parentVars
    <3>2. \A d \in Children : Place(d)' = Place(d) BY <1>0, <2>1, Standing
    <3> QED BY <1>b, <3>1, <3>2
  <2>2. CASE Timeout(c)
    <3>1. UNCHANGED <<forkJob, answers, given, sender.next>> BY <2>2 DEF Timeout, parentVars
    <3>2. \A d \in Children : Place(d)' = Place(d) BY <1>0, <2>2, Standing
    <3> QED BY <1>b, <3>1, <3>2
  <2>3. CASE Receive(c)
    <3>1. UNCHANGED <<forkJob, sender, given>> BY <1>0, <2>3, ReceiveFacts DEF parentVars
    <3>2. ASSUME NEW d \in Children \ {c} PROVE ChunkOf(d)'
      <4>1. child'[d] = child[d] /\ answers'[d] = answers[d]
        BY <1>0, <2>3, ReceiveFacts, ZenonT(40) DEF ForkTypeOK
      <4>2. Place(d)' = Place(d) BY <4>1 DEF Place
      <4> QED BY <1>0, <1>a, <3>1, <4>1, <4>2, SameChunk DEF InChunk
    <3>3. /\ answers[c] \in Nat /\ answers[c] # -1 /\ answers'[c] = -1
          /\ child[c].next = child[c].start + child[c].count /\ child[c].next <= answers[c]
          /\ child[c].next \in Nat /\ child[c].remaining \in Int
      BY <1>0, <2>3, ReceiveFacts, JobFacts DEF ForkTypeOK
    <3>4. /\ child'[c].left = forkJob.chunk /\ child'[c].count = forkJob.chunk
          /\ child'[c].start = answers[c] /\ child'[c].next = answers[c]
          /\ child'[c].remaining = Decreased(child[c].remaining, answers[c] - child[c].next)
      <4>1. child[c] \in ChildType BY <1>0 DEF ForkTypeOK
      <4>2. PICK a, k, m : /\ a = answers[c] /\ k = forkJob.chunk
                           /\ m = Decreased(child[c].remaining, answers[c] - child[c].next)
        OBVIOUS
      <4>3. child'[c] = [child[c] EXCEPT !.pc = "loop", !.start = a, !.count = k, !.left = k,
                           !.next = a, !.remaining = m]
        BY <1>0, <2>3, <4>2, ReceiveFacts
      <4>4. /\ child'[c].left = k /\ child'[c].count = k /\ child'[c].start = a
            /\ child'[c].next = a /\ child'[c].remaining = m
        BY <4>1, <4>3 DEF ChildType
      <4> QED BY <4>2, <4>4
    <3>5. ChunkOf(c) BY <1>0 DEF InChunk
    <3>6. /\ answers[c] + forkJob.chunk <= sender.next
          /\ answers[c] .. answers[c] + forkJob.chunk - 1 \subseteq given[c]
      BY <3>3, <3>5 DEF ChunkOf
    <3>7. ASSUME NEW e \in given[c] PROVE e < answers[c] + forkJob.chunk
      <4>1. e \in Nat BY <1>0, JobFacts
      <4>2. e < child[c].next \/ e < answers[c] + forkJob.chunk BY <3>3, <3>5 DEF ChunkOf
      <4> QED BY <1>a, <3>3, <4>1, <4>2
    <3>8. child'[c].remaining = IF forkJob.maxEvents = -1 THEN -1
                                ELSE IF answers[c] < forkJob.maxEvents
                                     THEN forkJob.maxEvents - answers[c] ELSE 0
      <4>1. child[c].remaining = IF forkJob.maxEvents = -1 THEN -1
                                 ELSE IF child[c].next < forkJob.maxEvents
                                      THEN forkJob.maxEvents - child[c].next ELSE 0
        BY <3>5 DEF ChunkOf
      <4> QED BY <1>a, <3>3, <3>4, <4>1 DEF Decreased
    <3>9. ChunkOf(c)' BY <1>a, <3>1, <3>3, <3>4, <3>6, <3>7, <3>8 DEF ChunkOf
    <3> QED BY <3>2, <3>9 DEF InChunk
  <2>4. CASE Process(c)
    <3>1. UNCHANGED <<forkJob, sender, given, answers>> BY <2>4 DEF Process, parentVars
    <3>2. child[c] \in ChildType BY <1>0 DEF ForkTypeOK
    <3>3. child' = [child EXCEPT ![c] =
                      [child[c] EXCEPT !.next = child[c].next + 1, !.left = child[c].left - 1,
                         !.remaining = IF child[c].remaining > 0 THEN child[c].remaining - 1
                                       ELSE child[c].remaining]]
      BY <2>4 DEF Process
    <3>4. child'[c] = [child[c] EXCEPT !.next = child[c].next + 1, !.left = child[c].left - 1,
                         !.remaining = IF child[c].remaining > 0 THEN child[c].remaining - 1
                                       ELSE child[c].remaining]
          /\ \A d \in Children \ {c} : child'[d] = child[d]
      BY <1>0, <3>3 DEF ForkTypeOK
    <3>5. /\ child'[c].start = child[c].start /\ child'[c].count = child[c].count
          /\ child'[c].left = child[c].left - 1 /\ child'[c].next = child[c].next + 1
          /\ child'[c].remaining = IF child[c].remaining > 0 THEN child[c].remaining - 1
                                   ELSE child[c].remaining
      BY <3>2, <3>4 DEF ChildType
    <3>6. ASSUME NEW d \in Children \ {c} PROVE ChunkOf(d)'
      <4>1. Place(d)' = Place(d) BY <3>4 DEF Place
      <4> QED BY <1>0, <1>a, <3>1, <4>1, SameChunk DEF InChunk
    <3>7. child[c].remaining # 0 /\ child[c].left # 0 BY <2>4 DEF Process
    <3>8. ChunkOf(c) BY <1>0 DEF InChunk
    <3>9. /\ child'[c].left <= child'[c].count
          /\ child'[c].next = child'[c].start + child'[c].count - child'[c].left
      BY <3>2, <3>5, <3>7, <3>8 DEF ChunkOf, ChildType
    <3>10. child'[c].remaining = IF forkJob.maxEvents = -1 THEN -1
                                 ELSE IF child'[c].next < forkJob.maxEvents
                                      THEN forkJob.maxEvents - child'[c].next ELSE 0
      BY <1>a, <3>2, <3>5, <3>7, <3>8 DEF ChunkOf, ChildType
    <3>11. ChunkOf(c)' BY <3>1, <3>5, <3>8, <3>9, <3>10 DEF ChunkOf
    <3> QED BY <3>6, <3>11 DEF InChunk
  <2>5. CASE NeedsWork(c)
    <3>1. UNCHANGED <<forkJob, answers, given, sender.next>> BY <2>5 DEF NeedsWork, parentVars
    <3>2. \A d \in Children : Place(d)' = Place(d) BY <1>0, <2>5, Standing
    <3> QED BY <1>b, <3>1, <3>2
  <2>6. CASE Exit(c)
    <3>1. UNCHANGED <<forkJob, answers, given, sender.next>> BY <2>6 DEF Exit, parentVars
    <3>2. \A d \in Children : Place(d)' = Place(d) BY <1>0, <2>6, Standing
    <3> QED BY <1>b, <3>1, <3>2
  <2>7. CASE Fail(c)
    <3>1. UNCHANGED <<forkJob, answers, given, sender.next>> BY <2>7 DEF Fail, parentVars
    <3>2. \A d \in Children : Place(d)' = Place(d) BY <1>0, <2>7, Standing
    <3> QED BY <1>b, <3>1, <3>2
  <2>8. CASE SendChunk(c)
    <3>1. forkJob' = forkJob /\ child' = child /\ \A d \in Children : Place(d)' = Place(d)
      BY <1>0, <2>8, SendFacts DEF Place
    <3>2. CASE HasEnded(c) BY <1>0, <1>b, <2>8, <3>1, <3>2, SendFacts
    <3>3. CASE ~HasEnded(c)
      <4>1. /\ answers'[c] = sender.next /\ \A d \in Children \ {c} : answers'[d] = answers[d]
            /\ given'[c] = given[c] \cup (sender.next .. sender.next + forkJob.chunk - 1)
            /\ \A d \in Children \ {c} : given'[d] = given[d]
            /\ sender'.next = sender.next + forkJob.chunk
        BY <1>0, <2>8, <3>3, SendFacts DEF ForkTypeOK
      <4>2. sender'.next \in Nat /\ sender.next <= sender'.next BY <1>a, <4>1
      <4>3. ASSUME NEW d \in Children \ {c} PROVE ChunkOf(d)'
        BY <1>0, <3>1, <4>1, <4>2, SameChunk DEF InChunk
      <4>4. answers[c] = -1 BY <1>0, <2>8, SendFacts DEF Talk
      <4>5. ChunkOf(c) BY <1>0 DEF InChunk
      <4>6. ASSUME NEW e \in given'[c]
            PROVE  \/ e < child[c].start + child[c].count
                   \/ sender.next <= e /\ e < sender.next + forkJob.chunk
        BY <1>a, <4>1, <4>4, <4>5 DEF ChunkOf
      <4>7. child[c].start \in Nat /\ child[c].count \in Nat BY <1>0, JobFacts
      <4>8. child[c].start + child[c].count <= sender'.next BY <1>a, <4>2, <4>5, <4>7 DEF ChunkOf
      <4>9. ChunkOf(c)' BY <1>a, <3>1, <4>1, <4>4, <4>5, <4>6, <4>8 DEF ChunkOf
      <4> QED BY <4>3, <4>9 DEF InChunk
    <3> QED BY <3>2, <3>3
  <2>9. CASE ReadPipe(c)
    <3>1. UNCHANGED <<forkJob, answers, given, sender.next, child>> BY <1>0, <2>9 DEF ReadPipe,
             SenderRuns, childVars, mainVars, ForkTypeOK
    <3>2. \A d \in Children : Place(d)' = Place(d) BY <3>1 DEF Place
    <3> QED BY <1>b, <3>1, <3>2
  <2> QED BY <1>1, <2>1, <2>2, <2>3, <2>4, <2>5, <2>6, <2>7, <2>8, <2>9 DEF ChildStep
<1>2. CASE SenderEnds
  <2>1. UNCHANGED <<forkJob, answers, given, sender.next, child>> BY <1>0, <1>2 DEF SenderEnds,
           SenderRuns, childVars, mainVars, ForkTypeOK
  <2>2. \A d \in Children : Place(d)' = Place(d) BY <2>1 DEF Place
  <2> QED BY <1>b, <2>1, <2>2
<1>3. CASE StartSender
  <2>1. UNCHANGED <<forkJob, answers, given, sender.next, child>> BY <1>0, <1>3 DEF StartSender,
           talkVars, ForkTypeOK
  <2>2. \A d \in Children : Place(d)' = Place(d) BY <2>1 DEF Place
  <2> QED BY <1>b, <2>1, <2>2
<1>4. CASE TestChildren
  <2>1. UNCHANGED <<forkJob, answers, given, sender.next, child>> BY <1>0, <1>4 DEF TestChildren,
           Goto, MustWait, talkVars, ForkTypeOK
  <2>2. \A d \in Children : Place(d)' = Place(d) BY <2>1 DEF Place
  <2> QED BY <1>b, <2>1, <2>2
<1>5. CASE Suspend("suspended", "waiting", forkJob.goOn)
  <2>1. UNCHANGED <<forkJob, answers, given, sender.next, child>> BY <1>0, <1>5 DEF Suspend,
           HandleSignals, Zombies, talkVars, ForkTypeOK
  <2>2. \A d \in Children : Place(d)' = Place(d) BY <2>1 DEF Place
  <2> QED BY <1>b, <2>1, <2>2
<1>6. CASE Kill
  <2>1. UNCHANGED <<forkJob, answers, given, sender.next>> BY <1>6 DEF Kill, talkVars
  <2>2. \A d \in Children : Place(d)' = Place(d) BY <1>0, <1>6, KillStands
  <2> QED BY <1>b, <2>1, <2>2
<1>7. CASE TestStopped
  <2>1. UNCHANGED <<forkJob, answers, given, sender.next, child>> BY <1>0, <1>7 DEF TestStopped,
           Goto, talkVars, ForkTypeOK
  <2>2. \A d \in Children : Place(d)' = Place(d) BY <2>1 DEF Place
  <2> QED BY <1>b, <2>1, <2>2
<1>8. CASE Suspend("suspended again", "stopping", FALSE)
  <2>1. UNCHANGED <<forkJob, answers, given, sender.next, child>> BY <1>0, <1>8 DEF Suspend,
           HandleSignals, Zombies, talkVars, ForkTypeOK
  <2>2. \A d \in Children : Place(d)' = Place(d) BY <2>1 DEF Place
  <2> QED BY <1>b, <2>1, <2>2
<1>9. CASE Join
  <2>1. UNCHANGED <<forkJob, answers, given, sender.next, child>> BY <1>0, <1>9 DEF Join, Goto,
           talkVars, ForkTypeOK
  <2>2. \A d \in Children : Place(d)' = Place(d) BY <2>1 DEF Place
  <2> QED BY <1>b, <2>1, <2>2
<1>10. CASE SignalArrives
  <2>1. UNCHANGED <<forkJob, answers, given, sender.next, child>> BY <1>0, <1>10
           DEF SignalArrives, HandleSignals, Zombies, talkVars, ForkTypeOK
  <2>2. \A d \in Children : Place(d)' = Place(d) BY <2>1 DEF Place
  <2> QED BY <1>b, <2>1, <2>2
<1>11. CASE AskToStop
  <2>1. UNCHANGED <<forkJob, answers, given, sender.next, child>> BY <1>0, <1>11 DEF AskToStop,
           talkVars, ForkTypeOK
  <2>2. \A d \in Children : Place(d)' = Place(d) BY <2>1 DEF Place
  <2> QED BY <1>b, <2>1, <2>2
<1>12. CASE ParentDies
  <2>1. UNCHANGED <<forkJob, answers, given, sender.next, child>> BY <1>0, <1>12 DEF ParentDies,
           talkVars, ForkTypeOK
  <2>2. \A d \in Children : Place(d)' = Place(d) BY <2>1 DEF Place
  <2> QED BY <1>b, <2>1, <2>2
<1> QED BY <1>1, <1>2, <1>3, <1>4, <1>5, <1>6, <1>7, <1>8, <1>9, <1>10, <1>11, <1>12
          DEF ForkNext, SenderStep, MainStep

\* Only Process counts an event; it is the next of a chunk that is this child's alone.
LEMMA CountsStep ==
  ASSUME ForkInv, ForkNext
  PROVE  Counts'
<1>0. ForkTypeOK /\ Talk /\ InChunk /\ Shares /\ Counts BY DEF ForkInv
<1>a. /\ forkJob.events \in Nat /\ forkJob.maxEvents \in Nat \cup {-1}
      /\ forkJob.chunk \in Nat \ {0} /\ sender.next \in Nat
  BY <1>0, JobFacts
<1>b. ASSUME UNCHANGED <<forkJob, times>>, \A e \in DOMAIN times : Done(e)' <=> Done(e)
      PROVE  Counts'
  BY <1>0, <1>b DEF Counts, EventLimit
<1>c. ASSUME UNCHANGED <<forkJob, times, given>>, \A d \in Children : Place(d)' = Place(d)
      PROVE  Counts'
  <2>1. \A d \in Children : child'[d].next = child[d].next BY <1>c DEF Place
  <2>2. \A e \in DOMAIN times : Done(e)' <=> Done(e) BY <1>c, <2>1 DEF Done
  <2> QED BY <1>b, <1>c, <2>2
<1>d. \A e \in DOMAIN times : e \in Int BY <1>0 DEF ForkTypeOK
<1>1. ASSUME NEW c \in Children, ChildStep(c) \/ Fail(c) \/ SendChunk(c) \/ ReadPipe(c)
      PROVE  Counts'
  <2>1. CASE Ask(c)
    <3>1. UNCHANGED <<forkJob, times, given>> BY <2>1 DEF Ask, parentVars
    <3>2. \A d \in Children : Place(d)' = Place(d) BY <1>0, <2>1, Standing
    <3> QED BY <1>c, <3>1, <3>2
  <2>2. CASE Timeout(c)
    <3>1. UNCHANGED <<forkJob, times, given>> BY <2>2 DEF Timeout, parentVars
    <3>2. \A d \in Children : Place(d)' = Place(d) BY <1>0, <2>2, Standing
    <3> QED BY <1>c, <3>1, <3>2
  <2>3. CASE Receive(c)
    <3>1. UNCHANGED <<forkJob, times, given>> BY <1>0, <2>3, ReceiveFacts DEF parentVars
    <3>2. /\ answers[c] \in Nat /\ answers[c] # -1
          /\ child[c].next = child[c].start + child[c].count /\ child[c].next <= answers[c]
          /\ child[c].next \in Nat
      BY <1>0, <2>3, ReceiveFacts, JobFacts
    <3>3. child'[c].next = answers[c] /\ \A d \in Children \ {c} : child'[d] = child[d]
      <4>1. child[c] \in ChildType BY <1>0 DEF ForkTypeOK
      <4>2. PICK a, k, m : /\ a = answers[c] /\ k = forkJob.chunk
                           /\ m = Decreased(child[c].remaining, answers[c] - child[c].next)
        OBVIOUS
      <4>3. child'[c] = [child[c] EXCEPT !.pc = "loop", !.start = a, !.count = k, !.left = k,
                           !.next = a, !.remaining = m]
        BY <1>0, <2>3, <4>2, ReceiveFacts
      <4>4. child'[c].next = a BY <4>1, <4>3 DEF ChildType
      <4> QED BY <1>0, <2>3, <4>2, <4>4, ReceiveFacts
    <3>4. ASSUME NEW e \in given[c] PROVE e < child[c].next <=> e < answers[c]
      <4>1. e \in Nat BY <1>0, JobFacts
      <4>2. e < child[c].next \/ answers[c] <= e BY <1>0, <3>2 DEF InChunk, ChunkOf
      <4> QED BY <3>2, <4>1, <4>2
    <3>5. \A e \in DOMAIN times : Done(e)' <=> Done(e) BY <3>1, <3>3, <3>4 DEF Done
    <3> QED BY <1>b, <3>1, <3>5
  <2>4. CASE Process(c)
    <3>1. UNCHANGED <<forkJob, given>> BY <2>4 DEF Process, parentVars
    <3>2. PICK n \in Nat : n = child[c].next BY <1>0, JobFacts
    <3>3. child'[c].next = n + 1 /\ \A d \in Children \ {c} : child'[d] = child[d]
      <4>1. child[c] \in ChildType BY <1>0 DEF ForkTypeOK
      <4>2. PICK l, m : child' = [child EXCEPT ![c] = [child[c] EXCEPT !.next = n + 1, !.left = l,
                                                       !.remaining = m]]
        BY <2>4, <3>2 DEF Process
      <4>3. child'[c] = [child[c] EXCEPT !.next = n + 1, !.left = l, !.remaining = m]
            /\ \A d \in Children \ {c} : child'[d] = child[d]
        BY <1>0, <4>2 DEF ForkTypeOK
      <4> QED BY <4>1, <4>3 DEF ChildType
    <3>4. child[c].remaining # 0 /\ child[c].left # 0 /\ n < forkJob.events BY <2>4, <3>2
             DEF Process
    <3>5. n \in given[c]
      <4>1. /\ child[c].left \in Nat /\ child[c].start \in Nat /\ child[c].count \in Nat
        BY <1>0, JobFacts
      <4>2. /\ child[c].left <= child[c].count /\ n = child[c].start + child[c].count - child[c].left
            /\ child[c].start .. child[c].start + child[c].count - 1 \subseteq given[c]
        BY <1>0, <3>2 DEF InChunk, ChunkOf
      <4>3. n \in child[c].start .. child[c].start + child[c].count - 1 BY <3>4, <4>1, <4>2
      <4> QED BY <4>2, <4>3
    <3>6. n < EventLimit
      <4>1. child[c].remaining = IF forkJob.maxEvents = -1 THEN -1
                                 ELSE IF n < forkJob.maxEvents THEN forkJob.maxEvents - n ELSE 0
        BY <1>0, <3>2 DEF InChunk, ChunkOf
      <4> QED BY <1>a, <3>4, <4>1 DEF EventLimit
    <3>7. times \in [0 .. forkJob.events - 1 -> Nat] /\ n \in 0 .. forkJob.events - 1
      BY <1>0, <1>a, <3>4 DEF ForkTypeOK
    <3>8. times' = [times EXCEPT ![n] = times[n] + 1] BY <2>4, <3>2 DEF Process
    <3>9. \A d \in Children \ {c} : n \notin given[d] BY <1>0, <3>5 DEF Shares
    <3>10. ~Done(n) BY <3>2, <3>9 DEF Done
    <3>11. Done(n)' BY <3>1, <3>3, <3>5 DEF Done
    <3>12. times[n] = 0 BY <1>0, <3>7, <3>10 DEF Counts
    <3>13. times'[n] = 1 /\ \A e \in DOMAIN times \ {n} : times'[e] = times[e]
      BY <3>7, <3>8, <3>12
    <3>14. ASSUME NEW e \in DOMAIN times, e # n PROVE Done(e)' <=> Done(e)
      <4>1. e < n + 1 <=> e < n BY <1>d, <3>2, <3>14
      <4> QED BY <3>1, <3>2, <3>3, <4>1 DEF Done
    <3>15. DOMAIN times' = DOMAIN times /\ EventLimit' = EventLimit
      BY <3>1, <3>7, <3>8 DEF EventLimit
    <3>16. ASSUME NEW e \in DOMAIN times
           PROVE  times'[e] = (IF Done(e)' THEN 1 ELSE 0) /\ (times'[e] = 1 => e < EventLimit)
      <4>1. CASE e = n BY <3>6, <3>11, <3>13, <4>1
      <4>2. CASE e # n BY <1>0, <3>13, <3>14, <4>2 DEF Counts
      <4> QED BY <4>1, <4>2
    <3> QED BY <3>15, <3>16 DEF Counts
  <2>5. CASE NeedsWork(c)
    <3>1. UNCHANGED <<forkJob, times, given>> BY <2>5 DEF NeedsWork, parentVars
    <3>2. \A d \in Children : Place(d)' = Place(d) BY <1>0, <2>5, Standing
    <3> QED BY <1>c, <3>1, <3>2
  <2>6. CASE Exit(c)
    <3>1. UNCHANGED <<forkJob, times, given>> BY <2>6 DEF Exit, parentVars
    <3>2. \A d \in Children : Place(d)' = Place(d) BY <1>0, <2>6, Standing
    <3> QED BY <1>c, <3>1, <3>2
  <2>7. CASE Fail(c)
    <3>1. UNCHANGED <<forkJob, times, given>> BY <2>7 DEF Fail, parentVars
    <3>2. \A d \in Children : Place(d)' = Place(d) BY <1>0, <2>7, Standing
    <3> QED BY <1>c, <3>1, <3>2
  <2>8. CASE SendChunk(c)
    <3>1. UNCHANGED <<forkJob, child, times>> BY <1>0, <2>8, SendFacts
    <3>2. CASE HasEnded(c)
      <4>1. \A d \in Children : Place(d)' = Place(d) BY <3>1 DEF Place
      <4> QED BY <1>0, <1>c, <2>8, <3>1, <3>2, <4>1, SendFacts
    <3>3. CASE ~HasEnded(c)
      <4>1. PICK K : K = sender.next .. sender.next + forkJob.chunk - 1 OBVIOUS
      <4>2. /\ given'[c] = given[c] \cup K /\ \A d \in Children \ {c} : given'[d] = given[d]
        BY <1>0, <2>8, <3>3, <4>1, SendFacts DEF ForkTypeOK
      <4>3. child[c].next <= sender.next
        <5>1. /\ child[c].start \in Nat /\ child[c].count \in Nat /\ child[c].left \in Nat
          BY <1>0, JobFacts
        <5>2. child[c].next = child[c].start + child[c].count - child[c].left
              /\ child[c].start + child[c].count <= sender.next
          BY <1>0 DEF InChunk, ChunkOf
        <5> QED BY <1>a, <5>1, <5>2
      <4>4. child[c].next \in Nat BY <1>0, JobFacts
      <4>5. \A e \in K : ~(e < child[c].next) BY <1>a, <4>1, <4>3, <4>4
      <4>6. \A e \in DOMAIN times : Done(e)' <=> Done(e) BY <3>1, <4>2, <4>5 DEF Done
      <4> QED BY <1>b, <3>1, <4>6
    <3> QED BY <3>2, <3>3
  <2>9. CASE ReadPipe(c)
    <3>1. UNCHANGED <<forkJob, times, given, child>> BY <1>0, <2>9 DEF ReadPipe, SenderRuns,
             childVars, mainVars, ForkTypeOK
    <3>2. \A d \in Children : Place(d)' = Place(d) BY <3>1 DEF Place
    <3> QED BY <1>c, <3>1, <3>2
  <2> QED BY <1>1, <2>1, <2>2, <2>3, <2>4, <2>5, <2>6, <2>7, <2>8, <2>9 DEF ChildStep
<1>2. CASE SenderEnds
  <2>1. UNCHANGED <<forkJob, times, given, child>> BY <1>0, <1>2 DEF SenderEnds, SenderRuns,
           childVars, mainVars, ForkTypeOK
  <2>2. \A d \in Children : Place(d)' = Place(d) BY <2>1 DEF Place
  <2> QED BY <1>c, <2>1, <2>2
<1>3. CASE StartSender
  <2>1. UNCHANGED <<forkJob, times, given, child>> BY <1>0, <1>3 DEF StartSender, talkVars,
           ForkTypeOK
  <2>2. \A d \in Children : Place(d)' = Place(d) BY <2>1 DEF Place
  <2> QED BY <1>c, <2>1, <2>2
<1>4. CASE TestChildren
  <2>1. UNCHANGED <<forkJob, times, given, child>> BY <1>0, <1>4 DEF TestChildren, Goto, MustWait,
           talkVars, ForkTypeOK
  <2>2. \A d \in Children : Place(d)' = Place(d) BY <2>1 DEF Place
  <2> QED BY <1>c, <2>1, <2>2
<1>5. CASE Suspend("suspended", "waiting", forkJob.goOn)
  <2>1. UNCHANGED <<forkJob, times, given, child>> BY <1>0, <1>5 DEF Suspend, HandleSignals,
           Zombies, talkVars, ForkTypeOK
  <2>2. \A d \in Children : Place(d)' = Place(d) BY <2>1 DEF Place
  <2> QED BY <1>c, <2>1, <2>2
<1>6. CASE Kill
  <2>1. UNCHANGED <<forkJob, times, given>> BY <1>6 DEF Kill, talkVars
  <2>2. \A d \in Children : Place(d)' = Place(d) BY <1>0, <1>6, KillStands
  <2> QED BY <1>c, <2>1, <2>2
<1>7. CASE TestStopped
  <2>1. UNCHANGED <<forkJob, times, given, child>> BY <1>0, <1>7 DEF TestStopped, Goto, talkVars,
           ForkTypeOK
  <2>2. \A d \in Children : Place(d)' = Place(d) BY <2>1 DEF Place
  <2> QED BY <1>c, <2>1, <2>2
<1>8. CASE Suspend("suspended again", "stopping", FALSE)
  <2>1. UNCHANGED <<forkJob, times, given, child>> BY <1>0, <1>8 DEF Suspend, HandleSignals,
           Zombies, talkVars, ForkTypeOK
  <2>2. \A d \in Children : Place(d)' = Place(d) BY <2>1 DEF Place
  <2> QED BY <1>c, <2>1, <2>2
<1>9. CASE Join
  <2>1. UNCHANGED <<forkJob, times, given, child>> BY <1>0, <1>9 DEF Join, Goto, talkVars,
           ForkTypeOK
  <2>2. \A d \in Children : Place(d)' = Place(d) BY <2>1 DEF Place
  <2> QED BY <1>c, <2>1, <2>2
<1>10. CASE SignalArrives
  <2>1. UNCHANGED <<forkJob, times, given, child>> BY <1>0, <1>10 DEF SignalArrives,
           HandleSignals, Zombies, talkVars, ForkTypeOK
  <2>2. \A d \in Children : Place(d)' = Place(d) BY <2>1 DEF Place
  <2> QED BY <1>c, <2>1, <2>2
<1>11. CASE AskToStop
  <2>1. UNCHANGED <<forkJob, times, given, child>> BY <1>0, <1>11 DEF AskToStop, talkVars,
           ForkTypeOK
  <2>2. \A d \in Children : Place(d)' = Place(d) BY <2>1 DEF Place
  <2> QED BY <1>c, <2>1, <2>2
<1>12. CASE ParentDies
  <2>1. UNCHANGED <<forkJob, times, given, child>> BY <1>0, <1>12 DEF ParentDies, talkVars,
           ForkTypeOK
  <2>2. \A d \in Children : Place(d)' = Place(d) BY <2>1 DEF Place
  <2> QED BY <1>c, <2>1, <2>2
<1> QED BY <1>1, <1>2, <1>3, <1>4, <1>5, <1>6, <1>7, <1>8, <1>9, <1>10, <1>11, <1>12
          DEF ForkNext, SenderStep, MainStep

\* The invariant holds at the start.
LEMMA Initially ==
  ASSUME ForkInit
  PROVE  ForkInv
<1>1. /\ forkJob.events \in Nat /\ forkJob.maxEvents \in Nat \cup {-1} /\ forkJob.chunk \in Nat \ {0}
  BY ForkJobsAreValid DEF ForkInit, ForkJob
<1>2. child = [c \in Children |-> Child] BY DEF ForkInit
<1>3. /\ Child \in ChildType /\ Child.pc = "ask" /\ Child.start = 0 /\ Child.count = 0
      /\ Child.left = 0 /\ Child.next = 0 /\ Child.stop = FALSE
      /\ Child.remaining = forkJob.maxEvents
  BY <1>1 DEF Child, ChildType
<1>4. \A c \in Children : child[c] = Child BY <1>2
<1>5. ForkTypeOK
  <2>1. child \in [Children -> ChildType] BY <1>2, <1>3
  <2>2. sender \in [pc : {"none", "running", "ended"}, next : Nat,
                    pipes : SUBSET Children, sockets : SUBSET Children]
    BY DEF ForkInit
  <2> QED BY <1>1, <2>1, <2>2 DEF ForkInit, ForkTypeOK
<1>6. Talk BY <1>3, <1>4 DEF ForkInit, Talk
<1>7. InChunk
  <2> SUFFICES ASSUME NEW c \in Children PROVE ChunkOf(c) BY DEF InChunk
  <2>1. given[c] = {} /\ answers[c] = -1 /\ sender.next = 0 BY DEF ForkInit
  <2>2. 0 .. 0 + 0 - 1 \subseteq given[c] OBVIOUS
  <2> QED BY <1>1, <1>3, <1>4, <2>1, <2>2 DEF ChunkOf
<1>8. Shares BY DEF ForkInit, Shares
<1>9. Counts BY DEF ForkInit, Counts, Done
<1>10. Ends BY <1>3, <1>4 DEF ForkInit, Ends, Late
<1> QED BY <1>5, <1>6, <1>7, <1>8, <1>9, <1>10 DEF ForkInv

\* The invariant is kept by every step.
LEMMA Inductive ==
  ASSUME ForkInv, [ForkNext]_forkVars
  PROVE  ForkInv'
<1>1. CASE ForkNext
  BY <1>1, TypeStep, TalkStep, InChunkStep, SharesStep, CountsStep, EndsStep DEF ForkInv
<1>2. CASE UNCHANGED forkVars
  BY <1>2 DEF forkVars, ForkInv, ForkTypeOK, Talk, InChunk, ChunkOf, Shares, Counts, Done,
              EventLimit, Ends, HasEnded, EndedBadly
<1> QED BY <1>1, <1>2

\* The invariant gives the property: an event that a returned job has not processed lies below the
\* place of any child that came to a regular end, so it was sent, and to a child that failed.
LEMMA Shared ==
  ASSUME ForkInv
  PROVE  EventsSharedOut
<1>0. ForkTypeOK /\ InChunk /\ Shares /\ Counts /\ Ends BY DEF ForkInv
<1>a. /\ forkJob.events \in Nat /\ forkJob.maxEvents \in Nat \cup {-1} /\ forkJob.goOn \in BOOLEAN
      /\ sender.next \in Nat
  BY <1>0, JobFacts
<1>d. DOMAIN times = 0 .. forkJob.events - 1 BY <1>0 DEF ForkTypeOK
<1>1. \A e \in DOMAIN times : times[e] <= (IF e < EventLimit THEN 1 ELSE 0)
  <2> SUFFICES ASSUME NEW e \in DOMAIN times
               PROVE  times[e] <= (IF e < EventLimit THEN 1 ELSE 0)
    OBVIOUS
  <2>1. times[e] \in {0, 1} /\ (times[e] = 1 => e < EventLimit) BY <1>0 DEF Counts
  <2> QED BY <2>1
<1>2. ASSUME main = "returned", asked # "seen", NEW e \in DOMAIN times, e < EventLimit, times[e] = 0
      PROVE  /\ forkJob.goOn
             /\ \/ \E c \in Children : child[c].pc = "failed" /\ e \in given[c]
                \/ \A c \in Children : child[c].pc = "failed"
  <2>1. numDone = Children /\ ~(childFailed /\ ~forkJob.goOn) BY <1>0, <1>a, <1>2 DEF Ends, Late
  <2>2. \A c \in Children : HasEnded(c) /\ ~child[c].stop /\ child[c].pc # "stopped"
    BY <1>0, <1>2, <2>1 DEF Ends
  <2>3. \A c \in Children : child[c].pc = "failed" => forkJob.goOn
    BY <1>0, <1>a, <2>1 DEF Ends, EndedBadly
  <2>4. ~Done(e) BY <1>0, <1>2 DEF Counts
  <2>5. e \in Nat /\ e < forkJob.events BY <1>a, <1>d
  <2>6. ASSUME NEW c \in Children, child[c].pc = "exited" PROVE e < child[c].next
    <3>1. child[c].remaining = 0 \/ child[c].next >= forkJob.events BY <1>0, <2>2, <2>6 DEF Ends
    <3>2. child[c].next \in Nat BY <1>0, JobFacts
    <3>3. child[c].remaining = IF forkJob.maxEvents = -1 THEN -1
                               ELSE IF child[c].next < forkJob.maxEvents
                                    THEN forkJob.maxEvents - child[c].next ELSE 0
      BY <1>0 DEF InChunk, ChunkOf
    <3> QED BY <1>a, <1>2, <2>5, <3>1, <3>2, <3>3 DEF EventLimit
  <2>7. CASE \A c \in Children : child[c].pc = "failed" BY <2>3, <2>7, ForkJobsAreValid
  <2>8. CASE \E c \in Children : child[c].pc # "failed"
    <3>1. PICK c \in Children : child[c].pc = "exited" BY <2>2, <2>8 DEF HasEnded, EndedBadly
    <3>2. e < sender.next
      <4>1. /\ child[c].start \in Nat /\ child[c].count \in Nat /\ child[c].left \in Nat
        BY <1>0, JobFacts
      <4>2. child[c].next = child[c].start + child[c].count - child[c].left
            /\ child[c].start + child[c].count <= sender.next
        BY <1>0 DEF InChunk, ChunkOf
      <4> QED BY <1>a, <2>5, <2>6, <3>1, <4>1, <4>2
    <3>3. e \in 0 .. sender.next - 1 BY <1>a, <2>5, <3>2
    <3>4. PICK d \in Children : e \in given[d] BY <1>0, <3>3 DEF Shares
    <3>5. child[d].pc = "failed" BY <2>2, <2>4, <2>6, <3>4 DEF Done, HasEnded, EndedBadly
    <3> QED BY <2>3, <3>4, <3>5
  <2> QED BY <2>7, <2>8
<1> QED BY <1>1, <1>2 DEF EventsSharedOut

\* No event of a forked job goes to two children or beyond the limit, and a job that returns left
\* out only what failed children had been given, for any number of children, chunk size, input and
\* bound on failures.
THEOREM SharedOut == ForkSpec => []EventsSharedOut
<1>1. ForkInit => ForkInv BY Initially
<1>2. ForkInv /\ [ForkNext]_forkVars => ForkInv' BY Inductive
<1>3. ForkInv => EventsSharedOut BY Shared
<1> QED BY <1>1, <1>2, <1>3, PTL DEF ForkSpec

=============================================================================
