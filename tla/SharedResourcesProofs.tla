----------------------- MODULE SharedResourcesProofs -----------------------
(* Modules that share a resource never work at the same time, whatever the  *)
(* job declares and however many modules a looper exchanges.  Threads wait   *)
(* for each other in a ring only where two acquirers disagree on the order   *)
(* of the resources, which takes the exchange of a module.                   *)
EXTENDS SharedResources, FiniteSetTheorems, WellFoundedInduction, TLAPS

-----------------------------------------------------------------------------
(* Sorting: the order in which an acquirer takes its resources exists. *)

\* The order of the resources by the counts c and then by name.
Less(c, r, s) == c[r] < c[s] \/ (c[r] = c[s] /\ r < s)

Sorted(c, s, n) == \A i, j \in 1..n : i < j => Less(c, s[i], s[j])

\* How many of the resources in S come before r.
Rank(c, S, r) == Cardinality({s \in S : Less(c, s, r)})

\* The order is strict and total.
LEMMA LessIsTotal ==
  ASSUME NEW c \in [Names -> Nat]
  PROVE  \A r, s \in Names :
            /\ ~Less(c, r, r)
            /\ r # s => Less(c, r, s) \/ Less(c, s, r)
            /\ Less(c, r, s) => ~Less(c, s, r)
            /\ \A q \in Names : Less(c, r, s) /\ Less(c, s, q) => Less(c, r, q)
<1>1. \A r \in Names : r \in Nat /\ c[r] \in Nat
  BY NamesAssumption
<1> QED BY <1>1 DEF Less

\* A resource that comes later has more before it.
LEMMA RankGrows ==
  ASSUME NEW c \in [Names -> Nat], NEW S \in SUBSET Names
  PROVE  /\ IsFiniteSet(S) /\ Cardinality(S) \in Nat
         /\ \A r \in S : Rank(c, S, r) \in 0..(Cardinality(S) - 1)
         /\ \A r, s \in S : Less(c, r, s) => Rank(c, S, r) < Rank(c, S, s)
<1>1. IsFiniteSet(S) /\ Cardinality(S) \in Nat
  BY NamesAssumption, FS_Subset, FS_CardinalityType
<1>2. ASSUME NEW r \in S, NEW T \in SUBSET S, {s \in S : Less(c, s, r)} \in SUBSET T, r \in T
      PROVE  /\ Rank(c, S, r) \in Nat /\ Cardinality(T) \in Nat
             /\ Rank(c, S, r) < Cardinality(T)
  <2>1. ~Less(c, r, r)
    BY LessIsTotal
  <2>2. {s \in S : Less(c, s, r)} # T
    BY <1>2, <2>1
  <2>3. IsFiniteSet(T) /\ Cardinality(T) \in Nat
    BY <1>1, FS_Subset, FS_CardinalityType
  <2>4. /\ IsFiniteSet({s \in S : Less(c, s, r)})
        /\ Cardinality({s \in S : Less(c, s, r)}) <= Cardinality(T)
        /\ Cardinality({s \in S : Less(c, s, r)}) # Cardinality(T)
    BY <1>2, <2>2, <2>3, FS_Subset
  <2>5. Cardinality({s \in S : Less(c, s, r)}) \in Nat
    BY <2>4, FS_CardinalityType
  <2> QED BY <2>3, <2>4, <2>5 DEF Rank
<1>3. ASSUME NEW r \in S PROVE Rank(c, S, r) \in 0..(Cardinality(S) - 1)
  BY <1>1, <1>2
<1>4. ASSUME NEW r \in S, NEW s \in S, Less(c, r, s) PROVE Rank(c, S, r) < Rank(c, S, s)
  <2>1. {q \in S : Less(c, q, r)} \in SUBSET {q \in S : Less(c, q, s)}
    BY <1>4, LessIsTotal
  <2>2. r \in {q \in S : Less(c, q, s)}
    BY <1>4
  <2> QED BY <1>2, <2>1, <2>2 DEF Rank
<1> QED BY <1>1, <1>3, <1>4

\* An injection between finite sets of the same size is onto.
LEMMA InjectionIsOnto ==
  ASSUME NEW A, NEW B, NEW g \in [A -> B], IsFiniteSet(B), Cardinality(A) = Cardinality(B),
         \A x, y \in A : g[x] = g[y] => x = y
  PROVE  \A b \in B : \E x \in A : g[x] = b
<1>1. g \in Injection(A, B)
  BY DEF Injection, IsInjective
<1>2. g \in Surjection(A, B)
  BY <1>1, FS_Injection
<1> QED BY <1>2 DEF Surjection

\* Any set of resources can be put in order.
LEMMA CanBeSorted ==
  ASSUME NEW c \in [Names -> Nat], NEW S \in SUBSET Names
  PROVE  \E o \in [1..Cardinality(S) -> S] : Sorted(c, o, Cardinality(S))
<1> DEFINE n == Cardinality(S)
           f == [r \in S |-> Rank(c, S, r)]
<1>1. IsFiniteSet(S) /\ n \in Nat
  BY RankGrows
<1>2. f \in [S -> 0..(n - 1)]
  BY RankGrows
<1>3. \A r, s \in S : f[r] = f[s] => r = s
  <2>1. ASSUME NEW r \in S, NEW s \in S, r # s PROVE f[r] # f[s]
    <3>1. Less(c, r, s) \/ Less(c, s, r)
      BY <2>1, LessIsTotal
    <3> QED BY <3>1, <1>2, RankGrows
  <2> QED BY <2>1
<1>4. IsFiniteSet(0..(n - 1)) /\ Cardinality(0..(n - 1)) = n
  <2>1. 0 \in Int /\ n - 1 \in Int
    BY <1>1
  <2> QED BY <1>1, <2>1, FS_Interval
<1>5. \A k \in 0..(n - 1) : \E r \in S : f[r] = k
  <2> DEFINE T == 0..(n - 1)
  <2>1. f \in [S -> T] /\ IsFiniteSet(T) /\ Cardinality(S) = Cardinality(T)
    BY <1>2, <1>4
  <2> HIDE DEF f, T
  <2>2. \A k \in T : \E r \in S : f[r] = k
    BY <1>3, <2>1, InjectionIsOnto
  <2> QED BY <2>2 DEF T
<1> DEFINE o == [i \in 1..n |-> CHOOSE r \in S : f[r] = i - 1]
<1>6. \A i \in 1..n : o[i] \in S /\ f[o[i]] = i - 1
  BY <1>1, <1>5
<1>7. \A i, j \in 1..n : i < j => Less(c, o[i], o[j])
  <2>1. SUFFICES ASSUME NEW i \in 1..n, NEW j \in 1..n, i < j PROVE Less(c, o[i], o[j])
    OBVIOUS
  <2>2. o[i] \in S /\ o[j] \in S /\ f[o[i]] = i - 1 /\ f[o[j]] = j - 1
    BY <1>6
  <2> HIDE DEF f, o
  <2>3. o[i] # o[j]
    BY <1>1, <2>1, <2>2
  <2>4. CASE Less(c, o[j], o[i])
    <3>1. f[o[j]] < f[o[i]]
      BY <2>2, <2>4, RankGrows DEF f
    <3> QED BY <1>1, <2>1, <2>2, <3>1
  <2> QED BY <2>2, <2>3, <2>4, LessIsTotal
<1>8. o \in [1..n -> S]
  BY <1>6
<1> QED BY <1>7, <1>8 DEF Sorted

\* An order of all the resources of a set names each of them.
LEMMA SortedNamesAll ==
  ASSUME NEW c \in [Names -> Nat], NEW S \in SUBSET Names
  PROVE  \A o \in [1..Cardinality(S) -> S] :
            Sorted(c, o, Cardinality(S)) => \A r \in S : \E i \in 1..Cardinality(S) : o[i] = r
<1> DEFINE n == Cardinality(S)
           D == 1..n
<1>1. n \in Nat /\ IsFiniteSet(S)
  BY RankGrows
<1>2. ASSUME NEW o, o \in [D -> S], Sorted(c, o, n) PROVE \A r \in S : \E i \in D : o[i] = r
  <2>1. ASSUME NEW i \in D, NEW j \in D, i < j PROVE o[i] # o[j]
    BY <1>2, <2>1, LessIsTotal DEF Sorted
  <2>2. \A i, j \in D : o[i] = o[j] => i = j
    BY <1>1, <2>1
  <2>3. 1 \in Int /\ n \in Int
    BY <1>1
  <2>4. Cardinality(D) = Cardinality(S)
    BY <1>1, <2>3, FS_Interval
  <2> HIDE DEF D
  <2> QED BY <1>1, <1>2, <2>2, <2>4, InjectionIsOnto
<1> QED BY <1>2
-----------------------------------------------------------------------------
(* The invariant. *)

Registered(m, r) == r \in Uses[m] /\ <<m, r>> \notin pending

Touches(m, r) == r \in Uses[m] \/ Legacy \in Uses[m]

\* The resource that m must not use without its mutex: another module touches
\* it too; or m and another are legacy modules in a job without resources.
MustTake(m, r) ==
    /\ \E n \in Modules \ {m} : Touches(n, r)
    /\ \/ r # Legacy /\ Touches(m, r) /\ \E k \in Modules : r \in Uses[k]
       \/ r = Legacy /\ Legacy \in Uses[m] /\ \A k \in Modules : Uses[k] \subseteq {Legacy}

Frames == [mod : Modules, at : FrameState, n : Nat, asked : BOOLEAN]

Types ==
    /\ job \in Configurations
    /\ count \in [Names -> Nat] /\ mutex \in [Names -> Nat] /\ nLegacy \in Nat
    /\ pending \subseteq {p \in Modules \X Names : p[2] \in Uses[p[1]]}
    /\ acquirer \in [Modules -> Seq(Entry)]
    /\ phase \in {"construct", "run"}
    /\ changes \in 0..MaxChanges

\* What the counts say of the modules that registered, without counting them.
Counts ==
    /\ count[Legacy] = nLegacy
    /\ count[Legacy] > 0 <=> \E m \in Modules : Registered(m, Legacy)
    /\ \A m, n \in Modules :
          m # n /\ Registered(m, Legacy) /\ Registered(n, Legacy) => count[Legacy] > 1
    /\ \A r \in Names \ {Legacy} :
          /\ count[r] > 0 <=> \E m \in Modules : Registered(m, r)
          /\ \A m, n \in Modules :
                Registered(m, r) /\ ((m # n /\ Registered(n, r)) \/ Registered(n, Legacy)) => count[r] > 1

\* A resource that an acquirer takes has a mutex.
MutexesExist ==
    /\ \A r \in Names : count[r] > 1 => mutex[r] > 0
    /\ count[Legacy] > 0 => mutex[Legacy] > 0

RightAcquirer(m, a) ==
    /\ a \in Seq(Entry)
    /\ \A i \in DOMAIN a : count[a[i].name] > 1 /\ a[i].mutex = mutex[a[i].name]
    /\ \A r \in Names : MustTake(m, r) => \E i \in DOMAIN a : a[i].name = r

Acquirers ==
    phase = "run" => pending = {} /\ \A m \in Modules : RightAcquirer(m, acquirer[m])

RegistryInv == Types /\ Counts /\ MutexesExist /\ Acquirers

-----------------------------------------------------------------------------
(* The registry. *)

LEMMA JobTypes ==
  ASSUME job \in Configurations
  PROVE  /\ Uses \in [Modules -> SUBSET Names] /\ Needs \in [Modules -> SUBSET Modules]
         /\ \A m \in Modules : Uses[m] \subseteq Names /\ Needs[m] \subseteq Modules
BY ConfigurationsAssumption DEF Uses, Needs

\* What createAcquirer returns: the shared resources that are wanted, each
\* once, in order, with their mutexes.
Returned(a, S) ==
    /\ a \in Seq(Entry)
    /\ \A i \in DOMAIN a : a[i].name \in S /\ a[i].mutex = mutex[a[i].name]
    /\ \A r \in S : \E i \in DOMAIN a : a[i].name = r
    /\ \A i, j \in DOMAIN a : i < j => Less(count, a[i].name, a[j].name)

LEMMA AcquirerCreated ==
  count \in [Names -> Nat] /\ mutex \in [Names -> Nat] =>
     \A names \in SUBSET Names : Returned(CreateAcquirer(names), Shared(names))
<1> SUFFICES ASSUME count \in [Names -> Nat], mutex \in [Names -> Nat], NEW names \in SUBSET Names
             PROVE  Returned(CreateAcquirer(names), Shared(names))
  OBVIOUS
<1> DEFINE S == Shared(names)
           n == Cardinality(S)
           o == CHOOSE s \in [1..n -> S] : \A i, j \in 1..n : i < j => Before(s[i], s[j])
           a == CreateAcquirer(names)
<1>1. S \in SUBSET Names
  BY DEF Shared, Wanted
<1>2. n \in Nat
  BY <1>1, RankGrows
<1>3. \A s : Sorted(count, s, n) <=> \A i, j \in 1..n : i < j => Before(s[i], s[j])
  BY DEF Sorted, Before, Less
<1>4. o \in [1..n -> S] /\ Sorted(count, o, n)
  <2>1. \E s \in [1..n -> S] : \A i, j \in 1..n : i < j => Before(s[i], s[j])
    BY <1>1, <1>3, CanBeSorted
  <2>2. o \in [1..n -> S] /\ \A i, j \in 1..n : i < j => Before(o[i], o[j])
    BY <2>1
  <2> QED BY <1>3, <2>2
<1>5. a = [i \in 1..n |-> [name |-> o[i], mutex |-> mutex[o[i]]]]
  BY DEF CreateAcquirer
<1>6. \A r \in S : \E i \in 1..n : o[i] = r
  BY <1>1, <1>4, SortedNamesAll
<1> HIDE DEF o, a, n, S
<1>7. /\ DOMAIN a = 1..n
      /\ \A i \in 1..n : /\ a[i] = [name |-> o[i], mutex |-> mutex[o[i]]] /\ a[i] \in Entry
                         /\ a[i].name = o[i] /\ a[i].name \in S /\ a[i].mutex = mutex[a[i].name]
  <2>1. ASSUME NEW i \in 1..n
        PROVE  /\ a[i] = [name |-> o[i], mutex |-> mutex[o[i]]]
               /\ o[i] \in S /\ o[i] \in Names /\ mutex[o[i]] \in Nat
    BY <1>1, <1>4, <1>5
  <2>2. DOMAIN a = 1..n
    BY <1>5
  <2> QED BY <2>1, <2>2 DEF Entry
<1>8. a \in Seq(Entry)
  BY <1>2, <1>5, <1>7
<1>9. \A i, j \in DOMAIN a : i < j => Less(count, a[i].name, a[j].name)
  BY <1>4, <1>7 DEF Sorted
<1>10. \A r \in S : \E i \in DOMAIN a : a[i].name = r
  BY <1>6, <1>7
<1>11. Returned(a, S)
  BY <1>7, <1>8, <1>9, <1>10 DEF Returned
<1> QED BY <1>11 DEF a, S

AllRegistered ==
    /\ job \in Configurations /\ count \in [Names -> Nat] /\ mutex \in [Names -> Nat]
    /\ Counts /\ pending = {}

LEMMA AcquirerIsRight ==
  AllRegistered => \A n \in Modules : RightAcquirer(n, CreateAcquirer(Uses[n]))
<1> SUFFICES ASSUME job \in Configurations, count \in [Names -> Nat], mutex \in [Names -> Nat],
                    Counts, pending = {}, NEW m \in Modules
             PROVE  RightAcquirer(m, CreateAcquirer(Uses[m]))
  BY DEF AllRegistered
<1> DEFINE a == CreateAcquirer(Uses[m])
<1>1. Uses[m] \in SUBSET Names
  BY JobTypes
<1>2. Returned(a, Shared(Uses[m]))
  BY <1>1, AcquirerCreated
<1> HIDE DEF a
<1>3. \A i \in DOMAIN a : count[a[i].name] > 1
  BY <1>2 DEF Returned, Shared
<1>4. \A n \in Modules, r \in Names : Registered(n, r) <=> r \in Uses[n]
  BY DEF Registered
<1>5. ASSUME NEW r \in Names, MustTake(m, r) PROVE r \in Shared(Uses[m])
  <2>1. PICK n \in Modules \ {m} : Touches(n, r)
    BY <1>5 DEF MustTake
  <2>2. CASE r # Legacy /\ Touches(m, r) /\ \E k \in Modules : r \in Uses[k]
    <3>1. PICK k \in Modules : r \in Uses[k]
      BY <2>2
    <3>2. count[r] > 1
      BY <1>4, <2>1, <2>2, <3>1, NamesAssumption DEF Counts, Touches
    <3>3. r \in Wanted(Uses[m])
      BY <2>2, <3>2 DEF Wanted, Touches, InMap
    <3> QED BY <3>2, <3>3 DEF Shared
  <2>3. CASE r = Legacy /\ Legacy \in Uses[m] /\ \A k \in Modules : Uses[k] \subseteq {Legacy}
    <3>1. count[r] > 1
      BY <1>4, <2>1, <2>3 DEF Counts, Touches
    <3>2. \A s \in Names \ {Legacy} : ~InMap(s)
      BY <1>4, <2>3 DEF Counts, InMap
    <3> QED BY <2>3, <3>1, <3>2 DEF Shared, Wanted, InMap
  <2> QED BY <1>5, <2>2, <2>3 DEF MustTake
<1> QED BY <1>2, <1>3, <1>5 DEF RightAcquirer, Returned, a

LEMMA RegistryInit == Init => RegistryInv
<1> SUFFICES ASSUME Init PROVE RegistryInv
  OBVIOUS
<1> USE DEF Init
<1>1. Uses \in [Modules -> SUBSET Names]
  BY JobTypes
<1>2. Types
  BY <1>1, NamesAssumption, MaxChangesAssumption DEF Types, Entry
<1>3. \A m \in Modules, r \in Names : ~Registered(m, r)
  BY <1>1 DEF Registered
<1>4. Counts
  BY <1>3, NamesAssumption DEF Counts
<1>5. MutexesExist
  BY NamesAssumption DEF MutexesExist
<1>6. Acquirers
  BY DEF Acquirers
<1> QED BY <1>2, <1>4, <1>5, <1>6 DEF RegistryInv

\* A constructor's registration.
LEMMA RegistryConstruct ==
  ASSUME RegistryInv, NEW m \in Modules, NEW r \in Names, Construct(m, r)
  PROVE  RegistryInv'
<1> USE DEF RegistryInv, Construct
<1>1. /\ Uses \in [Modules -> SUBSET Names] /\ Uses' = Uses /\ Legacy \in Names
      /\ r \in Uses[m]
  <2>1. Uses \in [Modules -> SUBSET Names] /\ Uses' = Uses
    BY JobTypes DEF Types, Uses
  <2> QED BY <2>1, NamesAssumption DEF Types
<1>2. Types'
  <2>1. pending' \subseteq {p \in Modules \X Names : p[2] \in Uses[p[1]]}
    BY DEF Types
  <2>2. count' \in [Names -> Nat] /\ mutex' \in [Names -> Nat] /\ nLegacy' \in Nat
    <3>1. CASE r = Legacy
      BY <1>1, <3>1 DEF Types, RegisterSharedResource
    <3>2. CASE r # Legacy
      <4>1. nLegacy' \in Nat /\ count[r] \in Nat /\ mutex[r] \in Nat /\ nLegacy \in Nat
        BY <3>2 DEF Types, RegisterSharedResource
      <4>2. /\ count' = [count EXCEPT ![r] = IF count[r] + 1 = 1 THEN 1 + nLegacy ELSE count[r] + 1]
            /\ \E k \in Nat : mutex' = [mutex EXCEPT ![r] = k]
        <5>1. mutex[r] + 1 \in Nat
          BY <4>1
        <5> QED BY <3>2, <4>1, <5>1 DEF RegisterSharedResource
      <4>3. (IF count[r] + 1 = 1 THEN 1 + nLegacy ELSE count[r] + 1) \in Nat
        BY <4>1
      <4> QED BY <4>1, <4>2, <4>3 DEF Types
    <3> QED BY <3>1, <3>2
  <2> QED BY <1>1, <2>1, <2>2 DEF Types
<1>3. \A n \in Modules, s \in Names : Registered(n, s)' <=> Registered(n, s) \/ (n = m /\ s = r)
  BY <1>1 DEF Registered
<1>4. ~Registered(m, r)
  BY DEF Registered
<1>5. CASE r = Legacy
  <2>1. /\ nLegacy' = nLegacy + 1
        /\ \A s \in Names : /\ count'[s] = IF count[s] > 0 \/ s = Legacy THEN count[s] + 1 ELSE count[s]
                            /\ mutex'[s] = IF (count[s] > 0 \/ s = Legacy) /\ mutex[s] = 0
                                           THEN 1 ELSE mutex[s]
    BY <1>5 DEF Types, RegisterSharedResource, InMap
  <2>2. Counts'
    <3>1. /\ count'[Legacy] = nLegacy'
          /\ count'[Legacy] > 0
          /\ \A n, k \in Modules :
                n # k /\ Registered(n, Legacy)' /\ Registered(k, Legacy)' => count'[Legacy] > 1
      BY <1>1, <1>3, <1>5, <2>1 DEF Counts, Types
    <3>2. \A s \in Names \ {Legacy} :
             /\ count'[s] > 0 <=> \E n \in Modules : Registered(n, s)'
             /\ \A n, k \in Modules :
                   Registered(n, s)' /\ ((n # k /\ Registered(k, s)') \/ Registered(k, Legacy)')
                      => count'[s] > 1
      <4>1. SUFFICES ASSUME NEW s \in Names \ {Legacy}
                     PROVE  /\ count'[s] > 0 <=> \E n \in Modules : Registered(n, s)'
                            /\ \A n \in Modules : Registered(n, s)' => count'[s] > 1
        OBVIOUS
      <4>2. count[s] \in Nat /\ count'[s] = IF count[s] > 0 THEN count[s] + 1 ELSE count[s]
        BY <2>1 DEF Types
      <4>3. count[s] > 0 <=> \E n \in Modules : Registered(n, s)'
        BY <1>3, <1>5 DEF Counts
      <4> QED BY <4>2, <4>3
    <3> QED BY <1>3, <1>5, <3>1, <3>2 DEF Counts
  <2>3. MutexesExist'
    <3>1. \A s \in Names : count[s] \in Nat /\ mutex[s] \in Nat
      BY DEF Types
    <3>2. \A s \in Names : count'[s] > 1 => count[s] > 0 \/ s = Legacy
      BY <2>1, <3>1
    <3>3. \A s \in Names : count[s] > 0 \/ s = Legacy => mutex'[s] > 0
      BY <2>1, <3>1
    <3> QED BY <1>1, <3>2, <3>3 DEF MutexesExist
  <2> QED BY <1>2, <2>2, <2>3 DEF Acquirers
<1>6. CASE r # Legacy
  <2>1. /\ nLegacy' = nLegacy
        /\ \A s \in Names \ {r} : count'[s] = count[s] /\ mutex'[s] = mutex[s]
        /\ count'[r] = IF count[r] = 0 THEN 1 + nLegacy ELSE count[r] + 1
        /\ mutex'[r] = IF count[r] = 1 \/ (count[r] = 0 /\ nLegacy > 0) THEN mutex[r] + 1 ELSE mutex[r]
    BY <1>6 DEF Types, RegisterSharedResource
  <2>2. Counts'
    <3>1. /\ count'[Legacy] = nLegacy'
          /\ count'[Legacy] > 0 <=> \E n \in Modules : Registered(n, Legacy)'
          /\ \A n, k \in Modules :
                n # k /\ Registered(n, Legacy)' /\ Registered(k, Legacy)' => count'[Legacy] > 1
      BY <1>1, <1>3, <1>6, <2>1 DEF Counts, Types
    <3>2. \A s \in Names \ {Legacy, r} :
             /\ count'[s] > 0 <=> \E n \in Modules : Registered(n, s)'
             /\ \A n, k \in Modules :
                   Registered(n, s)' /\ ((n # k /\ Registered(k, s)') \/ Registered(k, Legacy)')
                      => count'[s] > 1
      BY <1>1, <1>3, <1>6, <2>1 DEF Counts, Types
    <3>3. count'[r] > 0 /\ Registered(m, r)'
      BY <1>3, <1>6, <2>1 DEF Types
    <3>4. ASSUME NEW n \in Modules, NEW k \in Modules, Registered(n, r)',
                 (n # k /\ Registered(k, r)') \/ Registered(k, Legacy)'
          PROVE  count'[r] > 1
      <4>1. count[r] > 0 \/ nLegacy > 0
        BY <1>1, <1>3, <1>6, <3>4 DEF Counts
      <4> QED BY <2>1, <4>1 DEF Types
    <3> QED BY <3>1, <3>2, <3>3, <3>4 DEF Counts
  <2>3. MutexesExist'
    BY <1>1, <1>6, <2>1 DEF MutexesExist, Types
  <2> QED BY <1>2, <2>2, <2>3 DEF Acquirers
<1> QED BY <1>5, <1>6

LEMMA RegistryBeginJob ==
  ASSUME RegistryInv, BeginJob
  PROVE  RegistryInv'
<1> USE DEF RegistryInv, BeginJob, registry
<1>1. Uses' = Uses
  BY DEF Uses
<1>2. \A m \in Modules : RightAcquirer(m, CreateAcquirer(Uses[m]))
  BY AcquirerIsRight DEF Types, AllRegistered, Acquirers
<1>3. Types'
  BY <1>1, <1>2 DEF Types, RightAcquirer
<1>4. Counts' /\ MutexesExist'
  BY <1>1 DEF Counts, MutexesExist, Registered
<1>5. Acquirers'
  <2>1. ASSUME NEW m \in Modules PROVE RightAcquirer(m, acquirer[m])'
    <3>1. acquirer'[m] = CreateAcquirer(Uses[m])
      OBVIOUS
    <3>2. RightAcquirer(m, acquirer'[m])
      BY <1>2, <3>1
    <3> QED BY <1>1, <3>2 DEF RightAcquirer, MustTake, Touches
  <2> QED BY <2>1 DEF Acquirers
<1> QED BY <1>3, <1>4, <1>5

\* An exchanged module registers its resources a second time: what others
\* took keeps its mutex, since only a resource that nobody shared gets one.
LEMMA RegistryChangeModule ==
  ASSUME RegistryInv, NEW m \in Modules, ChangeModule(m)
  PROVE  /\ RegistryInv' /\ Returned(CreateAcquirer(Uses[m]), Shared(Uses[m]))'
         /\ \A r \in Names : count'[r] = count[r] + (IF r \in Uses[m] \ {Legacy} THEN 1 ELSE 0)
                                                  + (IF Legacy \in Uses[m] /\ InMap(r) THEN 1 ELSE 0)
<1> USE DEF RegistryInv, ChangeModule
<1>1. /\ Uses \in [Modules -> SUBSET Names] /\ Uses' = Uses /\ Legacy \in Names
      /\ Uses[m] \subseteq Names
      /\ pending = {} /\ pending' = {}
  BY JobTypes, NamesAssumption DEF Types, Uses, Acquirers
<1>2. \A n \in Modules, r \in Names : (Registered(n, r) <=> r \in Uses[n]) /\ (Registered(n, r)' <=> r \in Uses[n])
  BY <1>1 DEF Registered
<1>3. /\ nLegacy' = IF Legacy \in Uses[m] THEN nLegacy + 1 ELSE nLegacy
      /\ \A r \in Names :
            /\ count'[r] = count[r] + (IF r \in Uses[m] \ {Legacy} THEN 1 ELSE 0)
                                    + (IF Legacy \in Uses[m] /\ count[r] > 0 THEN 1 ELSE 0)
            /\ mutex'[r] = IF r \in Uses[m] /\ r # Legacy /\ count[r] = 1 THEN mutex[r] + 1 ELSE mutex[r]
      /\ count' \in [Names -> Nat] /\ mutex' \in [Names -> Nat] /\ nLegacy' \in Nat
  BY DEF Types, InMap
<1>4. Counts'
  <2>1. /\ count'[Legacy] = nLegacy'
        /\ count'[Legacy] > 0 <=> count[Legacy] > 0
    BY <1>1, <1>2, <1>3 DEF Counts, Types
  <2>2. \A r \in Names : count'[r] >= count[r] /\ count[r] \in Nat /\ count'[r] \in Nat
    BY <1>3 DEF Types
  <2>3. \A r \in Names : count'[r] > 0 <=> count[r] > 0
    BY <1>1, <1>2, <1>3, <2>2 DEF Counts
  <2>4. \A n \in Modules, r \in Names : Registered(n, r)' <=> Registered(n, r)
    BY <1>2
  <2>5. \A r \in Names : count[r] > 1 => count'[r] > 1
    BY <2>2
  <2> QED BY <1>1, <2>1, <2>3, <2>4, <2>5 DEF Counts
<1>5. MutexesExist'
  <2>1. \A r \in Names : mutex[r] \in Nat /\ count[r] \in Nat
    BY DEF Types
  <2>2. ASSUME NEW r \in Names, count'[r] > 1 PROVE mutex'[r] > 0
    <3>1. CASE r = Legacy \/ count[r] > 1
      BY <1>1, <1>3, <2>1, <2>2, <3>1 DEF MutexesExist
    <3>2. CASE r # Legacy /\ count[r] = 1
      <4>1. CASE Legacy \in Uses[m]
        <5>1. PICK n \in Modules : Registered(n, r)
          BY <3>2 DEF Counts
        <5>2. count[r] > 1
          BY <1>1, <1>2, <3>2, <4>1, <5>1 DEF Counts
        <5> QED BY <3>2, <5>2
      <4>2. CASE Legacy \notin Uses[m]
        BY <1>3, <2>1, <2>2, <3>2, <4>2
      <4> QED BY <4>1, <4>2
    <3>3. CASE r # Legacy /\ count[r] = 0
      BY <1>1, <1>2, <1>3, <2>2, <3>3 DEF Counts
    <3> QED BY <2>1, <3>1, <3>2, <3>3
  <2>3. count'[Legacy] > 0 => mutex'[Legacy] > 0
    BY <1>1, <1>3, <2>1 DEF MutexesExist
  <2> QED BY <2>2, <2>3 DEF MutexesExist
<1>6. RightAcquirer(m, CreateAcquirer(Uses[m]))'
  <2>1. job' \in Configurations
    BY DEF Types
  <2>2. (AllRegistered => \A n \in Modules : RightAcquirer(n, CreateAcquirer(Uses[n])))'
    BY AcquirerIsRight, PTL
  <2> QED BY <1>1, <1>3, <1>4, <2>1, <2>2 DEF AllRegistered
<1>7. Returned(CreateAcquirer(Uses[m]), Shared(Uses[m]))'
  <2>1. (count \in [Names -> Nat] /\ mutex \in [Names -> Nat] =>
           \A names \in SUBSET Names : Returned(CreateAcquirer(names), Shared(names)))'
    BY AcquirerCreated, PTL
  <2> QED BY <1>1, <1>3, <2>1
<1>8. acquirer' = [acquirer EXCEPT ![m] = CreateAcquirer(Uses[m])']
  OBVIOUS
<1>9. Types'
  <2>1. CreateAcquirer(Uses[m])' \in Seq(Entry)
    BY <1>6 DEF RightAcquirer
  <2>2. changes' \in 0..MaxChanges
    BY MaxChangesAssumption DEF Types
  <2> QED BY <1>1, <1>3, <1>8, <2>1, <2>2 DEF Types
<1>10. Acquirers'
  <2>1. ASSUME NEW n \in Modules PROVE RightAcquirer(n, acquirer[n])'
    <3>1. CASE n = m
      <4>1. acquirer'[n] = CreateAcquirer(Uses[m])'
        BY <1>8, <3>1 DEF Types
      <4> QED BY <1>6, <3>1, <4>1 DEF RightAcquirer
    <3>2. CASE n # m
      <4>1. acquirer'[n] = acquirer[n] /\ RightAcquirer(n, acquirer[n])
        BY <1>8, <3>2 DEF Types, Acquirers
      <4>2. \A r \in Names : count[r] \in Nat /\ (count[r] > 1 => count'[r] > 1 /\ mutex'[r] = mutex[r])
        BY <1>3 DEF Types
      <4>3. \A i \in DOMAIN acquirer[n] : acquirer[n][i].name \in Names
        <5>1. acquirer[n] \in Seq(Entry)
          BY <4>1 DEF RightAcquirer
        <5>2. \A i \in DOMAIN acquirer[n] : acquirer[n][i] \in Entry
          BY <5>1
        <5> QED BY <5>2 DEF Entry
      <4>4. \A r \in Names : MustTake(n, r)' <=> MustTake(n, r)
        BY <1>1 DEF MustTake, Touches
      <4> QED BY <4>1, <4>2, <4>3, <4>4 DEF RightAcquirer
    <3> QED BY <3>1, <3>2
  <2> QED BY <1>1, <2>1 DEF Acquirers
<1> QED BY <1>3, <1>4, <1>5, <1>7, <1>9, <1>10 DEF InMap

-----------------------------------------------------------------------------
(* The threads: their frames, and who holds what. *)

\* What is known of a frame, and of the innermost one.
FrameFits(f, last) ==
    /\ f.n <= Len(acquirer[f.mod])
    /\ f.at \in {"enter", "away", "commit"} => f.n = 0
    /\ f.at = "work" => f.n = Len(acquirer[f.mod])
    /\ f.at = "away" <=> ~last

ModuleIn(s, m) == \E i \in DOMAIN s : s[i].mod = m /\ s[i].at # "enter"

ResourceIn(s, e) == \E i \in DOMAIN s : \E j \in 1..s[i].n : acquirer[s[i].mod][j] = e

\* Modules that ask for products can be numbered in the order of asking.
Numbers(d) == \A m \in Modules : \A n \in Needs[m] : d[n] < d[m]

Descends(s) ==
    \A d \in [Modules -> Nat] : Numbers(d) =>
        \A i, j \in DOMAIN s : i < j => d[s[j].mod] < d[s[i].mod]

StackInv ==
    /\ stack \in [Threads -> Seq(Frames)]
    /\ phase = "construct" => \A t \in Threads : stack[t] = <<>>
    /\ \A t \in Threads :
          /\ \A i \in DOMAIN stack[t] : FrameFits(stack[t][i], i = Len(stack[t]))
          /\ Descends(stack[t])
    /\ \A t, u \in Threads : t # u =>
          /\ \A m \in Modules : ~(ModuleIn(stack[t], m) /\ ModuleIn(stack[u], m))
          /\ \A e \in Entry : ~(ResourceIn(stack[t], e) /\ ResourceIn(stack[u], e))

LEMMA Holding ==
  /\ \A t \in Threads, m \in Modules : HoldsModule(t, m) <=> ModuleIn(stack[t], m)
  /\ \A t \in Threads, e \in Entry : HoldsResource(t, e) <=> ResourceIn(stack[t], e)
BY DEF HoldsModule, HoldsResource, ModuleIn, ResourceIn

\* The frames of one thread change, and it holds what it held or what nobody else does.
LEMMA ThreadStep ==
  ASSUME StackInv, acquirer \in [Modules -> Seq(Entry)], Still, phase = "run",
         NEW t \in Threads, NEW s \in Seq(Frames), stack' = [stack EXCEPT ![t] = s],
         \A i \in DOMAIN s : FrameFits(s[i], i = Len(s)),
         Descends(s),
         \A m \in Modules : ModuleIn(s, m) =>
            ModuleIn(stack[t], m) \/ \A u \in Threads \ {t} : ~ModuleIn(stack[u], m),
         \A e \in Entry : ResourceIn(s, e) =>
            ResourceIn(stack[t], e) \/ \A u \in Threads \ {t} : ~ResourceIn(stack[u], e)
  PROVE  StackInv'
<1>1. acquirer' = acquirer /\ phase' = "run" /\ Needs' = Needs
  BY DEF Still, Needs
<1>2. /\ stack' \in [Threads -> Seq(Frames)]
      /\ \A u \in Threads : stack'[u] = IF u = t THEN s ELSE stack[u]
  BY DEF StackInv
<1>3. \A u \in Threads : /\ \A i \in DOMAIN stack'[u] : FrameFits(stack'[u][i], i = Len(stack'[u]))
                         /\ Descends(stack'[u])
  BY <1>2 DEF StackInv
<1>4. \A u \in Threads : /\ \A i \in DOMAIN stack'[u] : FrameFits(stack[u][i], i = Len(stack[u]))'
                         /\ Descends(stack[u])'
  <2>1. \A u \in Threads : \A i \in DOMAIN stack'[u] : FrameFits(stack[u][i], i = Len(stack[u]))'
    BY <1>1, <1>3 DEF FrameFits
  <2>2. \A u \in Threads : Descends(stack[u])'
    BY <1>1, <1>3 DEF Descends, Numbers
  <2> QED BY <2>1, <2>2
<1>5. \A u, v \in Threads : u # v =>
         /\ \A m \in Modules : ~(ModuleIn(stack'[u], m) /\ ModuleIn(stack'[v], m))
         /\ \A e \in Entry : ~(ResourceIn(stack'[u], e) /\ ResourceIn(stack'[v], e))
  BY <1>2 DEF StackInv
<1>6. \A u, v \in Threads : u # v =>
         /\ \A m \in Modules : ~(ModuleIn(stack[u], m)' /\ ModuleIn(stack[v], m)')
         /\ \A e \in Entry : ~(ResourceIn(stack[u], e)' /\ ResourceIn(stack[v], e)')
  BY <1>1, <1>5 DEF ModuleIn, ResourceIn
<1> QED BY <1>1, <1>2, <1>4, <1>6 DEF StackInv

\* The innermost frame changes.
LEMMA TopStep ==
  ASSUME StackInv, acquirer \in [Modules -> Seq(Entry)], Still, phase = "run",
         NEW t \in Threads, NEW f \in Frames, stack[t] # <<>>, SetTop(t, f),
         f.mod = Top(t).mod, FrameFits(f, TRUE),
         f.at # "enter" => \/ Top(t).at # "enter"
                           \/ \A u \in Threads \ {t} : ~ModuleIn(stack[u], f.mod),
         \A j \in 1..f.n : \/ j \in 1..Top(t).n
                           \/ \A u \in Threads \ {t} : ~ResourceIn(stack[u], acquirer[f.mod][j])
  PROVE  StackInv'
<1> DEFINE old == stack[t]
           n == Len(old)
           s == [old EXCEPT ![n] = f]
<1>1. old \in Seq(Frames) /\ n \in Nat \ {0} /\ n \in DOMAIN old /\ DOMAIN old = 1..n
  BY DEF StackInv
<1>2. stack' = [stack EXCEPT ![t] = s]
  BY DEF SetTop
<1>3. /\ s \in Seq(Frames) /\ Len(s) = n /\ DOMAIN s = DOMAIN old
      /\ \A i \in DOMAIN old : s[i] = IF i = n THEN f ELSE old[i]
  BY <1>1
<1>4. Top(t) = old[n]
  BY DEF Top
<1> HIDE DEF s
<1>5. \A i \in DOMAIN s : FrameFits(s[i], i = Len(s))
  <2>1. \A i \in DOMAIN old : FrameFits(old[i], i = n)
    BY DEF StackInv
  <2> QED BY <1>1, <1>3, <2>1
<1>6. Descends(s)
  <2>1. \A i \in DOMAIN s : s[i].mod = old[i].mod
    BY <1>1, <1>3, <1>4
  <2> QED BY <1>3, <2>1 DEF StackInv, Descends
<1>7. ASSUME NEW m \in Modules, ModuleIn(s, m)
      PROVE  ModuleIn(old, m) \/ \A u \in Threads \ {t} : ~ModuleIn(stack[u], m)
  <2>1. PICK i \in DOMAIN s : s[i].mod = m /\ s[i].at # "enter"
    BY <1>7 DEF ModuleIn
  <2>2. CASE i = n
    BY <1>1, <1>3, <1>4, <2>1, <2>2 DEF ModuleIn
  <2>3. CASE i # n
    BY <1>3, <2>1, <2>3 DEF ModuleIn
  <2> QED BY <2>2, <2>3
<1>8. ASSUME NEW e \in Entry, ResourceIn(s, e)
      PROVE  ResourceIn(old, e) \/ \A u \in Threads \ {t} : ~ResourceIn(stack[u], e)
  <2>1. PICK i \in DOMAIN s : \E j \in 1..s[i].n : acquirer[s[i].mod][j] = e
    BY <1>8 DEF ResourceIn
  <2>2. CASE i = n
    BY <1>1, <1>3, <1>4, <2>1, <2>2 DEF ResourceIn
  <2>3. CASE i # n
    BY <1>3, <2>1, <2>3 DEF ResourceIn
  <2> QED BY <2>2, <2>3
<1> HIDE DEF n
<1> QED BY <1>2, <1>3, <1>5, <1>6, <1>7, <1>8, ThreadStep

LEMMA StackDoEvent ==
  ASSUME StackInv, acquirer \in [Modules -> Seq(Entry)],
         NEW t \in Threads, NEW m \in Modules, DoEvent(t, m)
  PROVE  StackInv'
<1> DEFINE s == <<Frame(m)>>
<1>1. Frame(m) \in Frames
  BY DEF Frame, Frames, FrameState
<1>2. s \in Seq(Frames) /\ Len(s) = 1 /\ DOMAIN s = {1} /\ s[1] = Frame(m)
  BY <1>1
<1>3. \A i \in DOMAIN s : FrameFits(s[i], i = Len(s))
  <2>1. Len(acquirer[m]) \in Nat
    OBVIOUS
  <2> QED BY <1>2, <2>1 DEF FrameFits, Frame
<1>4. Descends(s)
  BY <1>2 DEF Descends
<1>5. (\A k \in Modules : ~ModuleIn(s, k)) /\ (\A e \in Entry : ~ResourceIn(s, e))
  BY <1>2 DEF ModuleIn, ResourceIn, Frame
<1>6. Still /\ phase = "run" /\ stack' = [stack EXCEPT ![t] = s]
  BY DEF DoEvent
<1> HIDE DEF s
<1> QED BY <1>2, <1>3, <1>4, <1>5, <1>6, ThreadStep

LEMMA TopTypes ==
  ASSUME StackInv, NEW t \in Threads, stack[t] # <<>>
  PROVE  /\ Len(stack[t]) \in DOMAIN stack[t] /\ Top(t) = stack[t][Len(stack[t])]
         /\ phase # "construct"
         /\ Top(t) \in Frames /\ Top(t).mod \in Modules /\ Top(t).at \in FrameState
         /\ Top(t).n \in Nat /\ Top(t).asked \in BOOLEAN
         /\ FrameFits(Top(t), TRUE)
<1>1. stack[t] \in Seq(Frames)
  BY DEF StackInv
<1>2. Len(stack[t]) \in DOMAIN stack[t]
  BY <1>1
<1>3. stack[t][Len(stack[t])] \in Frames
  BY <1>1, <1>2
<1> QED BY <1>2, <1>3 DEF StackInv, Top, Frames

LEMMA StackLockModule ==
  ASSUME StackInv, acquirer \in [Modules -> Seq(Entry)], phase \in {"construct", "run"},
         NEW t \in Threads, LockModule(t)
  PROVE  StackInv'
<1> DEFINE f == [Top(t) EXCEPT !.at = "lock"]
<1>1. stack[t] # <<>> /\ Top(t).at = "enter" /\ ~Blocked(t) /\ SetTop(t, f) /\ Still
  BY DEF LockModule
<1>2. f \in Frames /\ f.mod = Top(t).mod /\ f.n = Top(t).n /\ f.at = "lock"
  BY <1>1, TopTypes DEF Frames, FrameState
<1>3. Top(t).n = 0 /\ Len(acquirer[Top(t).mod]) \in Nat /\ phase = "run"
  BY <1>1, TopTypes DEF FrameFits
<1>4. FrameFits(f, TRUE)
  BY <1>2, <1>3 DEF FrameFits
<1>5. \A u \in Threads \ {t} : ~ModuleIn(stack[u], f.mod)
  <2>1. \A u \in Threads \ {t} : ~HoldsModule(u, Top(t).mod)
    BY <1>1 DEF Blocked, BlockedBy
  <2> QED BY <1>2, <2>1 DEF HoldsModule, ModuleIn
<1> HIDE DEF f
<1> QED BY <1>1, <1>2, <1>3, <1>4, <1>5, TopStep

LEMMA StackLock ==
  ASSUME StackInv, acquirer \in [Modules -> Seq(Entry)], phase \in {"construct", "run"},
         NEW t \in Threads, Lock(t)
  PROVE  StackInv'
<1>1. stack[t] # <<>> /\ Top(t).at = "lock" /\ ~Blocked(t) /\ Still
  BY DEF Lock
<1>2. phase = "run" /\ Len(acquirer[Top(t).mod]) \in Nat /\ Top(t).n <= Len(acquirer[Top(t).mod])
  BY <1>1, TopTypes DEF FrameFits
<1>3. CASE Top(t).n < Len(acquirer[Top(t).mod])
  <2> DEFINE f == [Top(t) EXCEPT !.n = @ + 1]
  <2>1. SetTop(t, f)
    BY <1>3 DEF Lock
  <2>2. f \in Frames /\ f.mod = Top(t).mod /\ f.n = Top(t).n + 1 /\ f.at = "lock"
    <3>1. Top(t) \in Frames /\ Top(t).n \in Nat
      BY <1>1, TopTypes
    <3>2. Top(t).n + 1 \in Nat
      BY <3>1
    <3> QED BY <1>1, <3>1, <3>2 DEF Frames
  <2>3. FrameFits(f, TRUE)
    BY <1>2, <1>3, <2>2, TopTypes, <1>1 DEF FrameFits
  <2>4. \A u \in Threads \ {t} : ~ResourceIn(stack[u], acquirer[f.mod][f.n])
    <3>1. \A u \in Threads \ {t} : ~HoldsResource(u, acquirer[Top(t).mod][Top(t).n + 1])
      BY <1>1, <1>3 DEF Blocked, BlockedBy
    <3> QED BY <2>2, <3>1 DEF HoldsResource, ResourceIn
  <2>5. \A j \in 1..f.n : j \in 1..Top(t).n \/ j = f.n
    <3>1. Top(t).n \in Nat
      BY <1>1, TopTypes
    <3> QED BY <2>2, <3>1
  <2> HIDE DEF f
  <2> QED BY <1>1, <1>2, <2>1, <2>2, <2>3, <2>4, <2>5, TopStep
<1>4. CASE ~(Top(t).n < Len(acquirer[Top(t).mod]))
  <2> DEFINE f == [Top(t) EXCEPT !.at = "work"]
  <2>1. SetTop(t, f)
    BY <1>4 DEF Lock
  <2>2. f \in Frames /\ f.mod = Top(t).mod /\ f.n = Top(t).n /\ f.at = "work"
    BY <1>1, TopTypes DEF Frames, FrameState
  <2>3. FrameFits(f, TRUE)
    BY <1>1, <1>2, <1>4, <2>2, TopTypes DEF FrameFits
  <2> HIDE DEF f
  <2> QED BY <1>1, <1>2, <2>1, <2>2, <2>3, TopStep
<1> QED BY <1>3, <1>4

LEMMA StackEndWork ==
  ASSUME StackInv, acquirer \in [Modules -> Seq(Entry)], phase \in {"construct", "run"},
         NEW t \in Threads, EndWork(t)
  PROVE  StackInv'
<1> DEFINE f == [Top(t) EXCEPT !.at = "commit", !.n = 0]
<1>1. stack[t] # <<>> /\ Top(t).at = "work" /\ SetTop(t, f) /\ Still
  BY DEF EndWork
<1>2. f \in Frames /\ f.mod = Top(t).mod /\ f.n = 0 /\ f.at = "commit"
  BY <1>1, TopTypes DEF Frames, FrameState
<1>3. phase = "run" /\ Len(acquirer[Top(t).mod]) \in Nat
  <2>1. Top(t).mod \in Modules /\ phase # "construct"
    BY <1>1, TopTypes
  <2> QED BY <2>1
<1>4. FrameFits(f, TRUE)
  BY <1>2, <1>3 DEF FrameFits
<1>5. \A j \in 1..f.n : FALSE
  BY <1>2
<1> HIDE DEF f
<1> QED BY <1>1, <1>2, <1>3, <1>4, <1>5, TopStep

LEMMA StackGetProduct ==
  ASSUME StackInv, job \in Configurations, acquirer \in [Modules -> Seq(Entry)],
         phase \in {"construct", "run"}, NEW t \in Threads, NEW m \in Modules, GetProduct(t, m)
  PROVE  StackInv'
<1> DEFINE old == stack[t]
           n == Len(old)
           f == [Top(t) EXCEPT !.at = "away", !.asked = TRUE, !.n = 0]
           s == Append([old EXCEPT ![n] = f], Frame(m))
<1>1. old # <<>> /\ Top(t).at = "work" /\ m \in Needs[Top(t).mod] /\ Still
  BY DEF GetProduct
<1>2. /\ old \in Seq(Frames) /\ n \in Nat \ {0} /\ n \in DOMAIN old /\ DOMAIN old = 1..n
      /\ Top(t) = old[n]
  BY <1>1 DEF StackInv, Top
<1>3. stack' = [stack EXCEPT ![t] = s]
  BY <1>1, <1>2 DEF GetProduct
<1>4. f \in Frames /\ f.mod = Top(t).mod /\ f.n = 0 /\ f.at = "away"
  BY <1>1, TopTypes DEF Frames, FrameState
<1>5. Frame(m) \in Frames /\ Frame(m).mod = m /\ Frame(m).n = 0 /\ Frame(m).at = "enter"
  BY DEF Frame, Frames, FrameState
<1> HIDE DEF f
<1>6. /\ s \in Seq(Frames) /\ Len(s) = n + 1 /\ DOMAIN s = 1..(n + 1)
      /\ \A i \in DOMAIN old : s[i] = IF i = n THEN f ELSE old[i]
      /\ s[n + 1] = Frame(m)
  <2>1. [old EXCEPT ![n] = f] \in Seq(Frames) /\ Len([old EXCEPT ![n] = f]) = n
    BY <1>2, <1>4
  <2>2. \A i \in DOMAIN old : [old EXCEPT ![n] = f][i] = IF i = n THEN f ELSE old[i]
    BY <1>2
  <2> QED BY <1>2, <1>5, <2>1, <2>2
<1> HIDE DEF s
<1>7. \A i \in DOMAIN s : \/ i \in DOMAIN old /\ i # n /\ s[i] = old[i]
                          \/ i = n /\ s[i] = f
                          \/ i = n + 1 /\ s[i] = Frame(m)
  BY <1>2, <1>6
<1>8. phase = "run" /\ \A k \in Modules : Len(acquirer[k]) \in Nat
  <2>1. phase # "construct"
    BY <1>1, TopTypes
  <2> QED BY <2>1
<1>9. \A i \in DOMAIN s : FrameFits(s[i], i = Len(s))
  <2>1. \A i \in DOMAIN old : i # n => FrameFits(old[i], FALSE)
    BY <1>2 DEF StackInv
  <2>2. FrameFits(f, FALSE)
    BY <1>1, <1>4, <1>8, TopTypes DEF FrameFits
  <2>3. FrameFits(Frame(m), TRUE)
    BY <1>5, <1>8 DEF FrameFits
  <2>4. ASSUME NEW i \in DOMAIN s PROVE FrameFits(s[i], i = Len(s))
    <3>1. CASE i \in DOMAIN old /\ i # n /\ s[i] = old[i]
      <4>1. (i = Len(s)) = FALSE
        BY <1>2, <1>6, <3>1
      <4> QED BY <2>1, <3>1, <4>1
    <3>2. CASE i = n /\ s[i] = f
      <4>1. (i = Len(s)) = FALSE
        BY <1>2, <1>6, <3>2
      <4> QED BY <2>2, <3>2, <4>1
    <3>3. CASE i = n + 1 /\ s[i] = Frame(m)
      <4>1. (i = Len(s)) = TRUE
        BY <1>6, <3>3
      <4> QED BY <2>3, <3>3, <4>1
    <3> QED BY <1>7, <3>1, <3>2, <3>3
  <2> QED BY <2>4
<1>10. Descends(s)
  <2>1. SUFFICES ASSUME NEW d \in [Modules -> Nat], Numbers(d), NEW i \in DOMAIN s, NEW j \in DOMAIN s, i < j
                 PROVE  d[s[j].mod] < d[s[i].mod]
    BY DEF Descends
  <2>2. \A k \in DOMAIN old : s[k].mod = old[k].mod /\ old[k].mod \in Modules
    <3>1. \A k \in DOMAIN old : old[k] \in Frames
      BY <1>2
    <3> QED BY <1>2, <1>4, <1>6, <3>1 DEF Frames
  <2>3. \A k, l \in DOMAIN old : k < l => d[old[l].mod] < d[old[k].mod]
    BY <2>1 DEF StackInv, Descends
  <2>4. CASE j \in DOMAIN old
    <3>1. i \in DOMAIN old
      BY <1>2, <1>6, <2>1, <2>4
    <3> QED BY <2>1, <2>2, <2>3, <2>4, <3>1
  <2>5. CASE j \notin DOMAIN old
    <3>1. j = n + 1 /\ i \in DOMAIN old /\ (i < n \/ i = n)
      <4>1. n \in Nat /\ i \in 1..(n + 1) /\ j \in 1..(n + 1) /\ j \notin 1..n /\ DOMAIN old = 1..n
        BY <1>2, <1>6, <2>1, <2>5
      <4> HIDE DEF n, old
      <4> QED BY <2>1, <4>1
    <3>2. d[m] < d[old[n].mod]
      BY <1>1, <1>2, <2>1, <2>2 DEF Numbers
    <3>3. d[m] \in Nat /\ d[old[n].mod] \in Nat /\ d[old[i].mod] \in Nat
      BY <1>2, <2>2, <3>1
    <3>4. i < n => d[old[n].mod] < d[old[i].mod]
      BY <1>2, <2>3, <3>1
    <3>5. s[j].mod = m /\ s[i].mod = old[i].mod
      BY <1>5, <1>6, <2>2, <3>1
    <3> QED BY <3>1, <3>2, <3>3, <3>4, <3>5
  <2> QED BY <2>4, <2>5
<1>11. ASSUME NEW k \in Modules, ModuleIn(s, k) PROVE ModuleIn(old, k)
  <2>1. PICK i \in DOMAIN s : s[i].mod = k /\ s[i].at # "enter"
    BY <1>11 DEF ModuleIn
  <2> QED BY <1>1, <1>2, <1>4, <1>5, <1>7, <2>1 DEF ModuleIn
<1>12. ASSUME NEW e \in Entry, ResourceIn(s, e) PROVE ResourceIn(old, e)
  <2>1. PICK i \in DOMAIN s : \E j \in 1..s[i].n : acquirer[s[i].mod][j] = e
    BY <1>12 DEF ResourceIn
  <2>2. i \in DOMAIN old /\ s[i] = old[i]
    BY <1>4, <1>5, <1>7, <2>1
  <2> QED BY <2>1, <2>2 DEF ResourceIn
<1> QED BY <1>1, <1>3, <1>6, <1>8, <1>9, <1>10, <1>11, <1>12, ThreadStep

LEMMA StackLeave ==
  ASSUME StackInv, acquirer \in [Modules -> Seq(Entry)], phase \in {"construct", "run"},
         NEW t \in Threads, Leave(t)
  PROVE  StackInv'
<1> DEFINE old == stack[t]
           rest == SubSeq(old, 1, Len(old) - 1)
           n == Len(rest)
           f == [rest[n] EXCEPT !.at = "lock"]
           s == IF rest = <<>> THEN <<>> ELSE [rest EXCEPT ![n].at = "lock"]
<1>1. old # <<>> /\ Still /\ stack' = [stack EXCEPT ![t] = s]
  BY DEF Leave
<1>2. /\ old \in Seq(Frames) /\ Len(old) \in Nat \ {0} /\ DOMAIN old = 1..Len(old)
      /\ rest \in Seq(Frames) /\ n = Len(old) - 1 /\ DOMAIN rest = 1..n /\ n \in Nat
      /\ \A i \in 1..n : rest[i] = old[i] /\ old[i] \in Frames /\ i \in DOMAIN old
  <2>1. old \in Seq(Frames) /\ Len(old) \in Nat \ {0} /\ DOMAIN old = 1..Len(old)
    BY <1>1 DEF StackInv
  <2>2. rest \in Seq(Frames) /\ n = Len(old) - 1 /\ DOMAIN rest = 1..n /\ n \in Nat
    BY <2>1
  <2>3. ASSUME NEW i \in 1..n PROVE rest[i] = old[i] /\ old[i] \in Frames /\ i \in DOMAIN old
    BY <2>1, <2>2
  <2> QED BY <2>1, <2>2, <2>3
<1>3. phase = "run" /\ \A k \in Modules : Len(acquirer[k]) \in Nat
  <2>1. phase # "construct"
    BY <1>1, TopTypes
  <2> QED BY <2>1
<1>4. CASE rest = <<>>
  <2>1. s = <<>> /\ s \in Seq(Frames) /\ DOMAIN s = {}
    BY <1>4
  <2>2. Descends(s)
    BY <2>1 DEF Descends
  <2>3. (\A m \in Modules : ~ModuleIn(s, m)) /\ (\A e \in Entry : ~ResourceIn(s, e))
    BY <2>1 DEF ModuleIn, ResourceIn
  <2> HIDE DEF s
  <2> QED BY <1>1, <1>3, <2>1, <2>2, <2>3, ThreadStep
<1>5. CASE rest # <<>>
  <2>1. n \in 1..n /\ rest[n] = old[n] /\ old[n] \in Frames
    BY <1>2, <1>5
  <2>2. f \in Frames /\ f.mod = old[n].mod /\ f.n = old[n].n /\ f.at = "lock"
    BY <2>1 DEF Frames, FrameState
  <2>3. s = [rest EXCEPT ![n] = f]
    BY <1>2, <1>5, <2>1
  <2> HIDE DEF f, s, rest
  <2>4. /\ s \in Seq(Frames) /\ Len(s) = n /\ DOMAIN s = 1..n
        /\ \A i \in 1..n : s[i] = IF i = n THEN f ELSE old[i]
    BY <1>2, <2>1, <2>2, <2>3
  <2>5. \A i \in 1..n : FrameFits(old[i], FALSE)
    <3>1. \A i \in 1..n : FrameFits(old[i], i = Len(old))
      BY <1>2 DEF StackInv
    <3>2. \A i \in 1..n : (i = Len(old)) = FALSE
      BY <1>2
    <3> QED BY <3>1, <3>2
  <2>6. \A i \in DOMAIN s : FrameFits(s[i], i = Len(s))
    <3>1. FrameFits(f, TRUE)
      <4>1. old[n].at = "away" /\ old[n].n = 0 /\ Len(acquirer[old[n].mod]) \in Nat
        BY <1>3, <2>1, <2>5 DEF FrameFits, Frames
      <4> QED BY <2>2, <4>1 DEF FrameFits
    <3>2. ASSUME NEW i \in 1..n, i # n PROVE FrameFits(s[i], i = Len(s))
      <4>1. (i = Len(s)) = FALSE /\ s[i] = old[i]
        BY <2>4, <3>2
      <4> QED BY <2>5, <4>1
    <3>3. FrameFits(s[n], n = Len(s))
      <4>1. (n = Len(s)) = TRUE /\ s[n] = f
        BY <2>1, <2>4
      <4> QED BY <3>1, <4>1
    <3> QED BY <2>4, <3>2, <3>3
  <2>7. Descends(s)
    <3>1. \A i \in DOMAIN s : s[i].mod = old[i].mod /\ i \in DOMAIN old
      BY <1>2, <2>2, <2>4
    <3> QED BY <3>1 DEF StackInv, Descends
  <2>8. ASSUME NEW m \in Modules, ModuleIn(s, m) PROVE ModuleIn(old, m)
    <3>1. PICK i \in DOMAIN s : s[i].mod = m /\ s[i].at # "enter"
      BY <2>8 DEF ModuleIn
    <3>2. old[n].at = "away"
      BY <2>1, <2>5 DEF FrameFits
    <3>3. i \in DOMAIN old /\ old[i].mod = m /\ old[i].at # "enter"
      BY <1>2, <2>2, <2>4, <3>1, <3>2
    <3> QED BY <3>3 DEF ModuleIn
  <2>9. ASSUME NEW e \in Entry, ResourceIn(s, e) PROVE ResourceIn(old, e)
    <3>1. PICK i \in DOMAIN s : \E j \in 1..s[i].n : acquirer[s[i].mod][j] = e
      BY <2>9 DEF ResourceIn
    <3>2. i \in DOMAIN old /\ s[i].n = old[i].n /\ s[i].mod = old[i].mod
      BY <1>2, <2>2, <2>4, <3>1
    <3> QED BY <3>1, <3>2 DEF ResourceIn
  <2> QED BY <1>1, <1>3, <2>4, <2>6, <2>7, <2>8, <2>9, ThreadStep
<1> QED BY <1>4, <1>5

\* No thread has begun when the acquirers are made, or made anew.
LEMMA StackRest ==
  ASSUME StackInv, \A t \in Threads : stack[t] = <<>>, stack' = stack
  PROVE  StackInv'
<1>1. \A t \in Threads : stack'[t] = <<>> /\ DOMAIN stack'[t] = {}
  OBVIOUS
<1> QED BY <1>1 DEF StackInv, Descends, ModuleIn, ResourceIn

-----------------------------------------------------------------------------
(* Every step. *)

LEMMA RegistryStill ==
  ASSUME RegistryInv, Still
  PROVE  RegistryInv'
<1> USE DEF RegistryInv, Still, registry
<1>1. Uses' = Uses
  BY DEF Uses
<1>2. Types' /\ Counts' /\ MutexesExist'
  BY <1>1 DEF Types, Counts, MutexesExist, Registered
<1>3. Acquirers'
  BY <1>1 DEF Acquirers, RightAcquirer, MustTake, Touches
<1> QED BY <1>2, <1>3

Inv == RegistryInv /\ StackInv

LEMMA InvInit == Init => Inv
<1> SUFFICES ASSUME Init PROVE Inv
  OBVIOUS
<1>1. RegistryInv
  BY RegistryInit
<1>2. StackInv
  <2>1. \A t \in Threads : stack[t] = <<>> /\ DOMAIN stack[t] = {}
    BY DEF Init
  <2>2. stack \in [Threads -> Seq(Frames)]
    BY DEF Init
  <2> QED BY <2>1, <2>2 DEF StackInv, Descends, ModuleIn, ResourceIn
<1> QED BY <1>1, <1>2 DEF Inv

LEMMA InvNext == Inv /\ [Next]_vars => Inv'
<1> SUFFICES ASSUME Inv, [Next]_vars PROVE Inv'
  OBVIOUS
<1>1. /\ RegistryInv /\ StackInv
      /\ job \in Configurations /\ acquirer \in [Modules -> Seq(Entry)] /\ phase \in {"construct", "run"}
  BY DEF Inv, RegistryInv, Types
<1>2. CASE \E m \in Modules, r \in Names : Construct(m, r)
  <2>1. PICK m \in Modules, r \in Names : Construct(m, r)
    BY <1>2
  <2>2. stack' = stack /\ \A t \in Threads : stack[t] = <<>>
    BY <1>1, <2>1 DEF Construct, StackInv
  <2> QED BY <1>1, <2>1, <2>2, RegistryConstruct, StackRest DEF Inv
<1>3. CASE BeginJob
  <2>1. stack' = stack /\ \A t \in Threads : stack[t] = <<>>
    BY <1>1, <1>3 DEF BeginJob, StackInv
  <2> QED BY <1>1, <1>3, <2>1, RegistryBeginJob, StackRest DEF Inv
<1>4. CASE \E m \in Modules : ChangeModule(m)
  <2>1. PICK m \in Modules : ChangeModule(m)
    BY <1>4
  <2>2. stack' = stack /\ \A t \in Threads : stack[t] = <<>>
    BY <2>1 DEF ChangeModule
  <2> QED BY <1>1, <2>1, <2>2, RegistryChangeModule, StackRest DEF Inv
<1>5. ASSUME NEW t \in Threads,
             \/ \E m \in Modules : DoEvent(t, m) \/ GetProduct(t, m)
             \/ LockModule(t) \/ Lock(t) \/ EndWork(t) \/ Leave(t)
      PROVE  Inv'
  <2>1. Still
    BY <1>5 DEF DoEvent, GetProduct, LockModule, Lock, EndWork, Leave
  <2>2. StackInv'
    BY <1>1, <1>5, StackDoEvent, StackGetProduct, StackLockModule, StackLock, StackEndWork, StackLeave
  <2> QED BY <1>1, <2>1, <2>2, RegistryStill DEF Inv
<1>6. CASE UNCHANGED vars
  <2>1. Still /\ stack' = stack /\ Needs' = Needs
    BY <1>6 DEF vars, Still, registry, Needs
  <2>2. StackInv'
    <3>1. /\ stack' = stack /\ phase' = phase /\ acquirer' = acquirer /\ Needs' = Needs
          /\ stack' \in [Threads -> Seq(Frames)]
      BY <1>1, <2>1 DEF StackInv, Still
    <3>2. \A t \in Threads : \A i \in DOMAIN stack[t] : FrameFits(stack[t][i], i = Len(stack[t]))'
      BY <1>1, <3>1 DEF StackInv, FrameFits
    <3>3. \A t \in Threads : Descends(stack[t])'
      BY <1>1, <3>1 DEF StackInv, Descends, Numbers
    <3> QED BY <1>1, <3>1, <3>2, <3>3 DEF StackInv, ModuleIn, ResourceIn
  <2> QED BY <1>1, <2>1, <2>2, RegistryStill DEF Inv
<1> QED BY <1>2, <1>3, <1>4, <1>5, <1>6 DEF Next

\* The invariant holds for any job and any number of exchanged modules.
LEMMA Invariant == Spec => []Inv
BY InvInit, InvNext, PTL DEF Spec

\* Two modules that conflict have a mutex in common.
LEMMA CommonMutex ==
  ASSUME RegistryInv, phase = "run", NEW m \in Modules, NEW n \in Modules, m # n, Conflict(m, n)
  PROVE  \E i \in DOMAIN acquirer[m], j \in DOMAIN acquirer[n] : acquirer[m][i] = acquirer[n][j]
<1>1. /\ Uses \in [Modules -> SUBSET Names] /\ Legacy \in Names
      /\ RightAcquirer(m, acquirer[m]) /\ RightAcquirer(n, acquirer[n])
  BY JobTypes, NamesAssumption DEF RegistryInv, Types, Acquirers
<1>2. PICK r \in Names : MustTake(m, r) /\ MustTake(n, r)
  <2>1. CASE \E r \in Names \ {Legacy} : Touches(m, r) /\ Touches(n, r) /\ \E k \in Modules : r \in Uses[k]
    BY <2>1 DEF MustTake
  <2>2. CASE ~ \E r \in Names \ {Legacy} : Touches(m, r) /\ Touches(n, r) /\ \E k \in Modules : r \in Uses[k]
    <3>1. Legacy \in Uses[m] /\ Legacy \in Uses[n]
      BY <1>1, <2>2 DEF Conflict, Touches
    <3>2. \A k \in Modules : Uses[k] \subseteq {Legacy}
      BY <1>1, <2>2, <3>1 DEF Touches
    <3> QED BY <1>1, <3>1, <3>2 DEF MustTake, Touches
  <2> QED BY <2>1, <2>2
<1>3. PICK i \in DOMAIN acquirer[m] : acquirer[m][i].name = r
  BY <1>1, <1>2 DEF RightAcquirer
<1>4. PICK j \in DOMAIN acquirer[n] : acquirer[n][j].name = r
  BY <1>1, <1>2 DEF RightAcquirer
<1>5. acquirer[m][i].mutex = acquirer[n][j].mutex
  BY <1>1, <1>3, <1>4 DEF RightAcquirer
<1>6. acquirer[m][i] \in Entry /\ acquirer[n][j] \in Entry
  BY <1>1 DEF RightAcquirer
<1> QED BY <1>3, <1>4, <1>5, <1>6 DEF Entry

\* Modules that declare a common resource, and legacy modules with all that
\* declare any, do not work at the same time: two that work hold all the
\* mutexes of their acquirers, one of which they would share.
THEOREM ModulesExclude == Spec => []ResourceExclusion
<1>1. Inv => ResourceExclusion
  <2>1. SUFFICES ASSUME Inv, NEW t \in Threads, NEW u \in Threads, NEW m \in Modules, NEW n \in Modules,
                        t # u, Working(t, m), Working(u, n), Conflict(m, n)
                 PROVE  FALSE
    BY DEF ResourceExclusion
  <2>2. RegistryInv /\ StackInv /\ acquirer \in [Modules -> Seq(Entry)]
    BY <2>1 DEF Inv, RegistryInv, Types
  <2>3. /\ stack[t] # <<>> /\ Top(t).mod = m /\ Top(t).at = "work"
        /\ stack[u] # <<>> /\ Top(u).mod = n /\ Top(u).at = "work"
    BY <2>1 DEF Working
  <2>4. /\ Len(stack[t]) \in DOMAIN stack[t] /\ Top(t) = stack[t][Len(stack[t])]
        /\ Len(stack[u]) \in DOMAIN stack[u] /\ Top(u) = stack[u][Len(stack[u])]
        /\ phase = "run"
        /\ Top(t).n = Len(acquirer[m]) /\ Top(u).n = Len(acquirer[n])
    <3>1. FrameFits(Top(t), TRUE) /\ FrameFits(Top(u), TRUE) /\ phase # "construct"
      BY <2>2, <2>3, TopTypes
    <3>2. phase \in {"construct", "run"}
      BY <2>2 DEF RegistryInv, Types
    <3> QED BY <2>2, <2>3, <3>1, <3>2, TopTypes DEF FrameFits
  <2>5. m # n
    BY <2>1, <2>2, <2>3, <2>4 DEF StackInv, ModuleIn
  <2>6. PICK i \in DOMAIN acquirer[m], j \in DOMAIN acquirer[n] : acquirer[m][i] = acquirer[n][j]
    BY <2>1, <2>2, <2>4, <2>5, CommonMutex
  <2>7. /\ i \in 1..Len(acquirer[m]) /\ j \in 1..Len(acquirer[n]) /\ acquirer[m][i] \in Entry
    BY <2>2
  <2>8. ResourceIn(stack[t], acquirer[m][i]) /\ ResourceIn(stack[u], acquirer[m][i])
    BY <2>3, <2>4, <2>6, <2>7 DEF ResourceIn
  <2> QED BY <2>1, <2>2, <2>7, <2>8 DEF StackInv
<1> QED BY <1>1, Invariant, PTL

\* The mutexes that acquirers point to exist and are those of the registry:
\* whatever makes a count exceed one has made a mutex, and none is made where
\* there is one.
THEOREM MutexesStay == Spec => []MutexesAlive
<1>1. Inv => MutexesAlive
  <2>1. SUFFICES ASSUME Inv, phase = "run", NEW m \in Modules, NEW i \in DOMAIN acquirer[m]
                 PROVE  acquirer[m][i].mutex # 0 /\ acquirer[m][i].mutex = mutex[acquirer[m][i].name]
    BY DEF MutexesAlive
  <2>2. /\ RightAcquirer(m, acquirer[m]) /\ acquirer[m] \in Seq(Entry) /\ mutex \in [Names -> Nat]
        /\ MutexesExist
    BY <2>1 DEF Inv, RegistryInv, Types, Acquirers
  <2>3. acquirer[m][i].name \in Names
    <3>1. acquirer[m][i] \in Entry
      BY <2>2
    <3> QED BY <3>1 DEF Entry
  <2> QED BY <2>2, <2>3 DEF RightAcquirer, MutexesExist
<1> QED BY <1>1, Invariant, PTL

-----------------------------------------------------------------------------
(* No ring of waiting threads. *)

\* No unscheduled module of the job needs its own product in the end.
NeedsAreAcyclic == \E d \in [Modules -> Nat] : Numbers(d)

\* All acquirers are sorted by the counts c.
SortedBy(c) ==
    \A m \in Modules : \A i, j \in DOMAIN acquirer[m] :
        i < j => Less(c, acquirer[m][i].name, acquirer[m][j].name)

\* The sorting is consistent: one order of the resources for all acquirers.
SortedAlike == \E c \in [Names -> Nat] : SortedBy(c)

\* Looking back, the acquirers still had to be sorted by the counts of one moment:
\* no module was exchanged, or one was and no module of the job declares both the
\* legacy resource and another.
CountedOnce ==
    \/ changes = 0
    \/ changes = 1 /\ \A m \in Modules : Legacy \in Uses[m] => Uses[m] = {Legacy}

OneOrder ==
    phase = "run" /\ CountedOnce => \E c \in [Names -> Nat] : SortedBy(c) /\ (changes = 0 => c = count)

LEMMA OneOrderInit == Init => OneOrder
BY DEF Init, OneOrder

\* One exchange leaves the resources of the new acquirer in the order of the
\* others: their counts grew by one each.
LEMMA OneOrderChange ==
  ASSUME RegistryInv, OneOrder, NEW m \in Modules, ChangeModule(m)
  PROVE  OneOrder'
<1> SUFFICES ASSUME CountedOnce' PROVE (\E c \in [Names -> Nat] : SortedBy(c))' /\ changes' # 0
  BY DEF OneOrder
<1>1. /\ phase = "run" /\ changes = 0 /\ changes' = 1 /\ job \in Configurations
      /\ Legacy \in Uses[m] => Uses[m] = {Legacy}
      /\ Uses[m] \subseteq Names /\ Uses' = Uses /\ count \in [Names -> Nat]
      /\ acquirer \in [Modules -> Seq(Entry)]
  <2>1. changes \in Nat /\ changes' = changes + 1 /\ job' = job
    BY MaxChangesAssumption DEF ChangeModule, RegistryInv, Types
  <2>2. changes = 0 /\ changes' = 1 /\ \A n \in Modules : Legacy \in Uses[n] => Uses[n] = {Legacy}
    BY <2>1 DEF CountedOnce, Uses
  <2> QED BY <2>1, <2>2, JobTypes DEF ChangeModule, RegistryInv, Types, Uses
<1>2. PICK c \in [Names -> Nat] : SortedBy(c) /\ c = count
  BY <1>1 DEF OneOrder, CountedOnce
<1>3. /\ Returned(CreateAcquirer(Uses[m]), Shared(Uses[m]))'
      /\ \A r \in Names : count'[r] = count[r] + (IF r \in Uses[m] \ {Legacy} THEN 1 ELSE 0)
                                               + (IF Legacy \in Uses[m] /\ InMap(r) THEN 1 ELSE 0)
  BY RegistryChangeModule
<1> DEFINE a == CreateAcquirer(Uses[m])'
           S == Shared(Uses[m])'
<1>4. \A r \in S : r \in Names /\ count'[r] > 1 /\ (Legacy \notin Uses[m] => r \in Uses[m])
  BY <1>1 DEF Shared, Wanted
<1>5. \A r \in S : count'[r] = count[r] + 1 /\ count[r] \in Nat
  <2>1. ASSUME NEW r \in S PROVE count'[r] = count[r] + 1 /\ count[r] \in Nat
    <3>1. /\ r \in Names /\ count'[r] > 1 /\ (Legacy \notin Uses[m] => r \in Uses[m])
          /\ count[r] \in Nat
      BY <1>1, <1>4
    <3> QED BY <1>1, <1>3, <3>1 DEF InMap
  <2> QED BY <2>1
<1>6. /\ \A i \in DOMAIN a : a[i].name \in S
      /\ \A i, j \in DOMAIN a : i < j => Less(count', a[i].name, a[j].name)
  BY <1>3 DEF Returned, Less
<1>7. acquirer' = [acquirer EXCEPT ![m] = a]
  BY DEF ChangeModule
<1> HIDE DEF a, S
<1>8. \A i, j \in DOMAIN a : i < j => Less(c, a[i].name, a[j].name)
  BY <1>2, <1>5, <1>6 DEF Less
<1>9. ASSUME NEW n \in Modules, NEW i \in DOMAIN acquirer'[n], NEW j \in DOMAIN acquirer'[n], i < j
      PROVE  Less(c, acquirer'[n][i].name, acquirer'[n][j].name)
  <2>1. CASE n = m
    BY <1>1, <1>7, <1>8, <1>9, <2>1
  <2>2. CASE n # m
    BY <1>1, <1>2, <1>7, <1>9, <2>2 DEF SortedBy
  <2> QED BY <2>1, <2>2
<1>10. SortedBy(c)'
  BY <1>9 DEF SortedBy, Less
<1> QED BY <1>1, <1>10

LEMMA OneOrderNext ==
  Inv /\ OneOrder /\ [Next]_vars => OneOrder'
<1> SUFFICES ASSUME Inv, OneOrder, [Next]_vars PROVE OneOrder'
  OBVIOUS
<1>1. RegistryInv
  BY DEF Inv
<1>2. ASSUME NEW m \in Modules, NEW r \in Names, Construct(m, r) PROVE OneOrder'
  BY <1>2 DEF Construct, OneOrder
<1>3. CASE BeginJob
  <2>1. count \in [Names -> Nat] /\ mutex \in [Names -> Nat] /\ count' = count
    BY <1>1, <1>3 DEF RegistryInv, Types, BeginJob, registry
  <2>2. ASSUME NEW m \in Modules
        PROVE  \A i, j \in DOMAIN acquirer'[m] : i < j =>
                  Less(count, acquirer'[m][i].name, acquirer'[m][j].name)
    <3>1. Uses[m] \in SUBSET Names
      BY <1>1, JobTypes DEF RegistryInv, Types
    <3>2. acquirer'[m] = CreateAcquirer(Uses[m])
      BY <1>3 DEF BeginJob
    <3>3. Returned(acquirer'[m], Shared(Uses[m]))
      BY <2>1, <3>1, <3>2, AcquirerCreated
    <3> QED BY <3>3 DEF Returned
  <2>3. SortedBy(count)'
    BY <2>1, <2>2 DEF SortedBy, Less
  <2> QED BY <2>1, <2>3 DEF OneOrder
<1>4. ASSUME NEW m \in Modules, ChangeModule(m) PROVE OneOrder'
  BY <1>1, <1>4, OneOrderChange
<1>5. CASE Still
  BY <1>5 DEF Still, registry, OneOrder, CountedOnce, Uses, SortedBy, Less
<1>6. ASSUME NEW t \in Threads,
             \/ \E m \in Modules : DoEvent(t, m) \/ GetProduct(t, m)
             \/ LockModule(t) \/ Lock(t) \/ EndWork(t) \/ Leave(t)
      PROVE  Still
  BY <1>6 DEF DoEvent, GetProduct, LockModule, Lock, EndWork, Leave
<1>7. CASE UNCHANGED vars
  BY <1>5, <1>7 DEF vars, Still
<1> QED BY <1>2, <1>3, <1>4, <1>5, <1>6, <1>7 DEF Next

\* Of any resources there is one that comes last.
LEMMA LastOf ==
  ASSUME NEW c \in [Names -> Nat], NEW R \in SUBSET Names, R # {}
  PROVE  \E r \in R : \A s \in R : ~Less(c, r, s)
<1> DEFINE n == Cardinality(R)
<1>1. n \in Nat /\ IsFiniteSet(R) /\ n # 0
  BY RankGrows, FS_EmptySet
<1>2. PICK o \in [1..n -> R] : Sorted(c, o, n)
  BY CanBeSorted
<1>3. \A r \in R : \E i \in 1..n : o[i] = r
  BY <1>2, SortedNamesAll
<1> HIDE DEF n
<1>4. n \in 1..n /\ o[n] \in R
  BY <1>1
<1>5. ASSUME NEW s \in R PROVE ~Less(c, o[n], s)
  <2>1. PICK i \in 1..n : o[i] = s
    BY <1>3
  <2>2. i < n \/ i = n
    BY <1>1
  <2>3. i < n => Less(c, s, o[n])
    BY <1>2, <1>4, <2>1 DEF Sorted
  <2> QED BY <1>4, <2>1, <2>2, <2>3, LessIsTotal
<1> QED BY <1>4, <1>5

\* Of any numbers there is a smallest one.
LEMMA SmallestOf ==
  ASSUME NEW S \in SUBSET Nat, S # {}
  PROVE  \E x \in S : \A y \in S : ~(y < x)
<1>1. IsWellFoundedOn(OpToRel(<, Nat), Nat)
  BY NatLessThanWellFounded, Zenon
<1>2. PICK x \in S : \A y \in S : ~(<<y, x>> \in OpToRel(<, Nat))
  BY <1>1, WFMin, Zenon
<1> QED BY <1>2 DEF OpToRel

\* The resource that a blocked thread waits for, and what it waits for on entering.
WaitsFor(t, r) ==
    /\ stack[t] # <<>> /\ Top(t).at = "lock" /\ Top(t).n < Len(acquirer[Top(t).mod])
    /\ acquirer[Top(t).mod][Top(t).n + 1].name = r

\* A thread that waits for a resource waits for another that holds it; if that
\* one waits too, it does so for a later resource.
LEMMA HolderWaitsForLater ==
  ASSUME Inv, NEW c \in [Names -> Nat], SortedBy(c),
         NEW t \in Threads, NEW u \in Threads, NEW v \in Threads, NEW r,
         WaitsFor(t, r), BlockedBy(t, u), BlockedBy(u, v)
  PROVE  \E s \in Names : WaitsFor(u, s) /\ Less(c, r, s)
<1>1. StackInv /\ acquirer \in [Modules -> Seq(Entry)]
  BY DEF Inv, RegistryInv, Types
<1>2. stack[t] # <<>> /\ Top(t).at = "lock" /\ stack[u] # <<>> /\ t # u
  BY DEF WaitsFor, BlockedBy
<1>3. HoldsResource(u, acquirer[Top(t).mod][Top(t).n + 1])
  BY <1>2 DEF BlockedBy
<1>4. PICK i \in DOMAIN stack[u] :
         \E k \in 1..stack[u][i].n : acquirer[stack[u][i].mod][k] = acquirer[Top(t).mod][Top(t).n + 1]
  BY <1>3 DEF HoldsResource
<1>5. PICK k \in 1..stack[u][i].n : acquirer[stack[u][i].mod][k] = acquirer[Top(t).mod][Top(t).n + 1]
  BY <1>4
<1>6. FrameFits(stack[u][i], i = Len(stack[u])) /\ stack[u][i].at \notin {"away", "enter", "commit"}
  BY <1>1, <1>5 DEF StackInv, FrameFits
<1>7. stack[u][i] = Top(u)
  BY <1>6 DEF FrameFits, Top
<1>8. /\ Top(u).at = "lock" /\ Top(u).n < Len(acquirer[Top(u).mod]) /\ Top(u).mod \in Modules
      /\ Top(u).n \in Nat
  BY <1>1, <1>2, <1>6, <1>7, TopTypes DEF BlockedBy
<1> DEFINE a == acquirer[Top(u).mod]
           n == Top(u).n
<1>9. a \in Seq(Entry) /\ n \in Nat /\ n < Len(a) /\ k \in 1..n
  BY <1>1, <1>5, <1>7, <1>8
<1> HIDE DEF a, n
<1>10. k \in DOMAIN a /\ n + 1 \in DOMAIN a /\ k < n + 1 /\ a[n + 1] \in Entry
  BY <1>9
<1>11. Less(c, a[k].name, a[n + 1].name)
  BY <1>8, <1>10 DEF SortedBy, a
<1>12. a[k].name = r
  BY <1>5, <1>7 DEF WaitsFor, a
<1>13. WaitsFor(u, a[n + 1].name) /\ a[n + 1].name \in Names
  BY <1>2, <1>8, <1>10 DEF WaitsFor, a, n, Entry
<1> QED BY <1>11, <1>12, <1>13

\* A thread that waits to enter a module waits for one that is in it; if that
\* one waits to enter another, it is for a product that the module needs.
LEMMA HolderEntersDeeper ==
  ASSUME Inv, NEW d \in [Modules -> Nat], Numbers(d),
         NEW t \in Threads, NEW u \in Threads, BlockedBy(t, u),
         Top(t).at = "enter", stack[u] # <<>>, Top(u).at = "enter"
  PROVE  d[Top(u).mod] < d[Top(t).mod]
<1>1. StackInv /\ stack[t] # <<>>
  BY DEF Inv, BlockedBy
<1>2. PICK i \in DOMAIN stack[u] : stack[u][i].mod = Top(t).mod /\ stack[u][i].at # "enter"
  BY DEF BlockedBy, HoldsModule
<1>3. Len(stack[u]) \in DOMAIN stack[u] /\ Top(u) = stack[u][Len(stack[u])]
  BY <1>1, TopTypes
<1>4. i # Len(stack[u])
  BY <1>2, <1>3
<1>5. i < Len(stack[u])
  <2>1. stack[u] \in Seq(Frames)
    BY <1>1 DEF StackInv
  <2> QED BY <1>4, <2>1
<1> QED BY <1>1, <1>2, <1>3, <1>5 DEF StackInv, Descends

\* Consistent sorting avoids deadlocks (SharedResourcesRegistry.cc:92): in every
\* job, however many modules a looper exchanges, threads wait in a ring for
\* mutexes of modules or of resources only where acquirers in use disagree on the
\* order.  They agree until a module is exchanged, and after the first exchange
\* too unless a module declares the legacy resource with another.
THEOREM NoRingOfThreads ==
  Spec => []( /\ phase = "run" /\ SortedAlike /\ NeedsAreAcyclic => NoDeadlock
              /\ phase = "run" /\ CountedOnce => SortedAlike )
<1>1. Inv => (phase = "run" /\ SortedAlike /\ NeedsAreAcyclic => NoDeadlock)
  <2>1. SUFFICES ASSUME Inv, SortedAlike, NeedsAreAcyclic, NEW D \in (SUBSET Threads) \ {{}},
                        \A t \in D : \E u \in D : BlockedBy(t, u)
                 PROVE  FALSE
    BY DEF NoDeadlock
  <2>2. PICK b \in [D -> D] : \A t \in D : BlockedBy(t, b[t])
    <3>1. [t \in D |-> CHOOSE u \in D : BlockedBy(t, u)] \in [D -> D]
      BY <2>1
    <3>2. \A t \in D : BlockedBy(t, [v \in D |-> CHOOSE u \in D : BlockedBy(v, u)][t])
      BY <2>1
    <3> QED BY <3>1, <3>2
  <2>3. \A t \in D : stack[t] # <<>> /\ t \in Threads
    BY <2>2 DEF BlockedBy
  <2>4. phase = "run" /\ job \in Configurations /\ acquirer \in [Modules -> Seq(Entry)]
    <3>1. \A t \in D : phase # "construct"
      BY <2>1, <2>3, TopTypes DEF Inv
    <3> QED BY <2>1, <3>1 DEF Inv, RegistryInv, Types
  <2>5. PICK c \in [Names -> Nat] : SortedBy(c)
    BY <2>1 DEF SortedAlike
  <2> DEFINE R == {r \in Names : \E t \in D : WaitsFor(t, r)}
  <2>6. CASE R # {}
    <3>1. PICK r \in R : \A s \in R : ~Less(c, r, s)
      BY <2>6, LastOf
    <3>2. PICK t \in D : WaitsFor(t, r)
      BY <3>1
    <3>3. b[t] \in D /\ b[b[t]] \in D /\ BlockedBy(t, b[t]) /\ BlockedBy(b[t], b[b[t]])
      BY <2>2
    <3>4. PICK s \in Names : WaitsFor(b[t], s) /\ Less(c, r, s)
      BY <2>1, <2>5, <3>2, <3>3, HolderWaitsForLater
    <3> QED BY <3>1, <3>3, <3>4
  <2>7. CASE R = {}
    <3>1. PICK d \in [Modules -> Nat] : Numbers(d)
      BY <2>1 DEF NeedsAreAcyclic
    <3>2. ASSUME NEW t \in D PROVE Top(t).at = "enter" /\ Top(t).mod \in Modules
      <4>1. /\ Top(t).mod \in Modules /\ Top(t).n \in Nat
        BY <2>1, <2>3, TopTypes DEF Inv
      <4>2. Top(t).at = "lock" /\ Top(t).n < Len(acquirer[Top(t).mod])
              => WaitsFor(t, acquirer[Top(t).mod][Top(t).n + 1].name)
                 /\ acquirer[Top(t).mod][Top(t).n + 1].name \in Names
        <5>1. Top(t).n < Len(acquirer[Top(t).mod]) => acquirer[Top(t).mod][Top(t).n + 1] \in Entry
          BY <2>4, <4>1
        <5> QED BY <2>3, <5>1 DEF WaitsFor, Entry
      <4> QED BY <2>2, <2>7, <4>1, <4>2 DEF BlockedBy
    <3> DEFINE S == {d[Top(t).mod] : t \in D}
    <3>3. S \in SUBSET Nat /\ S # {}
      BY <2>1, <3>2
    <3>4. PICK x \in S : \A y \in S : ~(y < x)
      BY <3>3, SmallestOf
    <3>5. PICK t \in D : d[Top(t).mod] = x
      BY <3>4
    <3>6. b[t] \in D /\ BlockedBy(t, b[t])
      BY <2>2
    <3>7. d[Top(b[t]).mod] < d[Top(t).mod]
      BY <2>1, <2>3, <3>1, <3>2, <3>6, HolderEntersDeeper
    <3> QED BY <3>4, <3>5, <3>6, <3>7
  <2> QED BY <2>6, <2>7
<1>2. OneOrder => (phase = "run" /\ CountedOnce => SortedAlike)
  BY DEF OneOrder, SortedAlike
<1>3. Init => Inv /\ OneOrder
  BY InvInit, OneOrderInit
<1>4. Inv /\ OneOrder /\ [Next]_vars => Inv' /\ OneOrder'
  BY InvNext, OneOrderNext
<1> QED BY <1>1, <1>2, <1>3, <1>4, PTL DEF Spec
=============================================================================
