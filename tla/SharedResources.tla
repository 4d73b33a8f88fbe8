-------------------------- MODULE SharedResources --------------------------
(***************************************************************************)
(* The resources that modules of the framework share: the registry that    *)
(* counts their users (SharedResourcesRegistry), the acquirer each module  *)
(* gets from it (SharedResourcesAcquirer), and the modules that take their *)
(* own mutex and then the acquirer around an event (EDProducer, and the    *)
(* one:: modules alike).  A module that asks for a product of an           *)
(* unscheduled module gives the acquirer back while that module runs.      *)
(***************************************************************************)
EXTENDS Naturals, FiniteSets, Sequences

CONSTANTS
    Threads,
    Modules,
    Names,            \* the resource names: numbers, in the order of the strings
    Legacy,           \* kLegacyModuleResourceName
    Configurations,   \* a job: the names that each of its modules declares, and the
                      \* unscheduled modules that each gets a product from
    MaxChanges        \* bound: modules exchanged by a looper

ASSUME NamesAssumption == Names \subseteq Nat /\ IsFiniteSet(Names) /\ Legacy \in Names
ASSUME ConfigurationsAssumption ==
    Configurations \subseteq [uses : [Modules -> SUBSET Names], needs : [Modules -> SUBSET Modules]]
ASSUME MaxChangesAssumption == MaxChanges \in Nat

VARIABLES
    job,          \* the job's configuration; a module that declares nothing may be absent
    count,        \* resourceMap_[name].second; 0 while the name is not in the map
    mutex,        \* resourceMap_[name].first: 0 for null, else which mutex it is
    nLegacy,
    pending,      \* the registrations that the modules' constructors will still make
    acquirer,     \* each module's resources, in locking order
    phase,        \* "construct" or "run"
    stack,        \* per thread the doEvent calls under way, the innermost last
    changes       \* modules exchanged so far

registry == <<count, mutex, nLegacy>>
vars == <<job, registry, pending, acquirer, phase, stack, changes>>

FrameState == {"enter", "lock", "work", "away", "commit"}
Uses == job.uses
Needs == job.needs

Entry == [name : Names, mutex : Nat]

TypeOK ==
    /\ job \in Configurations
    /\ count \in [Names -> Nat] /\ mutex \in [Names -> Nat] /\ nLegacy \in Nat
    /\ pending \subseteq (Modules \X Names)
    /\ \A m \in Modules : acquirer[m] \in Seq(Entry)
    /\ phase \in {"construct", "run"}
    /\ \A t \in Threads : \A i \in DOMAIN stack[t] :
          LET f == stack[t][i]
          IN  /\ f.mod \in Modules /\ f.at \in FrameState /\ f.asked \in BOOLEAN
              /\ f.n \in 0..Len(acquirer[f.mod])
              /\ f.at \in {"enter", "away", "commit"} => f.n = 0
              /\ f.at = "work" => f.n = Len(acquirer[f.mod])
              /\ f.at = "away" <=> i < Len(stack[t])
    /\ changes \in 0..MaxChanges

Init ==
    /\ job \in Configurations
    /\ count = [r \in Names |-> 0] /\ mutex = [r \in Names |-> 0] /\ nLegacy = 0
    /\ pending = {p \in Modules \X Names : p[2] \in Uses[p[1]]}
    /\ acquirer = [m \in Modules |-> <<>>]
    /\ phase = "construct"
    /\ stack = [t \in Threads |-> <<>>]
    /\ changes = 0

InMap(r) == count[r] > 0

-----------------------------------------------------------------------------
(* The registry *)

\* Mutant: resources named after a legacy module came forget it.
RegisterSharedResourceLate(r) ==
    /\ IF r = Legacy
       THEN LET counted == {s \in Names : InMap(s)} \union {Legacy}
            IN /\ nLegacy' = nLegacy + 1
               /\ count' = [s \in Names |-> IF s \in counted THEN count[s] + 1 ELSE count[s]]
               /\ mutex' = [s \in Names |-> IF s \in counted /\ mutex[s] = 0 THEN 1 ELSE mutex[s]]
       ELSE /\ count' = [count EXCEPT ![r] = @ + 1]
            /\ mutex' = [mutex EXCEPT ![r] = IF count[r] = 1 THEN @ + 1 ELSE @]
            /\ UNCHANGED nLegacy

RegisterSharedResource(r) ==
    /\ IF r = Legacy
       THEN LET counted == {s \in Names : InMap(s)} \union {Legacy}
            IN /\ nLegacy' = nLegacy + 1
               /\ count' = [s \in Names |-> IF s \in counted THEN count[s] + 1 ELSE count[s]]
               /\ mutex' = [s \in Names |-> IF s \in counted /\ mutex[s] = 0 THEN 1 ELSE mutex[s]]
       ELSE LET new == count[r] + 1
            IN /\ count' = [count EXCEPT ![r] = IF new = 1 THEN 1 + nLegacy ELSE new]
               /\ mutex' = [mutex EXCEPT ![r] =
                              IF new = 2 \/ (new = 1 /\ nLegacy > 0) THEN @ + 1 ELSE @]
               /\ UNCHANGED nLegacy

\* The resources that an acquirer for these names would take if all of them
\* were shared: a legacy module takes every resource but its own, unless that
\* is the only one there is.
Wanted(names) ==
    IF Legacy \in names
    THEN {r \in Names : InMap(r) /\ (r = Legacy => \A s \in Names \ {r} : ~InMap(s))}
    ELSE names

Shared(names) == {r \in Wanted(names) : count[r] > 1}

\* The order of the keys of sortedResources: the number of users, then the name.
Before(r, s) == count[r] < count[s] \/ (count[r] = count[s] /\ r < s)

\* Mutant: legacy modules lock the resources in the order of their names, the
\* others in the opposite one.
CreateAcquirerUnsorted(names) ==
    LET n == Cardinality(Shared(names))
        order == CHOOSE s \in [1..n -> Shared(names)] :
                    \A i, j \in 1..n : i < j => IF Legacy \in names THEN s[i] > s[j] ELSE s[i] < s[j]
    IN  [i \in 1..n |-> [name |-> order[i], mutex |-> mutex[order[i]]]]

\* createAcquirer: the shared ones of the names, sorted.
CreateAcquirer(names) ==
    LET n == Cardinality(Shared(names))
        order == CHOOSE s \in [1..n -> Shared(names)] :
                    \A i, j \in 1..n : i < j => Before(s[i], s[j])
    IN  [i \in 1..n |-> [name |-> order[i], mutex |-> mutex[order[i]]]]

\* The constructors run one after the other, in any order.
Construct(m, r) ==
    /\ phase = "construct"
    /\ <<m, r>> \in pending
    /\ \A n \in Modules \ {m} :
          {s \in Uses[n] : <<n, s>> \in pending} \in {{}, Uses[n]}
    /\ RegisterSharedResource(r)
    /\ pending' = pending \ {<<m, r>>}
    /\ UNCHANGED <<job, acquirer, phase, stack, changes>>

BeginJob ==
    /\ phase = "construct"
    /\ pending = {}
    /\ acquirer' = [m \in Modules |-> CreateAcquirer(Uses[m])]
    /\ phase' = "run"
    /\ UNCHANGED <<job, registry, pending, stack, changes>>

\* Schedule::changeModule, called by a looper at the end of a loop: a module of
\* the same type is constructed, which registers its resources once more, and
\* its beginJob creates its acquirer.  The registrations are those of
\* RegisterSharedResource for names that are in the map already: a legacy
\* module's adds one to every resource of the map.
ChangeModule(m) ==
    /\ phase = "run"
    /\ changes < MaxChanges
    /\ \A t \in Threads : stack[t] = <<>>
    /\ Uses[m] # {}
    /\ LET again == Uses[m] \ {Legacy}
           legacy == Legacy \in Uses[m]
       IN  /\ nLegacy' = IF legacy THEN nLegacy + 1 ELSE nLegacy
           /\ count' = [r \in Names |-> count[r] + (IF r \in again THEN 1 ELSE 0)
                                                 + (IF legacy /\ InMap(r) THEN 1 ELSE 0)]
           /\ mutex' = [r \in Names |-> IF r \in again /\ count[r] = 1 THEN mutex[r] + 1 ELSE mutex[r]]
    /\ UNCHANGED <<job, pending, phase, stack>>
    /\ acquirer' = [acquirer EXCEPT ![m] = CreateAcquirer(Uses[m])']
    /\ changes' = changes + 1

-----------------------------------------------------------------------------
(* Who holds what *)

Top(t) == stack[t][Len(stack[t])]

HoldsModule(t, m) == \E i \in DOMAIN stack[t] : stack[t][i].mod = m /\ stack[t][i].at # "enter"

HoldsResource(t, e) ==
    \E i \in DOMAIN stack[t] :
        LET f == stack[t][i] IN \E j \in 1..f.n : acquirer[f.mod][j] = e

\* The thread sits in lock() of the mutex that another thread holds.
BlockedBy(t, u) ==
    /\ stack[t] # <<>>
    /\ t # u
    /\ LET f == Top(t)
       IN \/ f.at = "enter" /\ HoldsModule(u, f.mod)
          \/ /\ f.at = "lock" /\ f.n < Len(acquirer[f.mod])
             /\ HoldsResource(u, acquirer[f.mod][f.n + 1])

Blocked(t) == \E u \in Threads : BlockedBy(t, u)

-----------------------------------------------------------------------------
(* doEvent *)

Frame(m) == [mod |-> m, at |-> "enter", n |-> 0, asked |-> FALSE]

SetTop(t, f) == stack' = [stack EXCEPT ![t][Len(stack[t])] = f]

Still == UNCHANGED <<job, registry, pending, acquirer, phase, changes>>

DoEvent(t, m) ==
    /\ phase = "run"
    /\ Uses[m] # {}
    /\ stack[t] = <<>>
    /\ stack' = [stack EXCEPT ![t] = <<Frame(m)>>]
    /\ Still

\* std::lock_guard<std::mutex> guard(mutex_)
LockModule(t) ==
    /\ stack[t] # <<>> /\ Top(t).at = "enter"
    /\ ~Blocked(t)
    /\ SetTop(t, [Top(t) EXCEPT !.at = "lock"])
    /\ Still

\* The next mutex of SharedResourcesAcquirer::lock, or its end.  The mutexes
\* are recursive: what this thread holds already does not block it.
Lock(t) ==
    /\ stack[t] # <<>> /\ Top(t).at = "lock"
    /\ ~Blocked(t)
    /\ SetTop(t, IF Top(t).n < Len(acquirer[Top(t).mod])
                 THEN [Top(t) EXCEPT !.n = @ + 1]
                 ELSE [Top(t) EXCEPT !.at = "work"])
    /\ Still

\* Mutant: the resources are kept while the unscheduled module runs.
GetProductHolding(t, m) ==
    /\ stack[t] # <<>> /\ Top(t).at = "work" /\ ~Top(t).asked
    /\ m \in Needs[Top(t).mod]
    /\ stack' = [stack EXCEPT ![t] =
                   Append([@ EXCEPT ![Len(@)].at = "away", ![Len(@)].asked = TRUE], Frame(m))]
    /\ Still

\* Event::getBy... of a product of an unscheduled module: temporaryUnlock.
\* Unlocking never waits, so all the mutexes are given back at once.
GetProduct(t, m) ==
    /\ stack[t] # <<>> /\ Top(t).at = "work" /\ ~Top(t).asked
    /\ m \in Needs[Top(t).mod]
    /\ stack' = [stack EXCEPT ![t] =
                   Append([@ EXCEPT ![Len(@)].at = "away", ![Len(@)].asked = TRUE, ![Len(@)].n = 0],
                          Frame(m))]
    /\ Still

\* The module's produce is over, or threw: the acquirer's guard unlocks it.
EndWork(t) ==
    /\ stack[t] # <<>> /\ Top(t).at = "work"
    /\ SetTop(t, [Top(t) EXCEPT !.at = "commit", !.n = 0])
    /\ Still

\* commit_, and mutex_ is released.  A caller waiting in temporaryUnlock goes on
\* to lock its resources again.
Leave(t) ==
    /\ stack[t] # <<>> /\ Top(t).at = "commit"
    /\ LET rest == SubSeq(stack[t], 1, Len(stack[t]) - 1)
       IN  stack' = [stack EXCEPT ![t] =
                       IF rest = <<>> THEN <<>> ELSE [rest EXCEPT ![Len(rest)].at = "lock"]]
    /\ Still

Next ==
    \/ \E m \in Modules, r \in Names : Construct(m, r)
    \/ BeginJob
    \/ \E m \in Modules : ChangeModule(m)
    \/ \E t \in Threads :
          \/ \E m \in Modules : DoEvent(t, m) \/ GetProduct(t, m)
          \/ LockModule(t) \/ Lock(t) \/ EndWork(t) \/ Leave(t)

Spec == Init /\ [][Next]_vars

-----------------------------------------------------------------------------
(* Properties *)

\* Modules that declare a common resource, and legacy modules with all that
\* declare any, do not work at the same time.
Conflict(m, n) ==
    \/ Uses[m] \intersect Uses[n] # {}
    \/ Legacy \in Uses[m] /\ Uses[n] # {}
    \/ Legacy \in Uses[n] /\ Uses[m] # {}

Working(t, m) == stack[t] # <<>> /\ Top(t).mod = m /\ Top(t).at = "work"

ResourceExclusion ==
    \A t, u \in Threads : \A m, n \in Modules :
        (t # u /\ Working(t, m) /\ Working(u, n)) => ~Conflict(m, n)

\* An acquirer keeps bare pointers to the registry's mutexes, which the registry
\* makes late and by cases: none is null, and none was replaced since.
MutexesAlive ==
    phase = "run" =>
        \A m \in Modules : \A i \in DOMAIN acquirer[m] :
            acquirer[m][i].mutex # 0 /\ acquirer[m][i].mutex = mutex[acquirer[m][i].name]

\* Consistent sorting avoids deadlocks (SharedResourcesRegistry.cc:92): no ring
\* of threads wait for one another, the modules' own mutexes included, even
\* while modules call unscheduled ones.
NoDeadlock ==
    \A D \in (SUBSET Threads) \ {{}} : \E t \in D : \A u \in D : ~BlockedBy(t, u)
=============================================================================
