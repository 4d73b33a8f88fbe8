------------------------- MODULE StreamScheduleProofs -------------------------
(* For any configurations, modules and products, and any number of events:    *)
(* the trigger bits say what the modules of a path did, no module reads a     *)
(* product that was given up, a product goes as soon as no reader of it is    *)
(* left, and no assert fails.                                                 *)
(*                                                                            *)
(* The invariant says where the stream is (PlaceInv, StackInv), what the      *)
(* counts of the early deletion count (DeleteInv), and what each bit that is  *)
(* set stands for (BitsInv).                                                  *)
EXTENDS StreamSchedule, FiniteSetTheorems, WellFoundedInduction, TLAPS

(* Where the stream is *)

\* No exception is left that is to be ignored completely; the asserts did not fail.
Handled ==
  /\ phase # "aborted" /\ ret # "IgnoreCompletely"
  /\ \A m \in Modules : worker[m] # "IgnoreCompletely"

\* Workers are called by a path, which has another one as long as none is called.
PlaceInv ==
  /\ phase \notin {"trig", "end"} => stack = <<>> /\ ret = "none"
  /\ phase \in {"trig", "end"} => place.path >= 1
  /\ stack # <<>> \/ ret # "none" => InPath /\ place.at >= 1
  /\ InPath => place.at <= Len(ThePath)
  /\ InPath /\ stack = <<>> /\ ret = "none" => place.at < Len(ThePath)

\* The stack: the worker of the path, and then one unscheduled module called for a product
\* of the next; all of them are still to be decided.
StackInv ==
  /\ stack # <<>> => stack[1].m = ThePath[place.at].m
  /\ \A k \in 2..Len(stack) :
       /\ stack[k].m \in Unscheduled(config)
       /\ ToSet(stack[k].todo) \subseteq ToSet(config.consumes[stack[k].m])
  /\ \A k \in 1..Len(stack) : worker[stack[k].m] = "Ready"
  /\ \A k \in 1..(Len(stack) - 1) :
       stack[k].todo # <<>> /\ producer[Head(stack[k].todo)] = stack[k + 1].m
  /\ stack # <<>> /\ ret # "none" => Last(stack).todo # <<>>
  /\ \A m \in ran : worker[m] # "Ready"

(* Early deletion *)

AllPlaces(m) == PlacesIn(config, {"trig", "end"}, m)
\* The places of paths that have not ended early.
OpenPlaces(m) == {x \in AllPlaces(m) : <<x[1], x[2]>> \notin stopped}
\* A reader that will not ask any more.
IsGone(m) == m \in ran \/ (AllPlaces(m) # {} /\ OpenPlaces(m) = {})
ReadersLeft(b) == {m \in Readers(b) : ~IsGone(m)}

\* Only paths before the present one have ended.
StoppedBefore ==
  \A x \in stopped : /\ x[1] = phase => x[2] < place.path
                     /\ phase = "trig" => x[1] = "trig"

PathsLeftRight ==
  \A m \in Modules : Deletes(m) # {} =>
    pathsLeft[m] = IF m \in ran THEN 0 ELSE Cardinality(OpenPlaces(m))
CountsRight == \A b \in deletable : count[b] = Cardinality(ReadersLeft(b))
DeletedRight ==
  \A b \in Products : (status[b] = "deleted") <=> (b \in deletable /\ ReadersLeft(b) = {})

DeleteInv ==
  /\ \A b \in deletable : Readers(b) # {}
  /\ phase \in {"construct", "select", "idle"} =>
       /\ \A m \in Modules : Deletes(m) # {} => pathsLeft[m] = Cardinality(AllPlaces(m))
       /\ \A b \in deletable : count[b] = Cardinality(Readers(b))
  /\ phase \in {"trig", "end"} =>
       StoppedBefore /\ PathsLeftRight /\ CountsRight /\ DeletedRight

(* Trigger bits *)

\* The module at a place of a path was asked and let the path go on.
LetPass(p, i) == worker[config.trig_paths[p][i].m] # "Ready" /\ ~Decides(p, i)
\* A path that nobody entered.
Untouched(p) ==
  results[p] = [state |-> IF config.trig_paths[p] = <<>> THEN "Pass" ELSE "Ready", index |-> 0]
\* The bit is that of the first module that decides, or of all of them.
BitRight(p) ==
  LET path == config.trig_paths[p]
      r == results[p]
  IN  \/ path = <<>> /\ r = [state |-> "Pass", index |-> 0]
      \/ /\ path # <<>> /\ r = [state |-> "Pass", index |-> Len(path) - 1]
         /\ \A i \in DOMAIN path : LetPass(p, i)
      \/ /\ r.index + 1 \in DOMAIN path /\ Decides(p, r.index + 1)
         /\ r.state = IF worker[path[r.index + 1].m] \in Actions \ {"FailPath"}
                      THEN "Exception" ELSE "Fail"
         /\ \A i \in 1..r.index : LetPass(p, i)

\* What a worker in a state other than Ready answers.
Answer(w) == CASE w = "Pass" -> "true" [] w = "Fail" -> "false" [] OTHER -> w

BitsInv ==
  /\ phase = "trig" =>
       /\ \A p \in DOMAIN results : IF p < place.path THEN BitRight(p) ELSE Untouched(p)
       /\ InPath => \A i \in 1..(place.at - 1) : LetPass(place.path, i)
       /\ InPath /\ stack = <<>> /\ ret = "none" /\ place.at > 0 => LetPass(place.path, place.at)
       /\ InPath /\ stack = <<>> /\ ret # "none" =>
            worker[ThePath[place.at].m] # "Ready" /\ ret = Answer(worker[ThePath[place.at].m])
  /\ phase = "end" =>
       \/ \A p \in DOMAIN results : BitRight(p)
       \/ \E q \in DOMAIN results :
            /\ results[q].state = "Exception"
            /\ \A p \in DOMAIN results : IF p <= q THEN BitRight(p) ELSE Untouched(p)

IInv == TypeOK /\ Handled /\ PlaceInv /\ StackInv /\ DeleteInv /\ BitsInv
-----------------------------------------------------------------------------
(* Sequences and sets *)

\* The elements of an appended sequence.
LEMMA AppendFacts ==
  ASSUME NEW S, NEW s \in Seq(S), NEW x \in S
  PROVE  /\ Append(s, x) \in Seq(S) /\ Len(Append(s, x)) = Len(s) + 1
         /\ Last(Append(s, x)) = x /\ Append(s, x) # <<>>
         /\ \A k \in 1..Len(s) : Append(s, x)[k] = s[k]
BY DEF Last

\* The elements of a sequence without its last one.
LEMMA FrontFacts ==
  ASSUME NEW S, NEW s \in Seq(S), s # <<>>
  PROVE  /\ Front(s) \in Seq(S) /\ Len(Front(s)) = Len(s) - 1
         /\ Len(s) >= 1 /\ Last(s) = s[Len(s)] /\ Last(s) \in S
         /\ \A k \in 1..(Len(s) - 1) : Front(s)[k] = s[k]
<1>1. Len(s) \in Nat \ {0} OBVIOUS
<1>2. Front(s) = [k \in 1..(Len(s) - 1) |-> s[k]]
  BY <1>1 DEF Front
<1>3. Front(s) \in Seq(S) /\ Len(Front(s)) = Len(s) - 1 BY <1>1, <1>2
<1>4. s[Len(s)] \in S BY <1>1
<1>5. QED BY <1>1, <1>2, <1>3, <1>4 DEF Last

\* The head and the tail of a sequence are of its elements.
LEMMA TailFacts ==
  ASSUME NEW S, NEW s \in Seq(S), s # <<>>
  PROVE  Head(s) \in S /\ Head(s) \in ToSet(s) /\ Tail(s) \in Seq(S) /\ ToSet(Tail(s)) \subseteq ToSet(s)
<1>1. Len(s) \in Nat \ {0} OBVIOUS
<1>2. Head(s) = s[1] /\ 1 \in DOMAIN s BY <1>1
<1>3. Tail(s) \in Seq(S) /\ Len(Tail(s)) = Len(s) - 1 /\ \A i \in 1..(Len(s) - 1) : Tail(s)[i] = s[i + 1]
  BY <1>1
<1>4. ASSUME NEW i \in DOMAIN Tail(s)
      PROVE  Tail(s)[i] \in ToSet(s)
  <2>1. i \in 1..(Len(s) - 1) BY <1>3
  <2>2. i + 1 \in DOMAIN s /\ Tail(s)[i] = s[i + 1] BY <2>1, <1>1, <1>3
  <2>3. QED BY <2>2 DEF ToSet
<1>5. QED BY <1>2, <1>3, <1>4 DEF ToSet

\* A smallest element is the minimum.
LEMMA FirstIsMin ==
  ASSUME NEW S \in SUBSET Int, NEW i \in S, \A j \in S : i <= j
  PROVE  Min(S) = i
<1>1. Min(S) \in S /\ \A y \in S : Min(S) <= y BY DEF Min
<1>2. Min(S) \in Int /\ i \in Int /\ Min(S) <= i /\ i <= Min(S) BY <1>1
<1>3. QED BY <1>2

\* A non-empty set of numbers has a smallest element.
LEMMA SmallestOf ==
  ASSUME NEW S \in SUBSET Nat, S # {}
  PROVE  \E i \in S : \A j \in S : i <= j
<1>1. IsWellFoundedOn(OpToRel(<, Nat), Nat) BY NatLessThanWellFounded, Zenon
<1>2. PICK x \in S : \A y \in S : ~(<<y, x>> \in OpToRel(<, Nat))
  BY <1>1, WFMin, Zenon
<1>3. \A y \in S : ~(y < x) BY <1>2 DEF OpToRel
<1>4. QED BY <1>3

\* A finite set as a sequence.
LEMMA SetAsSeq ==
  ASSUME NEW S, IsFiniteSet(S)
  PROVE  SetToSeq(S) \in Seq(S)
<1>1. Cardinality(S) \in Nat /\ ExistsBijection(1..Cardinality(S), S) BY FS_CardinalityType
<1>2. PICK f \in Bijection(1..Cardinality(S), S) : TRUE BY <1>1 DEF ExistsBijection
<1>3. f \in [1..Cardinality(S) -> S] /\ IsInjective(f)
  BY <1>2 DEF Bijection, Injection, IsInjective
<1>4. SetToSeq(S) \in [1..Cardinality(S) -> S] BY <1>3 DEF SetToSeq
<1>5. QED BY <1>1, <1>4

\* What is taken out of a set is missing from its count.
LEMMA CountWithout ==
  ASSUME NEW S, IsFiniteSet(S), NEW T \in SUBSET S
  PROVE  /\ Cardinality(S) \in Nat /\ Cardinality(T) \in Nat /\ Cardinality(T) <= Cardinality(S)
         /\ Cardinality(S \ T) = Cardinality(S) - Cardinality(T)
         /\ Cardinality(S) = Cardinality(T) <=> S \ T = {}
         /\ Cardinality(S) = 0 <=> S = {}
<1>1. S \cap T = T OBVIOUS
<1>2. IsFiniteSet(S \ T) /\ Cardinality(S \ T) = Cardinality(S) - Cardinality(T) BY <1>1, FS_Difference
<1>3. Cardinality(S) \in Nat BY FS_CardinalityType
<1>4. IsFiniteSet(T) BY FS_Subset
<1>5. Cardinality(T) \in Nat /\ Cardinality(S \ T) \in Nat BY <1>2, <1>4, FS_CardinalityType
<1>6. Cardinality(S \ T) = 0 <=> S \ T = {} BY <1>2, FS_EmptySet
<1>7. Cardinality(S) = 0 <=> S = {} BY FS_EmptySet
<1>8. QED BY <1>2, <1>3, <1>5, <1>6, <1>7

-----------------------------------------------------------------------------
(* The configuration *)

\* What TypeOK says of the configuration.
LEMMA Shape ==
  ASSUME TypeOK
  PROVE  /\ ConfigurationShape(config) /\ config \in Configurations
         /\ \A ph : /\ Paths(ph) \in Seq(Seq(Places)) /\ Len(Paths(ph)) \in Nat
                    /\ DOMAIN Paths(ph) = 1..Len(Paths(ph))
                    /\ \A p \in DOMAIN Paths(ph) :
                         /\ Paths(ph)[p] \in Seq(Places) /\ Len(Paths(ph)[p]) \in Nat
                         /\ DOMAIN Paths(ph)[p] = 1..Len(Paths(ph)[p])
                         /\ \A i \in DOMAIN Paths(ph)[p] : Paths(ph)[p][i].m \in Modules
<1>1. config \in Configurations BY DEF TypeOK
<1>2. ConfigurationShape(config) BY <1>1, ConfigurationsAreWellFormed
<1>3. ASSUME NEW ph
      PROVE  /\ Paths(ph) \in Seq(Seq(Places)) /\ Len(Paths(ph)) \in Nat
             /\ DOMAIN Paths(ph) = 1..Len(Paths(ph))
  BY <1>2 DEF ConfigurationShape, Paths, PathsOf
<1>4. ASSUME NEW ph, NEW p \in DOMAIN Paths(ph)
      PROVE  /\ Paths(ph)[p] \in Seq(Places) /\ Len(Paths(ph)[p]) \in Nat
             /\ DOMAIN Paths(ph)[p] = 1..Len(Paths(ph)[p])
             /\ \A i \in DOMAIN Paths(ph)[p] : Paths(ph)[p][i].m \in Modules
  <2>1. Paths(ph)[p] \in Seq(Places) BY <1>3
  <2>2. \A x \in Places : x.m \in Modules BY DEF Places
  <2>3. \A i \in DOMAIN Paths(ph)[p] : Paths(ph)[p][i] \in Places BY <2>1
  <2>4. QED BY <2>1, <2>2, <2>3
<1>5. QED BY <1>1, <1>2, <1>3, <1>4

\* The next path is the next one that has modules, or there is none.
LEMMA NextPathFacts ==
  ASSUME TypeOK, NEW ph, NEW p \in Nat, p <= Len(Paths(ph))
  PROVE  /\ NextPath(ph, p) \in (p + 1)..(Len(Paths(ph)) + 1)
         /\ NextPath(ph, p) \in DOMAIN Paths(ph) => Paths(ph)[NextPath(ph, p)] # <<>>
         /\ \A r \in (p + 1)..(NextPath(ph, p) - 1) : Paths(ph)[r] = <<>>
<1> DEFINE s == Paths(ph)
           Ahead == {q \in (p + 1)..(Len(s) + 1) : q \in DOMAIN s => s[q] # <<>>}
<1>1. Len(s) \in Nat /\ DOMAIN s = 1..Len(s) BY Shape
<1>2. Len(s) + 1 \in Ahead BY <1>1
<1>3. Ahead \in SUBSET Nat BY <1>1
<1>4. PICK q \in Ahead : \A r \in Ahead : q <= r BY <1>2, <1>3, SmallestOf
<1>5. \A r \in (p + 1)..(q - 1) : s[r] = <<>>
  <2>1. SUFFICES ASSUME NEW r \in (p + 1)..(q - 1)
                 PROVE  s[r] = <<>>
    OBVIOUS
  <2>2. r \notin Ahead BY <2>1, <1>1, <1>4
  <2>3. r \in (p + 1)..(Len(s) + 1) BY <2>1, <1>1, <1>4
  <2>4. QED BY <2>2, <2>3
<1>6. \E x \in (p + 1)..(Len(s) + 1) :
        /\ x \in DOMAIN s => s[x] # <<>>
        /\ \A r \in (p + 1)..(x - 1) : s[r] = <<>>
  BY <1>4, <1>5
<1>7. NextPath(ph, p) = CHOOSE x \in (p + 1)..(Len(s) + 1) :
                          /\ x \in DOMAIN s => s[x] # <<>>
                          /\ \A r \in (p + 1)..(x - 1) : s[r] = <<>>
  BY DEF NextPath
<1> HIDE DEF s
<1>8. QED BY <1>6, <1>7 DEF s

-----------------------------------------------------------------------------
(* What the invariants say of a path's bit *)

\* A right bit is the expected one.
LEMMA RightIsExpected ==
  ASSUME TypeOK, NEW p \in DOMAIN results, BitRight(p)
  PROVE  results[p] = ExpectedStatus(p)
<1> DEFINE path == config.trig_paths[p]
           stops == {i \in DOMAIN path : Decides(p, i)}
           r == results[p]
<1>1. /\ path \in Seq(Places) /\ DOMAIN path = 1..Len(path) /\ Len(path) \in Nat
      /\ p \in DOMAIN config.trig_paths
  <2>1. p \in DOMAIN Paths("trig") /\ Paths("trig") = config.trig_paths
    BY DEF TypeOK, Paths, PathsOf
  <2>2. QED BY <2>1, Shape
<1>2. r \in [state : {"Ready", "Pass", "Fail", "Exception"}, index : Nat] BY <1>1 DEF TypeOK
<1>3. CASE path = <<>>
  <2>1. path = <<>> => r = [state |-> "Pass", index |-> 0]
    BY <1>1, <1>2, <1>3 DEF BitRight
  <2>2. QED BY <1>3, <2>1 DEF ExpectedStatus
<1>4. CASE path # <<>> /\ \A i \in DOMAIN path : LetPass(p, i)
  <2>1. stops = {} BY <1>4 DEF LetPass
  <2>2. r = [state |-> "Pass", index |-> Len(path) - 1] BY <1>4 DEF BitRight, LetPass
  <2>3. QED BY <1>4, <2>1, <2>2 DEF ExpectedStatus
<1>5. CASE path # <<>> /\ ~(\A i \in DOMAIN path : LetPass(p, i))
  <2>1. /\ r.index + 1 \in DOMAIN path /\ Decides(p, r.index + 1)
        /\ r.state = IF worker[path[r.index + 1].m] \in Actions \ {"FailPath"}
                     THEN "Exception" ELSE "Fail"
        /\ \A i \in 1..r.index : LetPass(p, i)
    BY <1>5 DEF BitRight
  <2>2. r.index + 1 \in stops /\ \A j \in stops : r.index + 1 <= j
    BY <1>1, <1>2, <2>1 DEF LetPass
  <2>3. stops \in SUBSET Int BY <1>1
  <2>4. Min(stops) = r.index + 1 BY <2>2, <2>3, FirstIsMin
  <2>5. r = [state |-> r.state, index |-> (r.index + 1) - 1] BY <1>2
  <2>6. stops # {} BY <2>2
  <2>7. QED BY <1>5, <2>1, <2>4, <2>5, <2>6 DEF ExpectedStatus
<1>6. QED BY <1>3, <1>4, <1>5

\* What is known of the workers stays known: a worker that was asked does not change.
LEMMA BitsStay ==
  ASSUME TypeOK, UNCHANGED config, NEW p \in DOMAIN config.trig_paths,
         \A m \in Modules : worker[m] # "Ready" => worker'[m] = worker[m]
  PROVE  /\ \A i \in DOMAIN config.trig_paths[p] : LetPass(p, i) => LetPass(p, i)'
         /\ results'[p] = results[p] /\ BitRight(p) => BitRight(p)'
         /\ results'[p] = results[p] /\ Untouched(p) => Untouched(p)'
<1> DEFINE path == config.trig_paths[p]
           r == results[p]
<1>1. /\ path \in Seq(Places) /\ DOMAIN path = 1..Len(path) /\ Len(path) \in Nat
      /\ \A i \in DOMAIN path : path[i].m \in Modules
  <2>1. p \in DOMAIN Paths("trig") /\ Paths("trig") = config.trig_paths
    BY DEF TypeOK, Paths, PathsOf
  <2>2. QED BY <2>1, Shape
<1>2. r \in [state : {"Ready", "Pass", "Fail", "Exception"}, index : Nat] BY DEF TypeOK
<1>3. ASSUME NEW i \in DOMAIN path, worker[path[i].m] # "Ready"
      PROVE  worker'[path[i].m] = worker[path[i].m] /\ (Decides(p, i)' <=> Decides(p, i))
  <2>1. worker'[path[i].m] = worker[path[i].m] BY <1>1, <1>3
  <2>2. QED BY <2>1 DEF Decides
<1>4. \A i \in DOMAIN path : LetPass(p, i) => LetPass(p, i)'
  BY <1>3 DEF LetPass
<1>5. \A i \in DOMAIN path : Decides(p, i) => worker[path[i].m] # "Ready"
  BY DEF Decides, Actions
<1>6. ASSUME results'[p] = r, BitRight(p)
      PROVE  BitRight(p)'
  <2>1. CASE path = <<>> /\ r = [state |-> "Pass", index |-> 0]
    BY <1>6, <2>1 DEF BitRight
  <2>2. CASE /\ path # <<>> /\ r = [state |-> "Pass", index |-> Len(path) - 1]
             /\ \A i \in DOMAIN path : LetPass(p, i)
    BY <1>4, <1>6, <2>2 DEF BitRight
  <2>3. CASE /\ r.index + 1 \in DOMAIN path /\ Decides(p, r.index + 1)
             /\ r.state = IF worker[path[r.index + 1].m] \in Actions \ {"FailPath"}
                          THEN "Exception" ELSE "Fail"
             /\ \A i \in 1..r.index : LetPass(p, i)
    <3>0. PICK j \in DOMAIN path : j = r.index + 1 /\ Decides(p, j) BY <2>3
    <3>a. worker'[path[j].m] = worker[path[j].m] /\ Decides(p, j)'
      BY <1>3, <1>5, <3>0
    <3>1. worker'[path[r.index + 1].m] = worker[path[r.index + 1].m] /\ Decides(p, r.index + 1)'
      BY <3>0, <3>a, <1>6
    <3>2. \A i \in 1..r.index : LetPass(p, i)'
      BY <1>1, <1>2, <1>4, <2>3
    <3>3. QED BY <1>6, <2>3, <3>1, <3>2 DEF BitRight
  <2>4. QED BY <1>6, <2>1, <2>2, <2>3 DEF BitRight
<1>7. results'[p] = r /\ Untouched(p) => Untouched(p)' BY DEF Untouched
<1>8. QED BY <1>4, <1>6, <1>7

-----------------------------------------------------------------------------
(* Calls of workers *)

\* No module is called for by itself: the workers on the stack differ.
LEMMA FramesDiffer ==
  ASSUME TypeOK, PlaceInv, StackInv, NEW j \in 1..Len(stack), NEW k \in 1..Len(stack), j < k
  PROVE  stack[j].m # stack[k].m
<1>1. Len(stack) \in Nat /\ \A i \in 1..Len(stack) : stack[i].m \in Modules /\ stack[i].todo \in Seq(Products)
  <2>1. stack \in Seq(Frames) BY DEF TypeOK
  <2>2. Len(stack) \in Nat /\ \A i \in 1..Len(stack) : stack[i] \in Frames BY <2>1
  <2>3. QED BY <2>2 DEF Frames
<1>2. CASE j = 1
  <2>1. InPath /\ stack[1].m = ThePath[place.at].m /\ place.at \in DOMAIN ThePath
    <3>1. stack # <<>> /\ InPath /\ place.at >= 1 /\ place.at <= Len(ThePath) BY <1>1 DEF PlaceInv
    <3>2. ThePath \in Seq(Places) BY <3>1, Shape DEF ThePath, InPath
    <3>3. QED BY <3>1, <3>2 DEF StackInv, TypeOK
  <2>2. ThePath \in ToSet(config.trig_paths) \cup ToSet(config.end_paths)
    BY <2>1 DEF InPath, ThePath, Paths, PathsOf, ToSet
  <2>3. ThePath[place.at].m \in Scheduled(config)
    BY <2>1, <2>2 DEF Scheduled, ToSet
  <2>4. stack[k].m \notin Scheduled(config) BY <1>1, <1>2 DEF StackInv, Unscheduled
  <2>5. QED BY <1>2, <2>1, <2>3, <2>4
<1>3. CASE j >= 2
  <2> SUFFICES ASSUME stack[j].m = stack[k].m
               PROVE  FALSE
    OBVIOUS
  <2> DEFINE ms == {stack[i].m : i \in j..(k - 1)}
  <2>1. \A i \in j..(k - 1) : i \in 2..Len(stack) /\ i + 1 \in 2..Len(stack) /\ i \in 1..(Len(stack) - 1)
    BY <1>1, <1>3
  <2>2. ms \in (SUBSET Unscheduled(config)) \ {{}}
    <3>1. \A i \in j..(k - 1) : stack[i].m \in Unscheduled(config) BY <2>1 DEF StackInv
    <3>2. j \in j..(k - 1) BY <1>1
    <3>3. QED BY <3>1, <3>2
  <2>3. PICK m \in ms : \A b \in ToSet(config.consumes[m]) : producer[b] \notin ms
    BY <2>2, CallsEnd, Shape
  <2>4. PICK i \in j..(k - 1) : m = stack[i].m BY <2>3
  <2>5. /\ stack[i].todo # <<>> /\ producer[Head(stack[i].todo)] = stack[i + 1].m
        /\ ToSet(stack[i].todo) \subseteq ToSet(config.consumes[m])
    BY <2>1, <2>4 DEF StackInv
  <2>6. Head(stack[i].todo) \in ToSet(config.consumes[m])
    BY <1>1, <2>1, <2>5, TailFacts
  <2>7. stack[i + 1].m \notin ms BY <2>3, <2>5, <2>6
  <2>8. CASE i + 1 \in j..(k - 1) BY <2>7, <2>8
  <2>9. CASE i + 1 = k
    <3>1. stack[k].m \in ms BY <1>1
    <3>2. QED BY <2>7, <2>9, <3>1
  <2>10. QED BY <1>1, <2>4, <2>8, <2>9
<1>4. QED BY <1>1, <1>2, <1>3

\* The innermost worker is of the path, which is its only worker then, or is unscheduled.
LEMMA Innermost ==
  ASSUME TypeOK, PlaceInv, StackInv, stack # <<>>
  PROVE  /\ Len(stack) \in Nat /\ Len(stack) >= 1 /\ Last(stack) = stack[Len(stack)]
         /\ Last(stack) \in Frames /\ Last(stack).m \in Modules /\ Last(stack).todo \in Seq(Products)
         /\ worker[Last(stack).m] = "Ready" /\ Last(stack).m \notin ran
         /\ InPath /\ place.at \in DOMAIN ThePath
         /\ \/ Len(stack) = 1 /\ Last(stack).m = ThePath[place.at].m
            \/ Len(stack) > 1 /\ Last(stack).m \in Unscheduled(config)
               /\ ToSet(Last(stack).todo) \subseteq ToSet(config.consumes[Last(stack).m])
<1>1. /\ Len(stack) \in Nat /\ Len(stack) >= 1 /\ Last(stack) = stack[Len(stack)]
      /\ Last(stack) \in Frames
  <2>1. stack \in Seq(Frames) BY DEF TypeOK
  <2>2. QED BY <2>1, FrontFacts
<1>2. worker[Last(stack).m] = "Ready" /\ Last(stack).m \notin ran BY <1>1 DEF StackInv
<1>3. InPath /\ place.at \in DOMAIN ThePath
  <2>1. InPath /\ place.at >= 1 /\ place.at <= Len(ThePath) BY DEF PlaceInv
  <2>2. ThePath \in Seq(Places) BY <2>1, Shape DEF ThePath, InPath
  <2>3. QED BY <2>1, <2>2 DEF TypeOK
<1>4. \/ Len(stack) = 1 /\ Last(stack).m = ThePath[place.at].m
      \/ /\ Len(stack) > 1 /\ Last(stack).m \in Unscheduled(config)
         /\ ToSet(Last(stack).todo) \subseteq ToSet(config.consumes[Last(stack).m])
  <2>1. CASE Len(stack) = 1 BY <1>1, <2>1 DEF StackInv
  <2>2. CASE Len(stack) > 1
    <3>1. Len(stack) \in 2..Len(stack) BY <1>1, <2>2
    <3>2. QED BY <1>1, <2>2, <3>1 DEF StackInv
  <2>3. Len(stack) \in Nat /\ Len(stack) >= 1 BY <1>1
  <2>4. Len(stack) = 1 \/ Len(stack) > 1 BY <2>3
  <2>5. QED BY <2>1, <2>2, <2>4, Zenon
<1>5. Last(stack).m \in Modules /\ Last(stack).todo \in Seq(Products) BY <1>1 DEF Frames
<1>6. QED BY <1>1, <1>2, <1>3, <1>4, <1>5

\* doWork answers at once, or starts the worker, or passes over an output module.
LEMMA DoWorkCases ==
  ASSUME TypeOK, NEW m \in Modules, DoWork(m)
  PROVE  \/ worker[m] # "Ready" /\ ret' = Answer(worker[m]) /\ UNCHANGED <<worker, stack>>
         \/ /\ worker[m] = "Ready" /\ UNCHANGED <<ret, worker>>
            /\ \E todo \in Seq(Products) :
                 /\ stack' = Append(stack, [m |-> m, todo |-> todo])
                 /\ m \notin config.outputs => todo = config.consumes[m]
         \/ /\ worker[m] = "Ready" /\ ret' = "true" /\ worker' = [worker EXCEPT ![m] = "Pass"]
            /\ m \in config.outputs /\ UNCHANGED stack
<1>1. CASE worker[m] # "Ready" BY <1>1 DEF DoWork, Answer
<1>2. CASE worker[m] = "Ready" /\ prePrefetchSelection(m)
  <2>1. itemsToGetFromEvent(m) \in Seq(Products)
    <3>1. keptProducts[m] \in SUBSET Products BY DEF TypeOK
    <3>2. IsFiniteSet(keptProducts[m]) BY <3>1, FS_Subset, ConfigurationsAreWellFormed
    <3>3. SetToSeq(keptProducts[m]) \in Seq(keptProducts[m]) BY <3>2, SetAsSeq
    <3>4. SetToSeq(keptProducts[m]) \in Seq(Products) BY <3>1, <3>3
    <3>5. config.consumes[m] \in Seq(Products) BY Shape DEF ConfigurationShape
    <3>6. QED BY <3>4, <3>5 DEF itemsToGetFromEvent
  <2>2. m \notin config.outputs => itemsToGetFromEvent(m) = config.consumes[m]
    BY DEF itemsToGetFromEvent
  <2>3. QED BY <1>2, <2>1, <2>2 DEF DoWork
<1>3. CASE worker[m] = "Ready" /\ ~prePrefetchSelection(m)
  BY <1>3 DEF DoWork, prePrefetchSelection
<1>4. QED BY <1>1, <1>2, <1>3

\* The worker that ends by an exception keeps it, or passes.
LEMMA CatchCases ==
  ASSUME NEW m \in Modules, NEW e \in Actions, Catch(m, e)
  PROVE  \E w \in ({"Pass"} \cup Actions) \ {"IgnoreCompletely"} :
           worker' = [worker EXCEPT ![m] = w] /\ ret' = Answer(w) /\ stack' = Front(stack)
<1>1. ActionFor(e, Len(stack) = 1) \in Actions BY DEF ActionFor, Actions
<1>2. CASE ActionFor(e, Len(stack) = 1) = "IgnoreCompletely"
  <2>1. worker' = [worker EXCEPT ![m] = "Pass"] /\ ret' = Answer("Pass") /\ stack' = Front(stack)
    BY <1>2 DEF Catch, Answer
  <2>2. QED BY <2>1 DEF Actions
<1>3. CASE ActionFor(e, Len(stack) = 1) # "IgnoreCompletely"
  <2> DEFINE w == ActionFor(e, Len(stack) = 1)
  <2>1. worker' = [worker EXCEPT ![m] = w] /\ ret' = w /\ stack' = Front(stack) BY <1>3 DEF Catch
  <2>2. Answer(w) = w BY <1>1 DEF Answer, Actions
  <2>3. QED BY <1>1, <1>3, <2>1, <2>2
<1>4. QED BY <1>2, <1>3

-----------------------------------------------------------------------------
(* Early deletion *)

\* The places of a module are finitely many.
LEMMA PlacesFacts ==
  ASSUME TypeOK, NEW m
  PROVE  /\ IsFiniteSet(AllPlaces(m)) /\ IsFiniteSet(OpenPlaces(m))
         /\ \A x : x \in AllPlaces(m) <=>
              \E ph \in {"trig", "end"} : \E p \in DOMAIN Paths(ph) : \E i \in DOMAIN Paths(ph)[p] :
                x = <<ph, p, i>> /\ Paths(ph)[p][i].m = m
<1> DEFINE D(ph, p) == {j \in DOMAIN Paths(ph)[p] : Paths(ph)[p][j].m = m}
           Here(ph, p) == {<<ph, p, i>> : i \in D(ph, p)}
           OfKind(ph) == {Here(ph, p) : p \in DOMAIN Paths(ph)}
           Kinds == {UNION OfKind(ph) : ph \in {"trig", "end"}}
<1>1. AllPlaces(m) = UNION Kinds BY DEF AllPlaces, PlacesIn, Paths
<1>2. ASSUME NEW ph, NEW p \in DOMAIN Paths(ph)
      PROVE  IsFiniteSet(Here(ph, p))
  <2>1. DOMAIN Paths(ph)[p] = 1..Len(Paths(ph)[p]) /\ Len(Paths(ph)[p]) \in Nat BY Shape
  <2>2. IsFiniteSet(DOMAIN Paths(ph)[p]) BY <2>1, FS_Interval
  <2>3. IsFiniteSet(D(ph, p)) BY <2>2, FS_Subset
  <2> DEFINE f == [i \in D(ph, p) |-> <<ph, p, i>>]
  <2>4. f \in Surjection(D(ph, p), Here(ph, p)) BY DEF Surjection
  <2> HIDE DEF f, D, Here
  <2>5. QED BY <2>3, <2>4, FS_Surjection
<1>3. ASSUME NEW ph
      PROVE  IsFiniteSet(UNION OfKind(ph))
  <2>1. DOMAIN Paths(ph) = 1..Len(Paths(ph)) /\ Len(Paths(ph)) \in Nat BY Shape
  <2>2. IsFiniteSet(DOMAIN Paths(ph)) BY <2>1, FS_Interval
  <2> DEFINE f == [p \in DOMAIN Paths(ph) |-> Here(ph, p)]
  <2>3. f \in Surjection(DOMAIN Paths(ph), OfKind(ph)) BY DEF Surjection
  <2>4. \A X \in OfKind(ph) : IsFiniteSet(X) BY <1>2
  <2> HIDE DEF f, OfKind
  <2>5. IsFiniteSet(OfKind(ph)) BY <2>2, <2>3, FS_Surjection
  <2>6. QED BY <2>4, <2>5, FS_UNION
<1>4. IsFiniteSet(AllPlaces(m))
  <2>1. Kinds = {UNION OfKind("trig")} \cup {UNION OfKind("end")} OBVIOUS
  <2>2. IsFiniteSet(UNION OfKind("trig")) /\ IsFiniteSet(UNION OfKind("end")) BY <1>3
  <2>3. AllPlaces(m) = (UNION OfKind("trig")) \cup (UNION OfKind("end")) BY <1>1, <2>1
  <2> HIDE DEF OfKind
  <2>4. QED BY ZenonT(30), <2>2, <2>3, FS_Union
<1>5. IsFiniteSet(OpenPlaces(m)) BY <1>4, FS_Subset DEF OpenPlaces
<1>6. QED BY <1>1, <1>4, <1>5

\* The places in the present path, counted as handleEarlyFinish calls the helper.
LEMMA PlacesHere ==
  ASSUME TypeOK, InPath, NEW m
  PROVE  /\ PlacesOf(m) \in Nat
         /\ PlacesOf(m) = Cardinality({x \in AllPlaces(m) : <<x[1], x[2]>> = <<phase, place.path>>})
<1> DEFINE D == {i \in DOMAIN ThePath : ThePath[i].m = m}
           Here == {x \in AllPlaces(m) : <<x[1], x[2]>> = <<phase, place.path>>}
           f == [i \in D |-> <<phase, place.path, i>>]
<1>1. phase \in {"trig", "end"} /\ place.path \in DOMAIN Paths(phase) /\ ThePath = Paths(phase)[place.path]
  BY DEF InPath, ThePath
<1>2. DOMAIN ThePath = 1..Len(ThePath) /\ Len(ThePath) \in Nat BY <1>1, Shape
<1>3. IsFiniteSet(D)
  <2>1. IsFiniteSet(DOMAIN ThePath) BY <1>2, FS_Interval
  <2>2. QED BY <2>1, FS_Subset
<1>4. \A i \in D : <<phase, place.path, i>> \in Here BY <1>1, PlacesFacts
<1>5. \A x \in Here : \E i \in D : x = <<phase, place.path, i>> BY <1>1, PlacesFacts
<1>6. f \in Bijection(D, Here)
  BY <1>4, <1>5 DEF Bijection, Injection, Surjection, IsInjective
<1> HIDE DEF f, D, Here
<1>7. ExistsBijection(D, Here) BY <1>6 DEF ExistsBijection
<1>8. Cardinality(Here) = Cardinality(D) /\ Cardinality(D) \in Nat
  BY <1>3, <1>7, FS_Bijection, FS_CardinalityType
<1>9. QED BY <1>8 DEF PlacesOf, D, Here

\* A scheduled module without an open place is out of reach.
LEMMA GoneIsDone ==
  ASSUME TypeOK, NEW m \in Modules
  PROVE  IsGone(m) <=> m \in ran \/ OutOfReach(m)
<1>1. m \in Scheduled(config) <=> AllPlaces(m) # {}
  <2>1. Paths("trig") = config.trig_paths /\ Paths("end") = config.end_paths BY DEF Paths, PathsOf
  <2>2. m \in Scheduled(config) <=>
          \E ph \in {"trig", "end"} : \E p \in DOMAIN Paths(ph) : \E i \in DOMAIN Paths(ph)[p] :
            Paths(ph)[p][i].m = m
    BY <2>1 DEF Scheduled, ToSet
  <2>3. QED BY ZenonT(30), <2>2, PlacesFacts
<1>2. OpenPlaces(m) = {} <=>
        \A ph \in {"trig", "end"} : \A p \in DOMAIN Paths(ph) :
          (\E i \in DOMAIN Paths(ph)[p] : Paths(ph)[p][i].m = m) => <<ph, p>> \in stopped
  <2>1. ASSUME OpenPlaces(m) = {}, NEW ph \in {"trig", "end"}, NEW p \in DOMAIN Paths(ph),
               NEW i \in DOMAIN Paths(ph)[p], Paths(ph)[p][i].m = m
        PROVE  <<ph, p>> \in stopped
    <3>1. <<ph, p, i>> \in AllPlaces(m) BY <2>1, PlacesFacts
    <3>2. QED BY <2>1, <3>1 DEF OpenPlaces
  <2>2. ASSUME \A ph \in {"trig", "end"} : \A p \in DOMAIN Paths(ph) :
                 (\E i \in DOMAIN Paths(ph)[p] : Paths(ph)[p][i].m = m) => <<ph, p>> \in stopped,
               NEW x \in OpenPlaces(m)
        PROVE  FALSE
    <3>1. x \in AllPlaces(m) /\ <<x[1], x[2]>> \notin stopped BY <2>2 DEF OpenPlaces
    <3>2. PICK ph \in {"trig", "end"} : \E p \in DOMAIN Paths(ph) : \E i \in DOMAIN Paths(ph)[p] :
            x = <<ph, p, i>> /\ Paths(ph)[p][i].m = m
      BY <3>1, PlacesFacts
    <3>3. PICK p \in DOMAIN Paths(ph) : \E i \in DOMAIN Paths(ph)[p] :
            x = <<ph, p, i>> /\ Paths(ph)[p][i].m = m
      BY <3>2
    <3>4. <<ph, p>> \in stopped BY <2>2, <3>3
    <3>5. QED BY <3>1, <3>3, <3>4
  <2>3. QED BY <2>1, <2>2
<1>3. QED BY <1>1, <1>2 DEF IsGone, OutOfReach

\* The readers of a product are finitely many.
LEMMA ReadersFinite ==
  ASSUME NEW b
  PROVE  IsFiniteSet(Readers(b)) /\ IsFiniteSet(ReadersLeft(b)) /\ ReadersLeft(b) \subseteq Readers(b)
<1>1. IsFiniteSet(Modules) BY ConfigurationsAreWellFormed
<1>2. Readers(b) \in SUBSET Modules /\ ReadersLeft(b) \in SUBSET Readers(b) BY DEF Readers, ReadersLeft
<1>3. IsFiniteSet(Readers(b)) BY <1>1, <1>2, FS_Subset
<1>4. QED BY <1>2, <1>3, FS_Subset

\* Helpers of modules that were not gone are told that these are gone now: the counts stay
\* those of the readers left, the products without one are deleted, no assert fails.
LEMMA GiveRight ==
  ASSUME TypeOK, CountsRight, DeletedRight,
         NEW ms \in SUBSET Modules, NEW next,
         NEW newStatus \in [Products -> {"default", "set", "failed", "deleted"}],
         Give(ms, newStatus, next), UNCHANGED <<config, deletable>>,
         \A b \in Products : newStatus[b] = "deleted" <=> status[b] = "deleted",
         \A m \in Modules : Deletes(m) # {} => (IsGone(m)' <=> IsGone(m) \/ m \in ms),
         \A m \in ms : Deletes(m) # {} => ~IsGone(m)
  PROVE  /\ CountsRight' /\ DeletedRight' /\ phase' = next
         /\ count' \in [Products -> Nat]
         /\ status' \in [Products -> {"default", "set", "failed", "deleted"}]
<1> DEFINE users(b) == {m \in ms : b \in Deletes(m)}
           after(b) == count[b] - Cardinality(users(b))
           deleted == {b \in Products : users(b) # {} /\ after(b) = 0}
<1>1. /\ count' = [b \in Products |-> after(b)]
      /\ status' = [b \in Products |-> IF b \in deleted THEN "deleted" ELSE newStatus[b]]
      /\ (\A b \in Products : after(b) >= 0) => phase' = next
  BY DEF Give, ModulesRan
<1>2. ASSUME NEW b \in deletable
      PROVE  /\ users(b) \subseteq ReadersLeft(b)
             /\ ReadersLeft(b)' = ReadersLeft(b) \ users(b)
  <2>1. \A m \in Readers(b) : m \in Modules /\ b \in Deletes(m) BY DEF Readers, Deletes
  <2>2. users(b) = {m \in ms : m \in Readers(b)} BY <2>1 DEF Readers, Deletes
  <2>3. Readers(b)' = Readers(b) BY DEF Readers
  <2>4. QED BY <2>1, <2>2, <2>3 DEF ReadersLeft
<1>3. ASSUME NEW b \in Products
      PROVE  /\ after(b) \in Nat
             /\ b \in deletable => after(b) = Cardinality(ReadersLeft(b)')
             /\ (b \in deleted \/ newStatus[b] = "deleted") <=> (b \in deletable /\ ReadersLeft(b)' = {})
  <2>1. CASE b \in deletable
    <3>1. IsFiniteSet(ReadersLeft(b)) /\ users(b) \in SUBSET ReadersLeft(b) BY <1>2, <2>1, ReadersFinite
    <3>2. count[b] = Cardinality(ReadersLeft(b)) BY <2>1 DEF CountsRight
    <3>3. ReadersLeft(b)' = ReadersLeft(b) \ users(b) BY <1>2, <2>1
    <3>4. newStatus[b] = "deleted" <=> ReadersLeft(b) = {} BY <2>1 DEF DeletedRight
    <3> DEFINE S == ReadersLeft(b)
               T == users(b)
    <3> HIDE DEF S, T
    <3>5. /\ Cardinality(S) \in Nat /\ Cardinality(T) \in Nat /\ Cardinality(T) <= Cardinality(S)
          /\ Cardinality(S \ T) = Cardinality(S) - Cardinality(T)
          /\ Cardinality(S) = Cardinality(T) <=> S \ T = {}
      <4>1. IsFiniteSet(S) /\ T \in SUBSET S BY <3>1 DEF S, T
      <4>2. QED BY <4>1, CountWithout
    <3>6. after(b) = Cardinality(S) - Cardinality(T) /\ ReadersLeft(b)' = S \ T
      BY <3>2, <3>3 DEF S, T
    <3>7. after(b) \in Nat /\ after(b) = Cardinality(S \ T) BY <3>5, <3>6
    <3>8. b \in deleted <=> T # {} /\ S \ T = {}
      <4>1. after(b) = 0 <=> S \ T = {} BY <3>5, <3>6
      <4>2. QED BY <4>1 DEF T
    <3>9. newStatus[b] = "deleted" <=> S = {} BY <3>4 DEF S
    <3>10. T \subseteq S BY <3>1 DEF S, T
    <3>11. QED BY <2>1, <3>6, <3>7, <3>8, <3>9, <3>10
  <2>2. CASE b \notin deletable
    <3>1. users(b) = {} BY <2>2 DEF Deletes
    <3>a. Cardinality(users(b)) = 0 BY <3>1, FS_EmptySet, Zenon
    <3>b. count[b] \in Nat BY DEF TypeOK
    <3>2. after(b) = count[b] /\ count[b] \in Nat BY <3>a, <3>b
    <3>3. newStatus[b] # "deleted" BY <2>2 DEF DeletedRight
    <3>4. QED BY <2>2, <3>1, <3>2, <3>3
  <2>3. QED BY <2>1, <2>2
<1> HIDE DEF after, deleted, users
<1>4. phase' = next BY <1>1, <1>3
<1>5. count' \in [Products -> Nat] BY <1>1, <1>3
<1>6. CountsRight'
  <2>1. deletable' = deletable /\ deletable \subseteq Products BY DEF TypeOK
  <2>2. QED BY <1>1, <1>3, <2>1 DEF CountsRight
<1>7. DeletedRight' BY <1>1, <1>3 DEF DeletedRight
<1>8. QED BY <1>1, <1>4, <1>5, <1>6, <1>7

\* Types of what the deletion keeps.
DeletionType ==
  /\ count \in [Products -> Nat] /\ pathsLeft \in [Modules -> Nat]
  /\ status \in [Products -> {"default", "set", "failed", "deleted"}]

\* After a reset each product counts its readers, each helper the places of its module.
LEMMA ResetRight ==
  ASSUME TypeOK, ResetCounts(config, deletable'), UNCHANGED config
  PROVE  /\ \A m \in Modules : Deletes(m)' # {} => pathsLeft'[m] = Cardinality(AllPlaces(m)')
         /\ \A b \in deletable' : b \in Products => count'[b] = Cardinality(Readers(b)')
         /\ count' \in [Products -> Nat] /\ pathsLeft' \in [Modules -> Nat]
<1>1. \A b : {m \in Modules : b \in config.mightGet[m]} = Readers(b) BY DEF Readers
<1>2. \A b : Cardinality(Readers(b)) \in Nat BY ReadersFinite, FS_CardinalityType
<1>3. \A b : Readers(b)' = Readers(b) BY DEF Readers
<1>4. \A m : nPathsOn(config, m) = Cardinality(AllPlaces(m)) /\ AllPlaces(m)' = AllPlaces(m)
  BY DEF nPathsOn, AllPlaces, PlacesIn
<1>5. \A m : Cardinality(AllPlaces(m)) \in Nat BY PlacesFacts, FS_CardinalityType
<1>6. count' = [b \in Products |-> IF b \in deletable' THEN Cardinality(Readers(b)) ELSE 0]
  BY <1>1 DEF ResetCounts
<1>7. pathsLeft' = [m \in Modules |-> IF Deletes(m)' # {} THEN Cardinality(AllPlaces(m)) ELSE 0]
  BY <1>4 DEF ResetCounts, Deletes
<1>8. QED BY <1>2, <1>3, <1>4, <1>5, <1>6, <1>7

\* Steps that tell no helper.
LEMMA NobodyTold ==
  ASSUME DeleteInv, UNCHANGED <<phase, config, deletable, count, pathsLeft, ran, stopped>>,
         place'.path = place.path,
         \A b \in Products : status'[b] = "deleted" <=> status[b] = "deleted"
  PROVE  DeleteInv'
<1>1. \A m : /\ AllPlaces(m)' = AllPlaces(m) /\ OpenPlaces(m)' = OpenPlaces(m)
             /\ Deletes(m)' = Deletes(m) /\ (IsGone(m)' <=> IsGone(m))
  BY DEF AllPlaces, OpenPlaces, PlacesIn, PathsOf, Deletes, IsGone
<1>2. \A b : Readers(b)' = Readers(b) /\ ReadersLeft(b)' = ReadersLeft(b)
  BY <1>1 DEF Readers, ReadersLeft
<1>3. StoppedBefore => StoppedBefore' BY DEF StoppedBefore
<1>4. PathsLeftRight => PathsLeftRight' BY <1>1 DEF PathsLeftRight
<1>5. CountsRight => CountsRight' BY <1>2 DEF CountsRight
<1>6. DeletedRight => DeletedRight' BY <1>2 DEF DeletedRight
<1>7. QED BY <1>1, <1>2, <1>3, <1>4, <1>5, <1>6 DEF DeleteInv

\* The end of an event resets everything.
LEMMA ResetKeeps ==
  ASSUME TypeOK, DeleteInv, EndEvent, UNCHANGED <<config, deletable, status>>
  PROVE  DeleteInv' /\ DeletionType'
<1>1. ResetCounts(config, deletable') /\ phase' = "idle" BY DEF EndEvent
<1>2. \A b : Readers(b)' = Readers(b) BY DEF Readers
<1>3. deletable' \subseteq Products BY DEF TypeOK
<1>4. QED BY <1>1, <1>2, <1>3, ResetRight DEF DeleteInv, DeletionType, TypeOK

\* The end of the trigger paths.
LEMMA AfterTriggerKeeps ==
  ASSUME TypeOK, DeleteInv, phase = "trig", AfterTriggerPaths,
         UNCHANGED <<config, deletable, status, ran, stopped>>
  PROVE  DeleteInv' /\ DeletionType'
<1>1. CASE ~endpathsAreActive BY <1>1, ResetKeeps DEF AfterTriggerPaths
<1>2. CASE endpathsAreActive
  <2>1. phase' = "end" /\ UNCHANGED <<count, pathsLeft>> BY <1>2 DEF AfterTriggerPaths
  <2>2. \A m : /\ AllPlaces(m)' = AllPlaces(m) /\ OpenPlaces(m)' = OpenPlaces(m)
               /\ Deletes(m)' = Deletes(m) /\ (IsGone(m)' <=> IsGone(m))
    BY DEF AllPlaces, OpenPlaces, PlacesIn, PathsOf, Deletes, IsGone
  <2>3. \A b : Readers(b)' = Readers(b) /\ ReadersLeft(b)' = ReadersLeft(b)
    BY <2>2 DEF Readers, ReadersLeft
  <2>4. StoppedBefore' BY <2>1 DEF StoppedBefore, DeleteInv
  <2>5. PathsLeftRight' BY <2>1, <2>2 DEF PathsLeftRight, DeleteInv
  <2>6. CountsRight' BY <2>1, <2>3 DEF CountsRight, DeleteInv
  <2>7. DeletedRight' BY <2>1, <2>3 DEF DeletedRight, DeleteInv
  <2>8. DeletionType' BY <2>1 DEF DeletionType, TypeOK
  <2>9. QED BY <2>1, <2>3, <2>4, <2>5, <2>6, <2>7, <2>8 DEF DeleteInv
<1>3. QED BY <1>1, <1>2

\* An event begins: all readers are left.
LEMMA StartKeeps ==
  ASSUME TypeOK, DeleteInv, StartEvent
  PROVE  DeleteInv' /\ DeletionType'
<1>1. /\ phase = "idle" /\ phase' = "trig" /\ ran' = {} /\ stopped' = {}
      /\ UNCHANGED <<config, deletable, count, pathsLeft>>
      /\ status' = [b \in Products |-> "default"]
  BY DEF StartEvent, delVars
<1>2. \A m : /\ AllPlaces(m)' = AllPlaces(m) /\ OpenPlaces(m)' = AllPlaces(m)
             /\ Deletes(m)' = Deletes(m) /\ ~IsGone(m)'
  BY <1>1 DEF AllPlaces, OpenPlaces, PlacesIn, PathsOf, Deletes, IsGone
<1>3. \A b : Readers(b)' = Readers(b) /\ ReadersLeft(b)' = Readers(b)
  BY <1>1, <1>2 DEF Readers, ReadersLeft
<1>4. StoppedBefore' BY <1>1 DEF StoppedBefore
<1>5. PathsLeftRight' BY <1>1, <1>2 DEF PathsLeftRight, DeleteInv
<1>6. CountsRight' BY <1>1, <1>3 DEF CountsRight, DeleteInv
<1>7. DeletedRight' BY <1>1, <1>3 DEF DeletedRight, DeleteInv
<1>8. DeletionType' BY <1>1 DEF DeletionType, TypeOK
<1>9. QED BY <1>1, <1>3, <1>4, <1>5, <1>6, <1>7, <1>8 DEF DeleteInv

\* A worker that is running its module is a reader that is left.
LEMMA RunningIsLeft ==
  ASSUME TypeOK, PlaceInv, StackInv, DeleteInv, NEW k \in 1..Len(stack)
  PROVE  ~IsGone(stack[k].m)
<1> DEFINE m == stack[k].m
<1>1. Len(stack) \in Nat /\ m \in Modules /\ stack # <<>>
  <2>1. stack \in Seq(Frames) BY DEF TypeOK
  <2>2. Len(stack) \in Nat /\ stack[k] \in Frames /\ stack # <<>> BY <2>1
  <2>3. QED BY <2>2 DEF Frames
<1>2. m \notin ran BY DEF StackInv
<1>3. InPath /\ place.at \in DOMAIN ThePath BY <1>1, Innermost
<1>4. CASE k = 1
  <2>1. m = ThePath[place.at].m BY <1>1, <1>4 DEF StackInv
  <2>2. <<phase, place.path, place.at>> \in AllPlaces(m)
    <3>1. phase \in {"trig", "end"} /\ place.path \in DOMAIN Paths(phase) /\ ThePath = Paths(phase)[place.path]
      BY <1>3 DEF InPath, ThePath
    <3>2. QED BY <1>3, <2>1, <3>1, PlacesFacts
  <2>3. <<phase, place.path>> \notin stopped
    <3>1. StoppedBefore BY <1>3 DEF DeleteInv, InPath
    <3>2. place.path \in Nat BY DEF TypeOK
    <3>3. QED BY <3>1, <3>2 DEF StoppedBefore
  <2>4. OpenPlaces(m) # {} BY <2>2, <2>3 DEF OpenPlaces
  <2>5. QED BY <1>2, <2>4 DEF IsGone
<1>5. CASE k >= 2
  <2>1. m \notin Scheduled(config) BY <1>1, <1>5 DEF StackInv, Unscheduled
  <2>2. ~OutOfReach(m) BY <2>1 DEF OutOfReach
  <2>3. QED BY <1>1, <1>2, <2>2, GoneIsDone
<1>6. QED BY <1>1, <1>4, <1>5

\* A module runs: its helper is told.
LEMMA ImplDoKeeps ==
  ASSUME TypeOK, PlaceInv, StackInv, DeleteInv, NEW outcome, ImplDo(outcome)
  PROVE  DeleteInv' /\ DeletionType' /\ phase' = phase
<1> DEFINE m == Last(stack).m
           mine == {b \in Products : producer[b] = m}
           refused == \E b \in mine : status[b] # "default"
           puts == IF outcome \in {"true", "false"} /\ ~refused THEN mine ELSE {}
           newStatus == [b \in Products |-> IF b \in puts THEN "set" ELSE status[b]]
<1>1. /\ stack # <<>> /\ Give({m}, newStatus, phase)
      /\ pathsLeft' = [pathsLeft EXCEPT ![m] = 0] /\ ran' = ran \cup {m}
      /\ UNCHANGED <<config, deletable, place, stopped>>
  BY DEF ImplDo, delVars
<1>2. m \in Modules /\ Len(stack) \in 1..Len(stack) /\ m = stack[Len(stack)].m /\ InPath
  BY <1>1, Innermost
<1>3. ~IsGone(m) BY <1>2, RunningIsLeft
<1>4. \A b \in puts : status[b] = "default" OBVIOUS
<1>5. /\ newStatus \in [Products -> {"default", "set", "failed", "deleted"}]
      /\ \A b \in Products : newStatus[b] = "deleted" <=> status[b] = "deleted"
  BY <1>4 DEF TypeOK
<1> HIDE DEF newStatus, m
<1>6. \A x : /\ AllPlaces(x)' = AllPlaces(x) /\ OpenPlaces(x)' = OpenPlaces(x)
             /\ Deletes(x)' = Deletes(x) /\ (IsGone(x)' <=> IsGone(x) \/ x \in {m})
  BY <1>1 DEF AllPlaces, OpenPlaces, PlacesIn, PathsOf, Deletes, IsGone
<1>7. StoppedBefore /\ PathsLeftRight /\ CountsRight /\ DeletedRight BY <1>2 DEF DeleteInv, InPath
<1>8. /\ CountsRight' /\ DeletedRight' /\ phase' = phase
      /\ count' \in [Products -> Nat]
      /\ status' \in [Products -> {"default", "set", "failed", "deleted"}]
  BY <1>1, <1>2, <1>3, <1>5, <1>6, <1>7, GiveRight
<1>9. PathsLeftRight' BY <1>1, <1>2, <1>6, <1>7 DEF PathsLeftRight, TypeOK
<1>10. StoppedBefore' BY <1>1, <1>7, <1>8 DEF StoppedBefore
<1>11. pathsLeft' \in [Modules -> Nat] BY <1>1 DEF TypeOK
<1>12. \A b : Readers(b)' = Readers(b) BY <1>1 DEF Readers
<1>13. QED BY <1>1, <1>2, <1>8, <1>9, <1>10, <1>11, <1>12 DEF DeleteInv, DeletionType, InPath

\* A path ends early: the helpers whose last open places are here are told.
LEMMA PathEndKeeps ==
  ASSUME TypeOK, PlaceInv, DeleteInv, InPath, Give(Unreachable, status, phase),
         pathsLeft' = Lowered, stopped' = stopped \cup {<<phase, place.path>>},
         UNCHANGED <<config, deletable, ran>>, place'.path > place.path, place' \in [path : Nat, at : Nat]
  PROVE  DeleteInv' /\ DeletionType' /\ phase' = phase
<1> DEFINE Here(m) == {x \in AllPlaces(m) : <<x[1], x[2]>> = <<phase, place.path>>}
<1>1. StoppedBefore /\ PathsLeftRight /\ CountsRight /\ DeletedRight BY DEF DeleteInv, InPath
<1>2. <<phase, place.path>> \notin stopped
  <2>1. place.path \in Nat BY DEF TypeOK
  <2>2. QED BY <1>1, <2>1 DEF StoppedBefore
<1>3. \A m : /\ AllPlaces(m)' = AllPlaces(m) /\ Deletes(m)' = Deletes(m)
             /\ OpenPlaces(m)' = OpenPlaces(m) \ Here(m) /\ Here(m) \subseteq OpenPlaces(m)
  BY <1>2 DEF AllPlaces, OpenPlaces, PlacesIn, PathsOf, Deletes
<1>4. ASSUME NEW m \in Modules, Deletes(m) # {}
      PROVE  /\ m \in Unreachable => ~IsGone(m)
             /\ IsGone(m)' <=> IsGone(m) \/ m \in Unreachable
             /\ pathsLeft'[m] = IF m \in ran THEN 0 ELSE Cardinality(OpenPlaces(m)')
  <2> DEFINE S == OpenPlaces(m)
             T == Here(m)
  <2>1. IsFiniteSet(S) /\ T \in SUBSET S BY <1>3, PlacesFacts
  <2>2. PlacesOf(m) = Cardinality(T) BY PlacesHere
  <2>3. pathsLeft[m] = IF m \in ran THEN 0 ELSE Cardinality(S) BY <1>1, <1>4 DEF PathsLeftRight
  <2>4. S \subseteq AllPlaces(m) BY DEF OpenPlaces
  <2>5. OpenPlaces(m)' = S \ T BY <1>3
  <2>6. pathsLeft'[m] = IF PlacesOf(m) >= pathsLeft[m] THEN 0 ELSE pathsLeft[m] - PlacesOf(m)
    BY DEF Lowered
  <2>7. m \in Unreachable <=> pathsLeft[m] > 0 /\ PlacesOf(m) >= pathsLeft[m] BY DEF Unreachable
  <2>8. IsGone(m) <=> m \in ran \/ (AllPlaces(m) # {} /\ S = {}) BY DEF IsGone
  <2>9. IsGone(m)' <=> m \in ran \/ (AllPlaces(m) # {} /\ S \ T = {}) BY <1>3, <2>5 DEF IsGone
  <2> HIDE DEF S, T
  <2>10. /\ Cardinality(S) \in Nat /\ Cardinality(T) \in Nat /\ Cardinality(T) <= Cardinality(S)
         /\ Cardinality(S \ T) = Cardinality(S) - Cardinality(T)
         /\ Cardinality(S) = Cardinality(T) <=> S \ T = {}
         /\ Cardinality(S) = 0 <=> S = {}
    BY <2>1, CountWithout
  <2>11. CASE m \in ran
    <3>1. pathsLeft[m] = 0 /\ PlacesOf(m) \in Nat BY <2>2, <2>3, <2>10, <2>11
    <3>2. QED BY <2>6, <2>7, <2>8, <2>9, <2>11, <3>1
  <2>12. CASE m \notin ran
    <3>1. m \in Unreachable <=> Cardinality(S) > 0 /\ Cardinality(S) = Cardinality(T)
      BY <2>2, <2>3, <2>7, <2>10, <2>12
    <3>2. m \in Unreachable <=> S # {} /\ S \ T = {} BY <2>10, <3>1
    <3>3. pathsLeft'[m] = Cardinality(S \ T) BY <2>2, <2>3, <2>6, <2>10, <2>12
    <3>4. QED BY <2>4, <2>5, <2>8, <2>9, <2>12, <3>2, <3>3
  <2>13. QED BY <2>11, <2>12
<1>5. Unreachable \in SUBSET Modules BY DEF Unreachable
<1>6. /\ CountsRight' /\ DeletedRight' /\ phase' = phase
      /\ count' \in [Products -> Nat]
      /\ status' \in [Products -> {"default", "set", "failed", "deleted"}]
  <2>1. status \in [Products -> {"default", "set", "failed", "deleted"}] BY DEF TypeOK
  <2>2. \A m \in Unreachable : Deletes(m) # {} => ~IsGone(m) BY <1>4, <1>5
  <2>3. \A m \in Modules : Deletes(m) # {} => (IsGone(m)' <=> IsGone(m) \/ m \in Unreachable) BY <1>4
  <2> HIDE DEF Here
  <2>4. QED BY <1>1, <1>5, <2>1, <2>2, <2>3, GiveRight
<1>7. PathsLeftRight' BY <1>3, <1>4 DEF PathsLeftRight
<1>8. StoppedBefore'
  <2>1. place.path \in Nat /\ place'.path \in Nat BY DEF TypeOK
  <2>2. \A x \in stopped : x[2] \in Nat BY DEF TypeOK
  <2>3. phase = "trig" => \A x \in stopped' : x[1] = "trig" BY <1>1 DEF StoppedBefore
  <2>4. \A x \in stopped' : x[1] = phase => x[2] < place'.path BY <1>1, <2>1, <2>2 DEF StoppedBefore
  <2>5. QED BY <1>6, <2>3, <2>4 DEF StoppedBefore
<1>9. pathsLeft' \in [Modules -> Nat]
  <2>1. \A m \in Modules : pathsLeft[m] \in Nat /\ PlacesOf(m) \in Nat BY PlacesHere DEF TypeOK
  <2>2. QED BY <2>1 DEF Lowered
<1>10. \A b : Readers(b)' = Readers(b) BY DEF Readers
<1>11. QED BY <1>6, <1>7, <1>8, <1>9, <1>10 DEF DeleteInv, DeletionType, InPath

\* Where the path that was called for next lies.
LEMMA NextPlace ==
  ASSUME TypeOK, NEW ph, NEW p \in Nat, p <= Len(Paths(ph)), place' = [path |-> NextPath(ph, p), at |-> 0]
  PROVE  place' \in [path : Nat, at : Nat] /\ place'.path > p /\ place'.path >= 1
BY NextPathFacts, Shape

\* What the deletion keeps is right after every step, and no assert fails.
LEMMA DeleteStep ==
  ASSUME TypeOK, Handled, PlaceInv, StackInv, DeleteInv, Next
  PROVE  DeleteInv' /\ DeletionType' /\ phase' # "aborted"
<1> USE DEF delVars, ghosts
<1>0. DeletionType /\ phase # "aborted" BY DEF TypeOK, DeletionType, Handled
<1>a. UNCHANGED <<count, pathsLeft, status>> => DeletionType' BY <1>0 DEF DeletionType
<1>1. CASE InitializeEarlyDelete
  <2>1. /\ ResetCounts(config, deletable') /\ phase' = "select" /\ UNCHANGED <<config, status>>
        /\ deletable' \subseteq Products /\ \A b \in deletable' : Readers(b) # {}
    <3>1. config.canDeleteEarly \subseteq Products BY Shape DEF ConfigurationShape
    <3>2. QED BY <1>1, <3>1 DEF InitializeEarlyDelete
  <2>2. \A b : Readers(b)' = Readers(b) BY <2>1 DEF Readers
  <2>3. QED BY <2>1, <2>2, ResetRight DEF DeleteInv, DeletionType, TypeOK
<1>2. CASE SelectProducts
  <2>1. /\ phase = "select" /\ phase' = "idle"
        /\ UNCHANGED <<config, status, deletable, count, pathsLeft>>
    BY <1>2 DEF SelectProducts
  <2>2. \A m : AllPlaces(m)' = AllPlaces(m) /\ Deletes(m)' = Deletes(m) /\ Readers(m)' = Readers(m)
    BY <2>1 DEF AllPlaces, PlacesIn, PathsOf, Deletes, Readers
  <2>3. QED BY <1>a, <2>1, <2>2 DEF DeleteInv
<1>3. CASE EnableEndPaths BY <1>0, <1>3, <1>a, NobodyTold DEF EnableEndPaths
<1>4. CASE StartEvent BY <1>4, StartKeeps DEF StartEvent
<1>5. CASE RunWorker
  <2>1. place'.path = place.path BY <1>5 DEF RunWorker, TypeOK
  <2>2. QED BY <1>0, <1>5, <1>a, <2>1, NobodyTold DEF RunWorker
<1>6. CASE Prefetch BY <1>0, <1>6, <1>a, NobodyTold DEF Prefetch
<1>7. CASE PrefetchReturned
  <2>1. PICK b : status' = IF status[b] = "default" THEN [status EXCEPT ![b] = "failed"] ELSE status
    BY <1>7 DEF PrefetchReturned
  <2>2. /\ \A x \in Products : status'[x] = "deleted" <=> status[x] = "deleted"
        /\ status' \in [Products -> {"default", "set", "failed", "deleted"}]
    BY <2>1 DEF TypeOK
  <2>3. UNCHANGED <<phase, config, deletable, count, pathsLeft, ran, stopped, place>>
    BY <1>7 DEF PrefetchReturned
  <2>4. QED BY <1>0, <2>2, <2>3, NobodyTold DEF DeletionType
<1>8. ASSUME NEW outcome, ImplDo(outcome)
      PROVE  DeleteInv' /\ DeletionType' /\ phase' # "aborted"
  BY <1>0, <1>8, ImplDoKeeps
<1>9. CASE WorkerReturned
  <2>1. InPath /\ UNCHANGED <<config, deletable, ran>> BY <1>9 DEF WorkerReturned
  <2>2. place.path \in Nat /\ place.path <= Len(Paths(phase))
    BY <2>1, Shape DEF InPath, TypeOK
  <2>3. CASE ret # "FailPath" /\ PathGoesOn(ret)
    <3>1. /\ UNCHANGED <<phase, status, count, pathsLeft, stopped>>
          /\ place' = place \/ place' = [path |-> NextPath(phase, place.path), at |-> 0]
      BY <1>9, <2>3 DEF WorkerReturned
    <3>2. StoppedBefore /\ place'.path >= place.path /\ place'.path \in Nat
      BY <2>1, <2>2, <3>1, NextPlace DEF DeleteInv, InPath, TypeOK
    <3>3. StoppedBefore'
      <4>1. \A x \in stopped : x[2] \in Nat BY DEF TypeOK
      <4>2. QED BY <2>2, <3>1, <3>2, <4>1 DEF StoppedBefore
    <3>4. \A m : /\ AllPlaces(m)' = AllPlaces(m) /\ OpenPlaces(m)' = OpenPlaces(m)
                 /\ Deletes(m)' = Deletes(m) /\ (IsGone(m)' <=> IsGone(m))
      BY <2>1, <3>1 DEF AllPlaces, OpenPlaces, PlacesIn, PathsOf, Deletes, IsGone
    <3>5. \A b : Readers(b)' = Readers(b) /\ ReadersLeft(b)' = ReadersLeft(b)
      BY <2>1, <3>4 DEF Readers, ReadersLeft
    <3>6. PathsLeftRight' /\ CountsRight' /\ DeletedRight'
      <4>1. PathsLeftRight /\ CountsRight /\ DeletedRight BY <2>1 DEF DeleteInv, InPath
      <4>2. PathsLeftRight' BY <2>1, <3>1, <3>4, <4>1 DEF PathsLeftRight
      <4>3. CountsRight' BY <2>1, <3>1, <3>5, <4>1 DEF CountsRight
      <4>4. DeletedRight' BY <2>1, <3>1, <3>5, <4>1 DEF DeletedRight
      <4>5. QED BY <4>2, <4>3, <4>4
    <3>7. DeleteInv' BY <2>1, <3>1, <3>3, <3>5, <3>6 DEF DeleteInv, InPath
    <3>8. QED BY <1>0, <1>a, <3>1, <3>7
  <2>4. CASE ~(ret # "FailPath" /\ PathGoesOn(ret))
    <3>1. /\ Give(Unreachable, status, phase) /\ pathsLeft' = Lowered
          /\ stopped' = stopped \cup {<<phase, place.path>>}
          /\ place' = [path |-> NextPath(phase, place.path), at |-> 0]
      BY <1>9, <2>4 DEF WorkerReturned
    <3>2. place' \in [path : Nat, at : Nat] /\ place'.path > place.path
      BY <2>2, <3>1, NextPlace
    <3>3. QED BY <1>0, <2>1, <3>1, <3>2, PathEndKeeps
  <2>5. QED BY <2>3, <2>4
<1>10. CASE PathThrows
  <2>1. UNCHANGED <<config, deletable, status, ran, stopped>> BY <1>10 DEF PathThrows
  <2>2. CASE phase = "trig" /\ ret = "SkipEvent"
    <3>1. AfterTriggerPaths BY <1>10, <2>2 DEF PathThrows
    <3>2. phase' # "aborted" BY <3>1 DEF AfterTriggerPaths, EndEvent
    <3>3. QED BY <2>1, <2>2, <3>1, <3>2, AfterTriggerKeeps
  <2>3. CASE ~(phase = "trig" /\ ret = "SkipEvent")
    <3>1. phase' = "stopped" /\ UNCHANGED <<count, pathsLeft>>
      BY <1>10, <2>3 DEF PathThrows, Handled
    <3>2. \A b : Readers(b)' = Readers(b) BY <2>1 DEF Readers
    <3>3. QED BY <1>a, <2>1, <3>1, <3>2 DEF DeleteInv
  <2>4. QED BY <2>2, <2>3
<1>11. CASE TriggerPathsEnd
  <2>1. phase' # "aborted" BY <1>11 DEF TriggerPathsEnd, AfterTriggerPaths, EndEvent
  <2>2. QED BY <1>11, <2>1, AfterTriggerKeeps DEF TriggerPathsEnd
<1>12. CASE EndPathsEnd
  <2>1. phase' # "aborted" BY <1>12 DEF EndPathsEnd, EndEvent
  <2>2. QED BY <1>12, <2>1, ResetKeeps DEF EndPathsEnd
<1>13. CASE Done BY <1>0, <1>13, <1>a, NobodyTold DEF Done, vars
<1>14. QED
  BY <1>1, <1>2, <1>3, <1>4, <1>5, <1>6, <1>7, <1>8, <1>9, <1>10, <1>11, <1>12, <1>13 DEF Next

-----------------------------------------------------------------------------
(* The stack *)

\* The answer of a worker that was decided.
LEMMA AnswerType ==
  ASSUME NEW w \in {"Pass", "Fail"} \cup (Actions \ {"IgnoreCompletely"})
  PROVE  Answer(w) \in {"true", "false"} \cup (Actions \ {"IgnoreCompletely"})
BY DEF Answer, Actions

\* The worker in the innermost frame is done.
LEMMA PopKeeps ==
  ASSUME TypeOK, PlaceInv, StackInv, stack # <<>>,
         NEW w \in {"Pass", "Fail"} \cup (Actions \ {"IgnoreCompletely"}),
         worker' = [worker EXCEPT ![Last(stack).m] = w], stack' = Front(stack),
         UNCHANGED <<config, place>>, phase' = phase, ran' \subseteq ran \cup {Last(stack).m}
  PROVE  StackInv' /\ stack' \in Seq(Frames)
<1> DEFINE n == Len(stack)
<1>1. /\ n \in Nat /\ n >= 1 /\ Last(stack) = stack[n] /\ Last(stack).m \in Modules
  BY Innermost
<1>2. stack' \in Seq(Frames) /\ Len(stack') = n - 1 /\ \A k \in 1..(n - 1) : stack'[k] = stack[k]
  <2>1. stack \in Seq(Frames) BY DEF TypeOK
  <2>2. QED BY <2>1, FrontFacts
<1>3. \A k \in 1..(n - 1) : worker'[stack'[k].m] = "Ready"
  <2>1. SUFFICES ASSUME NEW k \in 1..(n - 1)
                 PROVE  worker'[stack[k].m] = "Ready"
    BY <1>2
  <2>2. stack[k].m # stack[n].m
    <3>1. k \in 1..n /\ n \in 1..n /\ k < n BY <1>1
    <3>2. QED BY <3>1, FramesDiffer
  <2>3. worker[stack[k].m] = "Ready" BY <1>1, <2>1 DEF StackInv
  <2>4. QED BY <1>1, <2>2, <2>3 DEF TypeOK
<1>4. ThePath' = ThePath /\ Unscheduled(config)' = Unscheduled(config)
  BY DEF ThePath, Paths, PathsOf, Unscheduled, Scheduled
<1>5. stack' # <<>> => stack'[1].m = ThePath'[place'.at].m
  <2>1. stack' # <<>> => 1 \in 1..(n - 1) BY <1>1, <1>2
  <2>2. QED BY <1>2, <1>4, <2>1 DEF StackInv
<1>6. \A k \in 2..(n - 1) :
        /\ stack'[k].m \in Unscheduled(config)'
        /\ ToSet(stack'[k].todo) \subseteq ToSet(config'.consumes[stack'[k].m])
  <2>1. \A k \in 2..(n - 1) : k \in 2..n /\ k \in 1..(n - 1) BY <1>1
  <2>2. QED BY <1>2, <1>4, <2>1 DEF StackInv
<1>7. \A k \in 1..(n - 2) :
        stack'[k].todo # <<>> /\ producer[Head(stack'[k].todo)] = stack'[k + 1].m
  <2>1. \A k \in 1..(n - 2) : k \in 1..(n - 1) /\ k + 1 \in 1..(n - 1) BY <1>1
  <2>2. QED BY <1>2, <2>1 DEF StackInv
<1>8. stack' # <<>> => Last(stack').todo # <<>>
  <2>1. stack' # <<>> => n - 1 \in 1..(n - 1) /\ Last(stack') = stack'[n - 1] BY <1>1, <1>2 DEF Last
  <2>2. QED BY <1>2, <2>1 DEF StackInv
<1>9. \A m \in ran' : worker'[m] # "Ready"
  <2>1. worker'[Last(stack).m] = w /\ w # "Ready" BY <1>1 DEF TypeOK, Actions
  <2>2. \A m \in ran : m \in Modules /\ worker[m] # "Ready" BY DEF StackInv, TypeOK
  <2>3. QED BY <1>1, <2>1, <2>2 DEF TypeOK
<1> HIDE DEF n
<1>10. Len(stack') = n - 1 /\ n \in Nat BY <1>1, <1>2
<1>11. \A k \in 1..(Len(stack') - 1) :
         stack'[k].todo # <<>> /\ producer[Head(stack'[k].todo)] = stack'[k + 1].m
  <2>1. Len(stack') - 1 = n - 2 BY <1>10
  <2>2. QED BY <1>7, <2>1
<1>12. QED BY <1>2, <1>3, <1>5, <1>6, <1>8, <1>9, <1>10, <1>11 DEF StackInv

\* The innermost worker goes on to its next item, its other state unchanged.
LEMMA TodoKeeps ==
  ASSUME TypeOK, PlaceInv, StackInv, stack # <<>>, Last(stack).todo # <<>>,
         stack' = Append(Front(stack), [m |-> Last(stack).m, todo |-> Tail(Last(stack).todo)]),
         ret' = "none", UNCHANGED <<config, place, phase, worker, ran>>
  PROVE  StackInv' /\ stack' \in Seq(Frames) /\ stack' # <<>>
<1> DEFINE n == Len(stack)
           f == [m |-> Last(stack).m, todo |-> Tail(Last(stack).todo)]
<1>1. /\ n \in Nat /\ n >= 1 /\ Last(stack) = stack[n] /\ Last(stack).m \in Modules
      /\ Last(stack).todo \in Seq(Products)
  BY Innermost
<1>2. f \in Frames /\ f.m = stack[n].m /\ ToSet(f.todo) \subseteq ToSet(stack[n].todo)
  <2>1. Tail(Last(stack).todo) \in Seq(Products) /\ ToSet(Tail(Last(stack).todo)) \subseteq ToSet(Last(stack).todo)
    BY <1>1, TailFacts
  <2>2. QED BY <1>1, <2>1 DEF Frames
<1> HIDE DEF f
<1>3. /\ stack' \in Seq(Frames) /\ Len(stack') = n /\ stack' # <<>>
      /\ \A k \in 1..(n - 1) : stack'[k] = stack[k]
      /\ stack'[n] = f
  <2>1. stack \in Seq(Frames) BY DEF TypeOK
  <2>2. /\ Front(stack) \in Seq(Frames) /\ Len(Front(stack)) = n - 1
        /\ \A k \in 1..(n - 1) : Front(stack)[k] = stack[k]
    BY <2>1, FrontFacts
  <2>3. stack' = Append(Front(stack), f) BY DEF f
  <2> DEFINE g == Front(stack)
  <2> HIDE DEF g
  <2>4. /\ stack' \in Seq(Frames) /\ Len(stack') = Len(g) + 1 /\ Last(stack') = f /\ stack' # <<>>
        /\ \A k \in 1..Len(g) : stack'[k] = g[k]
    BY <1>2, <2>2, <2>3, AppendFacts DEF g
  <2>5. Len(g) = n - 1 /\ n \in Nat BY <1>1, <2>2 DEF g
  <2>6. Len(stack') = n BY <2>4, <2>5
  <2>7. stack'[n] = f BY <2>4, <2>6 DEF Last
  <2>8. QED BY <2>2, <2>4, <2>5, <2>6, <2>7 DEF g
<1>4. ThePath' = ThePath /\ Unscheduled(config)' = Unscheduled(config)
  BY DEF ThePath, Paths, PathsOf, Unscheduled, Scheduled
<1>5. \A k \in 1..n : stack'[k].m = stack[k].m /\ ToSet(stack'[k].todo) \subseteq ToSet(stack[k].todo)
  <2>1. \A k \in 1..n : k = n \/ k \in 1..(n - 1) BY <1>1
  <2>2. QED BY <1>2, <1>3, <2>1
<1>6. stack'[1].m = ThePath'[place'.at].m BY <1>1, <1>4, <1>5 DEF StackInv
<1>7. \A k \in 2..n :
        /\ stack'[k].m \in Unscheduled(config)'
        /\ ToSet(stack'[k].todo) \subseteq ToSet(config'.consumes[stack'[k].m])
  <2>1. \A k \in 2..n : k \in 1..n BY <1>1
  <2>2. QED BY <1>4, <1>5, <2>1 DEF StackInv
<1>8. \A k \in 1..n : worker'[stack'[k].m] = "Ready" BY <1>5 DEF StackInv
<1>9. \A k \in 1..(n - 1) :
        stack'[k].todo # <<>> /\ producer[Head(stack'[k].todo)] = stack'[k + 1].m
  <2>1. \A k \in 1..(n - 1) : k + 1 \in 1..n BY <1>1
  <2>2. QED BY <1>3, <1>5, <2>1 DEF StackInv
<1>10. \A m \in ran' : worker'[m] # "Ready" BY DEF StackInv
<1> HIDE DEF n
<1>11. QED BY <1>3, <1>6, <1>7, <1>8, <1>9, <1>10 DEF StackInv

\* An unscheduled module is called for the next item of the innermost worker.
LEMMA PushKeeps ==
  ASSUME TypeOK, PlaceInv, StackInv, stack # <<>>, Last(stack).todo # <<>>,
         NEW x \in Unscheduled(config), x = producer[Head(Last(stack).todo)], worker[x] = "Ready",
         stack' = Append(stack, [m |-> x, todo |-> config.consumes[x]]),
         ret' = "none", UNCHANGED <<config, place, phase, worker, ran>>
  PROVE  StackInv' /\ stack' \in Seq(Frames) /\ stack' # <<>>
<1> DEFINE n == Len(stack)
           f == [m |-> x, todo |-> config.consumes[x]]
<1>1. /\ n \in Nat /\ n >= 1 /\ Last(stack) = stack[n] BY Innermost
<1>2. f \in Frames /\ f.m = x /\ f.todo = config.consumes[x]
  <2>1. x \in Modules BY DEF Unscheduled
  <2>2. config.consumes[x] \in Seq(Products) BY <2>1, Shape DEF ConfigurationShape
  <2>3. QED BY <2>1, <2>2 DEF Frames
<1> HIDE DEF f
<1>3. /\ stack' \in Seq(Frames) /\ Len(stack') = n + 1 /\ stack' # <<>>
      /\ \A k \in 1..n : stack'[k] = stack[k]
      /\ stack'[n + 1] = f
  <2>1. stack \in Seq(Frames) BY DEF TypeOK
  <2>2. stack' = Append(stack, f) BY DEF f
  <2>3. /\ stack' \in Seq(Frames) /\ Len(stack') = n + 1 /\ Last(stack') = f /\ stack' # <<>>
        /\ \A k \in 1..n : stack'[k] = stack[k]
    BY <1>2, <2>1, <2>2, AppendFacts
  <2>4. QED BY <2>3 DEF Last
<1>4. ThePath' = ThePath /\ Unscheduled(config)' = Unscheduled(config)
  BY DEF ThePath, Paths, PathsOf, Unscheduled, Scheduled
<1>5. stack'[1].m = ThePath'[place'.at].m BY <1>1, <1>3, <1>4 DEF StackInv
<1>6. \A k \in 2..(n + 1) :
        /\ stack'[k].m \in Unscheduled(config)'
        /\ ToSet(stack'[k].todo) \subseteq ToSet(config'.consumes[stack'[k].m])
  <2>1. \A k \in 2..(n + 1) : k = n + 1 \/ (k \in 2..n /\ k \in 1..n) BY <1>1
  <2>2. stack'[n + 1].m = x /\ stack'[n + 1].todo = config'.consumes[x] BY <1>2, <1>3
  <2>3. QED BY ZenonT(30), <1>3, <1>4, <2>1, <2>2 DEF StackInv
<1>7. \A k \in 1..(n + 1) : worker'[stack'[k].m] = "Ready"
  <2>1. \A k \in 1..(n + 1) : k = n + 1 \/ k \in 1..n BY <1>1
  <2>2. QED BY <1>2, <1>3, <2>1 DEF StackInv
<1>8. \A k \in 1..n :
        stack'[k].todo # <<>> /\ producer[Head(stack'[k].todo)] = stack'[k + 1].m
  <2>1. \A k \in 1..n : k = n \/ (k \in 1..(n - 1) /\ k + 1 \in 1..n) BY <1>1
  <2>2. stack'[n].todo # <<>> /\ producer[Head(stack'[n].todo)] = stack'[n + 1].m
    BY <1>1, <1>2, <1>3
  <2>3. ASSUME NEW k \in 1..(n - 1)
        PROVE  stack'[k].todo # <<>> /\ producer[Head(stack'[k].todo)] = stack'[k + 1].m
    <3>1. k \in 1..n /\ k + 1 \in 1..n /\ k \in 1..(Len(stack) - 1) BY <1>1, <2>3
    <3>2. stack'[k] = stack[k] /\ stack'[k + 1] = stack[k + 1] BY <1>3, <3>1
    <3>3. stack[k].todo # <<>> /\ producer[Head(stack[k].todo)] = stack[k + 1].m
      BY <3>1 DEF StackInv
    <3>4. QED BY <3>2, <3>3
  <2>4. QED BY <2>1, <2>2, <2>3
<1>9. \A m \in ran' : worker'[m] # "Ready" BY DEF StackInv
<1>10. Len(stack') - 1 = n BY <1>1, <1>3
<1> HIDE DEF n
<1>11. QED BY ZenonT(30), <1>3, <1>5, <1>6, <1>7, <1>8, <1>9, <1>10 DEF StackInv

\* The path calls its next worker, on an empty stack.
LEMMA FirstKeeps ==
  ASSUME TypeOK, StackInv, NEW todo \in Seq(Products), NEW x \in Modules, worker[x] = "Ready",
         stack = <<>>, stack' = Append(stack, [m |-> x, todo |-> todo]), x = ThePath'[place'.at].m,
         ret' = "none", UNCHANGED <<worker, ran>>
  PROVE  StackInv' /\ stack' \in Seq(Frames) /\ stack' # <<>>
<1> DEFINE f == [m |-> x, todo |-> todo]
<1>1. f \in Frames /\ f.m = x BY DEF Frames
<1> HIDE DEF f
<1>2. stack' = <<f>> BY DEF f
<1>3. Len(stack') = 1 /\ stack'[1] = f /\ stack' \in Seq(Frames) /\ stack' # <<>> BY <1>1, <1>2
<1>4. QED BY <1>1, <1>3 DEF StackInv

\* What holds after a step of a call: the types, the invariants, no worker that was decided
\* has changed, and an empty stack leaves the answer of the path's worker.
Called ==
  /\ place' \in [path : Nat, at : Nat] /\ stack' \in Seq(Frames)
  /\ ret' \in {"none", "true", "false"} \cup (Actions \ {"IgnoreCompletely"})
  /\ worker' \in [Modules -> {"Ready", "Pass", "Fail"} \cup (Actions \ {"IgnoreCompletely"})]
  /\ PlaceInv' /\ StackInv'
  /\ \A m \in Modules : worker[m] # "Ready" => worker'[m] = worker[m]
  /\ stack' = <<>> => /\ worker'[ThePath'[place'.at].m] # "Ready"
                      /\ ret' = Answer(worker'[ThePath'[place'.at].m])

\* The path stays where it is as long as its worker is called.
LEMMA StayInPath ==
  ASSUME PlaceInv, InPath, place.at >= 1, UNCHANGED <<place, config, phase>>,
         stack' # <<>> \/ ret' # "none"
  PROVE  PlaceInv'
<1>1. InPath' /\ ThePath' = ThePath BY DEF InPath, ThePath, Paths, PathsOf
<1>2. QED BY <1>1 DEF PlaceInv, InPath

\* The path that is entered has modules, or there is none.
LEMMA EnterPath ==
  ASSUME TypeOK, UNCHANGED config, phase' \in {"trig", "end"}, NEW p \in Nat, p <= Len(Paths(phase')),
         place' = [path |-> NextPath(phase', p), at |-> 0], stack' = <<>>, ret' = "none"
  PROVE  PlaceInv' /\ place' \in [path : Nat, at : Nat]
<1>1. place' \in [path : Nat, at : Nat] /\ place'.path >= 1 /\ place'.at = 0
  BY NextPlace
<1>2. Paths(phase)' = Paths(phase') BY DEF Paths
<1>3. InPath' => ThePath' # <<>> /\ ThePath' \in Seq(Places)
  <2>1. InPath' => NextPath(phase', p) \in DOMAIN Paths(phase') /\ ThePath' = Paths(phase')[NextPath(phase', p)]
    BY <1>2 DEF InPath, ThePath, Paths
  <2>2. QED BY <2>1, NextPathFacts, Shape
<1>4. InPath' => Len(ThePath') > 0
  <2>1. ASSUME NEW s \in Seq(Places), s # <<>> PROVE Len(s) > 0 BY <2>1
  <2>2. QED BY <1>3, <2>1
<1>5. QED BY <1>1, <1>4 DEF PlaceInv

\* The innermost worker is decided.
LEMMA PopCalled ==
  ASSUME TypeOK, Handled, PlaceInv, StackInv, stack # <<>>,
         NEW w \in {"Pass", "Fail"} \cup (Actions \ {"IgnoreCompletely"}),
         worker' = [worker EXCEPT ![Last(stack).m] = w], stack' = Front(stack), ret' = Answer(w),
         UNCHANGED <<config, place, phase>>, ran' \subseteq ran \cup {Last(stack).m}
  PROVE  Called
<1>1. StackInv' /\ stack' \in Seq(Frames) BY PopKeeps
<1>2. ret' \in {"true", "false"} \cup (Actions \ {"IgnoreCompletely"}) BY AnswerType
<1>3. ret' # "none" BY <1>2 DEF Actions
<1>4. InPath /\ place.at >= 1 BY DEF PlaceInv
<1>5. PlaceInv' BY <1>3, <1>4, StayInPath
<1>6. Last(stack).m \in Modules /\ worker[Last(stack).m] = "Ready" BY Innermost
<1>7. worker' \in [Modules -> {"Ready", "Pass", "Fail"} \cup (Actions \ {"IgnoreCompletely"})]
  BY <1>6 DEF TypeOK, Handled
<1>8. \A m \in Modules : worker[m] # "Ready" => worker'[m] = worker[m] BY <1>6 DEF TypeOK
<1>9. stack' = <<>> => worker'[ThePath'[place'.at].m] = w
  <2>1. stack' = <<>> => Len(stack) = 1
    <3>1. Len(stack') = Len(stack) - 1
      <4>1. stack \in Seq(Frames) BY DEF TypeOK
      <4>2. QED BY <4>1, FrontFacts
    <3>2. Len(stack) \in Nat BY Innermost
    <3>3. QED BY <3>1, <3>2
  <2>a. Last(stack) = stack[Len(stack)] /\ stack[1].m = ThePath[place.at].m BY Innermost DEF StackInv
  <2>2. stack' = <<>> => Last(stack).m = ThePath[place.at].m BY <2>1, <2>a
  <2>3. ThePath' = ThePath BY DEF ThePath, Paths, PathsOf
  <2>4. QED BY <1>6, <2>2, <2>3 DEF TypeOK
<1>10. w # "Ready" BY DEF Actions
<1>11. place' \in [path : Nat, at : Nat] BY DEF TypeOK
<1>12. QED BY <1>1, <1>2, <1>5, <1>7, <1>8, <1>9, <1>10, <1>11 DEF Called

\* A step that decides no worker and leaves workers on the stack.
LEMMA StillCalling ==
  ASSUME TypeOK, Handled, PlaceInv, stack # <<>> \/ ret # "none", stack' # <<>>, stack' \in Seq(Frames), StackInv',
         ret' \in {"none", "true", "false"} \cup (Actions \ {"IgnoreCompletely"}),
         UNCHANGED <<config, place, phase, worker>>
  PROVE  Called
<1>1. InPath /\ place.at >= 1 BY DEF PlaceInv
<1>2. PlaceInv' BY <1>1, StayInPath
<1>3. QED BY <1>2 DEF Called, TypeOK, Handled

\* The path calls its next worker.
LEMMA RunWorkerCalled ==
  ASSUME TypeOK, Handled, PlaceInv, StackInv, RunWorker
  PROVE  Called
<1> DEFINE m == ThePath[place.at + 1].m
<1>1. /\ InPath /\ stack = <<>> /\ ret = "none" /\ DoWork(m)
      /\ place' = [place EXCEPT !.at = @ + 1] /\ UNCHANGED <<config, phase, ran>>
  BY DEF RunWorker, ghosts
<1>2. place.at < Len(ThePath) /\ place.at \in Nat /\ place.path \in Nat BY <1>1 DEF PlaceInv, TypeOK
<1>3. /\ place' \in [path : Nat, at : Nat] /\ place'.at = place.at + 1 /\ place'.path = place.path
  BY <1>1 DEF TypeOK
<1>4. ThePath \in Seq(Places) /\ place.at + 1 \in DOMAIN ThePath /\ m \in Modules
  <2>1. /\ ThePath \in Seq(Places) /\ DOMAIN ThePath = 1..Len(ThePath) /\ Len(ThePath) \in Nat
        /\ \A i \in DOMAIN ThePath : ThePath[i].m \in Modules
    BY <1>1, Shape DEF InPath, ThePath
  <2>2. QED BY <1>2, <2>1
<1>5. InPath' /\ ThePath' = ThePath
  BY <1>1, <1>3 DEF InPath, ThePath, Paths, PathsOf
<1>6. stack' # <<>> \/ ret' # "none" => PlaceInv'
  <2>1. phase \in {"trig", "end"} /\ place.path >= 1 BY <1>1 DEF InPath, PlaceInv
  <2>2. Len(ThePath) \in Nat BY <1>4
  <2>3. place'.at >= 1 /\ place'.at <= Len(ThePath') BY <1>2, <1>3, <1>5, <2>2
  <2>4. QED BY <1>1, <1>3, <1>5, <2>1, <2>3 DEF PlaceInv
<1>7. m = ThePath'[place'.at].m BY <1>3, <1>5
<1>8. \A x \in ran : x \in Modules /\ worker[x] # "Ready" BY DEF StackInv, TypeOK
<1> HIDE DEF m
<1>9. CASE worker[m] # "Ready" /\ ret' = Answer(worker[m]) /\ UNCHANGED <<worker, stack>>
  <2>1. worker[m] \in {"Pass", "Fail"} \cup (Actions \ {"IgnoreCompletely"})
    BY <1>4, <1>9 DEF TypeOK, Handled
  <2>2. ret' \in {"true", "false"} \cup (Actions \ {"IgnoreCompletely"}) BY <1>9, <2>1, AnswerType
  <2>3. ret' # "none" BY <2>2 DEF Actions
  <2>4. StackInv' BY <1>1, <1>8, <1>9 DEF StackInv
  <2>5. worker' \in [Modules -> {"Ready", "Pass", "Fail"} \cup (Actions \ {"IgnoreCompletely"})]
    BY <1>9 DEF TypeOK, Handled
  <2>6. stack' \in Seq(Frames) BY <1>9 DEF TypeOK
  <2>7. QED BY <1>3, <1>6, <1>7, <1>9, <2>2, <2>3, <2>4, <2>5, <2>6 DEF Called
<1>10. CASE /\ worker[m] = "Ready" /\ UNCHANGED <<ret, worker>>
            /\ \E todo \in Seq(Products) : stack' = Append(stack, [m |-> m, todo |-> todo])
  <2>1. PICK todo \in Seq(Products) : stack' = Append(stack, [m |-> m, todo |-> todo]) BY <1>10
  <2>2. StackInv' /\ stack' \in Seq(Frames) /\ stack' # <<>>
    BY <1>1, <1>4, <1>7, <1>10, <2>1, FirstKeeps
  <2>3. worker' \in [Modules -> {"Ready", "Pass", "Fail"} \cup (Actions \ {"IgnoreCompletely"})]
    BY <1>10 DEF TypeOK, Handled
  <2>4. QED BY <1>1, <1>3, <1>6, <1>10, <2>2, <2>3 DEF Called
<1>11. CASE /\ worker[m] = "Ready" /\ ret' = "true" /\ worker' = [worker EXCEPT ![m] = "Pass"]
            /\ UNCHANGED stack
  <2>1. StackInv' BY <1>1, <1>4, <1>8, <1>11 DEF StackInv, TypeOK
  <2>2. worker' \in [Modules -> {"Ready", "Pass", "Fail"} \cup (Actions \ {"IgnoreCompletely"})]
    BY <1>11 DEF TypeOK, Handled
  <2>3. stack' \in Seq(Frames) BY <1>11 DEF TypeOK
  <2>4. worker'[m] = "Pass" /\ \A x \in Modules : worker[x] # "Ready" => worker'[x] = worker[x]
    BY <1>4, <1>11 DEF TypeOK
  <2>5. Answer("Pass") = "true" BY DEF Answer
  <2>6. QED BY <1>3, <1>6, <1>7, <1>11, <2>1, <2>2, <2>3, <2>4, <2>5 DEF Called
<1>12. QED BY <1>1, <1>4, <1>9, <1>10, <1>11, DoWorkCases

\* A worker prefetches its next item.
LEMMA PrefetchCalled ==
  ASSUME TypeOK, Handled, PlaceInv, StackInv, Prefetch
  PROVE  Called
<1> DEFINE m == Last(stack).m
           b == Head(Last(stack).todo)
<1>1. /\ stack # <<>> /\ ret = "none" /\ Last(stack).todo # <<>>
      /\ UNCHANGED <<config, phase, place, ran>>
  BY DEF Prefetch, ghosts
<1>2. /\ m \in Modules /\ Last(stack).todo \in Seq(Products) BY <1>1, Innermost
<1>3. CASE Catch(m, "Rethrow")
  <2>1. PICK w \in ({"Pass"} \cup Actions) \ {"IgnoreCompletely"} :
          worker' = [worker EXCEPT ![m] = w] /\ ret' = Answer(w) /\ stack' = Front(stack)
    BY <1>2, <1>3, CatchCases DEF Actions
  <2>2. w \in {"Pass", "Fail"} \cup (Actions \ {"IgnoreCompletely"}) OBVIOUS
  <2>3. QED BY <1>1, <2>1, <2>2, PopCalled
<1>4. CASE producer[b] \in Unscheduled(config) /\ DoWork(producer[b])
  <2> DEFINE x == producer[b]
  <2>1. x \in Modules /\ x \notin config.outputs BY <1>4 DEF Unscheduled
  <2>2. CASE worker[x] # "Ready" /\ ret' = Answer(worker[x]) /\ UNCHANGED <<worker, stack>>
    <3>1. worker[x] \in {"Pass", "Fail"} \cup (Actions \ {"IgnoreCompletely"})
      BY <2>1, <2>2 DEF TypeOK, Handled
    <3>2. ret' \in {"true", "false"} \cup (Actions \ {"IgnoreCompletely"}) BY <2>2, <3>1, AnswerType
    <3>3. StackInv'
      <4>1. ThePath' = ThePath /\ Unscheduled(config)' = Unscheduled(config) /\ Last(stack') = Last(stack)
        BY <1>1, <2>2 DEF ThePath, Paths, PathsOf, Unscheduled, Scheduled
      <4>2. QED BY <1>1, <2>2, <4>1 DEF StackInv
    <3>4. stack' # <<>> /\ stack' \in Seq(Frames) BY <1>1, <2>2 DEF TypeOK
    <3>5. QED BY <1>1, <2>2, <3>2, <3>3, <3>4, StillCalling
  <2>3. CASE /\ worker[x] = "Ready" /\ UNCHANGED <<ret, worker>>
             /\ stack' = Append(stack, [m |-> x, todo |-> config.consumes[x]])
    <3>1. StackInv' /\ stack' \in Seq(Frames) /\ stack' # <<>>
      BY <1>1, <1>4, <2>3, PushKeeps
    <3>2. QED BY <1>1, <2>3, <3>1, StillCalling
  <2> HIDE DEF x
  <2>4. QED BY <1>4, <2>1, <2>2, <2>3, DoWorkCases DEF x
<1>5. CASE /\ stack' = Append(Front(stack), [m |-> m, todo |-> Tail(Last(stack).todo)])
           /\ UNCHANGED <<ret, worker>>
  <2>1. StackInv' /\ stack' \in Seq(Frames) /\ stack' # <<>> BY <1>1, <1>5, TodoKeeps
  <2>2. QED BY <1>1, <1>5, <2>1, StillCalling
<1>6. QED BY <1>3, <1>4, <1>5 DEF Prefetch

\* The module called for a product returns to the worker that waits for it.
LEMMA PrefetchReturnedCalled ==
  ASSUME TypeOK, Handled, PlaceInv, StackInv, PrefetchReturned
  PROVE  Called
<1> DEFINE m == Last(stack).m
<1>1. /\ stack # <<>> /\ ret # "none" /\ UNCHANGED <<config, phase, place, ran>>
  BY DEF PrefetchReturned, ghosts
<1>2. m \in Modules /\ Last(stack).todo # <<>> BY <1>1, Innermost DEF StackInv
<1>3. CASE ret \in {"true", "false"}
  <2>1. /\ stack' = Append(Front(stack), [m |-> m, todo |-> Tail(Last(stack).todo)])
        /\ ret' = "none" /\ UNCHANGED worker
    BY <1>3 DEF PrefetchReturned
  <2>2. StackInv' /\ stack' \in Seq(Frames) /\ stack' # <<>> BY <1>1, <1>2, <2>1, TodoKeeps
  <2>3. QED BY <1>1, <2>1, <2>2, StillCalling
<1>4. CASE ret \notin {"true", "false"}
  <2>1. ret \in Actions BY <1>1, <1>4 DEF TypeOK
  <2>2. Catch(m, ret) BY <1>4 DEF PrefetchReturned
  <2>3. PICK w \in ({"Pass"} \cup Actions) \ {"IgnoreCompletely"} :
          worker' = [worker EXCEPT ![m] = w] /\ ret' = Answer(w) /\ stack' = Front(stack)
    BY <1>2, <2>1, <2>2, CatchCases
  <2>4. w \in {"Pass", "Fail"} \cup (Actions \ {"IgnoreCompletely"}) OBVIOUS
  <2>5. QED BY <1>1, <2>3, <2>4, PopCalled
<1>5. QED BY <1>3, <1>4

\* A module runs.
LEMMA ImplDoCalled ==
  ASSUME TypeOK, Handled, PlaceInv, StackInv, DeleteInv,
         NEW outcome \in Actions \cup {"true", "false"}, ImplDo(outcome)
  PROVE  Called
<1> DEFINE m == Last(stack).m
           refused == \E b \in {x \in Products : producer[x] = m} : status[b] # "default"
           good == outcome \in {"true", "false"}
<1>1. /\ stack # <<>> /\ UNCHANGED <<config, place>> /\ ran' = ran \cup {m}
      /\ IF good /\ ~refused
         THEN /\ worker' = [worker EXCEPT ![m] = IF outcome = "true" THEN "Pass" ELSE "Fail"]
              /\ ret' = outcome /\ stack' = Front(stack)
         ELSE Catch(m, IF good THEN "Rethrow" ELSE outcome)
  BY DEF ImplDo
<1>2. phase' = phase BY ImplDoKeeps
<1>3. m \in Modules BY <1>1, Innermost
<1>4. CASE good /\ ~refused
  <2> DEFINE w == IF outcome = "true" THEN "Pass" ELSE "Fail"
  <2>1. w \in {"Pass", "Fail"} \cup (Actions \ {"IgnoreCompletely"}) OBVIOUS
  <2>2. Answer(w) = outcome BY <1>4 DEF Answer
  <2>3. worker' = [worker EXCEPT ![m] = w] /\ ret' = Answer(w) /\ stack' = Front(stack)
    BY <1>1, <1>4, <2>2
  <2> HIDE DEF w, m
  <2>4. QED BY <1>1, <1>2, <2>1, <2>3, PopCalled DEF m
<1>5. CASE ~(good /\ ~refused)
  <2>1. (IF good THEN "Rethrow" ELSE outcome) \in Actions BY DEF Actions
  <2>2. PICK w \in ({"Pass"} \cup Actions) \ {"IgnoreCompletely"} :
          worker' = [worker EXCEPT ![m] = w] /\ ret' = Answer(w) /\ stack' = Front(stack)
    BY <1>1, <1>3, <1>5, <2>1, CatchCases
  <2>3. w \in {"Pass", "Fail"} \cup (Actions \ {"IgnoreCompletely"}) OBVIOUS
  <2> HIDE DEF m
  <2>4. QED BY <1>1, <1>2, <2>2, <2>3, PopCalled DEF m
<1>6. QED BY <1>4, <1>5

\* The types of what a step of a call does not touch.
RestOK ==
  /\ config \in Configurations /\ endpathsAreActive \in BOOLEAN /\ events \in 0..MaxEvents
  /\ phase \in {"construct", "select", "idle", "trig", "end", "stopped", "aborted"}
  /\ deletable \subseteq Products /\ keptProducts \in [Modules -> SUBSET Products]
  /\ ran \subseteq Modules /\ stopped \subseteq {"trig", "end"} \X Nat /\ put \subseteq Products

\* The path that was called for has a bit or none is kept.
ResultsType ==
  results \in [DOMAIN config.trig_paths -> [state : {"Ready", "Pass", "Fail", "Exception"}, index : Nat]]

\* These types are kept.
LEMMA RestStep ==
  ASSUME TypeOK, Handled, PlaceInv, StackInv, DeleteInv, Next
  PROVE  RestOK' /\ ResultsType'
<1> USE DEF delVars, ghosts
<1>0. RestOK /\ ResultsType BY DEF TypeOK, RestOK, ResultsType
<1>a. UNCHANGED results /\ UNCHANGED config => ResultsType' BY <1>0 DEF ResultsType
<1>b. ASSUME UNCHANGED config, InPath, ret # "none",
             NEW s \in {"Ready", "Pass", "Fail", "Exception"}, recordStatus(s)
      PROVE  ResultsType'
  <2>1. place.at \in Nat /\ place.at >= 1 BY <1>b DEF TypeOK, PlaceInv
  <2>2. place.at - 1 \in Nat BY <2>1
  <2>3. QED BY <1>0, <1>b, <2>2 DEF recordStatus, ResultsType
<1>1. CASE InitializeEarlyDelete
  <2>1. config.canDeleteEarly \subseteq Products BY Shape DEF ConfigurationShape
  <2>2. deletable' \subseteq Products BY <1>1, <2>1 DEF InitializeEarlyDelete
  <2>3. QED BY <1>0, <1>1, <1>a, <2>2 DEF InitializeEarlyDelete, RestOK
<1>2. CASE SelectProducts
  <2>1. \A m \in config.outputs : config.kept[m] \subseteq Products BY Shape DEF ConfigurationShape
  <2>2. keptProducts' \in [Modules -> SUBSET Products] BY <1>2, <2>1 DEF SelectProducts
  <2>3. QED BY <1>0, <1>2, <1>a, <2>2 DEF SelectProducts, RestOK
<1>3. CASE EnableEndPaths BY <1>0, <1>3, <1>a DEF EnableEndPaths, RestOK
<1>4. CASE StartEvent
  <2>1. events' \in 0..MaxEvents BY <1>0, <1>4, ConfigurationsAreWellFormed DEF StartEvent, RestOK
  <2>2. ResultsType' BY <1>0, <1>4 DEF StartEvent, ResultsType
  <2>3. QED BY <1>0, <1>4, <2>1, <2>2 DEF StartEvent, RestOK
<1>5. CASE RunWorker BY <1>0, <1>5, <1>a DEF RunWorker, RestOK
<1>6. CASE Prefetch BY <1>0, <1>6, <1>a DEF Prefetch, RestOK
<1>7. CASE PrefetchReturned BY <1>0, <1>7, <1>a DEF PrefetchReturned, RestOK
<1>8. ASSUME NEW outcome, ImplDo(outcome)
      PROVE  RestOK' /\ ResultsType'
  <2>1. phase' = phase BY <1>8, ImplDoKeeps
  <2>2. stack # <<>> BY <1>8 DEF ImplDo
  <2>3. Last(stack).m \in Modules BY <2>2, Innermost
  <2>4. /\ ran' = ran \cup {Last(stack).m}
        /\ UNCHANGED <<config, endpathsAreActive, results, deletable, keptProducts, events, stopped>>
    BY <1>8 DEF ImplDo
  <2>5. put' \subseteq Products BY <1>0, <1>8 DEF ImplDo, RestOK
  <2>6. QED BY <1>0, <1>a, <2>1, <2>3, <2>4, <2>5 DEF RestOK
<1>9. CASE WorkerReturned
  <2>1. /\ InPath /\ ret # "none"
        /\ UNCHANGED <<config, endpathsAreActive, deletable, keptProducts, events, ran, put>>
    BY <1>9 DEF WorkerReturned
  <2>2. UNCHANGED results \/ \E s \in {"Pass", "Fail"} : recordStatus(s)
    BY <1>9 DEF WorkerReturned
  <2>3. ResultsType' BY <1>a, <1>b, <2>1, <2>2
  <2>4. phase' \in {phase, "aborted"} BY <1>9 DEF WorkerReturned, Give
  <2>5. stopped' \subseteq stopped \cup {<<phase, place.path>>} BY <1>9 DEF WorkerReturned
  <2>6. <<phase, place.path>> \in {"trig", "end"} \X Nat BY <2>1 DEF InPath, TypeOK
  <2>7. QED BY <1>0, <2>1, <2>3, <2>4, <2>5, <2>6 DEF RestOK
<1>10. CASE PathThrows
  <2>1. /\ InPath /\ ret # "none" /\ recordStatus("Exception")
        /\ UNCHANGED <<config, endpathsAreActive, deletable, keptProducts, events, ran, stopped, put>>
    BY <1>10 DEF PathThrows
  <2>2. ResultsType' BY <1>b, <2>1
  <2>3. phase' \in {"idle", "end", "stopped", "aborted"}
    BY <1>10 DEF PathThrows, AfterTriggerPaths, EndEvent
  <2>4. QED BY <1>0, <2>1, <2>2, <2>3 DEF RestOK
<1>11. CASE TriggerPathsEnd
  <2>1. phase' \in {"idle", "end"} BY <1>11 DEF TriggerPathsEnd, AfterTriggerPaths, EndEvent
  <2>2. QED BY <1>0, <1>11, <1>a, <2>1 DEF TriggerPathsEnd, RestOK
<1>12. CASE EndPathsEnd BY <1>0, <1>12, <1>a DEF EndPathsEnd, EndEvent, RestOK
<1>13. CASE Done BY <1>0, <1>13, <1>a DEF Done, vars, RestOK
<1>14. QED
  BY <1>1, <1>2, <1>3, <1>4, <1>5, <1>6, <1>7, <1>8, <1>9, <1>10, <1>11, <1>12, <1>13 DEF Next

\* A step outside the calls leaves the stack empty.
LEMMA EmptyCalled ==
  ASSUME TypeOK, StackInv, stack' = <<>>, \A m \in ran' : worker'[m] # "Ready"
  PROVE  StackInv' /\ stack' \in Seq(Frames)
BY DEF StackInv

\* The answers, the workers, the stack and the place after every step.
LEMMA CallStep ==
  ASSUME TypeOK, Handled, PlaceInv, StackInv, DeleteInv, Next
  PROVE  /\ place' \in [path : Nat, at : Nat] /\ stack' \in Seq(Frames)
         /\ ret' \in {"none", "true", "false"} \cup (Actions \ {"IgnoreCompletely"})
         /\ worker' \in [Modules -> {"Ready", "Pass", "Fail"} \cup (Actions \ {"IgnoreCompletely"})]
         /\ PlaceInv' /\ StackInv'
<1> USE DEF delVars, ghosts
<1> DEFINE Goal == /\ place' \in [path : Nat, at : Nat] /\ stack' \in Seq(Frames)
                   /\ ret' \in {"none", "true", "false"} \cup (Actions \ {"IgnoreCompletely"})
                   /\ worker' \in [Modules -> {"Ready", "Pass", "Fail"} \cup (Actions \ {"IgnoreCompletely"})]
                   /\ PlaceInv' /\ StackInv'
<1>0. /\ place \in [path : Nat, at : Nat]
      /\ worker \in [Modules -> {"Ready", "Pass", "Fail"} \cup (Actions \ {"IgnoreCompletely"})]
      /\ \A m \in ran : worker[m] # "Ready"
      /\ \A ph : Len(Paths(ph)) \in Nat
  BY Shape DEF TypeOK, Handled, StackInv
\* No worker is on the stack after the step, none has changed, and the path is at its start or no
\* path is run.
<1>a. ASSUME stack' = <<>>, ret' = "none", UNCHANGED <<worker, ran>>,
             PlaceInv' /\ place' \in [path : Nat, at : Nat]
      PROVE  Goal
  <2>1. StackInv' /\ stack' \in Seq(Frames) BY <1>0, <1>a, EmptyCalled
  <2>2. QED BY <1>0, <1>a, <2>1
<1>b. ASSUME stack' = <<>>, ret' = "none", phase' \notin {"trig", "end"}
      PROVE  PlaceInv'
  BY <1>b DEF PlaceInv, InPath
<1>c. ASSUME stack = <<>>, UNCHANGED <<stack, worker, ran, config>>, ret' = "none", AfterTriggerPaths
      PROVE  Goal
  <2>1. CASE endpathsAreActive
    <3>1. phase' = "end" /\ place' = [path |-> NextPath("end", 0), at |-> 0]
      BY <1>c, <2>1 DEF AfterTriggerPaths
    <3>2. QED BY <1>0, <1>a, <1>c, <3>1, EnterPath
  <2>2. CASE ~endpathsAreActive
    <3>1. phase' = "idle" /\ place' = [path |-> 0, at |-> 0] BY <1>c, <2>2 DEF AfterTriggerPaths, EndEvent
    <3>2. QED BY <1>a, <1>b, <1>c, <3>1
  <2>3. QED BY <2>1, <2>2
<1>d. phase \notin {"trig", "end"} => stack = <<>> /\ ret = "none" BY DEF PlaceInv
<1>e. (phase \in {"trig", "end"} /\ ~InPath) => stack = <<>> /\ ret = "none" BY DEF PlaceInv
<1>1. CASE InitializeEarlyDelete BY <1>0, <1>1, <1>a, <1>b, <1>d DEF InitializeEarlyDelete
<1>2. CASE SelectProducts BY <1>0, <1>2, <1>a, <1>b, <1>d DEF SelectProducts
<1>3. CASE EnableEndPaths BY <1>0, <1>3, <1>a, <1>b, <1>d DEF EnableEndPaths
<1>4. CASE StartEvent
  <2>1. /\ phase = "idle" /\ phase' = "trig" /\ place' = [path |-> NextPath("trig", 0), at |-> 0]
        /\ worker' = [m \in Modules |-> "Ready"] /\ ran' = {} /\ UNCHANGED <<config, stack, ret>>
    BY <1>4 DEF StartEvent
  <2>2. stack' = <<>> /\ ret' = "none" BY <1>d, <2>1
  <2>3. PlaceInv' /\ place' \in [path : Nat, at : Nat] BY <1>0, <2>1, <2>2, EnterPath
  <2>4. StackInv' /\ stack' \in Seq(Frames) BY <2>1, <2>2, EmptyCalled
  <2>5. QED BY <2>1, <2>2, <2>3, <2>4
<1>5. CASE RunWorker BY <1>5, RunWorkerCalled DEF Called
<1>6. CASE Prefetch BY <1>6, PrefetchCalled DEF Called
<1>7. CASE PrefetchReturned BY <1>7, PrefetchReturnedCalled DEF Called
<1>8. CASE \E outcome \in Actions \cup {"true", "false"} : ImplDo(outcome)
  BY <1>8, ImplDoCalled DEF Called
<1>9. CASE WorkerReturned
  <2>1. InPath /\ stack = <<>> /\ ret # "none" /\ ret' = "none" /\ UNCHANGED <<config, stack, worker, ran>>
    BY <1>9 DEF WorkerReturned
  <2>2. phase' = phase /\ phase \in {"trig", "end"}
    <3>1. phase' \in {phase, "aborted"} BY <1>9 DEF WorkerReturned, Give
    <3>2. QED BY <2>1, <3>1, DeleteStep DEF InPath
  <2>3. CASE UNCHANGED place /\ place.at # Len(ThePath)
    <3>1. ThePath' = ThePath BY <2>1, <2>2, <2>3 DEF ThePath, Paths, PathsOf
    <3>2. place.at < Len(ThePath) /\ place.at >= 1 /\ place.path >= 1
      <4>1. ThePath \in Seq(Places) BY <2>1, Shape DEF ThePath, InPath
      <4>2. place.at <= Len(ThePath) /\ place.at >= 1 /\ place.path >= 1 BY <2>1, <2>2 DEF PlaceInv
      <4>3. Len(ThePath) \in Nat BY <4>1
      <4>4. QED BY <1>0, <2>3, <4>2, <4>3
    <3>3. PlaceInv' BY <2>1, <2>2, <2>3, <3>1, <3>2 DEF PlaceInv
    <3>4. QED BY <1>0, <1>a, <2>1, <2>3, <3>3
  <2>4. CASE place' = [path |-> NextPath(phase, place.path), at |-> 0]
    <3>1. place.path \in Nat /\ place.path <= Len(Paths(phase))
      BY <2>1, Shape DEF InPath, TypeOK
    <3>2. PlaceInv' /\ place' \in [path : Nat, at : Nat] BY <2>1, <2>2, <2>4, <3>1, EnterPath
    <3>3. QED BY <1>a, <2>1, <3>2
  <2>5. (UNCHANGED place /\ place.at # Len(ThePath)) \/ place' = [path |-> NextPath(phase, place.path), at |-> 0]
    BY <1>9 DEF WorkerReturned
  <2>6. QED BY <2>3, <2>4, <2>5
<1>10. CASE PathThrows
  <2>1. stack = <<>> /\ ret' = "none" /\ UNCHANGED <<config, stack, worker, ran>> BY <1>10 DEF PathThrows
  <2>2. CASE phase = "trig" /\ ret = "SkipEvent"
    <3>1. AfterTriggerPaths BY <1>10, <2>2 DEF PathThrows
    <3>2. QED BY <1>c, <2>1, <3>1
  <2>3. CASE ~(phase = "trig" /\ ret = "SkipEvent")
    <3>1. phase' \in {"stopped", "aborted"} /\ UNCHANGED place BY <1>10, <2>3 DEF PathThrows
    <3>2. QED BY <1>0, <1>a, <1>b, <2>1, <3>1
  <2>4. QED BY <2>2, <2>3
<1>11. CASE TriggerPathsEnd BY <1>11, <1>c, <1>e DEF TriggerPathsEnd
<1>12. CASE EndPathsEnd
  <2>1. /\ stack' = <<>> /\ ret' = "none" /\ UNCHANGED <<worker, ran>>
        /\ phase' = "idle" /\ place' = [path |-> 0, at |-> 0]
    BY <1>12, <1>e DEF EndPathsEnd, EndEvent
  <2>2. QED BY <1>a, <1>b, <2>1
<1>13. CASE Done
  <2>1. UNCHANGED vars BY <1>13 DEF Done
  <2>2. PlaceInv' /\ StackInv'
    <3>1. PlaceInv' BY <2>1 DEF vars, PlaceInv, InPath, ThePath, Paths, PathsOf
    <3>2. ThePath' = ThePath /\ Unscheduled(config)' = Unscheduled(config) /\ Last(stack)' = Last(stack)
      BY <2>1 DEF vars, ThePath, Paths, PathsOf, Unscheduled, Scheduled
    <3>3. StackInv' BY <2>1, <3>2 DEF vars, StackInv
    <3>4. QED BY <3>1, <3>3
  <2>3. QED BY <1>0, <2>1, <2>2 DEF vars, TypeOK, Handled
<1>14. QED
  BY <1>1, <1>2, <1>3, <1>4, <1>5, <1>6, <1>7, <1>8, <1>9, <1>10, <1>11, <1>12, <1>13 DEF Next

-----------------------------------------------------------------------------
(* Trigger bits *)

\* A path without modules has a right bit as it is.
LEMMA EmptyIsRight ==
  ASSUME NEW p, config.trig_paths[p] = <<>>, Untouched(p)
  PROVE  BitRight(p)
BY DEF Untouched, BitRight

\* After the trigger paths the bits are right unless a path threw.
EndBits ==
  \/ \A p \in DOMAIN results : BitRight(p)
  \/ \E q \in DOMAIN results :
       /\ results[q].state = "Exception"
       /\ \A p \in DOMAIN results : IF p <= q THEN BitRight(p) ELSE Untouched(p)

\* Steps that leave the results and the decided workers alone keep these.
LEMMA EndBitsStay ==
  ASSUME TypeOK, EndBits, UNCHANGED <<config, results>>,
         \A m \in Modules : worker[m] # "Ready" => worker'[m] = worker[m]
  PROVE  EndBits'
<1>1. DOMAIN results' = DOMAIN results /\ DOMAIN results = DOMAIN config.trig_paths BY DEF TypeOK
<1>2. \A p \in DOMAIN results : (BitRight(p) => BitRight(p)') /\ (Untouched(p) => Untouched(p)')
  BY <1>1, BitsStay
<1>3. CASE \A p \in DOMAIN results : BitRight(p) BY <1>1, <1>2, <1>3 DEF EndBits
<1>4. ASSUME NEW q \in DOMAIN results, results[q].state = "Exception",
             \A p \in DOMAIN results : IF p <= q THEN BitRight(p) ELSE Untouched(p)
      PROVE  EndBits'
  <2>1. \A p \in DOMAIN results : IF p <= q THEN BitRight(p)' ELSE Untouched(p)' BY <1>2, <1>4
  <2>2. QED BY <1>1, <1>4, <2>1 DEF EndBits
<1>5. QED BY <1>3, <1>4 DEF EndBits

\* Steps of a call.
LEMMA CallKeepsBits ==
  ASSUME TypeOK, PlaceInv, BitsInv, Called, UNCHANGED <<config, results, phase>>, InPath, place'.path = place.path,
         place'.at >= 1,
         \/ place'.at = place.at
         \/ place'.at = place.at + 1 /\ stack = <<>> /\ ret = "none"
  PROVE  BitsInv'
<1>1. DOMAIN results' = DOMAIN results /\ DOMAIN results = DOMAIN config.trig_paths BY DEF TypeOK
<1>2. /\ worker' \in [Modules -> {"Ready", "Pass", "Fail"} \cup (Actions \ {"IgnoreCompletely"})]
      /\ \A m \in Modules : worker[m] # "Ready" => worker'[m] = worker[m]
      /\ stack' = <<>> => /\ worker'[ThePath'[place'.at].m] # "Ready"
                          /\ ret' = Answer(worker'[ThePath'[place'.at].m])
      /\ PlaceInv'
  BY DEF Called
<1>3. CASE phase = "end"
  <2>1. EndBits BY <1>3 DEF BitsInv, EndBits
  <2>2. EndBits' BY <1>2, <2>1, EndBitsStay
  <2>3. QED BY <1>3, <2>2 DEF BitsInv, EndBits
<1>4. CASE phase = "trig"
  <2> DEFINE path == config.trig_paths[place.path]
  <2>1. /\ place.path \in DOMAIN config.trig_paths /\ ThePath = path /\ ThePath' = path /\ InPath'
    BY <1>4 DEF InPath, ThePath, Paths, PathsOf
  <2>2. path \in Seq(Places) /\ DOMAIN path = 1..Len(path) /\ Len(path) \in Nat
        /\ \A i \in DOMAIN path : path[i].m \in Modules
    BY <1>4, <2>1, Shape DEF Paths, PathsOf
  <2>3. \A p \in DOMAIN results : IF p < place.path THEN BitRight(p) ELSE Untouched(p)
    BY <1>4 DEF BitsInv
  <2>4. \A p \in DOMAIN results' : IF p < place'.path THEN BitRight(p)' ELSE Untouched(p)'
    BY <1>1, <1>2, <2>3, BitsStay
  <2>5. place.at \in Nat /\ place.at <= Len(path) BY <2>1 DEF TypeOK, PlaceInv
  <2>6. \A i \in 1..(place'.at - 1) : i \in DOMAIN path /\ LetPass(place.path, i)
    <3>1. \A i \in 1..(place.at - 1) : LetPass(place.path, i) BY <1>4, <2>1 DEF BitsInv
    <3>2. CASE place'.at = place.at BY <2>2, <2>5, <3>1, <3>2
    <3>3. CASE place'.at = place.at + 1 /\ stack = <<>> /\ ret = "none"
      <4>1. place.at > 0 => LetPass(place.path, place.at) BY <1>4, <2>1, <3>3 DEF BitsInv
      <4>2. \A i \in 1..(place'.at - 1) : i \in DOMAIN path /\ (i = place.at \/ i \in 1..(place.at - 1))
        BY <2>2, <2>5, <3>3
      <4>3. \A i \in 1..(place'.at - 1) : i > 0 BY <2>5, <3>3
      <4>4. QED BY <3>1, <4>1, <4>2, <4>3
    <3>4. QED BY <3>2, <3>3
  <2>7. \A i \in 1..(place'.at - 1) : LetPass(place.path, i)'
    BY <1>2, <2>1, <2>6, BitsStay
  <2>8. stack' = <<>> => ret' # "none"
    <3>1. SUFFICES ASSUME stack' = <<>> PROVE ret' # "none" OBVIOUS
    <3> DEFINE w == worker'[ThePath'[place'.at].m]
    <3>2. place'.at \in DOMAIN path
      <4>1. place'.at <= Len(path) BY <1>2, <2>1 DEF PlaceInv
      <4>2. QED BY <2>2, <2>5, <4>1
    <3>3. w \in {"Pass", "Fail"} \cup (Actions \ {"IgnoreCompletely"}) BY <1>2, <2>1, <2>2, <3>1, <3>2
    <3>4. ret' = Answer(w) BY <1>2, <3>1
    <3> HIDE DEF w
    <3>5. ret' \in {"true", "false"} \cup (Actions \ {"IgnoreCompletely"}) BY <3>3, <3>4, AnswerType
    <3>6. QED BY <3>5 DEF Actions
  <2>9. QED BY <1>2, <1>4, <2>4, <2>7, <2>8 DEF BitsInv
<1>5. QED BY <1>3, <1>4 DEF InPath

\* What the path makes of an answer, by the state of the worker that gave it.
LEMMA PathDecides ==
  ASSUME TypeOK, Handled, PlaceInv, BitsInv, phase = "trig", InPath, stack = <<>>, ret # "none"
  PROVE  /\ place.path \in DOMAIN config.trig_paths /\ ThePath = config.trig_paths[place.path]
         /\ place.at \in DOMAIN ThePath /\ DOMAIN ThePath = 1..Len(ThePath) /\ Len(ThePath) \in Nat
         /\ ret = "FailPath" \/ (ret \in {"true", "false"} /\ ~PathGoesOn(ret)) =>
              /\ Decides(place.path, place.at)
              /\ worker[ThePath[place.at].m] \notin Actions \ {"FailPath"}
         /\ ret \in {"true", "false"} /\ PathGoesOn(ret) => LetPass(place.path, place.at)
         /\ ret \notin {"true", "false", "FailPath"} =>
              /\ Decides(place.path, place.at)
              /\ worker[ThePath[place.at].m] \in Actions \ {"FailPath"}
<1> DEFINE w == worker[ThePath[place.at].m]
           a == ThePath[place.at].filterAction
<1>1. place.path \in DOMAIN config.trig_paths /\ ThePath = config.trig_paths[place.path]
  BY DEF InPath, ThePath, Paths, PathsOf
<1>2. /\ ThePath \in Seq(Places) /\ DOMAIN ThePath = 1..Len(ThePath) /\ Len(ThePath) \in Nat
      /\ \A i \in DOMAIN ThePath : ThePath[i].m \in Modules
  BY <1>1, Shape DEF InPath, ThePath
<1>3. place.at \in DOMAIN ThePath
  <2>1. place.at \in Nat /\ place.at >= 1 /\ place.at <= Len(ThePath) BY DEF TypeOK, PlaceInv
  <2>2. QED BY <1>2, <2>1
<1>4. w # "Ready" /\ ret = Answer(w) BY DEF BitsInv
<1>5. w \in {"Pass", "Fail"} \cup (Actions \ {"IgnoreCompletely"})
  BY <1>2, <1>3, <1>4 DEF TypeOK, Handled
<1>6. a \in {"Normal", "Veto", "Ignore"}
  <2>1. ThePath[place.at] \in Places BY <1>2, <1>3
  <2>2. QED BY <2>1 DEF Places
<1>7. Decides(place.path, place.at) <=>
        w \in Actions \/ (w = "Fail" /\ a = "Normal") \/ (w = "Pass" /\ a = "Veto")
  BY <1>1 DEF Decides
<1>8. PathGoesOn(ret) <=>
        CASE a = "Veto" -> ret = "false" [] a = "Ignore" -> TRUE [] OTHER -> ret = "true"
  BY DEF PathGoesOn, filterActionOf, isEndPath
<1>9. LetPass(place.path, place.at) <=> w # "Ready" /\ ~Decides(place.path, place.at)
  BY <1>1 DEF LetPass
<1>10. /\ w = "Pass" => ret = "true"
       /\ w = "Fail" => ret = "false"
       /\ w \in Actions => ret = w
  BY <1>4 DEF Answer, Actions
<1> HIDE DEF w, a
<1>11. CASE w = "Pass" BY <1>1, <1>2, <1>3, <1>6, <1>7, <1>8, <1>9, <1>10, <1>11 DEF Actions, w
<1>12. CASE w = "Fail" BY <1>1, <1>2, <1>3, <1>6, <1>7, <1>8, <1>9, <1>10, <1>12 DEF Actions, w
<1>13. CASE w \in Actions \ {"IgnoreCompletely"}
  BY <1>1, <1>2, <1>3, <1>7, <1>10, <1>13 DEF Actions, w
<1>14. QED BY <1>5, <1>11, <1>12, <1>13

\* The bit that is recorded when a path ends or throws is right.
LEMMA RecordedIsRight ==
  ASSUME TypeOK, Handled, PlaceInv, BitsInv, phase = "trig", InPath, stack = <<>>, ret # "none",
         UNCHANGED <<config, worker>>, NEW s, recordStatus(s),
         NEW P, NEW at, P = place.path, at = place.at,
         \/ s = "Pass" /\ ret \in {"true", "false"} /\ PathGoesOn(ret) /\ at = Len(ThePath)
         \/ s = "Fail" /\ (ret = "FailPath" \/ (ret \in {"true", "false"} /\ ~PathGoesOn(ret)))
         \/ s = "Exception" /\ ret \notin {"true", "false", "FailPath"}
  PROVE  /\ results'[P].state = s /\ DOMAIN results' = DOMAIN results /\ P \in DOMAIN results
         /\ \A p \in DOMAIN results : IF p <= P THEN BitRight(p)' ELSE Untouched(p)'
<1> DEFINE path == config.trig_paths[P]
<1>1. /\ P \in DOMAIN config.trig_paths /\ ThePath = path
      /\ at \in DOMAIN path /\ DOMAIN path = 1..Len(path) /\ Len(path) \in Nat
  BY PathDecides
<1>2. DOMAIN results = DOMAIN config.trig_paths /\ P \in DOMAIN results BY <1>1 DEF TypeOK
<1>3. results' = [results EXCEPT ![P] = [state |-> s, index |-> at - 1]]
  BY DEF recordStatus, isEndPath
<1>4. /\ results'[P] = [state |-> s, index |-> at - 1] /\ DOMAIN results' = DOMAIN results
      /\ \A p \in DOMAIN results : p # P => results'[p] = results[p]
  BY <1>2, <1>3
<1>5. \A i \in 1..(at - 1) : LetPass(P, i) BY DEF BitsInv
<1>6. /\ \A i \in DOMAIN path : LetPass(P, i) => /\ worker'[config'.trig_paths[P][i].m] # "Ready"
                                                 /\ ~Decides(P, i)'
      /\ Decides(P, at) => Decides(P, at)'
  BY <1>1 DEF LetPass, Decides
<1>7. BitRight(P)'
  <2>1. \A i \in 1..(at - 1) : i \in DOMAIN path BY <1>1
  <2>2. CASE s = "Pass" /\ ret \in {"true", "false"} /\ PathGoesOn(ret) /\ at = Len(path)
    <3>1. LetPass(P, at) BY <2>2, PathDecides
    <3>2. \A i \in DOMAIN path : i = at \/ i \in 1..(at - 1) BY <1>1, <2>2
    <3>3. \A i \in DOMAIN path : LetPass(P, i) BY <1>5, <3>1, <3>2
    <3>4. path # <<>> BY <1>1
    <3>5. QED BY <1>4, <1>6, <2>2, <3>3, <3>4 DEF BitRight, LetPass
  <2>3. CASE s \in {"Fail", "Exception"}
    <3>1. Decides(P, at) /\ (s = "Exception" <=> worker[path[at].m] \in Actions \ {"FailPath"})
      BY <1>1, <2>3, PathDecides
    <3>2. results'[P].index + 1 = at /\ results'[P].state = s /\ results'[P].index = at - 1 BY <1>1, <1>4
    <3>3. results'[P].state = IF worker'[path[at].m] \in Actions \ {"FailPath"} THEN "Exception" ELSE "Fail"
      BY <2>3, <3>1, <3>2
    <3>4. \A i \in 1..(at - 1) : LetPass(P, i)' BY <1>5, <1>6, <2>1 DEF LetPass
    <3>5. QED BY <1>1, <1>6, <3>1, <3>2, <3>3, <3>4 DEF BitRight
  <2>4. QED BY <1>1, <2>2, <2>3
<1>8. ASSUME NEW p \in DOMAIN results
      PROVE  IF p <= P THEN BitRight(p)' ELSE Untouched(p)'
  <2>1. CASE p = P
    <3>1. P \in Nat BY DEF TypeOK
    <3>2. QED BY <1>7, <2>1, <3>1
  <2>2. CASE p # P
    <3>1. IF p < P THEN BitRight(p) ELSE Untouched(p) BY DEF BitsInv
    <3>2. results'[p] = results[p] BY <1>4, <2>2
    <3>3. /\ BitRight(p) => BitRight(p)'
          /\ Untouched(p) => Untouched(p)'
      BY <1>2, <3>2, BitsStay
    <3>4. p \in Nat /\ P \in Nat
      <4>1. DOMAIN config.trig_paths \subseteq Nat
        <5>1. DOMAIN Paths("trig") = 1..Len(Paths("trig")) /\ Len(Paths("trig")) \in Nat BY Shape
        <5>2. Paths("trig") = config.trig_paths BY DEF Paths, PathsOf
        <5>3. QED BY <5>1, <5>2
      <4>2. QED BY <1>1, <1>2, <4>1
    <3>5. QED BY <2>2, <3>1, <3>3, <3>4
  <2>3. QED BY <2>1, <2>2
<1>9. QED BY <1>2, <1>4, <1>7, <1>8

\* A path is entered: those before it that nobody entered have no modules.
LEMMA BitsAtNextPath ==
  ASSUME TypeOK, UNCHANGED config, phase' = "trig", NEW P \in Nat, P <= Len(config.trig_paths),
         place' = [path |-> NextPath("trig", P), at |-> 0], ret' = "none",
         DOMAIN results' = DOMAIN config.trig_paths,
         \A p \in DOMAIN results' : IF p <= P THEN BitRight(p)' ELSE Untouched(p)'
  PROVE  BitsInv'
<1>1. Paths("trig") = config.trig_paths BY DEF Paths, PathsOf
<1>2. DOMAIN config.trig_paths = 1..Len(config.trig_paths) /\ Len(config.trig_paths) \in Nat
  BY <1>1, Shape
<1>3. /\ NextPath("trig", P) \in (P + 1)..(Len(config.trig_paths) + 1)
      /\ \A r \in (P + 1)..(NextPath("trig", P) - 1) : config.trig_paths[r] = <<>>
  BY <1>1, NextPathFacts
<1>4. ASSUME NEW p \in DOMAIN results'
      PROVE  IF p < place'.path THEN BitRight(p)' ELSE Untouched(p)'
  <2>1. p \in Nat /\ place'.path = NextPath("trig", P) /\ place'.path \in Nat BY <1>2, <1>3
  <2>2. CASE p <= P BY <1>3, <1>4, <2>1, <2>2
  <2>3. CASE p > P
    <3>1. Untouched(p)' BY <1>4, <2>1, <2>3
    <3>2. p < place'.path => BitRight(p)'
      <4>1. p < place'.path => p \in (P + 1)..(NextPath("trig", P) - 1) BY <1>3, <2>1, <2>3
      <4>2. p < place'.path => config'.trig_paths[p] = <<>> BY <1>3, <4>1
      <4>3. QED BY <3>1, <4>2 DEF Untouched, BitRight
    <3>3. QED BY <3>1, <3>2
  <2>4. QED BY <2>1, <2>2, <2>3
<1>5. place'.at = 0 OBVIOUS
<1>6. QED BY <1>4, <1>5 DEF BitsInv

\* The bits that are recorded are right after every step.
LEMMA BitsStep ==
  ASSUME TypeOK, Handled, PlaceInv, StackInv, DeleteInv, BitsInv, Next
  PROVE  BitsInv'
<1> USE DEF delVars, ghosts
<1>0. /\ DOMAIN results = DOMAIN config.trig_paths
      /\ DOMAIN config.trig_paths = 1..Len(config.trig_paths) /\ Len(config.trig_paths) \in Nat
  <2>1. Paths("trig") = config.trig_paths BY DEF Paths, PathsOf
  <2>2. QED BY <2>1, Shape DEF TypeOK
<1>a. phase' \notin {"trig", "end"} => BitsInv' BY DEF BitsInv
<1>b. ASSUME phase' = "end", EndBits' PROVE BitsInv' BY <1>b DEF BitsInv, EndBits
<1>c. ASSUME UNCHANGED <<config, worker, results>>, EndBits PROVE EndBits'
  BY <1>c, EndBitsStay
<1>1. CASE InitializeEarlyDelete BY <1>1, <1>a DEF InitializeEarlyDelete
<1>2. CASE SelectProducts BY <1>2, <1>a DEF SelectProducts
<1>3. CASE EnableEndPaths BY <1>3, <1>a DEF EnableEndPaths
<1>4. CASE StartEvent
  <2>1. /\ phase = "idle" /\ phase' = "trig" /\ place' = [path |-> NextPath("trig", 0), at |-> 0]
        /\ UNCHANGED <<config, ret>>
        /\ results' = [p \in DOMAIN results |->
             [state |-> IF config.trig_paths[p] = <<>> THEN "Pass" ELSE "Ready", index |-> 0]]
    BY <1>4 DEF StartEvent
  <2>2. ret' = "none" BY <2>1 DEF PlaceInv
  <2>3. DOMAIN results' = DOMAIN config.trig_paths BY <1>0, <2>1
  <2>4. \A p \in DOMAIN results' : ~(p <= 0) /\ Untouched(p)'
    <3>1. \A p \in DOMAIN results' : ~(p <= 0) BY <1>0, <2>3
    <3>2. QED BY <2>1, <3>1 DEF Untouched
  <2>5. QED BY <1>0, <2>1, <2>2, <2>3, <2>4, BitsAtNextPath
<1>5. CASE RunWorker
  <2>1. /\ Called /\ UNCHANGED <<config, results, phase>> /\ InPath
        /\ place' = [place EXCEPT !.at = @ + 1] /\ stack = <<>> /\ ret = "none"
    BY <1>5, RunWorkerCalled DEF RunWorker
  <2>2. place'.path = place.path /\ place'.at = place.at + 1 /\ place'.at >= 1 BY <2>1 DEF TypeOK
  <2>3. QED BY <2>1, <2>2, CallKeepsBits
<1>d. ASSUME stack # <<>>, Called, UNCHANGED <<config, results, phase, place>>
      PROVE  BitsInv'
  <2>1. InPath /\ place.at >= 1 BY <1>d DEF PlaceInv
  <2>2. QED BY <1>d, <2>1, CallKeepsBits
<1>6. CASE Prefetch BY <1>6, <1>d, PrefetchCalled DEF Prefetch
<1>7. CASE PrefetchReturned BY <1>7, <1>d, PrefetchReturnedCalled DEF PrefetchReturned
<1>8. ASSUME NEW outcome \in Actions \cup {"true", "false"}, ImplDo(outcome)
      PROVE  BitsInv'
  <2>1. phase' = phase BY <1>8, ImplDoKeeps
  <2>2. Called BY <1>8, ImplDoCalled
  <2>3. stack # <<>> /\ UNCHANGED <<config, results, place>> BY <1>8 DEF ImplDo
  <2>4. QED BY <1>d, <2>1, <2>2, <2>3
<1>9. CASE WorkerReturned
  <2>1. /\ InPath /\ stack = <<>> /\ ret \in {"true", "false", "FailPath"} /\ ret' = "none"
        /\ UNCHANGED <<config, stack, worker>>
    BY <1>9 DEF WorkerReturned
  <2>2. phase' = phase
    <3>1. phase' \in {phase, "aborted"} BY <1>9 DEF WorkerReturned, Give
    <3>2. QED BY <3>1, DeleteStep
  <2>3. CASE phase = "end"
    <3>1. UNCHANGED results BY <1>9, <2>3 DEF WorkerReturned, recordStatus, isEndPath
    <3>2. EndBits BY <2>3 DEF BitsInv, EndBits
    <3>3. QED BY <1>b, <1>c, <2>1, <2>2, <2>3, <3>1, <3>2
  <2>4. CASE phase = "trig"
    <3>1. PICK P \in Nat, at \in Nat : P = place.path /\ at = place.at BY DEF TypeOK
    <3>2. P \in DOMAIN config.trig_paths /\ P <= Len(config.trig_paths)
      BY <1>0, <2>1, <2>4, <3>1, PathDecides
    <3>a. ASSUME NEW s, recordStatus(s), place' = [path |-> NextPath(phase, place.path), at |-> 0],
                 \/ s = "Pass" /\ ret \in {"true", "false"} /\ PathGoesOn(ret) /\ at = Len(ThePath)
                 \/ s = "Fail" /\ (ret = "FailPath" \/ (ret \in {"true", "false"} /\ ~PathGoesOn(ret)))
          PROVE  BitsInv'
      <4>1. /\ DOMAIN results' = DOMAIN results
            /\ \A p \in DOMAIN results : IF p <= P THEN BitRight(p)' ELSE Untouched(p)'
        BY <2>1, <2>4, <3>1, <3>a, RecordedIsRight
      <4>2. place' = [path |-> NextPath("trig", P), at |-> 0] BY <2>4, <3>1, <3>a
      <4>3. QED BY <1>0, <2>1, <2>2, <2>4, <3>2, <4>1, <4>2, BitsAtNextPath
    <3>3. CASE ret # "FailPath" /\ PathGoesOn(ret) /\ place.at # Len(ThePath)
      <4>1. UNCHANGED <<place, results>> BY <1>9, <3>3 DEF WorkerReturned
      <4>2. LetPass(P, at) BY <2>1, <2>4, <3>1, <3>3, PathDecides
      <4>3. /\ \A p \in DOMAIN results : IF p < P THEN BitRight(p) ELSE Untouched(p)
            /\ \A i \in 1..(at - 1) : LetPass(P, i)
        BY <2>1, <2>4, <3>1 DEF BitsInv
      <4>4. \A p, i : LetPass(p, i) => LetPass(p, i)' BY <2>1, <4>1 DEF LetPass, Decides
      <4>5. \A p \in DOMAIN results' : IF p < P THEN BitRight(p)' ELSE Untouched(p)'
        <5>1. DOMAIN results' = DOMAIN results BY <4>1
        <5>2. \A p \in DOMAIN results : (BitRight(p) => BitRight(p)') /\ (Untouched(p) => Untouched(p)')
          BY <1>0, <2>1, <4>1, BitsStay
        <5>3. QED BY <4>3, <5>1, <5>2
      <4>6. place'.path = P /\ place'.at = at BY <3>1, <4>1
      <4>7. QED BY <2>1, <2>2, <2>4, <4>2, <4>3, <4>4, <4>5, <4>6 DEF BitsInv
    <3>4. CASE ret # "FailPath" /\ PathGoesOn(ret) /\ place.at = Len(ThePath)
      <4>1. recordStatus("Pass") /\ place' = [path |-> NextPath(phase, place.path), at |-> 0]
        BY <1>9, <3>4 DEF WorkerReturned
      <4>2. QED BY <2>1, <3>1, <3>4, <3>a, <4>1
    <3>5. CASE ~(ret # "FailPath" /\ PathGoesOn(ret))
      <4>1. recordStatus("Fail") /\ place' = [path |-> NextPath(phase, place.path), at |-> 0]
        BY <1>9, <3>5 DEF WorkerReturned
      <4>2. QED BY <2>1, <3>5, <3>a, <4>1
    <3>6. QED BY <3>3, <3>4, <3>5
  <2>5. QED BY <2>1, <2>3, <2>4 DEF InPath
<1>10. CASE PathThrows
  <2>1. /\ InPath /\ stack = <<>> /\ ret \notin {"none", "true", "false", "FailPath"}
        /\ recordStatus("Exception") /\ UNCHANGED <<config, worker>>
    BY <1>10 DEF PathThrows
  <2>2. CASE phase = "trig" /\ phase' = "end"
    <3>1. PICK P \in Nat, at \in Nat : P = place.path /\ at = place.at BY DEF TypeOK
    <3>2. /\ results'[P].state = "Exception" /\ DOMAIN results' = DOMAIN results /\ P \in DOMAIN results
          /\ \A p \in DOMAIN results : IF p <= P THEN BitRight(p)' ELSE Untouched(p)'
      BY <2>1, <2>2, <3>1, RecordedIsRight
    <3>3. EndBits' BY <3>2 DEF EndBits
    <3>4. QED BY <1>b, <2>2, <3>3
  <2>3. CASE ~(phase = "trig" /\ phase' = "end")
    <3>1. phase' \notin {"trig", "end"}
      BY <1>10, <2>3 DEF PathThrows, AfterTriggerPaths, EndEvent
    <3>2. QED BY <1>a, <3>1
  <2>4. QED BY <2>2, <2>3
<1>11. CASE TriggerPathsEnd
  <2>1. phase = "trig" /\ ~InPath /\ UNCHANGED <<config, worker, results>> /\ phase' \in {"end", "idle"}
    BY <1>11 DEF TriggerPathsEnd, AfterTriggerPaths, EndEvent
  <2>2. EndBits
    <3>1. place.path >= 1 /\ place.path \in Nat /\ place.path \notin DOMAIN config.trig_paths
      BY <2>1 DEF PlaceInv, InPath, TypeOK, Paths, PathsOf
    <3>2. \A p \in DOMAIN results : p < place.path BY <1>0, <3>1
    <3>3. \A p \in DOMAIN results : IF p < place.path THEN BitRight(p) ELSE Untouched(p)
      BY <2>1 DEF BitsInv
    <3>4. QED BY <3>2, <3>3 DEF EndBits
  <2>3. QED BY <1>a, <1>b, <1>c, <2>1, <2>2
<1>12. CASE EndPathsEnd BY <1>12, <1>a DEF EndPathsEnd, EndEvent
<1>13. CASE Done
  <2>1. UNCHANGED vars BY <1>13 DEF Done
  <2>2. phase \notin {"trig", "end"} BY <1>13 DEF Done
  <2>3. QED BY <1>a, <2>1, <2>2 DEF vars
<1>14. QED
  BY <1>1, <1>2, <1>3, <1>4, <1>5, <1>6, <1>7, <1>8, <1>9, <1>10, <1>11, <1>12, <1>13 DEF Next

-----------------------------------------------------------------------------
(* Theorems *)

\* The invariant holds at the beginning.
LEMMA InitIInv ==
  ASSUME Init
  PROVE  IInv
<1> USE DEF Init
<1>1. config \in Configurations /\ ConfigurationShape(config) BY ConfigurationsAreWellFormed
<1>2. DOMAIN config.trig_paths = 1..Len(config.trig_paths) /\ Len(config.trig_paths) \in Nat
  BY <1>1 DEF ConfigurationShape
<1>3. TypeOK BY <1>1, ConfigurationsAreWellFormed DEF TypeOK
<1>4. Handled BY DEF Handled
<1>5. PlaceInv BY DEF PlaceInv, InPath
<1>6. StackInv BY DEF StackInv
<1>7. DeleteInv BY DEF DeleteInv, Deletes
<1>8. BitsInv BY DEF BitsInv
<1>9. QED BY <1>3, <1>4, <1>5, <1>6, <1>7, <1>8 DEF IInv

\* Every step keeps it.
LEMMA StepIInv ==
  ASSUME IInv, [Next]_vars
  PROVE  IInv'
<1>1. CASE Next
  <2> USE DEF IInv
  <2>1. DeleteInv' /\ DeletionType' /\ phase' # "aborted" BY <1>1, DeleteStep
  <2>2. RestOK' /\ ResultsType' BY <1>1, RestStep
  <2>3. /\ place' \in [path : Nat, at : Nat] /\ stack' \in Seq(Frames)
        /\ ret' \in {"none", "true", "false"} \cup (Actions \ {"IgnoreCompletely"})
        /\ worker' \in [Modules -> {"Ready", "Pass", "Fail"} \cup (Actions \ {"IgnoreCompletely"})]
        /\ PlaceInv' /\ StackInv'
    BY <1>1, CallStep
  <2>4. BitsInv' BY <1>1, BitsStep
  <2>5. TypeOK' BY <2>1, <2>2, <2>3 DEF TypeOK, DeletionType, RestOK, ResultsType
  <2>6. Handled' BY <2>1, <2>3 DEF Handled
  <2>7. QED BY <2>1, <2>3, <2>4, <2>5, <2>6
<1>2. CASE UNCHANGED vars
  <2>1. TypeOK' BY <1>2 DEF IInv, TypeOK, vars, delVars, ghosts
  <2>2. Handled' BY <1>2 DEF IInv, Handled, vars
  <2>3. InPath' = InPath /\ ThePath' = ThePath BY <1>2 DEF vars, InPath, ThePath, Paths, PathsOf
  <2>4. PlaceInv' BY <1>2, <2>3 DEF IInv, PlaceInv, vars, InPath
  <2>5. StackInv' BY <1>2, <2>3 DEF IInv, StackInv, vars, ghosts, Unscheduled, Scheduled, Last
  <2>6. DeleteInv' BY <1>2, NobodyTold DEF IInv, vars, delVars, ghosts
  <2>7. BitsInv'
    <3>1. \A p, i : Decides(p, i)' <=> Decides(p, i) BY <1>2 DEF vars, Decides
    <3>2. \A p, i : LetPass(p, i)' <=> LetPass(p, i) BY <1>2, <3>1 DEF vars, LetPass
    <3>3. \A p : (BitRight(p)' <=> BitRight(p)) /\ (Untouched(p)' <=> Untouched(p))
      BY <1>2, <3>1, <3>2 DEF vars, BitRight, Untouched
    <3>4. QED BY <1>2, <2>3, <3>2, <3>3 DEF IInv, BitsInv, vars, InPath
  <2>8. QED BY <2>1, <2>2, <2>4, <2>5, <2>6, <2>7 DEF IInv
<1>3. QED BY <1>1, <1>2

LEMMA Invariance == Spec => []IInv
BY InitIInv, StepIInv, PTL DEF Spec

\* The bit of each trigger path, when the output modules read it, follows from what its
\* modules answered (Path::processOneOccurrence and what the stream makes of exceptions).
THEOREM BitsFollowModules == Spec => []TriggerBitsFollowModules
<1>1. IInv => TriggerBitsFollowModules
  <2> SUFFICES ASSUME IInv, phase = "end"
               PROVE  \A p \in DOMAIN results :
                        \/ results[p] = ExpectedStatus(p)
                        \/ /\ \E q \in {x \in DOMAIN results : results[x].state = "Exception"} : p > q
                           /\ results[p] = [state |-> "Ready", index |-> 0]
    BY DEF TriggerBitsFollowModules
  <2>1. TypeOK /\ EndBits BY DEF IInv, BitsInv, EndBits
  <2>2. \A p \in DOMAIN results : BitRight(p) => results[p] = ExpectedStatus(p)
    BY <2>1, RightIsExpected
  <2>3. CASE \A p \in DOMAIN results : BitRight(p) BY <2>2, <2>3
  <2>4. ASSUME NEW q \in DOMAIN results, results[q].state = "Exception",
               \A p \in DOMAIN results : IF p <= q THEN BitRight(p) ELSE Untouched(p),
               NEW p \in DOMAIN results
        PROVE  \/ results[p] = ExpectedStatus(p)
               \/ p > q /\ results[p] = [state |-> "Ready", index |-> 0]
    <3>1. p \in Nat /\ q \in Nat
      <4>1. Paths("trig") = config.trig_paths BY DEF Paths, PathsOf
      <4>2. DOMAIN config.trig_paths = 1..Len(config.trig_paths) /\ Len(config.trig_paths) \in Nat
        BY <2>1, <4>1, Shape
      <4>3. QED BY <2>1, <4>2 DEF TypeOK
    <3>2. CASE p <= q BY <2>2, <2>4, <3>2
    <3>3. CASE p > q
      <4>1. Untouched(p) BY <2>4, <3>1, <3>3
      <4>2. config.trig_paths[p] = <<>> => BitRight(p) BY <4>1, EmptyIsRight
      <4>3. QED BY <2>2, <3>3, <4>1, <4>2 DEF Untouched
    <3>4. QED BY <3>1, <3>2, <3>3
  <2>5. QED BY <2>1, <2>3, <2>4 DEF EndBits
<1>2. QED BY <1>1, Invariance, PTL

\* No product is deleted that a started module may still read (EarlyDeleteHelper).
THEOREM ReadersFindProducts == Spec => []NoReadAfterDelete
<1>1. IInv => NoReadAfterDelete
  <2> SUFFICES ASSUME IInv, NEW k \in DOMAIN stack, NEW b \in config.mightGet[stack[k].m]
               PROVE  status[b] # "deleted"
    BY DEF NoReadAfterDelete
  <2> USE DEF IInv
  <2>1. k \in 1..Len(stack) /\ stack # <<>> /\ stack[k].m \in Modules
    <3>1. stack \in Seq(Frames) BY DEF TypeOK
    <3>2. k \in 1..Len(stack) /\ stack # <<>> /\ stack[k] \in Frames BY <3>1
    <3>3. QED BY <3>2 DEF Frames
  <2>2. b \in Products
    <3>1. config.mightGet \in [Modules -> SUBSET Products] BY Shape DEF ConfigurationShape
    <3>2. QED BY <2>1, <3>1
  <2>3. ~IsGone(stack[k].m) BY <2>1, RunningIsLeft
  <2>4. stack[k].m \in ReadersLeft(b) BY <2>1, <2>3 DEF ReadersLeft, Readers
  <2>5. InPath BY <2>1 DEF PlaceInv
  <2>6. DeletedRight BY <2>5 DEF DeleteInv, InPath
  <2>7. QED BY <2>2, <2>4, <2>6 DEF DeletedRight
<1>2. QED BY <1>1, Invariance, PTL

\* The asserts of EarlyDeleteHelper and of processOneEvent hold.
THEOREM NoAssertFails == Spec => []AssertionsHold
<1>1. IInv => AssertionsHold BY DEF IInv, Handled, AssertionsHold
<1>2. QED BY <1>1, Invariance, PTL

\* A product goes exactly when its last reader has run or cannot be reached any more.
THEOREM DeletedInTime == Spec => []DeletedWhenLastReaderIsDone
<1>1. IInv => DeletedWhenLastReaderIsDone
  <2> SUFFICES ASSUME IInv, phase \in {"trig", "end"}, NEW b \in deletable
               PROVE  (status[b] = "deleted") <=> (\A m \in Readers(b) : m \in ran \/ OutOfReach(m))
    BY DEF DeletedWhenLastReaderIsDone
  <2>1. TypeOK /\ DeletedRight /\ b \in Products BY DEF IInv, DeleteInv, TypeOK
  <2>2. \A m \in Readers(b) : IsGone(m) <=> m \in ran \/ OutOfReach(m)
    BY <2>1, GoneIsDone DEF Readers
  <2>3. ReadersLeft(b) = {} <=> \A m \in Readers(b) : IsGone(m) BY DEF ReadersLeft
  <2>4. QED BY <2>1, <2>2, <2>3 DEF DeletedRight
<1>2. QED BY <1>1, Invariance, PTL
=============================================================================
