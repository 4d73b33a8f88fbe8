--------------------------- MODULE EventSetupProofs ---------------------------
(* Theorems about the EventSetup, for any records, sources, tables and number *)
(* of runs: the intervals of records are those of all the answers below them, *)
(* data are made from these, and what a module holds on to lasts as long as   *)
(* the cache identifier.  The order in which records are asked comes from     *)
(* their dependencies, which form no circle: whatever holds for a record if   *)
(* it holds for those it depends on holds for all (LeastRecord).              *)
EXTENDS EventSetup, FiniteSetTheorems, WellFoundedInduction, TLAPS

-----------------------------------------------------------------------------
(* Numbers, jobs and the answers of sources. *)

Last == 4 * MaxRuns

\* Runs are four instants each, and there is one at least.
LEMMA LastIs == Last \in Nat /\ 4 <= Last /\ Instants = 1 .. Last /\ Always = <<1, Last>>
BY BoundsAssumption DEF Last, Instants, Always

\* Of any numbers there is a smallest one.
LEMMA SmallestOf ==
  ASSUME NEW S \in SUBSET Nat, S # {}
  PROVE  \E x \in S : \A y \in S : x <= y
<1>1. IsWellFoundedOn(OpToRel(<, Nat), Nat)
  BY NatLessThanWellFounded, Zenon
<1>2. PICK x \in S : \A y \in S : ~(<<y, x>> \in OpToRel(<, Nat))
  BY <1>1, WFMin, Zenon
<1>3. \A y \in S : y \in Nat /\ x \in Nat /\ ~(y < x) BY <1>2 DEF OpToRel
<1> QED BY <1>3

\* The smallest of some instants is one of them.
LEMMA MinIs ==
  ASSUME NEW S \in SUBSET (0 .. Last), S # {}
  PROVE  Min(S) \in S /\ \A y \in S : Min(S) <= y
<1>1. S \in SUBSET Nat BY LastIs
<1>2. \E x \in S : \A y \in S : x <= y BY <1>1, SmallestOf
<1> QED BY <1>2 DEF Min

\* So is the largest.
LEMMA MaxIs ==
  ASSUME NEW S \in SUBSET (0 .. Last), S # {}
  PROVE  Max(S) \in S /\ \A y \in S : y <= Max(S)
<1> DEFINE Mirrored == {Last - y : y \in S}
<1>0. \A y \in S : Last - y \in Nat /\ y \in 0 .. Last BY LastIs
<1>1. Mirrored \in SUBSET Nat /\ Mirrored # {} BY <1>0
<1>2. PICK m \in Mirrored : \A y \in Mirrored : m <= y BY <1>1, SmallestOf
<1>3. PICK x \in S : m = Last - x BY <1>2
<1>4. \A y \in S : x >= y
  <2>1. TAKE y \in S
  <2>2. Last - y \in Mirrored /\ Last - x <= Last - y BY <1>2, <1>3
  <2>3. x \in Nat /\ y \in Nat /\ Last \in Nat BY <1>0, LastIs
  <2> HIDE DEF Mirrored
  <2> QED BY <2>2, <2>3
<1>5. \E y \in S : \A z \in S : y >= z BY <1>4
<1>6. Max(S) \in S /\ \A y \in S : Max(S) >= y BY <1>5 DEF Max
<1> QED BY <1>6, LastIs

\* What ConfigurationsAssumption says of the job.
LEMMA JobFacts ==
  ASSUME job \in Configurations
  PROVE  /\ job.table \in [Sources -> Tables]
         /\ job.sources \in [Records -> SUBSET Sources]
         /\ job.dependsOn \in [Records -> SUBSET Records]
         /\ job.forceClear \in BOOLEAN /\ job.modifying \subseteq Records
         /\ \E depth \in [Records -> 0 .. Cardinality(Records)] :
              \A r \in Records : \A d \in job.dependsOn[r] : depth[d] < depth[r]
BY ConfigurationsAssumption, Zenon

\* An interval of a table begins at an instant and does not end before it.
LEMMA TableFacts ==
  ASSUME job \in Configurations, NEW f \in Sources, NEW i \in job.table[f]
  PROVE  /\ i \in Instants \X (Instants \cup {0}) /\ (i[2] = 0 \/ i[1] <= i[2]) /\ i # Invalid
         /\ i \in Intervals
<1>1. job.table[f] \in Tables BY JobFacts
<1>2. i \in Instants \X (Instants \cup {0}) /\ (i[2] = 0 \/ i[1] <= i[2]) BY <1>1 DEF Tables
<1>3. i[1] \in Instants BY <1>2
<1>4. i # Invalid BY <1>3, LastIs DEF Invalid
<1> QED BY <1>2, <1>4 DEF Intervals

\* A source answers with the interval that holds, if there is one.
LEMMA AnswerIs ==
  ASSUME job \in Configurations, NEW f \in Sources, NEW t \in Instants,
         NEW i \in job.table[f], Holds(i, t)
  PROVE  SourceInterval(f, t) = i
<1> DEFINE holding == {j \in job.table[f] : Holds(j, t)}
<1>1. job.table[f] \in Tables BY JobFacts
<1>2. \A j \in holding : j = i BY <1>1 DEF Tables
<1>3. holding = {i} BY <1>2
<1>4. (CHOOSE j \in {i} : TRUE) = i OBVIOUS
<1>5. SourceInterval(f, t) = IF holding = {} THEN Invalid ELSE CHOOSE j \in holding : TRUE
  BY DEF SourceInterval
<1> HIDE DEF holding
<1> QED BY <1>3, <1>4, <1>5

\* An answer is no interval, or one of the source's table that holds.
LEMMA AnswerFacts ==
  ASSUME job \in Configurations, NEW f \in Sources, NEW t \in Instants
  PROVE  /\ SourceInterval(f, t) \in Intervals
         /\ SourceInterval(f, t) # Invalid
              => SourceInterval(f, t) \in job.table[f] /\ Holds(SourceInterval(f, t), t)
         /\ SourceInterval(f, t) # Invalid <=> Answering(job, f, t)
<1> DEFINE holding == {j \in job.table[f] : Holds(j, t)}
<1>1. CASE holding = {}
  <2>1. SourceInterval(f, t) = Invalid BY <1>1 DEF SourceInterval
  <2> QED BY <1>1, <2>1 DEF Answering, Intervals
<1>2. CASE holding # {}
  <2>1. PICK i \in job.table[f] : Holds(i, t) BY <1>2
  <2>2. SourceInterval(f, t) = i BY <2>1, AnswerIs
  <2> QED BY <2>1, <2>2, TableFacts DEF Answering
<1> QED BY <1>1, <1>2

-----------------------------------------------------------------------------
(* The interval of a set of answers. *)

\* The end of an interval is not before its beginning, if it is known.
InOrder(i) == i[2] = 0 \/ i[1] <= i[2]

\* What makes an interval that of the answers.
IsIntervalOf(i, answers) ==
    LET valid == answers \ {Invalid}
    IN IF valid = {} THEN i = Invalid
       ELSE /\ i = <<i[1], i[2]>>
            /\ \E a \in valid : i[1] = a[1]
            /\ \A a \in valid : a[1] <= i[1]
            /\ IF \E a \in answers : a[2] = 0 THEN i[2] = 0
               ELSE (\E a \in valid : i[2] = a[2]) /\ \A a \in valid : i[2] <= a[2]

\* An interval is a pair; what begins at an instant is one of some answer.
LEMMA IntervalFacts ==
  ASSUME NEW i \in Intervals
  PROVE  /\ i = <<i[1], i[2]>> /\ i[1] \in 0 .. Last /\ i[2] \in 0 .. Last
         /\ i # Invalid => i[1] \in Instants /\ i[1] # 0
         /\ Invalid[1] = 0 /\ Invalid[2] = 0
         /\ i[1] = 0 => i = Invalid
<1>1. CASE i = Invalid BY <1>1, LastIs DEF Invalid
<1>2. CASE i \in Instants \X (Instants \cup {0}) BY <1>2, LastIs DEF Invalid
<1> QED BY <1>1, <1>2 DEF Intervals

\* There is only one such interval.
LEMMA IntervalIsOne ==
  ASSUME NEW answers \in SUBSET Intervals, NEW i, NEW j,
         IsIntervalOf(i, answers), IsIntervalOf(j, answers)
  PROVE  i = j
<1> DEFINE valid == answers \ {Invalid}
<1>1. CASE valid = {} BY <1>1 DEF IsIntervalOf
<1>2. CASE valid # {}
  <2>1. /\ i = <<i[1], i[2]>> /\ j = <<j[1], j[2]>>
        /\ \E a \in valid : i[1] = a[1]
        /\ \E a \in valid : j[1] = a[1]
        /\ \A a \in valid : a[1] <= i[1] /\ a[1] <= j[1]
    BY <1>2 DEF IsIntervalOf
  <2>2. \A a \in valid : a[1] \in Nat /\ a[2] \in Nat BY IntervalFacts, LastIs
  <2>3. i[1] = j[1] BY <2>1, <2>2
  <2>4. i[2] = j[2]
    <3>1. CASE \E a \in answers : a[2] = 0 BY <1>2, <3>1 DEF IsIntervalOf
    <3>2. CASE ~\E a \in answers : a[2] = 0
      <4>1. /\ \E a \in valid : i[2] = a[2]
            /\ \E a \in valid : j[2] = a[2]
            /\ \A a \in valid : i[2] <= a[2] /\ j[2] <= a[2]
        BY <1>2, <3>2 DEF IsIntervalOf
      <4> QED BY <4>1, <2>2
    <3> QED BY <3>1, <3>2
  <2> QED BY <2>1, <2>3, <2>4
<1> QED BY <1>1, <1>2

\* The first and last instants of answers.
LEMMA FirstAndLast ==
  ASSUME NEW answers \in SUBSET Intervals, answers # {}
  PROVE  /\ {i[1] : i \in answers} \in SUBSET (0 .. Last) /\ {i[1] : i \in answers} # {}
         /\ {i[2] : i \in answers} \in SUBSET (0 .. Last) /\ {i[2] : i \in answers} # {}
BY IntervalFacts

\* IntervalOf is this interval.
LEMMA IntervalOfIs ==
  ASSUME NEW answers \in SUBSET Intervals
  PROVE  IsIntervalOf(IntervalOf(answers), answers)
<1> DEFINE valid == answers \ {Invalid}
           firsts == {i[1] : i \in valid}
           lasts == {i[2] : i \in valid}
           i == IntervalOf(answers)
<1>1. CASE valid = {} BY <1>1 DEF IsIntervalOf, IntervalOf
<1>2. CASE valid # {}
  <2>1. i = <<Max(firsts), IF \E a \in answers : a[2] = 0 THEN 0 ELSE Min(lasts)>>
    BY <1>2 DEF IntervalOf
  <2>2. firsts \in SUBSET (0 .. Last) /\ firsts # {} /\ lasts \in SUBSET (0 .. Last) /\ lasts # {}
    BY <1>2, FirstAndLast
  <2>3. Max(firsts) \in firsts /\ (\A y \in firsts : y <= Max(firsts)) BY <2>2, MaxIs
  <2>4. Min(lasts) \in lasts /\ (\A y \in lasts : Min(lasts) <= y) BY <2>2, MinIs
  <2>5. PICK m : m = Max(firsts) OBVIOUS
  <2>6. PICK n : n = Min(lasts) OBVIOUS
  <2>7. (\E a \in valid : m = a[1]) /\ (\A a \in valid : a[1] <= m) BY <2>3, <2>5
  <2>8. (\E a \in valid : n = a[2]) /\ (\A a \in valid : n <= a[2]) BY <2>4, <2>6
  <2>9. i = <<m, IF \E a \in answers : a[2] = 0 THEN 0 ELSE n>> BY <2>1, <2>5, <2>6
  <2> HIDE DEF i
  <2>10. i = <<i[1], i[2]>> /\ i[1] = m /\ i[2] = IF \E a \in answers : a[2] = 0 THEN 0 ELSE n
    BY <2>9
  <2>11. IsIntervalOf(i, answers) BY <1>2, <2>7, <2>8, <2>10 DEF IsIntervalOf
  <2> QED BY <2>11 DEF i
<1> QED BY <1>1, <1>2

\* It is an interval, and its end is known only if all answers have one.
LEMMA IntervalOfType ==
  ASSUME NEW answers \in SUBSET Intervals
  PROVE  /\ IntervalOf(answers) \in Intervals
         /\ IntervalOf(answers) # Invalid <=> answers \ {Invalid} # {}
<1> DEFINE valid == answers \ {Invalid}
<1>1. PICK i : i = IntervalOf(answers) OBVIOUS
<1>2. IsIntervalOf(i, answers) BY <1>1, IntervalOfIs
<1>3. CASE valid = {} BY <1>1, <1>2, <1>3 DEF IsIntervalOf, Intervals
<1>4. CASE valid # {}
  <2>1. PICK a \in valid : i[1] = a[1] BY <1>2, <1>4 DEF IsIntervalOf
  <2>2. i[1] \in Instants /\ i[1] # 0 BY <2>1, IntervalFacts
  <2>3. i[2] = 0 \/ \E b \in valid : i[2] = b[2] BY <1>2, <1>4 DEF IsIntervalOf
  <2>4. i[2] \in Instants \cup {0} BY <2>3, IntervalFacts, LastIs
  <2>5. i = <<i[1], i[2]>> BY <1>2, <1>4 DEF IsIntervalOf
  <2>6. i \in Intervals BY <2>2, <2>4, <2>5 DEF Intervals
  <2>7. i # Invalid BY <2>2 DEF Invalid
  <2> QED BY <1>1, <1>4, <2>6, <2>7
<1> QED BY <1>3, <1>4

-----------------------------------------------------------------------------
\* Narrowing to the whole job as well changes nothing.
LEMMA NarrowedIs ==
  ASSUME NEW valid \in SUBSET Intervals, valid # {}, Invalid \notin valid
  PROVE  LET i == Narrowed(valid \cup {Always})
         IN /\ i = <<i[1], i[2]>>
            /\ (\E a \in valid : i[1] = a[1]) /\ (\A a \in valid : a[1] <= i[1])
            /\ (\E a \in valid : a[2] = 0) => i[2] = 0
            /\ ~(\E a \in valid : a[2] = 0)
                 => (\E a \in valid : i[2] = a[2]) /\ (\A a \in valid : i[2] <= a[2])
<1> DEFINE all == valid \cup {Always}
           firsts == {a[1] : a \in all}
           lasts == {a[2] : a \in all}
<1>1. Always \in Intervals /\ Always[1] = 1 /\ Always[2] = Last BY LastIs DEF Intervals
<1>2. all \in SUBSET Intervals /\ all # {} BY <1>1
<1>3. firsts \in SUBSET (0 .. Last) /\ firsts # {} /\ lasts \in SUBSET (0 .. Last) /\ lasts # {}
  BY <1>2, FirstAndLast
<1>4. PICK m : m = Max(firsts) OBVIOUS
<1>5. PICK n : n = Min(lasts) OBVIOUS
<1>6. m \in firsts /\ (\A y \in firsts : y <= m) BY <1>3, <1>4, MaxIs
<1>7. n \in lasts /\ (\A y \in lasts : n <= y) BY <1>3, <1>5, MinIs
<1>8. PICK i : i = <<m, n>> OBVIOUS
<1>9. Narrowed(all) = i BY <1>4, <1>5, <1>8 DEF Narrowed
<1>10. i[1] = m /\ i[2] = n /\ i = <<i[1], i[2]>> BY <1>8
<1>11. \A a \in valid : a[1] \in 1 .. Last /\ a[2] \in 0 .. Last BY IntervalFacts, LastIs
<1>12. \A a \in valid : a[1] <= m /\ n <= a[2] BY <1>6, <1>7
<1>13. \E a \in valid : m = a[1]
  <2>1. PICK a \in all : m = a[1] BY <1>6
  <2>2. CASE a = Always
    <3>1. PICK b \in valid : TRUE OBVIOUS
    <3>2. b[1] = 1 BY <1>1, <1>11, <1>12, <2>1, <2>2, <3>1, LastIs
    <3> QED BY <1>1, <2>1, <2>2, <3>2
  <2> QED BY <2>1, <2>2
<1>14. ASSUME NEW a \in valid, a[2] = 0 PROVE n = 0
  <2>1. n \in 0 .. Last /\ n <= 0 BY <1>3, <1>7, <1>12, <1>14
  <2> QED BY <2>1, LastIs
<1>15. ASSUME ~(\E a \in valid : a[2] = 0) PROVE \E a \in valid : n = a[2]
  <2>1. PICK a \in all : n = a[2] BY <1>7
  <2>2. CASE a = Always
    <3>1. PICK b \in valid : TRUE OBVIOUS
    <3>2. b[2] = Last BY <1>1, <1>11, <1>12, <2>1, <2>2, <3>1, LastIs
    <3> QED BY <1>1, <2>1, <2>2, <3>2
  <2> QED BY <2>1, <2>2
<1> HIDE DEF all
<1> QED BY <1>9, <1>10, <1>12, <1>13, <1>14, <1>15 DEF all

\* The finder that asks several sources answers for all of them.
LEMMA IntersectionIs ==
  ASSUME NEW answers \in SUBSET Intervals
  PROVE  Intersection(answers) = IntervalOf(answers)
<1> DEFINE valid == answers \ {Invalid}
<1>1. PICK narrowed : narrowed = Narrowed(valid \cup {Always}) OBVIOUS
<1>2. PICK i : i = Intersection(answers) OBVIOUS
<1>3. CASE valid = {} BY <1>3 DEF Intersection, IntervalOf
<1>4. CASE valid # {}
  <2>1. /\ narrowed = <<narrowed[1], narrowed[2]>>
        /\ (\E a \in valid : narrowed[1] = a[1]) /\ (\A a \in valid : a[1] <= narrowed[1])
        /\ ~(\E a \in valid : a[2] = 0)
             => (\E a \in valid : narrowed[2] = a[2]) /\ (\A a \in valid : narrowed[2] <= a[2])
    BY <1>1, <1>4, NarrowedIs
  <2>2. i = IF \E a \in answers : a[2] = 0 THEN OpenEnded(narrowed) ELSE narrowed
    BY <1>1, <1>2, <1>4 DEF Intersection
  <2>3. /\ i = <<i[1], i[2]>> /\ i[1] = narrowed[1]
        /\ i[2] = IF \E a \in answers : a[2] = 0 THEN 0 ELSE narrowed[2]
    BY <2>1, <2>2 DEF OpenEnded
  <2>4. IsIntervalOf(i, answers) BY <1>4, <2>1, <2>3 DEF IsIntervalOf
  <2> QED BY <1>2, <2>4, IntervalOfIs, IntervalIsOne
<1> QED BY <1>3, <1>4

\* So does the finder of a record that depends on others, if its own source
\* answers.  If it has none the others decide.
LEMMA DependentIs ==
  ASSUME NEW own \in Intervals, NEW provided \in SUBSET Intervals
  PROVE  /\ own # Invalid
              => DependentInterval(own, provided) = IntervalOf({own} \cup provided)
         /\ own = Invalid => DependentInterval(own, provided) = IntervalOf(provided)
<1> DEFINE valid == ({own} \cup provided) \ {Invalid}
<1>1. PICK narrowed : narrowed = Narrowed(valid \cup {Always}) OBVIOUS
<1>2. PICK i : i = DependentInterval(own, provided) OBVIOUS
<1>3. ASSUME NEW answers \in SUBSET Intervals, answers \ {Invalid} = valid,
             Invalid \in answers <=> Invalid \in provided
      PROVE  i = IntervalOf(answers)
  <2>1. CASE valid = {} BY <1>2, <1>3, <2>1 DEF DependentInterval, IntervalOf
  <2>2. CASE valid # {}
    <3>1. /\ narrowed = <<narrowed[1], narrowed[2]>>
          /\ (\E a \in valid : narrowed[1] = a[1]) /\ (\A a \in valid : a[1] <= narrowed[1])
          /\ (\E a \in valid : a[2] = 0) => narrowed[2] = 0
          /\ ~(\E a \in valid : a[2] = 0)
               => (\E a \in valid : narrowed[2] = a[2]) /\ (\A a \in valid : narrowed[2] <= a[2])
      BY <1>1, <2>2, NarrowedIs
    <3>2. i = IF Invalid \in provided THEN OpenEnded(narrowed) ELSE narrowed
      BY <1>1, <1>2, <2>2 DEF DependentInterval
    <3>3. /\ i = <<i[1], i[2]>> /\ i[1] = narrowed[1]
          /\ i[2] = IF Invalid \in provided THEN 0 ELSE narrowed[2]
      BY <3>1, <3>2 DEF OpenEnded
    <3>4. (\E a \in answers : a[2] = 0) <=> Invalid \in provided \/ \E a \in valid : a[2] = 0
      BY <1>3, IntervalFacts
    <3>5. IsIntervalOf(i, answers)
      <4>1. CASE Invalid \in provided BY <1>3, <2>2, <3>1, <3>3, <3>4, <4>1 DEF IsIntervalOf
      <4>2. CASE Invalid \notin provided
        BY <1>3, <2>2, <3>1, <3>3, <3>4, <4>2 DEF IsIntervalOf
      <4> QED BY <4>1, <4>2
    <3> QED BY <3>5, IntervalOfIs, IntervalIsOne
  <2> QED BY <2>1, <2>2
<1>4. CASE own # Invalid
  <2>1. {own} \cup provided \in SUBSET Intervals /\ ({own} \cup provided) \ {Invalid} = valid
        /\ (Invalid \in {own} \cup provided <=> Invalid \in provided)
    BY <1>4
  <2> QED BY <1>2, <1>3, <1>4, <2>1
<1>5. CASE own = Invalid
  <2>1. provided \ {Invalid} = valid BY <1>5
  <2> QED BY <1>2, <1>3, <1>5, <2>1
<1> QED BY <1>4, <1>5

\* The interval of intervals is that of all the answers.
LEMMA IntervalOfIntervals ==
  ASSUME NEW F \in SUBSET (SUBSET Intervals), {} \notin F
  PROVE  IntervalOf({IntervalOf(A) : A \in F}) = IntervalOf(UNION F)
<1> DEFINE narrow == {IntervalOf(A) : A \in F}
           all == UNION F
<1>1. narrow \in SUBSET Intervals /\ all \in SUBSET Intervals BY IntervalOfType
<1>2. PICK i : i = IntervalOf(narrow) OBVIOUS
<1>3. IsIntervalOf(i, narrow) BY <1>1, <1>2, IntervalOfIs
<1>4. \A A \in F : IsIntervalOf(IntervalOf(A), A) BY IntervalOfIs
<1>5. \A A \in F : IntervalOf(A) # Invalid <=> A \ {Invalid} # {} BY IntervalOfType
<1>6. \A A \in F : \A a \in A : a \in Intervals OBVIOUS
<1>7. CASE narrow \ {Invalid} = {}
  <2>1. all \ {Invalid} = {} BY <1>5, <1>7
  <2>2. i = Invalid BY <1>3, <1>7 DEF IsIntervalOf
  <2> QED BY <1>2, <2>1, <2>2 DEF IntervalOf
<1>8. CASE narrow \ {Invalid} # {}
  <2>1. all \ {Invalid} # {} BY <1>5, <1>8
  <2>2. ASSUME NEW A \in F, NEW a \in A \ {Invalid}
        PROVE  /\ IntervalOf(A) \in narrow \ {Invalid} /\ a[1] <= IntervalOf(A)[1]
               /\ (\A b \in A : b[2] # 0) => IntervalOf(A)[2] <= a[2]
    <3>1. IntervalOf(A) \in narrow \ {Invalid} BY <1>5, <2>2
    <3>2. IsIntervalOf(IntervalOf(A), A) BY <1>4
    <3> QED BY <2>2, <3>1, <3>2 DEF IsIntervalOf
  <2>3. ASSUME NEW A \in F, IntervalOf(A) # Invalid
        PROVE  /\ \E a \in A \ {Invalid} : a[1] = IntervalOf(A)[1]
               /\ (\A b \in A : b[2] # 0) => \E a \in A \ {Invalid} : a[2] = IntervalOf(A)[2]
    <3>1. IsIntervalOf(IntervalOf(A), A) /\ A \ {Invalid} # {} BY <1>4, <1>5, <2>3
    <3> QED BY <3>1 DEF IsIntervalOf
  <2>4. ASSUME NEW A \in F
        PROVE  IntervalOf(A)[2] = 0 <=> \E a \in A : a[2] = 0
    <3>1. CASE A \ {Invalid} = {}
      <4>0. A # {} OBVIOUS
      <4>1. A = {Invalid} /\ IntervalOf(A) = Invalid BY <1>5, <3>1, <4>0
      <4> QED BY <4>1 DEF Invalid
    <3>2. CASE A \ {Invalid} # {} /\ \E a \in A : a[2] = 0
      BY <1>4, <3>2 DEF IsIntervalOf
    <3>3. CASE A \ {Invalid} # {} /\ ~\E a \in A : a[2] = 0
      <4>1. PICK a \in A \ {Invalid} : a[2] = IntervalOf(A)[2] BY <1>5, <2>3, <3>3
      <4> QED BY <3>3, <4>1
    <3> QED BY <3>1, <3>2, <3>3
  <2>5. (\E x \in narrow : x[2] = 0) <=> (\E a \in all : a[2] = 0) BY <2>4
  <2>6. \A x \in narrow : x[1] \in Nat /\ x[2] \in Nat BY <1>1, IntervalFacts, LastIs
  <2>7. \A a \in all : a[1] \in Nat /\ a[2] \in Nat BY <1>1, IntervalFacts, LastIs
  <2>8. i = <<i[1], i[2]>> /\ (\E x \in narrow \ {Invalid} : i[1] = x[1])
        /\ (\A x \in narrow \ {Invalid} : x[1] <= i[1])
    BY <1>3, <1>8 DEF IsIntervalOf
  <2>9. \E a \in all \ {Invalid} : i[1] = a[1]
    <3>1. PICK A \in F : IntervalOf(A) # Invalid /\ i[1] = IntervalOf(A)[1] BY <2>8
    <3> QED BY <2>3, <3>1
  <2>10. ASSUME NEW a \in all \ {Invalid} PROVE a[1] <= i[1]
    <3>1. PICK A \in F : a \in A BY <2>10
    <3>2. PICK x \in narrow \ {Invalid} : a[1] <= x[1] BY <2>2, <3>1
    <3>3. x[1] <= i[1] BY <2>8
    <3>4. a[1] \in Nat /\ x[1] \in Nat /\ i[1] \in Nat BY <2>6, <2>7, <2>8
    <3> QED BY <3>2, <3>3, <3>4
  <2>11. CASE \E a \in all : a[2] = 0
    <3>1. i[2] = 0 BY <1>3, <1>8, <2>5, <2>11 DEF IsIntervalOf
    <3>2. IsIntervalOf(i, all) BY <2>1, <2>8, <2>9, <2>10, <2>11, <3>1 DEF IsIntervalOf
    <3> QED BY <1>1, <1>2, <3>2, IntervalOfIs, IntervalIsOne
  <2>12. CASE ~\E a \in all : a[2] = 0
    <3>1. (\E x \in narrow \ {Invalid} : i[2] = x[2])
          /\ \A x \in narrow \ {Invalid} : i[2] <= x[2]
      BY <1>3, <1>8, <2>5, <2>12 DEF IsIntervalOf
    <3>2. \E a \in all \ {Invalid} : i[2] = a[2]
      <4>1. PICK A \in F : IntervalOf(A) # Invalid /\ i[2] = IntervalOf(A)[2] BY <3>1
      <4>2. \A b \in A : b[2] # 0 BY <2>12
      <4> QED BY <2>3, <4>1, <4>2
    <3>3. ASSUME NEW a \in all \ {Invalid} PROVE i[2] <= a[2]
      <4>1. PICK A \in F : a \in A BY <3>3
      <4>2. \A b \in A : b[2] # 0 BY <2>12
      <4>3. PICK x \in narrow \ {Invalid} : x[2] <= a[2] BY <2>2, <4>1, <4>2
      <4>4. i[2] <= x[2] BY <3>1
      <4>5. a[2] \in Nat /\ x[2] \in Nat /\ i[2] \in Nat BY <2>6, <2>7, <3>1
      <4> QED BY <4>3, <4>4, <4>5
    <3>4. IsIntervalOf(i, all) BY <2>1, <2>8, <2>9, <2>10, <2>12, <3>2, <3>3 DEF IsIntervalOf
    <3> QED BY <1>1, <1>2, <3>4, IntervalOfIs, IntervalIsOne
  <2> QED BY <2>11, <2>12
<1> QED BY <1>7, <1>8

-----------------------------------------------------------------------------
(* Records that depend on one another. *)

\* Whatever holds for a record if it holds for those it depends on holds for
\* all: of some records there is one that depends on none of them.
LEMMA LeastRecord ==
  ASSUME job \in Configurations, NEW Bad \in SUBSET Records, Bad # {}
  PROVE  \E r \in Bad : \A d \in job.dependsOn[r] : d \notin Bad
<1>1. PICK depth \in [Records -> 0 .. Cardinality(Records)] :
         \A r \in Records : \A d \in job.dependsOn[r] : depth[d] < depth[r]
  BY JobFacts
<1>2. Cardinality(Records) \in Nat BY BoundsAssumption, FS_CardinalityType
<1> DEFINE depths == {depth[r] : r \in Bad}
<1>3. depths \in SUBSET Nat /\ depths # {} BY <1>1, <1>2
<1>4. PICK x \in depths : \A y \in depths : x <= y BY <1>3, SmallestOf
<1>5. PICK r \in Bad : x = depth[r] BY <1>4
<1>6. ASSUME NEW d \in job.dependsOn[r], d \in Bad PROVE FALSE
  <2>1. depth[d] < depth[r] /\ depth[d] \in depths BY <1>1, <1>6
  <2>2. depth[r] <= depth[d] BY <1>4, <1>5, <2>1
  <2>3. depth[r] \in Nat /\ depth[d] \in Nat BY <1>1, <1>2, <1>6
  <2> QED BY <2>1, <2>2, <2>3
<1> QED BY <1>6

\* What is reached is the smallest set that holds r and is closed.
LEMMA ReachedFacts ==
  ASSUME NEW next, NEW r \in Records, \A x \in Records : next[x] \subseteq Records
  PROVE  /\ Reached(next, r) \in SUBSET Records
         /\ r \in Reached(next, r)
         /\ \A x \in Reached(next, r) : next[x] \subseteq Reached(next, r)
         /\ \A C \in SUBSET Records :
              (r \in C /\ \A x \in C : next[x] \subseteq C) => Reached(next, r) \subseteq C
BY DEF Reached

\* The same for the records below one.
LEMMA BelowFacts ==
  ASSUME job \in Configurations, NEW r \in Records
  PROVE  /\ Below(r) \in SUBSET Records
         /\ r \in Below(r)
         /\ \A x \in Below(r) : job.dependsOn[x] \subseteq Below(r)
         /\ \A C \in SUBSET Records :
              (r \in C /\ \A x \in C : job.dependsOn[x] \subseteq C) => Below(r) \subseteq C
<1>1. \A x \in Records : job.dependsOn[x] \subseteq Records BY JobFacts
<1>2. PICK next : next = job.dependsOn OBVIOUS
<1>3. Below(r) = Reached(next, r) BY <1>2 DEF Below
<1>4. \A x \in Records : next[x] \subseteq Records BY <1>1, <1>2
<1>5. /\ Reached(next, r) \in SUBSET Records
      /\ r \in Reached(next, r)
      /\ \A x \in Reached(next, r) : next[x] \subseteq Reached(next, r)
      /\ \A C \in SUBSET Records :
           (r \in C /\ \A x \in C : next[x] \subseteq C) => Reached(next, r) \subseteq C
  BY <1>4, ReachedFacts
<1> QED BY <1>2, <1>3, <1>5

\* What is below a record below is below.
LEMMA BelowBelow ==
  ASSUME job \in Configurations, NEW r \in Records, NEW s \in Below(r)
  PROVE  Below(s) \subseteq Below(r)
<1>1. s \in Records BY BelowFacts
<1> QED BY <1>1, BelowFacts

\* Below a record is itself, and what is below those it depends on.
LEMMA BelowIs ==
  ASSUME job \in Configurations, NEW r \in Records
  PROVE  Below(r) = {r} \cup UNION {Below(d) : d \in job.dependsOn[r]}
<1> DEFINE C == {r} \cup UNION {Below(d) : d \in job.dependsOn[r]}
<1>1. job.dependsOn[r] \in SUBSET Records BY JobFacts
<1>2. C \subseteq Below(r)
  <2>1. job.dependsOn[r] \subseteq Below(r) /\ r \in Below(r) BY BelowFacts
  <2> QED BY <2>1, BelowBelow
<1>3. Below(r) \subseteq C
  <2>1. C \in SUBSET Records BY <1>1, BelowFacts
  <2>2. ASSUME NEW x \in C PROVE job.dependsOn[x] \subseteq C
    <3>1. CASE x = r
      <4>1. \A d \in job.dependsOn[r] : d \in Below(d) BY <1>1, BelowFacts
      <4> QED BY <3>1, <4>1
    <3>2. CASE \E d \in job.dependsOn[r] : x \in Below(d)
      <4>1. PICK d \in job.dependsOn[r] : x \in Below(d) BY <3>2
      <4>2. job.dependsOn[x] \subseteq Below(d) BY <1>1, <4>1, BelowFacts
      <4> QED BY <4>1, <4>2
    <3> QED BY <2>2, <3>1, <3>2
  <2>3. r \in C OBVIOUS
  <2> HIDE DEF C
  <2> QED BY <2>1, <2>2, <2>3, BelowFacts
<1> QED BY <1>2, <1>3

\* The sources of a record answer with intervals.
LEMMA OwnAnswersType ==
  ASSUME job \in Configurations, NEW r \in Records, NEW t \in Instants
  PROVE  /\ OwnAnswers(r, t) \in SUBSET Intervals
         /\ {SourceInterval(f, t) : f \in job.sources[r]} \in SUBSET Intervals
         /\ OwnAnswers(r, t) = {} <=> job.sources[r] = {} /\ job.dependsOn[r] # {}
<1>1. job.sources[r] \in SUBSET Sources BY JobFacts
<1>2. \A f \in job.sources[r] : SourceInterval(f, t) \in Intervals BY <1>1, AnswerFacts
<1> QED BY <1>2 DEF OwnAnswers, Intervals

\* The answers for a record are those of its sources, and those for the
\* records it depends on.  There is one at least.
LEMMA AnswersAre ==
  ASSUME job \in Configurations, NEW t \in Instants
  PROVE  \A r \in Records :
           /\ Answers(r, t) = OwnAnswers(r, t) \cup UNION {Answers(d, t) : d \in job.dependsOn[r]}
           /\ Answers(r, t) \in SUBSET Intervals
           /\ Answers(r, t) # {}
<1>1. ASSUME NEW r \in Records
      PROVE  Answers(r, t) = OwnAnswers(r, t) \cup UNION {Answers(d, t) : d \in job.dependsOn[r]}
  <2>1. Below(r) = {r} \cup UNION {Below(d) : d \in job.dependsOn[r]} BY BelowIs
  <2> QED BY <2>1 DEF Answers
<1>2. ASSUME NEW r \in Records PROVE Answers(r, t) \in SUBSET Intervals
  <2>1. \A s \in Below(r) : OwnAnswers(s, t) \in SUBSET Intervals BY BelowFacts, OwnAnswersType
  <2> QED BY <2>1 DEF Answers
<1> DEFINE Bad == {r \in Records : Answers(r, t) = {}}
<1>3. ASSUME Bad # {} PROVE FALSE
  <2> HIDE DEF Bad
  <2>1. PICK r \in Bad : \A d \in job.dependsOn[r] : d \notin Bad
    <3>1. Bad \in SUBSET Records BY DEF Bad
    <3> QED BY <1>3, <3>1, LeastRecord
  <2>2. r \in Records /\ Answers(r, t) = {} BY <2>1 DEF Bad
  <2>3. OwnAnswers(r, t) = {} BY <1>1, <2>2
  <2>4. job.dependsOn[r] # {} BY <2>2, <2>3, OwnAnswersType
  <2>5. PICK d \in job.dependsOn[r] : TRUE BY <2>4
  <2>6. d \in Records BY <2>2, JobFacts
  <2>7. Answers(d, t) # {} BY <2>1, <2>6 DEF Bad
  <2> QED BY <1>1, <2>2, <2>5, <2>7
<1> QED BY <1>1, <1>2, <1>3

\* What the sources of a record say together.
LEMMA FromSourcesIs ==
  ASSUME job \in Configurations, NEW r \in Records, NEW t \in Instants
  PROVE  /\ FromSources(r, t) \in Intervals
         /\ FromSources(r, t) = IntervalOf({SourceInterval(f, t) : f \in job.sources[r]})
         /\ FromSources(r, t) # Invalid <=> \E f \in job.sources[r] : SourceInterval(f, t) # Invalid
<1> DEFINE answers == {SourceInterval(f, t) : f \in job.sources[r]}
<1>1. answers \in SUBSET Intervals BY OwnAnswersType
<1>2. FromSources(r, t) = Intersection(answers) BY DEF FromSources
<1>3. \A f \in job.sources[r] : SourceInterval(f, t) \in answers OBVIOUS
<1>4. \A a \in answers : \E f \in job.sources[r] : a = SourceInterval(f, t) OBVIOUS
<1>5. FromSources(r, t) = IntervalOf(answers) /\ IntervalOf(answers) \in Intervals
      /\ (IntervalOf(answers) # Invalid <=> answers \ {Invalid} # {})
  <2> HIDE DEF answers
  <2> QED BY <1>1, <1>2, IntersectionIs, IntervalOfType
<1>6. answers \ {Invalid} # {} <=> \E f \in job.sources[r] : SourceInterval(f, t) # Invalid
  <2> HIDE DEF answers
  <2> QED BY <1>3, <1>4
<1> QED BY <1>5, <1>6

-----------------------------------------------------------------------------
(* All records asked. *)

\* The interval that the finder of a record gives.
Found(r, t, provided) ==
    IF job.dependsOn[r] = {} THEN FromSources(r, t)
    ELSE DependentInterval(FromSources(r, t), provided)

\* It is an interval.
LEMMA FoundType ==
  ASSUME job \in Configurations, NEW r \in Records, NEW t \in Instants,
         NEW provided \in SUBSET Intervals
  PROVE  Found(r, t, provided) \in Intervals
<1>1. FromSources(r, t) \in Intervals BY FromSourcesIs
<1>2. DependentInterval(FromSources(r, t), provided) \in Intervals
  <2>1. {FromSources(r, t)} \cup provided \in SUBSET Intervals BY <1>1
  <2> QED BY <1>1, <2>1, DependentIs, IntervalOfType
<1> QED BY <1>1, <1>2 DEF Found

\* The intervals found from those of the records depended on are exact.
LEMMA FoundIsExact ==
  ASSUME job \in Configurations, OwnSourcesAnswer, NEW r \in Records, NEW t \in Instants
  PROVE  Found(r, t, {IntervalOf(Answers(d, t)) : d \in job.dependsOn[r]})
           = IntervalOf(Answers(r, t))
<1> DEFINE answers == {SourceInterval(f, t) : f \in job.sources[r]}
           own == FromSources(r, t)
           deps == {Answers(d, t) : d \in job.dependsOn[r]}
           provided == {IntervalOf(Answers(d, t)) : d \in job.dependsOn[r]}
<1>1. answers \in SUBSET Intervals /\ own \in Intervals /\ own = IntervalOf(answers)
  BY OwnAnswersType, FromSourcesIs
<1>2. job.dependsOn[r] \in SUBSET Records BY JobFacts
<1>3. deps \in SUBSET (SUBSET Intervals) /\ {} \notin deps BY <1>2, AnswersAre
<1>4. provided = {IntervalOf(A) : A \in deps} /\ provided \in SUBSET Intervals
  <2>1. \A d \in job.dependsOn[r] : IntervalOf(Answers(d, t)) \in Intervals
    BY <1>2, AnswersAre, IntervalOfType
  <2> QED BY <2>1
<1>5. Answers(r, t) = OwnAnswers(r, t) \cup UNION deps BY AnswersAre
<1>6. CASE job.dependsOn[r] = {}
  <2>1. Answers(r, t) = OwnAnswers(r, t) BY <1>5, <1>6
  <2>2. Found(r, t, provided) = own BY <1>6 DEF Found
  <2>3. CASE job.sources[r] = {}
    <3>1. answers = {} BY <2>3
    <3>2. IntervalOf(answers) = Invalid BY <3>1 DEF IntervalOf
    <3>3. OwnAnswers(r, t) = {Invalid} BY <1>6, <2>3 DEF OwnAnswers
    <3>4. IntervalOf({Invalid}) = Invalid BY DEF IntervalOf
    <3> QED BY <1>1, <2>1, <2>2, <3>2, <3>3, <3>4
  <2>4. CASE job.sources[r] # {}
    <3>1. OwnAnswers(r, t) = answers BY <2>4 DEF OwnAnswers
    <3> QED BY <1>1, <2>1, <2>2, <3>1
  <2> QED BY <2>3, <2>4
<1>7. CASE job.dependsOn[r] # {}
  <2>1. Found(r, t, provided) = DependentInterval(own, provided) BY <1>7 DEF Found
  <2>2. OwnAnswers(r, t) = answers BY <1>7 DEF OwnAnswers
  <2>3. CASE job.sources[r] = {}
    <3>1. answers = {} BY <2>3
    <3>2. own = Invalid BY <1>1, <3>1 DEF IntervalOf
    <3>3. DependentInterval(own, provided) = IntervalOf(provided) BY <1>1, <1>4, <3>2, DependentIs
    <3>4. Answers(r, t) = UNION deps BY <1>5, <2>2, <3>1
    <3> HIDE DEF deps, provided, own
    <3>5. Found(r, t, provided) = IntervalOf(Answers(r, t))
      BY <1>3, <1>4, <2>1, <3>3, <3>4, IntervalOfIntervals
    <3> QED BY <3>5 DEF provided
  <2>4. CASE job.sources[r] # {}
    <3>1. \E f \in job.sources[r] : Answering(job, f, t)
      BY <1>7, <2>4 DEF OwnSourcesAnswer
    <3>2. \A f \in job.sources[r] : f \in Sources BY JobFacts
    <3>3. own # Invalid BY <3>1, <3>2, FromSourcesIs, AnswerFacts
    <3>4. DependentInterval(own, provided) = IntervalOf({own} \cup provided)
      BY <1>1, <1>4, <3>3, DependentIs
    <3>5. PICK F : F = {answers} \cup deps OBVIOUS
    <3>6. answers # {} BY <2>4
    <3>7. F \in SUBSET (SUBSET Intervals) /\ {} \notin F BY <1>1, <1>3, <3>5, <3>6
    <3>8. UNION F = Answers(r, t) BY <1>5, <2>2, <3>5
    <3>9. {IntervalOf(A) : A \in F} = {own} \cup provided BY <1>1, <1>4, <3>5
    <3> HIDE DEF deps, provided, own
    <3>10. Found(r, t, provided) = IntervalOf(Answers(r, t))
      BY <2>1, <3>4, <3>7, <3>8, <3>9, IntervalOfIntervals
    <3> QED BY <3>10 DEF provided
  <2> QED BY <2>3, <2>4
<1> QED BY <1>6, <1>7

\* What the recursion of Asked says.
AllAsked(start, t, asked) ==
    asked = [r \in Records |-> SetValidityIntervalFor(start[r], r, t,
                                 {asked[d].interval : d \in job.dependsOn[r]})]

\* Asked is the function that its recursion describes: records do not depend
\* on one another in a circle.
LEMMA AskedIs ==
  ASSUME job \in Configurations, NEW start, NEW t
  PROVE  AllAsked(start, t, Asked(start, t))
<1> DEFINE Ask(r, f) ==
             SetValidityIntervalFor(start[r], r, t, {f[d].interval : d \in job.dependsOn[r]})
           All(f) == f = [r \in Records |-> Ask(r, f)]
<1>1. PICK depth \in [Records -> 0 .. Cardinality(Records)] :
         \A r \in Records : \A d \in job.dependsOn[r] : depth[d] < depth[r]
  BY JobFacts
<1>2. Cardinality(Records) \in Nat BY BoundsAssumption, FS_CardinalityType
<1>3. \A r \in Records : depth[r] \in Nat /\ depth[r] <= Cardinality(Records) BY <1>1, <1>2
<1>4. \A r \in Records : job.dependsOn[r] \in SUBSET Records BY JobFacts
<1>5. ASSUME NEW r \in Records, NEW f, NEW g, \A d \in job.dependsOn[r] : f[d] = g[d]
      PROVE  Ask(r, f) = Ask(r, g)
  <2>1. {f[d].interval : d \in job.dependsOn[r]} = {g[d].interval : d \in job.dependsOn[r]}
    BY <1>5
  <2> QED BY <2>1
<1> HIDE DEF Ask
<1> DEFINE Upto(k, f) == /\ f = [r \in Records |-> f[r]]
                         /\ \A r \in Records : depth[r] < k => f[r] = Ask(r, f)
           Bad == {k \in Nat : ~\E f : Upto(k, f)}
<1>6. ASSUME Bad # {} PROVE FALSE
  <2>1. Bad \in SUBSET Nat OBVIOUS
  <2>2. PICK k \in Bad : \A j \in Bad : k <= j BY <1>6, <2>1, SmallestOf
  <2>3. CASE k = 0
    <3>1. PICK f : f = [r \in Records |-> r] OBVIOUS
    <3>2. \A r \in Records : ~(depth[r] < 0) BY <1>3
    <3>3. Upto(0, f) BY <3>1, <3>2
    <3> QED BY <2>2, <2>3, <3>3
  <2>4. CASE k # 0
    <3>1. k - 1 \in Nat /\ k - 1 \notin Bad BY <2>2, <2>4
    <3>2. PICK f : Upto(k - 1, f) BY <3>1
    <3>3. PICK g : g = [r \in Records |-> Ask(r, f)] OBVIOUS
    <3>4. ASSUME NEW r \in Records, depth[r] < k PROVE g[r] = Ask(r, g)
      <4>1. ASSUME NEW d \in job.dependsOn[r] PROVE f[d] = g[d]
        <5>1. d \in Records /\ depth[d] < depth[r] BY <1>1, <1>4
        <5>2. depth[d] < k - 1
          <6>1. depth[d] \in Nat /\ depth[r] \in Nat /\ k \in Nat BY <1>3, <2>2, <5>1
          <6> QED BY <3>4, <5>1, <6>1
        <5>3. f[d] = Ask(d, f) BY <3>2, <5>1, <5>2
        <5> QED BY <3>3, <5>1, <5>3
      <4>2. Ask(r, f) = Ask(r, g) BY <1>5, <4>1
      <4> QED BY <3>3, <4>2
    <3>5. g = [r \in Records |-> g[r]] BY <3>3
    <3>6. Upto(k, g) BY <3>4, <3>5
    <3> QED BY <2>2, <3>6
  <2> QED BY <2>3, <2>4
<1>7. PICK k \in Nat : \A r \in Records : depth[r] < k
  <2>1. Cardinality(Records) + 1 \in Nat BY <1>2
  <2>2. \A r \in Records : depth[r] < Cardinality(Records) + 1 BY <1>2, <1>3
  <2> QED BY <2>1, <2>2
<1>8. PICK f : Upto(k, f) BY <1>6
<1>9. All(f) BY <1>7, <1>8
<1>10. Asked(start, t) = CHOOSE h : All(h) BY Zenon DEF Asked, Ask
<1> HIDE DEF All
<1>11. All(CHOOSE g : All(g)) BY <1>9
<1>12. All(Asked(start, t)) BY <1>10, <1>11, Zenon
<1> QED BY <1>12, Zenon DEF All, Ask, AllAsked

\* What one record becomes when it is asked.
LEMMA SetIs ==
  ASSUME job \in Configurations, NEW before \in RecordState, NEW r \in Records,
         NEW t \in Instants, NEW provided \in SUBSET Intervals, NEW after,
         after = SetValidityIntervalFor(before, r, t, provided)
  PROVE  LET found == Found(r, t, provided)
             drops == ~before.lastSyncWasBeginOfRun /\ before.transientAccess
             moves == /\ ~ValidFor(before.interval, t)
                      /\ found[1] # 0 /\ found[1] # before.interval[1]
         IN /\ after \in RecordState
            /\ after.interval = IF ValidFor(before.interval, t) THEN before.interval ELSE found
            /\ after.lastSyncWasBeginOfRun = IsBegin(t)
            /\ after.present = before.present
            /\ after.data = IF moves \/ (drops /\ ~before.nonTransient) THEN None ELSE before.data
            /\ after.nonTransient <=> before.nonTransient /\ ~moves
            /\ after.transientAccess <=> before.transientAccess /\ ~drops /\ ~moves
            /\ after.unchanged <=> before.unchanged /\ ~moves
<1> DEFINE found == Found(r, t, provided)
           begun == IF before.lastSyncWasBeginOfRun THEN before ELSE ResetTransients(before)
           p == [begun EXCEPT !.lastSyncWasBeginOfRun = IsBegin(t)]
           drops == ~before.lastSyncWasBeginOfRun /\ before.transientAccess
           moves == /\ ~ValidFor(before.interval, t)
                    /\ found[1] # 0 /\ found[1] # before.interval[1]
<1>1. found \in Intervals BY FoundType
<1>2. None \in Data BY DEF Data
<1>3. IsBegin(t) \in BOOLEAN BY DEF IsBegin
<1>4. /\ p \in RecordState /\ p.interval = before.interval
      /\ p.lastSyncWasBeginOfRun = IsBegin(t) /\ p.present = before.present
      /\ p.data = IF drops /\ ~before.nonTransient THEN None ELSE before.data
      /\ p.nonTransient = before.nonTransient
      /\ p.transientAccess <=> before.transientAccess /\ ~drops
      /\ p.unchanged = before.unchanged
  <2>1. CASE drops BY <1>2, <1>3, <2>1 DEF ResetTransients, RecordState
  <2>2. CASE ~drops
    <3>1. begun = before BY <2>2 DEF ResetTransients
    <3> HIDE DEF begun
    <3> QED BY <1>3, <2>2, <3>1 DEF RecordState
  <2> QED BY <2>1, <2>2
<1>5. after = IF ValidFor(p.interval, t) THEN p ELSE Moved(p, found)
  BY DEF SetValidityIntervalFor, Found
<1> HIDE DEF p, found
<1>6. CASE ValidFor(before.interval, t)
  <2>1. after = p BY <1>4, <1>5, <1>6
  <2> QED BY <1>4, <1>6, <2>1 DEF found
<1>7. CASE moves
  <2>1. after = Reset([p EXCEPT !.interval = found]) BY <1>4, <1>5, <1>7 DEF Moved
  <2> QED BY <1>1, <1>2, <1>4, <1>7, <2>1 DEF Reset, RecordState, found
<1>8. CASE ~ValidFor(before.interval, t) /\ ~moves
  <2>1. after = [p EXCEPT !.interval = found] BY <1>4, <1>5, <1>8 DEF Moved
  <2> QED BY <1>1, <1>4, <1>8, <2>1 DEF RecordState, found
<1> QED BY <1>6, <1>7, <1>8

\* Every record asked is a record, and so are the intervals it finds.
LEMMA AskedType ==
  ASSUME job \in Configurations, NEW start \in [Records -> RecordState], NEW t \in Instants
  PROVE  /\ Asked(start, t) \in [Records -> RecordState]
         /\ \A r \in Records :
              {Asked(start, t)[d].interval : d \in job.dependsOn[r]} \in SUBSET Intervals
<1>1. PICK asked : asked = Asked(start, t) OBVIOUS
<1>2. asked = [r \in Records |-> SetValidityIntervalFor(start[r], r, t,
                                   {asked[d].interval : d \in job.dependsOn[r]})]
  <2>1. AllAsked(start, t, asked) BY <1>1, AskedIs
  <2> QED BY <2>1, Zenon DEF AllAsked
<1>3. \A r \in Records : job.dependsOn[r] \in SUBSET Records BY JobFacts
<1>4. ASSUME NEW r \in Records, \A d \in job.dependsOn[r] : asked[d] \in RecordState
      PROVE  {asked[d].interval : d \in job.dependsOn[r]} \in SUBSET Intervals
  BY <1>4 DEF RecordState
<1> DEFINE Bad == {r \in Records : asked[r] \notin RecordState}
<1>5. ASSUME Bad # {} PROVE FALSE
  <2> HIDE DEF Bad
  <2>1. PICK r \in Bad : \A d \in job.dependsOn[r] : d \notin Bad
    <3>1. Bad \in SUBSET Records BY DEF Bad
    <3> QED BY <1>5, <3>1, LeastRecord
  <2>2. r \in Records /\ asked[r] \notin RecordState BY <2>1 DEF Bad
  <2>3. \A d \in job.dependsOn[r] : asked[d] \in RecordState BY <1>3, <2>1, <2>2 DEF Bad
  <2>4. PICK provided : provided = {asked[d].interval : d \in job.dependsOn[r]} OBVIOUS
  <2>5. provided \in SUBSET Intervals BY <1>4, <2>2, <2>3, <2>4
  <2>6. asked[r] = SetValidityIntervalFor(start[r], r, t, provided) BY <1>2, <2>2, <2>4
  <2>7. asked[r] \in RecordState BY <2>2, <2>5, <2>6, SetIs
  <2> QED BY <2>2, <2>7
<1>6. \A r \in Records : asked[r] \in RecordState BY <1>5
<1>7. asked = [r \in Records |-> asked[r]] BY <1>2
<1>8. asked \in [Records -> RecordState] BY <1>6, <1>7
<1>9. \A r \in Records : {asked[d].interval : d \in job.dependsOn[r]} \in SUBSET Intervals
  BY <1>3, <1>4, <1>6
<1> QED BY <1>1, <1>8, <1>9

\* What record n is that was s before all were asked: its interval is the one
\* found unless the old one holds, and its data may be gone.
Becomes(start, t, r, s, n) ==
    /\ n \in RecordState /\ n.lastSyncWasBeginOfRun = IsBegin(t)
    /\ n.interval = IF ValidFor(s.interval, t) THEN s.interval
                    ELSE Found(r, t, {Asked(start, t)[d].interval : d \in job.dependsOn[r]})
    /\ n.interval = Asked(start, t)[r].interval
    /\ n.data # None
         => /\ n.data = s.data /\ (s.nonTransient => n.nonTransient)
            /\ n.interval[1] = 0 \/ n.interval[1] = s.interval[1]
            /\ s.nonTransient \/ s.lastSyncWasBeginOfRun \/ ~s.transientAccess
            /\ s.transientAccess \/ s.nonTransient => n.transientAccess \/ n.nonTransient
    /\ n.unchanged => s.unchanged /\ (s.nonTransient => n.nonTransient /\ n.data = s.data)
    /\ (s.lastSyncWasBeginOfRun /\ IsBegin(t) /\ n.interval = s.interval) => n.data = s.data

\* This is what records become.  To be asked twice drops no more than transient
\* data at the end of a block.
LEMMA SyncedFacts ==
  ASSUME job \in Configurations, NEW start \in [Records -> RecordState], NEW t \in Instants,
         NEW r \in Records
  PROVE  Becomes(start, t, r, start[r], Synced(start, t)[r])
<1>s. PICK s : s = start[r] OBVIOUS
<1>n. PICK n : n = Synced(start, t)[r] OBVIOUS
<1>1. PICK a : a = Asked(start, t)[r] OBVIOUS
<1>2. PICK provided : provided = {Asked(start, t)[d].interval : d \in job.dependsOn[r]} OBVIOUS
<1>3. provided \in SUBSET Intervals BY <1>2, AskedType
<1>4. a = SetValidityIntervalFor(s, r, t, provided)
  <2>1. PICK asked : asked = Asked(start, t) OBVIOUS
  <2>2. AllAsked(start, t, asked) BY <2>1, AskedIs
  <2>3. asked[r] = SetValidityIntervalFor(start[r], r, t,
                     {asked[d].interval : d \in job.dependsOn[r]})
    BY <2>2 DEF AllAsked
  <2> QED BY <1>s, <1>1, <1>2, <2>1, <2>3
<1>5. n = a \/ n = SetValidityIntervalFor(a, r, t, provided)
  BY <1>n, <1>1, <1>2 DEF Synced
<1>6. PICK found : found = Found(r, t, provided) OBVIOUS
<1>7. s \in RecordState BY <1>s
<1> DEFINE drops == ~s.lastSyncWasBeginOfRun /\ s.transientAccess
           moves == /\ ~ValidFor(s.interval, t)
                    /\ found[1] # 0 /\ found[1] # s.interval[1]
<1>8. /\ a \in RecordState
      /\ a.interval = IF ValidFor(s.interval, t) THEN s.interval ELSE found
      /\ a.lastSyncWasBeginOfRun = IsBegin(t)
      /\ a.data = IF moves \/ (drops /\ ~s.nonTransient) THEN None ELSE s.data
      /\ a.nonTransient <=> s.nonTransient /\ ~moves
      /\ a.transientAccess <=> s.transientAccess /\ ~drops /\ ~moves
      /\ a.unchanged <=> s.unchanged /\ ~moves
  BY <1>3, <1>4, <1>6, <1>7, SetIs
<1> HIDE DEF drops, moves
<1>9. \/ n = a
      \/ /\ n \in RecordState /\ n.interval = a.interval
         /\ n.lastSyncWasBeginOfRun = IsBegin(t)
         /\ n.data = IF ~IsBegin(t) /\ a.transientAccess /\ ~a.nonTransient THEN None ELSE a.data
         /\ n.nonTransient <=> a.nonTransient
         /\ n.transientAccess <=> a.transientAccess /\ IsBegin(t)
         /\ n.unchanged <=> a.unchanged
  <2>1. CASE n = a BY <2>1
  <2>2. CASE n = SetValidityIntervalFor(a, r, t, provided)
    <3> DEFINE again == ~a.lastSyncWasBeginOfRun /\ a.transientAccess
               leaves == /\ ~ValidFor(a.interval, t)
                         /\ found[1] # 0 /\ found[1] # a.interval[1]
    <3>1. /\ n \in RecordState
          /\ n.interval = IF ValidFor(a.interval, t) THEN a.interval ELSE found
          /\ n.lastSyncWasBeginOfRun = IsBegin(t)
          /\ n.data = IF leaves \/ (again /\ ~a.nonTransient) THEN None ELSE a.data
          /\ n.nonTransient <=> a.nonTransient /\ ~leaves
          /\ n.transientAccess <=> a.transientAccess /\ ~again /\ ~leaves
          /\ n.unchanged <=> a.unchanged /\ ~leaves
      BY <1>3, <1>6, <1>8, <2>2, SetIs
    <3>2. ~leaves
      <4>1. CASE ValidFor(s.interval, t) BY <1>8, <4>1
      <4>2. CASE ~ValidFor(s.interval, t) BY <1>8, <4>2
      <4> QED BY <4>1, <4>2
    <3>3. n.interval = a.interval
      <4>1. CASE ValidFor(a.interval, t) BY <3>1, <4>1
      <4>2. CASE ~ValidFor(a.interval, t) BY <1>8, <3>1, <4>2
      <4> QED BY <4>1, <4>2
    <3>4. (n.nonTransient <=> a.nonTransient) /\ (n.unchanged <=> a.unchanged)
      BY <3>1, <3>2
    <3> HIDE DEF leaves
    <3> QED BY <1>8, <3>1, <3>2, <3>3, <3>4
  <2> QED BY <1>5, <2>1, <2>2
<1>10. n \in RecordState /\ n.lastSyncWasBeginOfRun = IsBegin(t) /\ n.interval = a.interval
  BY <1>8, <1>9
<1>11. n.data # None => n.data = s.data /\ ~moves /\ ~(drops /\ ~s.nonTransient)
                        /\ (n.data = a.data)
                        /\ (n.nonTransient <=> a.nonTransient)
                        /\ (n.nonTransient \/ (a.transientAccess => n.transientAccess))
  BY <1>8, <1>9
<1>12. n.unchanged => s.unchanged /\ ~moves BY <1>8, <1>9
<1>13. ~moves => n.interval[1] = 0 \/ n.interval[1] = s.interval[1]
  BY <1>8, <1>10 DEF moves
<1>14. n.data # None
         => /\ n.data = s.data /\ (s.nonTransient => n.nonTransient)
            /\ n.interval[1] = 0 \/ n.interval[1] = s.interval[1]
            /\ s.nonTransient \/ s.lastSyncWasBeginOfRun \/ ~s.transientAccess
            /\ s.transientAccess \/ s.nonTransient => n.transientAccess \/ n.nonTransient
  BY <1>8, <1>11, <1>13 DEF drops
<1>15. (s.nonTransient /\ ~moves) => n.nonTransient /\ n.data = s.data
  BY <1>8, <1>9
<1>16. (s.lastSyncWasBeginOfRun /\ IsBegin(t) /\ n.interval = s.interval) => n.data = s.data
  <2>1. HAVE s.lastSyncWasBeginOfRun /\ IsBegin(t) /\ n.interval = s.interval
  <2>2. ~drops BY <2>1 DEF drops
  <2>3. ~moves BY <1>8, <1>10, <2>1 DEF moves
  <2>4. a.data = s.data BY <1>8, <2>2, <2>3
  <2> QED BY <1>9, <2>1, <2>4
<1>17. Becomes(start, t, r, s, n)
  BY <1>1, <1>2, <1>6, <1>8, <1>10, <1>12, <1>14, <1>15, <1>16 DEF Becomes
<1> QED BY <1>s, <1>n, <1>17

-----------------------------------------------------------------------------
(* Types, and what the flags of a record mean. *)

\* Between two steps: the flag that a cache has changed is not set; a record is
\* in the EventSetup if it has an interval; it remembers what kind of instant
\* the last one was; data were asked for in one way or the other; what a module
\* holds on to is the data of the record, and stays there when transient data go.
Flags ==
    \A r \in Records :
        /\ record[r].unchanged
        /\ record[r].present <=> record[r].interval # Invalid
        /\ now # 0 => (record[r].lastSyncWasBeginOfRun <=> IsBegin(now))
        /\ now = 0 => record[r].interval = Invalid
        /\ record[r].data # None => record[r].transientAccess \/ record[r].nonTransient
        /\ held[r] # None => record[r].data = held[r] /\ record[r].nonTransient

FlagsInv == TypeOK /\ Flags

\* The beginning.
LEMMA FlagsInit == Init => FlagsInv
<1> SUFFICES ASSUME Init PROVE FlagsInv
  OBVIOUS
<1>1. None \in Data /\ Invalid \in Intervals BY DEF Data, Intervals
<1>2. NewRecord \in RecordState BY <1>1 DEF NewRecord, RecordState
<1>3. TypeOK
  <2>1. job \in Configurations /\ now = 0 /\ loop = 0 BY DEF Init
  <2>2. record \in [Records -> RecordState] BY <1>2 DEF Init
  <2>3. held \in [Records -> Data] BY <1>1 DEF Init, NotHeld
  <2>4. loop \in 0 .. MaxLoops BY <2>1, BoundsAssumption
  <2> QED BY <2>1, <2>2, <2>3, <2>4 DEF TypeOK
<1>4. Flags
  <2>1. \A r \in Records : record[r] = NewRecord /\ held[r] = None BY DEF Init, NotHeld
  <2>2. now = 0 BY DEF Init
  <2> QED BY <2>1, <2>2 DEF Flags, NewRecord
<1> QED BY <1>3, <1>4 DEF FlagsInv

\* An instant that follows is one.
LEMMA FollowsFacts ==
  ASSUME now \in {0} \cup Instants, NEW t \in Follows(now)
  PROVE  /\ t \in Instants
         /\ (now # 0 /\ IsBegin(now)) => ~BeginsRun(t)
<1> DEFINE N == MaxRuns
<1>1. N \in Nat \ {0} BY BoundsAssumption
<1>2. CASE now = 0 \/ EndsRun(now)
  <2>1. t \in Instants BY <1>2 DEF Follows
  <2>2. (now # 0 /\ IsBegin(now)) => FALSE BY <1>2 DEF EndsRun, IsBegin
  <2> QED BY <2>1, <2>2
<1>3. CASE now # 0 /\ ~EndsRun(now)
  <2>1. t = now + 1 \/ (now % 4 = 1 /\ t = now + 3) BY <1>3 DEF Follows, BeginsRun
  <2>2. now \in 1 .. 4 * N /\ now % 4 # 0 BY <1>3 DEF Instants, EndsRun
  <2>3. PICK q \in Nat : \E m \in 1 .. 3 : now = 4 * q + m /\ now % 4 = m
    <3>1. now \in Nat BY <2>2
    <3>2. now = 4 * (now \div 4) + (now % 4) /\ now % 4 \in 0 .. 3 /\ now \div 4 \in Nat BY <3>1
    <3> QED BY <2>2, <3>2
  <2>4. PICK m \in 1 .. 3 : now = 4 * q + m /\ now % 4 = m BY <2>3
  <2>5. q < N BY <1>1, <2>2, <2>4
  <2>6. 4 * q + 4 <= 4 * N BY <1>1, <2>5
  <2>7. t \in Instants BY <1>1, <2>1, <2>2, <2>4, <2>6 DEF Instants
  <2>8. IsBegin(now) => t % 4 # 1
    <3>1. (4 * q + 2) % 4 = 2 /\ (4 * q + 3) % 4 = 3 /\ (4 * q + 4) % 4 = 0 OBVIOUS
    <3>2. IsBegin(now) => m \in {1, 2} BY <2>4 DEF IsBegin
    <3>3. ASSUME m \in {1, 2} PROVE t \in {4 * q + 2, 4 * q + 3, 4 * q + 4}
      BY <2>1, <2>4, <3>3
    <3> QED BY <3>1, <3>2, <3>3
  <2> QED BY <2>7, <2>8 DEF BeginsRun
<1> QED BY <1>2, <1>3

\* The interval found for r when all are as they are in the end.
FoundWith(all, r, t) == Found(r, t, {all[d].interval : d \in job.dependsOn[r]})

\* What a new instant does to one record and to what modules hold of it.
LEMMA ForInstanceFacts ==
  ASSUME TypeOK, Flags, NEW t \in Instants, EventSetupForInstance(t),
         NEW r \in Records, NEW p, p = record[r], NEW q, q = record'[r]
  PROVE  /\ q \in RecordState
         /\ q.interval = IF ValidFor(p.interval, t) THEN p.interval ELSE FoundWith(record', r, t)
         /\ q.present <=> q.interval # Invalid
         /\ q.unchanged
         /\ q.lastSyncWasBeginOfRun = IsBegin(t)
         /\ q.data # None
              => /\ q.data = p.data
                 /\ q.interval[1] = 0 \/ q.interval[1] = p.interval[1]
                 /\ p.nonTransient \/ p.lastSyncWasBeginOfRun
                 /\ q.transientAccess \/ q.nonTransient
         /\ held'[r] \in Data
         /\ held'[r] # None
              => held'[r] = held[r] /\ (p.nonTransient => q.nonTransient /\ q.data = p.data)
         /\ (~BeginsRun(t) /\ p.lastSyncWasBeginOfRun /\ IsBegin(t) /\ q.interval = p.interval)
              => q.data = p.data
<1> DEFINE forced == job.forceClear /\ BeginsRun(t)
<1>1. PICK start : start = IF forced THEN [x \in Records |-> Reset(record[x])] ELSE record
  OBVIOUS
<1>2. None \in Data BY DEF Data
<1>3. \A x \in Records : record[x] \in RecordState BY DEF TypeOK
<1>4. \A x \in Records : Reset(record[x]) \in RecordState BY <1>2, <1>3 DEF Reset, RecordState
<1>5. start \in [Records -> RecordState] BY <1>1, <1>4 DEF TypeOK
<1>6. PICK synced : synced = Synced(start, t) OBVIOUS
<1>7. /\ record' = [x \in Records |-> [synced[x] EXCEPT !.present = synced[x].interval[1] # 0,
                                                      !.unchanged = TRUE]]
      /\ held' = Watching(synced)
  BY <1>1, <1>6 DEF EventSetupForInstance
<1>8. PICK s : s = start[r] OBVIOUS
<1>9. PICK n : n = synced[r] OBVIOUS
<1>10. job \in Configurations BY DEF TypeOK
<1>11. /\ n \in RecordState /\ n.lastSyncWasBeginOfRun = IsBegin(t)
       /\ n.interval = IF ValidFor(s.interval, t) THEN s.interval
                       ELSE Found(r, t, {Asked(start, t)[d].interval : d \in job.dependsOn[r]})
       /\ n.data # None
            => /\ n.data = s.data /\ (s.nonTransient => n.nonTransient)
               /\ n.interval[1] = 0 \/ n.interval[1] = s.interval[1]
               /\ s.nonTransient \/ s.lastSyncWasBeginOfRun \/ ~s.transientAccess
               /\ s.transientAccess \/ s.nonTransient => n.transientAccess \/ n.nonTransient
       /\ n.unchanged => s.unchanged /\ (s.nonTransient => n.nonTransient /\ n.data = s.data)
       /\ (s.lastSyncWasBeginOfRun /\ IsBegin(t) /\ n.interval = s.interval) => n.data = s.data
  <2>1. n = Synced(start, t)[r] BY <1>6, <1>9
  <2>2. Becomes(start, t, r, start[r], Synced(start, t)[r]) BY <1>5, <1>10, SyncedFacts
  <2>3. Becomes(start, t, r, s, n) BY <1>8, <2>1, <2>2
  <2> QED BY <2>3 DEF Becomes
<1>12. ASSUME NEW d \in Records
       PROVE  Synced(start, t)[d].interval = Asked(start, t)[d].interval
              /\ Synced(start, t)[d] \in RecordState
  <2>1. PICK before : before = start[d] OBVIOUS
  <2>2. PICK after : after = Synced(start, t)[d] OBVIOUS
  <2>3. Becomes(start, t, d, start[d], Synced(start, t)[d]) BY <1>5, <1>10, SyncedFacts
  <2>4. after \in RecordState /\ after.interval = Asked(start, t)[d].interval
    BY <2>1, <2>2, <2>3 DEF Becomes
  <2> QED BY <2>2, <2>4
<1>13. \A d \in Records : synced[d] \in RecordState
  BY <1>6, <1>12
<1>14. \A d \in Records : record'[d].interval = Asked(start, t)[d].interval
  BY <1>6, <1>7, <1>12, <1>13 DEF RecordState
<1>15. job.dependsOn[r] \in SUBSET Records BY <1>10, JobFacts
<1>16. {Asked(start, t)[d].interval : d \in job.dependsOn[r]}
         = {record'[d].interval : d \in job.dependsOn[r]}
  BY <1>14, <1>15
<1>17. q = [n EXCEPT !.present = n.interval[1] # 0, !.unchanged = TRUE] BY <1>7, <1>9
<1>18. /\ q \in RecordState /\ q.interval = n.interval /\ q.data = n.data
       /\ q.nonTransient = n.nonTransient /\ q.transientAccess = n.transientAccess
       /\ q.lastSyncWasBeginOfRun = n.lastSyncWasBeginOfRun /\ q.unchanged
       /\ q.present <=> n.interval[1] # 0
  BY <1>11, <1>17 DEF RecordState
<1>19. n.interval[1] # 0 <=> n.interval # Invalid
  <2>1. n.interval \in Intervals BY <1>11 DEF RecordState
  <2> QED BY <2>1, IntervalFacts
<1>20. /\ s.interval = p.interval /\ s.lastSyncWasBeginOfRun = p.lastSyncWasBeginOfRun
       /\ \/ s = p
          \/ forced /\ s.data = None /\ ~s.unchanged
  <2>1. CASE forced
    <3>1. s = Reset(p) BY <1>1, <1>8, <2>1
    <3> QED BY <1>3, <2>1, <3>1 DEF Reset, RecordState
  <2>2. CASE ~forced
    <3>1. s = p BY <1>1, <1>8, <2>2
    <3> QED BY <3>1
  <2> QED BY <2>1, <2>2
<1>21. held'[r] = IF n.unchanged THEN held[r] ELSE None BY <1>7, <1>9 DEF Watching
<1>22. held'[r] \in Data BY <1>2, <1>21 DEF TypeOK
<1>23. p.data # None => p.transientAccess \/ p.nonTransient BY DEF Flags
<1>24. q.interval = IF ValidFor(p.interval, t) THEN p.interval ELSE FoundWith(record', r, t)
  BY <1>11, <1>16, <1>18, <1>20 DEF FoundWith
<1>25. q.data # None
         => /\ q.data = p.data
            /\ q.interval[1] = 0 \/ q.interval[1] = p.interval[1]
            /\ p.nonTransient \/ p.lastSyncWasBeginOfRun
            /\ q.transientAccess \/ q.nonTransient
  <2>1. HAVE q.data # None
  <2>2. n.data # None /\ n.data = s.data BY <1>11, <1>18, <2>1
  <2>3. s = p BY <1>20, <2>2
  <2> HIDE DEF forced
  <2> QED BY <1>11, <1>18, <1>23, <2>2, <2>3
<1>26. held'[r] # None
         => held'[r] = held[r] /\ (p.nonTransient => q.nonTransient /\ q.data = p.data)
  <2>1. HAVE held'[r] # None
  <2>2. n.unchanged /\ held'[r] = held[r] BY <1>21, <2>1
  <2>3. s = p BY <1>11, <1>20, <2>2
  <2> QED BY <1>11, <1>18, <2>2, <2>3
<1>27. (~BeginsRun(t) /\ p.lastSyncWasBeginOfRun /\ IsBegin(t) /\ q.interval = p.interval)
         => q.data = p.data
  BY <1>11, <1>18, <1>20
<1> QED BY <1>11, <1>18, <1>19, <1>22, <1>24, <1>25, <1>26, <1>27

\* What is made, or found, when data are got: that of the record itself, and
\* what is in the EventSetup and needed for data that are not cached.
LEMMA TouchedFacts ==
  ASSUME job \in Configurations, NEW cache, NEW r \in Records
  PROVE  /\ Touched(r, cache) \in SUBSET Records
         /\ r \in Touched(r, cache)
         /\ \A x \in Touched(r, cache) : x = r \/ record[x].present
         /\ \A x \in Touched(r, cache) : cache[x] = None =>
              \A d \in job.dependsOn[x] : record[d].present => d \in Touched(r, cache)
         /\ cache[r] # None => Touched(r, cache) = {r}
<1>1. PICK next : next = [s \in Records |-> IF cache[s] # None THEN {}
                                            ELSE {d \in job.dependsOn[s] : record[d].present}]
  OBVIOUS
<1>2. PICK touched : touched = Reached(next, r) OBVIOUS
<1>3. Touched(r, cache) = touched BY <1>1, <1>2 DEF Touched
<1>4. \A x \in Records : next[x] \subseteq Records
  <2>1. \A x \in Records : job.dependsOn[x] \in SUBSET Records BY JobFacts
  <2> QED BY <1>1, <2>1
<1>5. /\ touched \in SUBSET Records /\ r \in touched
      /\ \A x \in touched : next[x] \subseteq touched
      /\ \A C \in SUBSET Records :
           (r \in C /\ \A x \in C : next[x] \subseteq C) => touched \subseteq C
  BY <1>2, <1>4, ReachedFacts
<1>6. ASSUME NEW x \in touched PROVE x = r \/ record[x].present
  <2>1. PICK C \in SUBSET Records : C = {y \in Records : y = r \/ record[y].present} OBVIOUS
  <2>2. \A y \in C : next[y] \subseteq C BY <1>1, <1>4, <2>1
  <2>3. touched \subseteq C BY <1>5, <2>1, <2>2
  <2> QED BY <2>1, <2>3
<1>7. ASSUME NEW x \in touched, cache[x] = None, NEW d \in job.dependsOn[x], record[d].present
      PROVE  d \in touched
  <2>1. d \in next[x] BY <1>1, <1>5, <1>7
  <2> QED BY <1>5, <2>1
<1>8. ASSUME cache[r] # None PROVE touched = {r}
  <2>1. next[r] = {} BY <1>1, <1>8
  <2>2. touched \subseteq {r}
    <3>1. \A x \in {r} : next[x] \subseteq {r} BY <2>1
    <3>2. {r} \in SUBSET Records /\ r \in {r} OBVIOUS
    <3> QED BY <1>5, <3>1, <3>2
  <2> QED BY <1>5, <2>2
<1> QED BY <1>3, <1>5, <1>6, <1>7, <1>8

\* What the producer of a record takes from its sources.
LEMMA OwnType ==
  ASSUME TypeOK, now # 0, NEW r \in Records
  PROVE  Own(r) \in SUBSET (Sources \X Instants \X (0 .. MaxLoops))
<1>1. job \in Configurations /\ now \in Instants /\ loop \in 0 .. MaxLoops BY DEF TypeOK
<1>2. job.sources[r] \in SUBSET Sources BY <1>1, JobFacts
<1>3. ASSUME NEW f \in job.sources[r], SourceInterval(f, now) # Invalid
      PROVE  <<f, SourceInterval(f, now)[1], Generation(r)>>
               \in Sources \X Instants \X (0 .. MaxLoops)
  <2>1. SourceInterval(f, now) \in Intervals BY <1>1, <1>2, AnswerFacts
  <2>2. SourceInterval(f, now)[1] \in Instants BY <1>3, <2>1, IntervalFacts
  <2>3. Generation(r) \in 0 .. MaxLoops BY <1>1, BoundsAssumption DEF Generation
  <2> QED BY <1>2, <2>2, <2>3
<1> QED BY <1>3 DEF Own

\* What is made from cached data and sources is data; what is cached is found.
LEMMA MadeFacts ==
  ASSUME TypeOK, now # 0, NEW cache \in [Records -> Data], NEW r \in Records
  PROVE  /\ Made(r, cache) \in Data
         /\ cache[r] # None => Made(r, cache) = cache[r]
<1>1. job \in Configurations BY DEF TypeOK
<1>2. Touched(r, cache) \in SUBSET Records BY <1>1, TouchedFacts
<1>3. \A s \in Records : cache[s] \in Data BY Zenon
<1>4. ASSUME NEW s \in Records
      PROVE  (IF cache[s] # None THEN cache[s] ELSE Own(s))
               \in SUBSET (Sources \X Instants \X (0 .. MaxLoops))
  BY <1>3, OwnType DEF Data
<1>5. Made(r, cache) \in SUBSET (Sources \X Instants \X (0 .. MaxLoops))
  BY <1>2, <1>4 DEF Made
<1>6. ASSUME cache[r] # None PROVE Made(r, cache) = cache[r]
  <2>1. Touched(r, cache) = {r} BY <1>1, <1>6, TouchedFacts
  <2> QED BY <1>6, <2>1 DEF Made
<1> QED BY <1>5, <1>6 DEF Data

Cache == [s \in Records |-> record[s].data]

\* What it does to a record when a module gets data of r.
LEMMA GetFacts ==
  ASSUME TypeOK, NEW r \in Records, NEW transiently \in BOOLEAN, Get(r, transiently),
         NEW s \in Records, NEW p, p = record[s], NEW q, q = record'[s]
  PROVE  /\ q \in RecordState /\ q.interval = p.interval /\ q.present = p.present
         /\ q.unchanged = p.unchanged /\ q.lastSyncWasBeginOfRun = p.lastSyncWasBeginOfRun
         /\ p.nonTransient => q.nonTransient
         /\ p.data # None => q.data = p.data
         /\ \/ q = p
            \/ /\ p.present /\ q.data = Made(s, Cache)
               /\ q.transientAccess \/ q.nonTransient
         /\ held'[s] \in Data
         /\ held'[s] = held[s] \/ (held'[s] = q.data /\ q.nonTransient)
<1>1. PICK cache : cache = Cache OBVIOUS
<1>2. PICK got : got = Touched(r, cache) OBVIOUS
<1>3. job \in Configurations /\ p \in RecordState BY DEF TypeOK
<1>4. now # 0 /\ record[r].present BY DEF Get
<1>5. cache \in [Records -> Data] /\ cache[s] = p.data BY <1>1 DEF Cache, TypeOK, RecordState
<1>6. q = IF s \notin got THEN p
          ELSE [p EXCEPT !.data = Made(s, cache),
                         !.nonTransient = @ \/ s # r \/ ~transiently,
                         !.transientAccess = @ \/ (s = r /\ transiently)]
  BY <1>1, <1>2 DEF Get, Cache
<1>7. /\ r \in got /\ (s \in got => s = r \/ record[s].present)
  BY <1>2, <1>3, TouchedFacts
<1>8. Made(s, cache) \in Data /\ (cache[s] # None => Made(s, cache) = cache[s])
  BY <1>4, <1>5, MadeFacts
<1>9. Made(r, cache) \in Data BY <1>4, <1>5, MadeFacts
<1>10. held' = IF transiently THEN held ELSE [held EXCEPT ![r] = Made(r, cache)]
  BY <1>1 DEF Get, Cache
<1>11. held \in [Records -> Data] BY DEF TypeOK
<1>12. CASE s \notin got
  <2>1. q = p BY <1>6, <1>12
  <2>2. s # r BY <1>7, <1>12
  <2>3. held'[s] = held[s] BY <1>10, <1>11, <2>2
  <2> QED BY <1>3, <1>11, <2>1, <2>3
<1>13. CASE s \in got
  <2>1. q = [p EXCEPT !.data = Made(s, cache),
                      !.nonTransient = @ \/ s # r \/ ~transiently,
                      !.transientAccess = @ \/ (s = r /\ transiently)]
    BY <1>6, <1>13
  <2>2. /\ q \in RecordState /\ q.interval = p.interval /\ q.present = p.present
        /\ q.unchanged = p.unchanged /\ q.lastSyncWasBeginOfRun = p.lastSyncWasBeginOfRun
        /\ q.data = Made(s, cache)
        /\ q.nonTransient <=> p.nonTransient \/ s # r \/ ~transiently
        /\ q.transientAccess <=> p.transientAccess \/ (s = r /\ transiently)
    BY <1>3, <1>8, <2>1 DEF RecordState
  <2>3. p.present BY <1>4, <1>7, <1>13
  <2>4. held'[s] \in Data /\ (held'[s] = held[s] \/ (held'[s] = q.data /\ q.nonTransient))
    <3>1. CASE transiently \/ s # r BY <1>10, <1>11, <3>1
    <3>2. CASE ~transiently /\ s = r
      <4>1. held'[s] = Made(s, cache) BY <1>10, <1>11, <3>2
      <4> QED BY <1>8, <2>2, <3>2, <4>1
    <3> QED BY <3>1, <3>2
  <2>5. q.transientAccess \/ q.nonTransient BY <2>2
  <2>6. p.nonTransient => q.nonTransient BY <2>2
  <2>7. p.data # None => q.data = p.data BY <1>5, <1>8, <2>2
  <2> QED BY <1>1, <2>2, <2>3, <2>4, <2>5, <2>6, <2>7
<1> QED BY <1>12, <1>13

\* What it does to a record when a looper asks for another loop.
LEMMA PrepareFacts ==
  ASSUME TypeOK, Flags, PrepareForNextLoop, NEW r \in Records,
         NEW p, p = record[r], NEW q, q = record'[r]
  PROVE  /\ q \in RecordState /\ q.interval = p.interval /\ q.present = p.present
         /\ q.unchanged /\ q.lastSyncWasBeginOfRun = p.lastSyncWasBeginOfRun
         /\ q.data # None
              => /\ q.data = p.data /\ q.nonTransient = p.nonTransient
                 /\ q.transientAccess = p.transientAccess
                 /\ \A m \in job.modifying : r \notin Dependents(m)
         /\ held'[r] \in Data
         /\ held'[r] # None
              => held'[r] = held[r] /\ q.data = p.data /\ q.nonTransient = p.nonTransient
<1>1. PICK reset : reset = UNION {Dependents(m) : m \in job.modifying} OBVIOUS
<1>2. PICK after : after = [x \in Records |-> IF x \in reset THEN Reset(record[x]) ELSE record[x]]
  OBVIOUS
<1>3. None \in Data BY DEF Data
<1>4. p \in RecordState /\ held[r] \in Data BY DEF TypeOK
<1>5. q = [after[r] EXCEPT !.unchanged = TRUE] /\ held' = Watching(after)
  BY <1>1, <1>2 DEF PrepareForNextLoop
<1>6. held'[r] = IF after[r].unchanged THEN held[r] ELSE None BY <1>5 DEF Watching
<1>7. CASE r \in reset
  <2>1. after[r] = Reset(p) BY <1>2, <1>7
  <2>2. q = [Reset(p) EXCEPT !.unchanged = TRUE] BY <1>5, <2>1
  <2>3. held'[r] = None BY <1>4, <1>6, <2>1 DEF Reset, RecordState
  <2>4. /\ q \in RecordState /\ q.interval = p.interval /\ q.present = p.present
        /\ q.unchanged /\ q.lastSyncWasBeginOfRun = p.lastSyncWasBeginOfRun
        /\ q.data = None
    BY <1>3, <1>4, <2>2 DEF Reset, RecordState
  <2> QED BY <1>3, <2>3, <2>4
<1>8. CASE r \notin reset
  <2>1. after[r] = p BY <1>2, <1>8
  <2>2. q = [p EXCEPT !.unchanged = TRUE] BY <1>5, <2>1
  <2>3. /\ q \in RecordState /\ q.interval = p.interval /\ q.present = p.present
        /\ q.unchanged /\ q.lastSyncWasBeginOfRun = p.lastSyncWasBeginOfRun
        /\ q.data = p.data /\ q.nonTransient = p.nonTransient
        /\ q.transientAccess = p.transientAccess
    BY <1>4, <2>2 DEF RecordState
  <2>4. \A m \in job.modifying : r \notin Dependents(m) BY <1>1, <1>8
  <2>5. held'[r] \in Data /\ (held'[r] # None => held'[r] = held[r])
    BY <1>3, <1>4, <1>6
  <2> QED BY <2>3, <2>4, <2>5
<1> QED BY <1>7, <1>8

\* Every step keeps the types and the flags.
LEMMA FlagsStep ==
  ASSUME FlagsInv, [Next]_vars
  PROVE  FlagsInv'
<1>0. TypeOK /\ Flags BY DEF FlagsInv
<1>1. CASE UNCHANGED vars BY <1>0, <1>1 DEF vars, FlagsInv, TypeOK, Flags
<1>2. ASSUME NEW t \in Instants, EventSetupForInstance(t) PROVE FlagsInv'
  <2>1. job' = job /\ now' = t /\ loop' = loop BY <1>2 DEF EventSetupForInstance
  <2>2. DOMAIN record' = Records /\ DOMAIN held' = Records
        /\ record' = [r \in Records |-> record'[r]] /\ held' = [r \in Records |-> held'[r]]
    BY <1>2 DEF EventSetupForInstance, Watching
  <2>3. ASSUME NEW r \in Records
        PROVE  /\ record'[r] \in RecordState /\ held'[r] \in Data
               /\ record'[r].unchanged
               /\ record'[r].present <=> record'[r].interval # Invalid
               /\ record'[r].lastSyncWasBeginOfRun <=> IsBegin(t)
               /\ record'[r].data # None
                    => record'[r].transientAccess \/ record'[r].nonTransient
               /\ held'[r] # None => record'[r].data = held'[r] /\ record'[r].nonTransient
    <3>1. PICK p : p = record[r] OBVIOUS
    <3>2. PICK q : q = record'[r] OBVIOUS
    <3>3. /\ q \in RecordState /\ held'[r] \in Data
          /\ q.unchanged /\ (q.present <=> q.interval # Invalid)
          /\ q.lastSyncWasBeginOfRun = IsBegin(t)
          /\ q.data # None => q.transientAccess \/ q.nonTransient
          /\ held'[r] # None
               => held'[r] = held[r] /\ (p.nonTransient => q.nonTransient /\ q.data = p.data)
      BY <1>0, <1>2, <3>1, <3>2, ForInstanceFacts
    <3>4. held[r] # None => p.data = held[r] /\ p.nonTransient BY <1>0, <3>1 DEF Flags
    <3> QED BY <3>2, <3>3, <3>4
  <2>4. TypeOK' BY <1>0, <2>1, <2>2, <2>3 DEF TypeOK
  <2>5. Flags'
    <3>1. t # 0 BY LastIs
    <3> QED BY <2>1, <2>3, <3>1 DEF Flags
  <2> QED BY <2>4, <2>5 DEF FlagsInv
<1>3. ASSUME NEW r \in Records, NEW transiently \in BOOLEAN, Get(r, transiently)
      PROVE  FlagsInv'
  <2>1. job' = job /\ now' = now /\ loop' = loop /\ now # 0 BY <1>3 DEF Get
  <2>2. record' = [s \in Records |-> record'[s]] /\ held' = [s \in Records |-> held'[s]]
    <3>1. record' = [s \in Records |-> record'[s]] BY <1>3 DEF Get
    <3>2. held' \in [Records -> {held'[s] : s \in Records}]
      <4>1. held' = held \/ \E x : held' = [held EXCEPT ![r] = x] BY <1>3 DEF Get
      <4>2. held = [s \in Records |-> held[s]] BY <1>0 DEF TypeOK
      <4>3. held' = [s \in Records |-> held'[s]] BY <4>1, <4>2
      <4> QED BY <4>3
    <3> QED BY <3>1, <3>2
  <2>3. ASSUME NEW s \in Records
        PROVE  /\ record'[s] \in RecordState /\ held'[s] \in Data
               /\ record'[s].unchanged
               /\ record'[s].present <=> record'[s].interval # Invalid
               /\ record'[s].lastSyncWasBeginOfRun <=> IsBegin(now)
               /\ record'[s].data # None
                    => record'[s].transientAccess \/ record'[s].nonTransient
               /\ held'[s] # None => record'[s].data = held'[s] /\ record'[s].nonTransient
    <3>1. PICK p : p = record[s] OBVIOUS
    <3>2. PICK q : q = record'[s] OBVIOUS
    <3>3. /\ q \in RecordState /\ q.interval = p.interval /\ q.present = p.present
          /\ q.unchanged = p.unchanged /\ q.lastSyncWasBeginOfRun = p.lastSyncWasBeginOfRun
          /\ p.nonTransient => q.nonTransient
          /\ p.data # None => q.data = p.data
          /\ q = p \/ q.transientAccess \/ q.nonTransient
          /\ held'[s] \in Data
          /\ held'[s] = held[s] \/ (held'[s] = q.data /\ q.nonTransient)
      BY <1>0, <1>3, <3>1, <3>2, GetFacts
    <3>4. /\ p.unchanged /\ (p.present <=> p.interval # Invalid)
          /\ p.lastSyncWasBeginOfRun <=> IsBegin(now)
          /\ p.data # None => p.transientAccess \/ p.nonTransient
          /\ held[s] # None => p.data = held[s] /\ p.nonTransient
      BY <1>0, <2>1, <3>1 DEF Flags
    <3>5. held'[s] # None => q.data = held'[s] /\ q.nonTransient BY <3>3, <3>4
    <3>6. q.data # None => q.transientAccess \/ q.nonTransient BY <3>3, <3>4
    <3> QED BY <3>2, <3>3, <3>4, <3>5, <3>6
  <2>4. TypeOK' BY <1>0, <2>1, <2>2, <2>3 DEF TypeOK
  <2>5. Flags' BY <2>1, <2>3 DEF Flags
  <2> QED BY <2>4, <2>5 DEF FlagsInv
<1>4. CASE PrepareForNextLoop
  <2>1. job' = job /\ now' = now /\ loop' = loop + 1 /\ loop < MaxLoops /\ now # 0
    BY <1>4 DEF PrepareForNextLoop
  <2>2. record' = [s \in Records |-> record'[s]] /\ held' = [s \in Records |-> held'[s]]
    BY <1>4 DEF PrepareForNextLoop, Watching
  <2>3. ASSUME NEW s \in Records
        PROVE  /\ record'[s] \in RecordState /\ held'[s] \in Data
               /\ record'[s].unchanged
               /\ record'[s].present <=> record'[s].interval # Invalid
               /\ record'[s].lastSyncWasBeginOfRun <=> IsBegin(now)
               /\ record'[s].data # None
                    => record'[s].transientAccess \/ record'[s].nonTransient
               /\ held'[s] # None => record'[s].data = held'[s] /\ record'[s].nonTransient
    <3>1. PICK p : p = record[s] OBVIOUS
    <3>2. PICK q : q = record'[s] OBVIOUS
    <3>3. /\ q \in RecordState /\ q.interval = p.interval /\ q.present = p.present
          /\ q.unchanged /\ q.lastSyncWasBeginOfRun = p.lastSyncWasBeginOfRun
          /\ q.data # None => /\ q.data = p.data /\ q.nonTransient = p.nonTransient
                              /\ q.transientAccess = p.transientAccess
          /\ held'[s] \in Data
          /\ held'[s] # None
               => held'[s] = held[s] /\ q.data = p.data /\ q.nonTransient = p.nonTransient
      BY <1>0, <1>4, <3>1, <3>2, PrepareFacts
    <3>4. /\ (p.present <=> p.interval # Invalid)
          /\ p.lastSyncWasBeginOfRun <=> IsBegin(now)
          /\ p.data # None => p.transientAccess \/ p.nonTransient
          /\ held[s] # None => p.data = held[s] /\ p.nonTransient
      BY <1>0, <2>1, <3>1 DEF Flags
    <3>5. held'[s] # None => q.data = held'[s] /\ q.nonTransient BY <3>3, <3>4
    <3>6. q.data # None => q.transientAccess \/ q.nonTransient BY <3>3, <3>4
    <3> QED BY <3>2, <3>3, <3>4, <3>5, <3>6
  <2>4. loop' \in 0 .. MaxLoops BY <1>0, <2>1, BoundsAssumption DEF TypeOK
  <2>5. TypeOK' BY <1>0, <2>1, <2>2, <2>3, <2>4 DEF TypeOK
  <2>6. Flags' BY <2>1, <2>3 DEF Flags
  <2> QED BY <2>5, <2>6 DEF FlagsInv
<1> QED BY <1>1, <1>2, <1>3, <1>4 DEF Next

\* For any records, sources, tables and numbers of runs and loops the variables
\* keep their types.
THEOREM EventSetupTypes == Spec => []TypeOK
<1>1. FlagsInv => TypeOK BY DEF FlagsInv
<1> QED BY FlagsInit, FlagsStep, <1>1, PTL DEF Spec

-----------------------------------------------------------------------------
(* Intervals are exact. *)

\* What is below a record and what sources answer depends on the job alone.
LEMMA SameJob ==
  ASSUME job' = job, NEW f, NEW r, NEW t
  PROVE  /\ SourceInterval(f, t)' = SourceInterval(f, t)
         /\ Below(r)' = Below(r)
         /\ Answers(r, t)' = Answers(r, t)
<1>1. SourceInterval(f, t)' = SourceInterval(f, t) BY DEF SourceInterval
<1>2. Below(r)' = Below(r) BY DEF Below, Reached
<1>3. Answers(r, t)' = Answers(r, t) BY DEF Answers, OwnAnswers, SourceInterval, Below, Reached
<1> QED BY <1>1, <1>2, <1>3

\* In the next state, too, intervals are exact if they are those of the answers.
LEMMA ExactNext ==
  ASSUME job' = job, NEW t, now' = t,
         t # 0 => \A r \in Records : record'[r].interval = IntervalOf(Answers(r, t))
  PROVE  IntervalsAreExact'
<1>1. SUFFICES ASSUME t # 0, NEW r \in Records
               PROVE  (record[r].interval = IntervalOf(Answers(r, now)))'
  BY DEF IntervalsAreExact
<1>2. record'[r].interval = IntervalOf(Answers(r, t)) BY <1>1
<1>3. Answers(r, now)' = Answers(r, t)
  BY DEF Answers, OwnAnswers, SourceInterval, Below, Reached
<1> QED BY <1>2, <1>3

\* While the interval of a record holds its sources, and those of the records it
\* depends on, answer the same: none of them has to be asked.
LEMMA AnswersLast ==
  ASSUME job \in Configurations, NEW r \in Records, NEW u \in Instants, NEW t \in Instants,
         ValidFor(IntervalOf(Answers(r, u)), t)
  PROVE  Answers(r, t) = Answers(r, u)
<1>1. PICK A \in SUBSET Intervals : A = Answers(r, u) BY AnswersAre
<1>2. PICK i : i = IntervalOf(A) OBVIOUS
<1>3. IsIntervalOf(i, A) BY <1>2, IntervalOfIs
<1>4. i[1] <= t /\ t <= i[2] BY <1>1, <1>2 DEF ValidFor
<1>5. t \in 1 .. Last /\ Last \in Nat BY LastIs
<1>6. i \in Intervals /\ i[1] \in Nat /\ i[2] \in Nat BY <1>2, <1>5, IntervalOfType, IntervalFacts
<1>7. i[2] # 0 BY <1>4, <1>5, <1>6
<1>8. A \ {Invalid} # {} BY <1>3, <1>7 DEF IsIntervalOf, Invalid
<1>9. ASSUME NEW a \in A PROVE a # Invalid /\ a[1] <= i[1] /\ i[2] <= a[2]
  <2>1. ~\E b \in A : b[2] = 0 BY <1>3, <1>7, <1>8 DEF IsIntervalOf
  <2>2. a # Invalid BY <2>1, IntervalFacts
  <2> QED BY <1>3, <1>8, <2>1, <2>2 DEF IsIntervalOf
<1>10. ASSUME NEW s \in Below(r), NEW f \in job.sources[s]
       PROVE  SourceInterval(f, t) = SourceInterval(f, u)
  <2>1. s \in Records /\ f \in Sources BY BelowFacts, JobFacts
  <2>2. PICK a : a = SourceInterval(f, u) OBVIOUS
  <2>3. a \in OwnAnswers(s, u) BY <2>2 DEF OwnAnswers
  <2>4. a \in A BY <1>1, <2>3 DEF Answers
  <2>5. a # Invalid /\ a[1] <= i[1] /\ i[2] <= a[2] BY <1>9, <2>4
  <2>6. a \in job.table[f] BY <2>1, <2>2, <2>5, AnswerFacts
  <2>7. a[1] \in Nat /\ a[2] \in Nat BY <1>5, <2>4, IntervalFacts
  <2>8. Holds(a, t) BY <1>4, <1>5, <1>6, <2>5, <2>7 DEF Holds
  <2>9. SourceInterval(f, t) = a BY <2>1, <2>6, <2>8, AnswerIs
  <2> QED BY <2>2, <2>9
<1>11. \A s \in Below(r) : OwnAnswers(s, t) = OwnAnswers(s, u)
  <2>1. TAKE s \in Below(r)
  <2>2. {SourceInterval(f, t) : f \in job.sources[s]}
          = {SourceInterval(f, u) : f \in job.sources[s]}
    BY <1>10
  <2> QED BY <2>2 DEF OwnAnswers
<1> QED BY <1>11 DEF Answers

\* So all intervals are exact after they have been looked up.
LEMMA ExactStep ==
  ASSUME OwnSourcesAnswer, FlagsInv, IntervalsAreExact, [Next]_vars
  PROVE  IntervalsAreExact'
<1>0. TypeOK /\ Flags /\ job \in Configurations BY DEF FlagsInv, TypeOK
<1>1. ASSUME NEW t \in Instants, EventSetupForInstance(t) PROVE IntervalsAreExact'
  <2>1. job' = job /\ now' = t BY <1>1 DEF EventSetupForInstance
  <2>2. \A r \in Records :
          record'[r].interval = IF ValidFor(record[r].interval, t) THEN record[r].interval
                                ELSE FoundWith(record', r, t)
    BY <1>0, <1>1, ForInstanceFacts
  <2> DEFINE Bad == {r \in Records : record'[r].interval # IntervalOf(Answers(r, t))}
  <2>3. ASSUME Bad # {} PROVE FALSE
    <3> HIDE DEF Bad
    <3>1. PICK r \in Bad : \A d \in job.dependsOn[r] : d \notin Bad
      <4>1. Bad \in SUBSET Records BY DEF Bad
      <4> QED BY <1>0, <2>3, <4>1, LeastRecord
    <3>2. r \in Records /\ record'[r].interval # IntervalOf(Answers(r, t)) BY <3>1 DEF Bad
    <3>3. job.dependsOn[r] \in SUBSET Records BY <1>0, <3>2, JobFacts
    <3>4. \A d \in job.dependsOn[r] : record'[d].interval = IntervalOf(Answers(d, t))
      BY <3>1, <3>3 DEF Bad
    <3>5. CASE ValidFor(record[r].interval, t)
      <4>1. record'[r].interval = record[r].interval BY <2>2, <3>2, <3>5
      <4>2. now # 0
        <5>1. now = 0 => record[r].interval = Invalid BY <1>0, <3>2 DEF Flags
        <5>2. ~ValidFor(Invalid, t) BY LastIs DEF ValidFor, Invalid
        <5> QED BY <3>5, <5>1, <5>2
      <4>3. PICK u \in Instants : u = now BY <1>0, <4>2 DEF TypeOK
      <4>4. record[r].interval = IntervalOf(Answers(r, u))
        BY <3>2, <4>2, <4>3 DEF IntervalsAreExact
      <4>5. Answers(r, t) = Answers(r, u) BY <1>0, <3>2, <3>5, <4>4, AnswersLast
      <4> QED BY <3>2, <4>1, <4>4, <4>5
    <3>6. CASE ~ValidFor(record[r].interval, t)
      <4>1. record'[r].interval = FoundWith(record', r, t) BY <2>2, <3>2, <3>6
      <4>2. {record'[d].interval : d \in job.dependsOn[r]}
              = {IntervalOf(Answers(d, t)) : d \in job.dependsOn[r]}
        BY <3>4
      <4>3. FoundWith(record', r, t)
              = Found(r, t, {IntervalOf(Answers(d, t)) : d \in job.dependsOn[r]})
        BY <4>2 DEF FoundWith
      <4>4. FoundWith(record', r, t) = IntervalOf(Answers(r, t))
        BY <1>0, <3>2, <4>3, FoundIsExact
      <4> QED BY <3>2, <4>1, <4>4
    <3> QED BY <3>5, <3>6
  <2>4. \A r \in Records : record'[r].interval = IntervalOf(Answers(r, t)) BY <2>3
  <2> QED BY <2>1, <2>4, ExactNext
<1>2. ASSUME job' = job, now' = now,
             \A r \in Records : record'[r].interval = record[r].interval
      PROVE  IntervalsAreExact'
  <2>1. PICK t : t = now OBVIOUS
  <2>2. t # 0 => \A r \in Records : record'[r].interval = IntervalOf(Answers(r, t))
    BY <1>2, <2>1 DEF IntervalsAreExact
  <2> QED BY <1>2, <2>1, <2>2, ExactNext
<1>3. ASSUME NEW r \in Records, NEW transiently \in BOOLEAN, Get(r, transiently)
      PROVE  IntervalsAreExact'
  <2>1. job' = job /\ now' = now BY <1>3 DEF Get
  <2>2. \A s \in Records : record'[s].interval = record[s].interval BY <1>0, <1>3, GetFacts
  <2> QED BY <1>2, <2>1, <2>2
<1>4. CASE PrepareForNextLoop
  <2>1. job' = job /\ now' = now BY <1>4 DEF PrepareForNextLoop
  <2>2. \A s \in Records : record'[s].interval = record[s].interval BY <1>0, <1>4, PrepareFacts
  <2> QED BY <1>2, <2>1, <2>2
<1>5. CASE UNCHANGED vars BY <1>2, <1>5 DEF vars
<1> QED BY <1>1, <1>3, <1>4, <1>5 DEF Next

\* For any records, sources and tables in which the own source of a record that
\* depends on others has an answer, and whatever the order of runs: the interval
\* of every record is that of all the answers below it at this instant.
THEOREM IntervalsExact == OwnSourcesAnswer => (Spec => []IntervalsAreExact)
<1> SUFFICES ASSUME OwnSourcesAnswer PROVE Spec => []IntervalsAreExact
  OBVIOUS
<1>1. Init => FlagsInv /\ IntervalsAreExact
  <2>1. Init => now = 0 BY DEF Init
  <2> QED BY <2>1, FlagsInit DEF IntervalsAreExact
<1>2. (FlagsInv /\ IntervalsAreExact) /\ [Next]_vars => (FlagsInv /\ IntervalsAreExact)'
  BY FlagsStep, ExactStep
<1> QED BY <1>1, <1>2, PTL DEF Spec

-----------------------------------------------------------------------------
(* Data are current. *)

\* What the sources say for all that is below a record.
Content(r) == UNION {Own(s) : s \in Below(r)}

\* The data of records in the EventSetup are those, but for sources that lapsed.
DataInv == \A r \in Records :
              (record[r].present /\ record[r].data # None)
                 => Lasting(record[r].data) = Lasting(Content(r))

\* Nothing is taken from the sources below a record that has no interval.
LEMMA NothingBelow ==
  ASSUME FlagsInv, IntervalsAreExact, now # 0, NEW d \in Records, ~record[d].present,
         NEW s \in Below(d)
  PROVE  Own(s) = {}
<1>1. job \in Configurations /\ now \in Instants BY DEF FlagsInv, TypeOK
<1>2. IntervalOf(Answers(d, now)) = Invalid BY DEF FlagsInv, Flags, IntervalsAreExact
<1>3. Answers(d, now) \ {Invalid} = {} BY <1>1, <1>2, AnswersAre, IntervalOfType
<1>4. ASSUME NEW f \in job.sources[s] PROVE SourceInterval(f, now) = Invalid
  <2>1. SourceInterval(f, now) \in OwnAnswers(s, now) BY DEF OwnAnswers
  <2> QED BY <1>3, <2>1 DEF Answers
<1> QED BY <1>4 DEF Own

\* Whatever is cached, if that is current: what is made for a record is what the
\* sources say for all that is below it.
LEMMA MadeIsContent ==
  ASSUME FlagsInv, IntervalsAreExact, now # 0, NEW r \in Records, record[r].present, NEW cache,
         \A s \in Records : (record[s].present /\ cache[s] # None)
                               => Lasting(cache[s]) = Lasting(Content(s))
  PROVE  Lasting(Made(r, cache)) = Lasting(Content(r))
<1>1. job \in Configurations BY DEF FlagsInv, TypeOK
<1>0. \A data, d : d \in Lasting(data) <=> d \in data /\ GoesOn(d[1]) BY DEF Lasting
<1>2. PICK touched : touched = Touched(r, cache) OBVIOUS
<1>3. /\ touched \in SUBSET Records /\ r \in touched
      /\ \A x \in touched : record[x].present
      /\ \A x \in touched : cache[x] = None =>
           \A d \in job.dependsOn[x] : record[d].present => d \in touched
  BY <1>1, <1>2, TouchedFacts
<1>4. touched \subseteq Below(r)
  <2>1. PICK next : next = [s \in Records |-> IF cache[s] # None THEN {}
                                              ELSE {d \in job.dependsOn[s] : record[d].present}]
    OBVIOUS
  <2>2. touched = Reached(next, r) BY <1>2, <2>1 DEF Touched
  <2>3. \A x \in Records : next[x] \subseteq job.dependsOn[x] /\ job.dependsOn[x] \subseteq Records
    <3>1. \A x \in Records : job.dependsOn[x] \in SUBSET Records BY <1>1, JobFacts
    <3> QED BY <2>1, <3>1
  <2>4. PICK C : C = Below(r) OBVIOUS
  <2>5. C \in SUBSET Records /\ r \in C /\ \A x \in C : job.dependsOn[x] \subseteq C
    BY <1>1, <2>4, BelowFacts
  <2>6. \A x \in C : next[x] \subseteq C BY <2>3, <2>5
  <2>7. \A x \in Records : next[x] \subseteq Records BY <2>3
  <2> QED BY <2>2, <2>4, <2>5, <2>6, <2>7, ReachedFacts
<1> DEFINE Part(s) == IF cache[s] # None THEN cache[s] ELSE Own(s)
<1>5. Made(r, cache) = UNION {Part(s) : s \in touched} BY <1>2 DEF Made
<1>6. ASSUME NEW s \in touched PROVE Lasting(Part(s)) \subseteq Content(r)
  <2>1. CASE cache[s] # None
    <3>1. Lasting(cache[s]) = Lasting(Content(s)) BY <1>3, <2>1
    <3>2. Below(s) \subseteq Below(r) BY <1>1, <1>4, BelowBelow
    <3>3. Content(s) \subseteq Content(r) BY <3>2 DEF Content
    <3>4. Part(s) = cache[s] BY <2>1
    <3> HIDE DEF Part
    <3> QED BY <1>0, <3>1, <3>3, <3>4
  <2>2. CASE cache[s] = None
    <3>1. Own(s) \subseteq Content(r) BY <1>4 DEF Content
    <3>2. Part(s) = Own(s) BY <2>2
    <3> HIDE DEF Part
    <3> QED BY <1>0, <3>1, <3>2
  <2> QED BY <2>1, <2>2
<1>7. PICK C : C = {s \in Records : \/ s \in touched
                                    \/ \E x \in touched : cache[x] # None /\ s \in Below(x)
                                    \/ \A x \in Below(s) : Own(x) = {}}
  OBVIOUS
<1>8. \A x \in Records : /\ job.dependsOn[x] \in SUBSET Records
                         /\ x \in Below(x) /\ job.dependsOn[x] \subseteq Below(x)
  BY <1>1, JobFacts, BelowFacts
<1>9. ASSUME NEW x \in C, NEW d \in job.dependsOn[x] PROVE d \in C
  <2>1. x \in Records /\ d \in Records BY <1>7, <1>8
  <2>2. CASE x \in touched /\ cache[x] = None
    <3>1. CASE record[d].present BY <1>3, <1>7, <2>1, <2>2, <3>1
    <3>2. CASE ~record[d].present BY <1>7, <2>1, <3>2, NothingBelow
    <3> QED BY <3>1, <3>2
  <2>3. CASE x \in touched /\ cache[x] # None BY <1>7, <1>8, <2>1, <2>3
  <2>4. CASE \E y \in touched : cache[y] # None /\ x \in Below(y)
    <3>1. PICK y \in touched : cache[y] # None /\ x \in Below(y) BY <2>4
    <3>2. d \in Below(y) BY <1>1, <1>3, <3>1, BelowFacts
    <3> QED BY <1>7, <2>1, <3>1, <3>2
  <2>5. CASE \A y \in Below(x) : Own(y) = {}
    <3>1. Below(d) \subseteq Below(x) BY <1>1, <1>8, <2>1, BelowBelow
    <3> QED BY <1>7, <2>1, <2>5, <3>1
  <2> QED BY <1>7, <2>2, <2>3, <2>4, <2>5
<1>10. Below(r) \subseteq C
  <2>1. C \in SUBSET Records /\ r \in C BY <1>3, <1>7
  <2> QED BY <1>1, <1>9, <2>1, BelowFacts
<1>11. ASSUME NEW s \in Below(r) PROVE Lasting(Own(s)) \subseteq Made(r, cache)
  <2>1. s \in C /\ s \in Records BY <1>7, <1>10
  <2>2. ASSUME NEW x \in touched, cache[x] # None, s \in Below(x)
        PROVE  Lasting(Own(s)) \subseteq Made(r, cache)
    <3>1. Lasting(Part(x)) = Lasting(Content(x)) BY <1>3, <2>2
    <3>2. Own(s) \subseteq Content(x) BY <2>2 DEF Content
    <3> HIDE DEF Part
    <3>3. Lasting(Own(s)) \subseteq Part(x) BY <1>0, <3>1, <3>2
    <3> QED BY <1>5, <2>2, <3>3
  <2>3. CASE s \in touched /\ cache[s] = None
    <3>1. Part(s) = Own(s) BY <2>3
    <3> HIDE DEF Part
    <3> QED BY <1>0, <1>5, <2>3, <3>1
  <2>4. CASE s \in touched /\ cache[s] # None BY <1>8, <2>1, <2>2, <2>4
  <2>5. CASE \A x \in Below(s) : Own(x) = {} BY <1>0, <1>8, <2>1, <2>5
  <2> QED BY <1>7, <2>1, <2>2, <2>3, <2>4, <2>5
<1>12. ASSUME NEW d \in Lasting(Content(r)) PROVE d \in Lasting(Made(r, cache))
  <2>1. d \in Content(r) /\ GoesOn(d[1]) BY <1>0
  <2>2. PICK s \in Below(r) : d \in Own(s) BY <2>1 DEF Content
  <2>3. d \in Lasting(Own(s)) BY <1>0, <2>1, <2>2
  <2>4. d \in Made(r, cache) BY <1>11, <2>3
  <2> QED BY <1>0, <2>1, <2>4
<1>13. ASSUME NEW d \in Lasting(Made(r, cache)) PROVE d \in Lasting(Content(r))
  <2> HIDE DEF Part
  <2>1. d \in Made(r, cache) /\ GoesOn(d[1]) BY <1>0
  <2>2. PICK s \in touched : d \in Part(s) BY <1>5, <2>1
  <2>3. d \in Content(r) BY <1>0, <1>6, <2>1, <2>2
  <2> QED BY <1>0, <2>1, <2>3
<1> QED BY <1>12, <1>13

\* So is what a producer run now would make.
LEMMA FreshIsContent ==
  ASSUME FlagsInv, IntervalsAreExact, now # 0, NEW r \in Records, record[r].present
  PROVE  Lasting(Fresh(r)) = Lasting(Content(r))
<1>1. PICK cache : cache = [s \in Records |-> None] OBVIOUS
<1>2. \A s \in Records : cache[s] = None BY <1>1
<1> QED BY <1>1, <1>2, MadeIsContent DEF Fresh

\* The interval of r that its answers at u give begins at b.
Begins(r, u, b) == b = IntervalOf(Answers(r, u))[1]

\* The interval of a record begins with that of one of the answers.
LEMMA FirstFacts ==
  ASSUME job \in Configurations, NEW r \in Records, NEW u \in Instants, NEW b,
         Begins(r, u, b), b # 0
  PROVE  /\ b \in Instants /\ b <= u
         /\ \A a \in Answers(r, u) : a # Invalid => a[1] <= b
<1>1. PICK A \in SUBSET Intervals : A = Answers(r, u) BY AnswersAre
<1>2. PICK i : i = IntervalOf(A) OBVIOUS
<1>3. IsIntervalOf(i, A) /\ b = i[1] BY <1>1, <1>2, IntervalOfIs DEF Begins
<1>4. A \ {Invalid} # {} BY <1>3 DEF IsIntervalOf, Invalid
<1>5. PICK a \in A \ {Invalid} : b = a[1] BY <1>3, <1>4 DEF IsIntervalOf
<1>6. \A c \in A \ {Invalid} : c[1] <= b BY <1>3, <1>4 DEF IsIntervalOf
<1>7. b \in Instants BY <1>5, IntervalFacts
<1>8. PICK s \in Below(r) : a \in OwnAnswers(s, u) BY <1>1, <1>5 DEF Answers
<1>9. PICK f \in job.sources[s] : a = SourceInterval(f, u) BY <1>5, <1>8 DEF OwnAnswers
<1>10. f \in Sources BY BelowFacts, JobFacts
<1>11. Holds(a, u) BY <1>5, <1>9, <1>10, AnswerFacts
<1> QED BY <1>1, <1>5, <1>6, <1>7, <1>11 DEF Holds

\* A source that answers gave this answer when the interval began.
LEMMA AnsweredAtFirst ==
  ASSUME job \in Configurations, NEW r \in Records, NEW u \in Instants, NEW b,
         Begins(r, u, b), b # 0,
         NEW s \in Below(r), NEW f \in job.sources[s], SourceInterval(f, u) # Invalid
  PROVE  SourceInterval(f, b) = SourceInterval(f, u)
<1>1. PICK a : a = SourceInterval(f, u) OBVIOUS
<1>2. s \in Records /\ f \in Sources BY BelowFacts, JobFacts
<1>3. a \in job.table[f] /\ Holds(a, u) BY <1>1, <1>2, AnswerFacts
<1>4. a \in Answers(r, u) BY <1>1 DEF Answers, OwnAnswers
<1>5. b \in Instants /\ b <= u /\ a[1] <= b BY <1>1, <1>4, FirstFacts
<1>6. a \in Intervals BY <1>2, <1>3, TableFacts
<1>7. a[1] \in Nat /\ a[2] \in Nat /\ b \in Nat /\ u \in Nat
  BY <1>5, <1>6, IntervalFacts, LastIs
<1>8. Holds(a, b) BY <1>3, <1>5, <1>7 DEF Holds
<1> QED BY <1>1, <1>2, <1>3, <1>5, <1>8, AnswerIs

\* While the interval begins at the same instant no source below that goes on
\* changes its answer.
LEMMA AnswersGoOn ==
  ASSUME job \in Configurations, NEW r \in Records,
         NEW u \in Instants, NEW t \in Instants, NEW b, b # 0,
         Begins(r, u, b), Begins(r, t, b),
         NEW s \in Below(r), NEW f \in job.sources[s], GoesOn(f)
  PROVE  SourceInterval(f, u) = SourceInterval(f, t)
<1>1. s \in Records /\ f \in Sources BY BelowFacts, JobFacts
<1>2. b \in Instants /\ b <= u /\ b <= t BY FirstFacts
<1>3. ASSUME NEW x \in {u, t}, NEW y \in {u, t}, SourceInterval(f, x) # Invalid
      PROVE  SourceInterval(f, y) # Invalid
  <2>1. SourceInterval(f, b) # Invalid BY <1>3, AnsweredAtFirst
  <2>2. Answering(job, f, b) BY <1>1, <1>2, <2>1, AnswerFacts
  <2>3. PICK i \in job.table[f] : Holds(i, b) BY <2>2 DEF Answering
  <2>4. i[1] <= b /\ i[1] \in Nat /\ b \in Nat /\ y \in Nat /\ b <= y
    BY <1>1, <1>2, <2>3, TableFacts, IntervalFacts, LastIs DEF Holds
  <2>5. i[1] <= y BY <2>4
  <2>6. Answering(job, f, y) BY <2>3, <2>5 DEF GoesOn
  <2> QED BY <1>1, <2>6, AnswerFacts
<1>4. CASE SourceInterval(f, u) = Invalid
  <2>1. SourceInterval(f, t) = Invalid BY <1>3, <1>4
  <2> QED BY <1>4, <2>1
<1>5. CASE SourceInterval(f, u) # Invalid
  <2>1. SourceInterval(f, t) # Invalid BY <1>3, <1>5
  <2>2. SourceInterval(f, b) = SourceInterval(f, u) BY <1>5, AnsweredAtFirst
  <2>3. SourceInterval(f, b) = SourceInterval(f, t) BY <2>1, AnsweredAtFirst
  <2> QED BY <2>2, <2>3
<1> QED BY <1>4, <1>5

\* What a producer will take from its sources in the next state.
LEMMA OwnNext ==
  ASSUME job' = job, NEW t, now' = t, NEW l, loop' = l, NEW r
  PROVE  Own(r)' = {<<f, SourceInterval(f, t)[1], IF r \in job.modifying THEN l ELSE 0>> :
                       f \in {g \in job.sources[r] : SourceInterval(g, t) # Invalid}}
BY DEF Own, Generation, SourceInterval

\* All data stay what they are if each producer takes the same.
LEMMA ContentNext ==
  ASSUME job' = job, NEW r, \A s \in Below(r) : Lasting(Own(s))' = Lasting(Own(s))
  PROVE  Lasting(Content(r))' = Lasting(Content(r))
<1>1. Below(r)' = Below(r) BY DEF Below, Reached
<1>2. Lasting(Content(r)) = UNION {Lasting(Own(s)) : s \in Below(r)} BY DEF Content, Lasting
<1>3. Lasting(Content(r))' = UNION {Lasting(Own(s))' : s \in Below(r)}
  BY <1>1 DEF Content, Lasting
<1>4. {Lasting(Own(s))' : s \in Below(r)} = {Lasting(Own(s)) : s \in Below(r)} OBVIOUS
<1> QED BY <1>2, <1>3, <1>4

\* Data are current after every step.
LEMMA DataStep ==
  ASSUME OwnSourcesAnswer, FlagsInv, IntervalsAreExact, DataInv, [Next]_vars
  PROVE  DataInv'
<1>0. TypeOK /\ Flags /\ job \in Configurations BY DEF FlagsInv, TypeOK
<1>n. IntervalsAreExact' BY ExactStep
<1>j. job' = job
  BY DEF Next, vars, EventSetupForInstance, Get, PrepareForNextLoop
<1>s. SUFFICES ASSUME NEW r \in Records, record'[r].present, record'[r].data # None
               PROVE  Lasting(record'[r].data) = Lasting(Content(r))'
  BY <1>j DEF DataInv, Lasting, GoesOn, Answering
<1>d. record[r].present /\ record[r].data # None => Lasting(record[r].data) = Lasting(Content(r))
  BY DEF DataInv
<1>1. ASSUME NEW t \in Instants, EventSetupForInstance(t)
      PROVE  Lasting(record'[r].data) = Lasting(Content(r))'
  <2>1. job' = job /\ now' = t /\ loop' = loop BY <1>1 DEF EventSetupForInstance
  <2>2. PICK p : p = record[r] OBVIOUS
  <2>3. PICK q : q = record'[r] OBVIOUS
  <2>4. /\ q.present <=> q.interval # Invalid
        /\ q.data # None => q.data = p.data
                            /\ (q.interval[1] = 0 \/ q.interval[1] = p.interval[1])
        /\ q \in RecordState
    BY <1>0, <1>1, <2>2, <2>3, ForInstanceFacts
  <2>5. q.interval \in Intervals /\ p.interval \in Intervals
    BY <1>0, <2>2, <2>4 DEF TypeOK, RecordState
  <2>6. PICK b : b = q.interval[1] OBVIOUS
  <2>7. b # 0 /\ b = p.interval[1] /\ q.data = p.data /\ p.data # None
    BY <1>s, <2>3, <2>4, <2>5, <2>6, IntervalFacts
  <2>8. p.interval # Invalid BY <2>7 DEF Invalid
  <2>9. record[r].present /\ now # 0 BY <1>0, <2>2, <2>8 DEF Flags
  <2>10. PICK u \in Instants : u = now BY <1>0, <2>9 DEF TypeOK
  <2>11. Begins(r, u, b)
    BY <2>2, <2>7, <2>9, <2>10 DEF IntervalsAreExact, Begins
  <2>12. Begins(r, t, b)
    <3>1. now' # 0 BY <2>1, LastIs
    <3>2. record'[r].interval = IntervalOf(Answers(r, now))' BY <1>n, <3>1 DEF IntervalsAreExact
    <3>3. IntervalOf(Answers(r, now))' = IntervalOf(Answers(r, t))
      BY <2>1 DEF Answers, OwnAnswers, SourceInterval, Below, Reached
    <3> QED BY <2>3, <2>6, <3>2, <3>3 DEF Begins
  <2>13. ASSUME NEW s \in Below(r) PROVE Lasting(Own(s))' = Lasting(Own(s))
    <3>1. \A f \in job.sources[s] : GoesOn(f) => SourceInterval(f, u) = SourceInterval(f, t)
      BY <1>0, <2>7, <2>11, <2>12, AnswersGoOn
    <3>2. Own(s) = {<<f, SourceInterval(f, u)[1], IF s \in job.modifying THEN loop ELSE 0>> :
                       f \in {g \in job.sources[s] : SourceInterval(g, u) # Invalid}}
      BY <2>10 DEF Own, Generation
    <3>3. Own(s)' = {<<f, SourceInterval(f, t)[1], IF s \in job.modifying THEN loop ELSE 0>> :
                        f \in {g \in job.sources[s] : SourceInterval(g, t) # Invalid}}
      BY <2>1, OwnNext
    <3>4. Lasting(Own(s))' = {d \in Own(s)' : GoesOn(d[1])}
      BY <2>1 DEF Lasting, GoesOn, Answering
    <3>5. Lasting(Own(s)) = {d \in Own(s) : GoesOn(d[1])} BY DEF Lasting
    <3>6. PICK g : g = IF s \in job.modifying THEN loop ELSE 0 OBVIOUS
    <3>7. ASSUME NEW d, GoesOn(d[1]) PROVE d \in Own(s)' <=> d \in Own(s)
      <4>1. d \in Own(s) <=> \E f \in job.sources[s] :
                                SourceInterval(f, u) # Invalid /\ d = <<f, SourceInterval(f, u)[1], g>>
        BY <3>2, <3>6
      <4>2. d \in Own(s)' <=> \E f \in job.sources[s] :
                                 SourceInterval(f, t) # Invalid /\ d = <<f, SourceInterval(f, t)[1], g>>
        BY <3>3, <3>6
      <4>3. \A f, x : d = <<f, x, g>> => GoesOn(f) BY <3>7
      <4> QED BY <3>1, <4>1, <4>2, <4>3
    <3> QED BY <3>4, <3>5, <3>7
  <2>14. Lasting(Content(r))' = Lasting(Content(r)) BY <2>1, <2>13, ContentNext
  <2> QED BY <1>d, <2>2, <2>3, <2>7, <2>9, <2>14
<1>2. ASSUME NEW x \in Records, NEW transiently \in BOOLEAN, Get(x, transiently)
      PROVE  Lasting(record'[r].data) = Lasting(Content(r))'
  <2>1. job' = job /\ now' = now /\ loop' = loop /\ now # 0 BY <1>2 DEF Get
  <2>2. \A s \in Below(r) : Lasting(Own(s))' = Lasting(Own(s))
    BY <2>1 DEF Lasting, GoesOn, Answering, Own, Generation, SourceInterval
  <2>3. Lasting(Content(r))' = Lasting(Content(r)) BY <2>1, <2>2, ContentNext
  <2>4. PICK p : p = record[r] OBVIOUS
  <2>5. PICK q : q = record'[r] OBVIOUS
  <2>6. q.present = p.present /\ (q = p \/ (p.present /\ q.data = Made(r, Cache)))
    BY <1>0, <1>2, <2>4, <2>5, GetFacts
  <2>7. PICK cache : cache = Cache OBVIOUS
  <2>8. \A s \in Records : cache[s] = record[s].data BY <2>7 DEF Cache
  <2>9. p.present => Lasting(Made(r, cache)) = Lasting(Content(r))
    BY <2>1, <2>4, <2>8, MadeIsContent DEF DataInv
  <2> QED BY <1>d, <1>s, <2>3, <2>4, <2>5, <2>6, <2>7, <2>9
<1>3. CASE PrepareForNextLoop
  <2>1. job' = job /\ now' = now BY <1>3 DEF PrepareForNextLoop
  <2>2. PICK p : p = record[r] OBVIOUS
  <2>3. PICK q : q = record'[r] OBVIOUS
  <2>4. /\ q.present = p.present
        /\ q.data # None => q.data = p.data /\ \A m \in job.modifying : r \notin Dependents(m)
    BY <1>0, <1>3, <2>2, <2>3, PrepareFacts
  <2>5. ASSUME NEW s \in Below(r) PROVE Lasting(Own(s))' = Lasting(Own(s))
    <3>1. r \in Dependents(s) BY DEF Dependents
    <3>2. s \notin job.modifying BY <1>s, <2>3, <2>4, <3>1
    <3>3. PICK u : u = now OBVIOUS
    <3>4. PICK l : l = loop' OBVIOUS
    <3>5. Own(s)' = {<<f, SourceInterval(f, u)[1], IF s \in job.modifying THEN l ELSE 0>> :
                        f \in {g \in job.sources[s] : SourceInterval(g, u) # Invalid}}
      BY <2>1, <3>3, <3>4, OwnNext
    <3>6. Own(s) = {<<f, SourceInterval(f, u)[1], 0>> :
                       f \in {g \in job.sources[s] : SourceInterval(g, u) # Invalid}}
      BY <3>2, <3>3 DEF Own, Generation
    <3>7. Own(s)' = Own(s) BY <3>2, <3>5, <3>6
    <3> QED BY <2>1, <3>7 DEF Lasting, GoesOn, Answering
  <2>6. Lasting(Content(r))' = Lasting(Content(r)) BY <2>1, <2>5, ContentNext
  <2> QED BY <1>d, <1>s, <2>2, <2>3, <2>4, <2>6
<1>4. CASE UNCHANGED vars
  <2>1. job' = job /\ now' = now /\ loop' = loop /\ record' = record BY <1>4 DEF vars
  <2>2. \A s \in Below(r) : Lasting(Own(s))' = Lasting(Own(s))
    BY <2>1 DEF Lasting, GoesOn, Answering, Own, Generation, SourceInterval
  <2>3. Lasting(Content(r))' = Lasting(Content(r)) BY <2>1, <2>2, ContentNext
  <2> QED BY <1>d, <1>s, <2>1, <2>3
<1> QED BY <1>1, <1>2, <1>3, <1>4 DEF Next

\* The inductive invariant.
EventSetupInv == FlagsInv /\ IntervalsAreExact /\ DataInv

\* It holds at the beginning, and data of it are those a module should get.
LEMMA EventSetupInvInit == Init => EventSetupInv
<1>1. Init => now = 0 BY DEF Init
<1>2. Init => \A r \in Records : record[r].data = None BY DEF Init, NewRecord
<1> QED BY <1>1, <1>2, FlagsInit DEF EventSetupInv, IntervalsAreExact, DataInv

LEMMA DataFacts ==
  ASSUME EventSetupInv
  PROVE  DataAreCurrent /\ HeldDataLast
<1>0. FlagsInv /\ Flags /\ IntervalsAreExact /\ DataInv BY DEF EventSetupInv, FlagsInv
<1>1. ASSUME NEW r \in Records, record[r].present PROVE Lasting(Fresh(r)) = Lasting(Content(r))
  <2>1. now # 0 BY <1>0, <1>1 DEF Flags
  <2> QED BY <1>0, <1>1, <2>1, FreshIsContent
<1>2. DataAreCurrent BY <1>0, <1>1 DEF DataAreCurrent, DataInv
<1>3. HeldDataLast
  <2>1. ASSUME NEW r \in Records, record[r].present, held[r] # None
        PROVE  Lasting(held[r]) = Lasting(Fresh(r)) /\ record[r].data = held[r]
    <3>1. record[r].data = held[r] BY <1>0, <2>1 DEF Flags
    <3>2. Lasting(record[r].data) = Lasting(Content(r)) BY <1>0, <2>1, <3>1 DEF DataInv
    <3> QED BY <1>1, <2>1, <3>1, <3>2
  <2> QED BY <2>1 DEF HeldDataLast
<1> QED BY <1>2, <1>3

\* For any records and sources, if those of records with dependencies answer, any
\* order of runs, loops and ways to ask: what a module can get of sources that do
\* not lapse is what a producer would make at this instant, whatever has lapsed
\* beside them.
THEOREM DataCurrent == OwnSourcesAnswer => (Spec => []DataAreCurrent)
<1> SUFFICES ASSUME OwnSourcesAnswer PROVE Spec => []DataAreCurrent
  OBVIOUS
<1>1. EventSetupInv /\ [Next]_vars => EventSetupInv'
  BY FlagsStep, ExactStep, DataStep DEF EventSetupInv
<1>2. EventSetupInv => DataAreCurrent BY DataFacts
<1> QED BY EventSetupInvInit, <1>1, <1>2, PTL DEF Spec

\* Under the same assumption: what a module holds on to is the record's data and,
\* but for sources that lapsed, that of this instant, as long as the cache
\* identifier is the one it has seen.
THEOREM HeldLast == OwnSourcesAnswer => (Spec => []HeldDataLast)
<1> SUFFICES ASSUME OwnSourcesAnswer PROVE Spec => []HeldDataLast
  OBVIOUS
<1>1. EventSetupInv /\ [Next]_vars => EventSetupInv'
  BY FlagsStep, ExactStep, DataStep DEF EventSetupInv
<1>2. EventSetupInv => HeldDataLast BY DataFacts
<1> QED BY EventSetupInvInit, <1>1, <1>2, PTL DEF Spec

-----------------------------------------------------------------------------
(* Transient data. *)

\* What one step does to transient data.
TransientsStep ==
    now' # now => \A r \in Records :
        /\ (~IsBegin(now) /\ IsBegin(now') /\ now # 0 /\ record[r].data # None
              /\ ~record[r].nonTransient)
             => record'[r].data = None
        /\ (IsBegin(now) /\ IsBegin(now') /\ record'[r].interval = record[r].interval)
             => record'[r].data = record[r].data

\* A new instant does that.
LEMMA TransientsGo == FlagsInv /\ [Next]_vars => TransientsStep
<1> SUFFICES ASSUME FlagsInv, Next, now' # now, NEW r \in Records
             PROVE  /\ (~IsBegin(now) /\ IsBegin(now') /\ now # 0 /\ record[r].data # None
                          /\ ~record[r].nonTransient)
                         => record'[r].data = None
                    /\ (IsBegin(now) /\ IsBegin(now') /\ record'[r].interval = record[r].interval)
                         => record'[r].data = record[r].data
  BY DEF TransientsStep, vars
<1>0. TypeOK /\ Flags BY DEF FlagsInv
<1>1. PICK t \in Instants : EventSetupForInstance(t)
  <2>1. \A x \in Records, transiently \in BOOLEAN : ~Get(x, transiently) BY DEF Get
  <2>2. ~PrepareForNextLoop BY DEF PrepareForNextLoop
  <2> QED BY <2>1, <2>2 DEF Next
<1>2. now' = t /\ t \in Follows(now) BY <1>1 DEF EventSetupForInstance
<1>3. PICK p : p = record[r] OBVIOUS
<1>4. PICK q : q = record'[r] OBVIOUS
<1>5. /\ q.data # None => q.data = p.data /\ (p.nonTransient \/ p.lastSyncWasBeginOfRun)
      /\ (~BeginsRun(t) /\ p.lastSyncWasBeginOfRun /\ IsBegin(t) /\ q.interval = p.interval)
           => q.data = p.data
  BY <1>0, <1>1, <1>3, <1>4, ForInstanceFacts
<1>6. now # 0 => (p.lastSyncWasBeginOfRun <=> IsBegin(now)) BY <1>0, <1>3 DEF Flags
<1>7. (now # 0 /\ IsBegin(now)) => ~BeginsRun(t) BY <1>0, <1>2, FollowsFacts DEF TypeOK
<1>8. ~IsBegin(0) BY DEF IsBegin
<1> QED BY <1>2, <1>3, <1>4, <1>5, <1>6, <1>7, <1>8

\* Whatever the sources: data asked for only through ESTransientHandle go when
\* a luminosity block or a run is over, and not between the beginning of a run
\* and that of its first block.
THEOREM TransientsAreDropped == Spec => TransientsDropped
<1>1. FlagsInv /\ [Next]_vars => [TransientsStep]_vars BY TransientsGo
<1>2. TransientsDropped <=> [][TransientsStep]_vars BY DEF TransientsDropped, TransientsStep
<1> QED BY FlagsInit, FlagsStep, <1>1, <1>2, PTL DEF Spec

=============================================================================
