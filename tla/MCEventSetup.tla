---------------------------- MODULE MCEventSetup ----------------------------
(* Two records with sources, R (two of them) and S, a record D that depends *)
(* on both, and E that depends on D.                                        *)
EXTENDS EventSetup

MCRecords == {"D", "R", "S", "E"}
MCSources == {"r1", "r2", "s", "e"}

Finders == [D |-> {}, R |-> {"r1", "r2"}, S |-> {"s"}, E |-> {}]
OwnSource == [Finders EXCEPT !.E = {"e"}]
Sourceless == [Finders EXCEPT !.S = {}]
DependsOn == [D |-> {"R", "S"}, R |-> {}, S |-> {}, E |-> {"D"}]

(* Tables of sources, of which the last two lapse.                         *)
WholeJob == {<<1, 4 * MaxRuns>>}
ByRun == {<<4 * n + 1, 4 * n + 4>> : n \in 0 .. MaxRuns - 1}
FromBlock == {<<1, 1>>, <<2, 0>>}
SecondRunOn == {<<5, 0>>}
BlockOfSecond == {<<1, 5>>, <<6, 4 * MaxRuns>>}
ToSecondRun == {<<1, 6>>}
FirstRun == {<<2, 4>>}

Table(r1, r2, s, e) ==
    [f \in Sources |->
        CASE f = "r1" -> r1 [] f = "r2" -> r2 [] f = "s" -> s [] OTHER -> e]

Job(tables, sources, forced, modified) ==
    [table |-> tables, sources |-> sources, dependsOn |-> DependsOn,
     forceClear |-> forced, modifying |-> modified]

Continuous ==
    {Job(Table(r1, r2, s, WholeJob), Finders, FALSE, {}) :
        r1 \in {WholeJob, ByRun, FromBlock}, r2 \in {BlockOfSecond, SecondRunOn},
        s \in {ByRun, SecondRunOn, WholeJob}}
    \cup {Job(Table(ByRun, BlockOfSecond, WholeJob, ByRun), Sourceless, FALSE, {})}
    \cup {Job(Table(ByRun, WholeJob, BlockOfSecond, ByRun), OwnSource, forced, modified) :
            forced \in BOOLEAN, modified \in {{}, {"R"}, {"S"}}}

(* A source of R lapses, and the only one of S. *)
Lapsing ==
    {Job(Table(r1, ToSecondRun, s, WholeJob), Finders, FALSE, {}) :
        r1 \in {WholeJob, BlockOfSecond}, s \in {ByRun, FirstRun}}
    \cup {Job(Table(ByRun, ToSecondRun, FirstRun, ByRun), OwnSource, FALSE, {"R"})}

Jobs == Continuous \cup Lapsing

(* What the theorems assume of the sources. *)
ASSUME SourcesAssumption == OwnSourcesAnswer
=============================================================================
