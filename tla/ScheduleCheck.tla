----------------------------- MODULE ScheduleCheck -----------------------------
(* Schedule::checkForCorrectness: before the first event the schedule is     *)
(* refused when the order of the modules on the paths contradicts the data   *)
(* they consume.  The dependencies form a graph; boost's depth-first search  *)
(* visits it and calls the detector, which keeps the current tree edges on a *)
(* stack of its own and looks at one cycle per back edge.                    *)
EXTENDS Integers, Sequences, FiniteSets

CONSTANTS NModules, \* modules are numbered in the order of their construction
          MaxPaths, \* most paths of a configuration
          MaxLength \* most modules on a path

ASSUME CheckAssumption ==
    /\ NModules \in Nat \ {0}
    /\ MaxPaths \in Nat
    /\ MaxLength \in Nat

Modules == 0 .. NModules - 1

VARIABLES paths,    \* the modules of each path, in order
          consumes, \* <<m, d>>: m consumes a product of d
          colour,   \* boost's colour of each module
          trail,    \* the modules whose visit has begun and not ended
          todo,     \* the out-edges of each module still to be looked at
          stack,    \* m_stack
          report    \* the edges of the exception, <<>> when there is none

checkVars == <<paths, consumes, colour, trail, todo, stack, report>>

-----------------------------------------------------------------------------
(* The graph. *)

\* Each module of a path depends on the one before it (a module that is there a second time is
\* skipped: the paths here name each module once).
AfterOnPath ==
    UNION {{<<paths[n][i + 1], paths[n][i]>> : i \in 1 .. Len(paths[n]) - 1} : n \in DOMAIN paths}

Edges == AfterOnPath \cup consumes

PathDependencyOnly(e) == e \notin consumes

OutEdges(m) == {d \in Modules : <<m, d>> \in Edges}

\* Modules get their numbers as the paths name them.
NumberedInOrder(ps) ==
    \A n \in DOMAIN ps : \A i \in DOMAIN ps[n] : \A m \in 0 .. ps[n][i] - 1 :
        \/ \E j \in 1 .. i - 1 : ps[n][j] = m
        \/ \E k \in 1 .. n - 1 : \E j \in DOMAIN ps[k] : ps[k][j] = m


Paths == {p \in UNION {[1 .. n -> Modules] : n \in 0 .. MaxLength} :
            \A i, j \in DOMAIN p : p[i] = p[j] => i = j}

Configurations == {ps \in UNION {[1 .. n -> Paths] : n \in 0 .. MaxPaths} : NumberedInOrder(ps)}

CheckInit ==
    /\ paths \in Configurations
    /\ consumes \in SUBSET (Modules \X Modules)
    /\ colour = [m \in Modules |-> "white"]
    /\ trail = <<>>
    /\ todo = [m \in Modules |-> OutEdges(m)]
    /\ stack = <<>>
    /\ report = <<>>

-----------------------------------------------------------------------------
(* The detector. *)

\* The last edge of the first group of edges of the stack that start at m.
FirstEdge(m) ==
    {k \in DOMAIN stack :
        /\ stack[k][1] = m
        /\ k = Len(stack) \/ stack[k + 1][1] # m
        /\ \A j \in 1 .. k - 1 : stack[j][1] = m => \A i \in j .. k : stack[i][1] = m}

\* tempStack: the edges from there on and the edge that closes the cycle.  If no edge starts at
\* the module the walk over the stack ends behind its last edge, and steps back to that one.
TempStack(e) ==
    LET from == IF FirstEdge(e[2]) = {} THEN Len(stack) ELSE CHOOSE k \in FirstEdge(e[2]) : TRUE
    IN  Append(IF stack = <<>> THEN <<>> ELSE SubSeq(stack, from, Len(stack)), e)

NumberOfPathOnly(s) == Cardinality({i \in DOMAIN s : PathDependencyOnly(s[i])})

\* finish_edge takes the edge from the stack if it is the last one there.
Finished(e, s) == IF s # <<>> /\ s[Len(s)] = e THEN SubSeq(s, 1, Len(s) - 1) ELSE s

-----------------------------------------------------------------------------
(* boost::depth_first_search. *)

Top == trail[Len(trail)]

\* The least module not visited yet is the root of the next tree.
StartVertex ==
    /\ report = <<>> /\ trail = <<>>
    /\ \E m \in Modules :
         /\ colour[m] = "white"
         /\ \A k \in 0 .. m - 1 : colour[k] # "white"
         /\ colour' = [colour EXCEPT ![m] = "gray"]
         /\ trail' = <<m>>
    /\ UNCHANGED <<paths, consumes, todo, stack, report>>

\* Its out-edges are looked at in the order of the map they come from.
NextEdge(d) ==
    /\ report = <<>> /\ trail # <<>>
    /\ d \in todo[Top]
    /\ \A k \in todo[Top] : d <= k
    /\ todo' = [todo EXCEPT ![Top] = @ \ {d}]
    /\ UNCHANGED <<paths, consumes>>

TreeEdge(d) ==
    /\ NextEdge(d)
    /\ colour[d] = "white"
    /\ stack' = Append(stack, <<Top, d>>)
    /\ colour' = [colour EXCEPT ![d] = "gray"]
    /\ trail' = Append(trail, d)
    /\ UNCHANGED report

\* Mutant: every edge to a module seen before counts as a back edge.
BackEdgeToAnySeen(d) ==
    /\ NextEdge(d)
    /\ colour[d] # "white"
    /\ LET cycle == TempStack(<<Top, d>>)
       IN  IF NumberOfPathOnly(cycle) < 2
           THEN report' = cycle /\ UNCHANGED stack
           ELSE stack' = Finished(<<Top, d>>, stack) /\ UNCHANGED report
    /\ UNCHANGED <<colour, trail>>

BackEdge(d) ==
    /\ NextEdge(d)
    /\ colour[d] = "gray"
    /\ LET cycle == TempStack(<<Top, d>>)
       IN  IF NumberOfPathOnly(cycle) < 2
           THEN report' = cycle /\ UNCHANGED stack
           ELSE stack' = Finished(<<Top, d>>, stack) /\ UNCHANGED report
    /\ UNCHANGED <<colour, trail>>

ForwardOrCrossEdge(d) ==
    /\ NextEdge(d)
    /\ colour[d] = "black"
    /\ stack' = Finished(<<Top, d>>, stack)
    /\ UNCHANGED <<colour, trail, report>>

FinishVertex ==
    /\ report = <<>> /\ trail # <<>> /\ todo[Top] = {}
    /\ colour' = [colour EXCEPT ![Top] = "black"]
    /\ trail' = SubSeq(trail, 1, Len(trail) - 1)
    /\ stack' = IF Len(trail) = 1 THEN stack ELSE Finished(<<trail[Len(trail) - 1], Top>>, stack)
    /\ UNCHANGED <<paths, consumes, todo, report>>

CheckNext ==
    \/ StartVertex
    \/ \E d \in Modules : TreeEdge(d) \/ BackEdge(d) \/ ForwardOrCrossEdge(d)
    \/ FinishVertex

CheckSpec == CheckInit /\ [][CheckNext]_checkVars

-----------------------------------------------------------------------------
(* Properties. *)

\* The edges of a closed walk that meets no module twice.
IsCycle(s) ==
    /\ s # <<>>
    /\ \A i \in DOMAIN s : s[i] \in Edges
    /\ \A i \in 1 .. Len(s) - 1 : s[i][2] = s[i + 1][1]
    /\ s[Len(s)][2] = s[1][1]
    /\ \A i, j \in DOMAIN s : s[i][1] = s[j][1] => i = j

Cycles == {s \in UNION {[1 .. n -> Edges] : n \in 1 .. NModules} : IsCycle(s)}

\* A schedule is refused for a reason: what the exception reports ends in a cycle of the
\* dependencies in which at most one edge is there only because of a path.  (The report is that
\* cycle, except for a module that consumes itself: then one more edge may come before it.)
RefusedForACycle ==
    report # <<>> => \E k \in DOMAIN report :
        LET cycle == SubSeq(report, k, Len(report))
        IN  IsCycle(cycle) /\ NumberOfPathOnly(cycle) < 2

\* The search is over and the schedule is accepted.
Accepted == report = <<>> /\ \A m \in Modules : colour[m] = "black"

\* The comment of checkForCorrectness promises more: "The schedule is still runnable if all
\* cycles have at least two edges which connect modules only by Path dependencies".
AcceptedIsRunnable ==
    Accepted => \A s \in Cycles : NumberOfPathOnly(s) >= 2

=============================================================================
