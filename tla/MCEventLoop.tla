----------------------------- MODULE MCEventLoop -----------------------------
(* Small inputs that reach every transition. *)
EXTENDS EventLoopSignal

F == [type |-> "File", run |-> 0, lumi |-> 0]
R(r) == [type |-> "Run", run |-> r, lumi |-> 0]
L(r, l) == [type |-> "Lumi", run |-> r, lumi |-> l]
E(r, l) == [type |-> "Event", run |-> r, lumi |-> l]

Job(entries, events, lumis, out) ==
  [items |-> entries, maxEvents |-> events, maxLumis |-> lumis, timed |-> FALSE, outMax |-> out]
Timed(j) == [j EXCEPT !.timed = TRUE]

\* Four events in two blocks of one run
TwoLumis == <<F, R(1), L(1,1), E(1,1), E(1,1), L(1,2), E(1,2), E(1,2)>>
\* A block split over two files, and a run after it
SplitLumi == <<F, R(1), L(1,1), E(1,1), F, R(1), L(1,1), E(1,1), E(1,1), R(2), L(2,1), E(2,1)>>
\* Files, runs and blocks without events
Empties == <<F, R(1), F, F, R(1), R(2), L(2,1), L(2,2), E(2,2), R(3)>>

JobsToRun ==
  {Job(TwoLumis, -1, -1, -1), Job(TwoLumis, 3, -1, -1), Job(TwoLumis, -1, 1, -1),
   Job(TwoLumis, 0, -1, -1), Job(TwoLumis, -1, -1, 2), Job(TwoLumis, -1, -1, 1),
   Job(SplitLumi, -1, -1, -1), Job(SplitLumi, 3, -1, -1), Job(SplitLumi, -1, 1, -1),
   Job(Empties, -1, -1, -1), Job(Empties, -1, 2, -1), Timed(Job(SplitLumi, -1, -1, -1))}
LimitedOutput == {Job(TwoLumis, -1, -1, 1)}
=============================================================================
