---------------------------- MODULE EPStatesProofs ----------------------------
(* For any run and block numbers, any items of the source that go no deeper  *)
(* than one level at a time, and any calls that throw: the state machine has  *)
(* a reaction to each item it meets, its calls come in the order that modules *)
(* and files rely on, whatever it opened is closed when it has terminated,    *)
(* and the cache of principals refuses nothing but the second writing of a    *)
(* run that it has let go of.                                                 *)
(*                                                                            *)
(* A list of calls is planned when an item arrives or a destructor runs, and  *)
(* made one call at a time.  So the invariant ties what is done to what is    *)
(* still to do: Todo, the calls left, says how far each part has come.        *)
EXTENDS EPStatesWithCache, SequenceTheorems, TLAPS

Call == RunCalls \cup LumiCalls \cup FileCalls \cup OutputCalls \cup OtherCalls \cup Own

EndsWith(s, x) == s \in Seq(Call) /\ s # <<>> /\ s[Len(s)] = x

\* The state that the machine is in says what the source delivered last.  A loop that ends still
\* has endOfLoop to call, or has posted the event that takes it out of EndingLoop.
LeafFollowsSource ==
  /\ leaf \in Leaves \ {"Error"}
  /\ leaf = "Starting" => previous = "Invalid"
  /\ leaf \in InFiles \cup {"HandleNewInputFile2", "HandleNewInputFile3"} => previous = "File"
  /\ leaf \in InRuns => previous \in {"File", "Run"}
  /\ leaf = "ContinueRun2" => previous = "Run"
EndingLoopGoesOn ==
  leaf = "EndingLoop" /\ ~unwinding =>
    IF calls = <<>> THEN posted # "none" ELSE EndsWith(calls, "endOfLoop")
ExpectedInv == LeafFollowsSource /\ EndingLoopGoesOn

-----------------------------------------------------------------------------
(* The lists of calls. *)

LEMMA ListsOfOneToThree ==
  ASSUME NEW S, NEW x \in S, NEW y \in S, NEW z \in S
  PROVE  <<x>> \in Seq(S) /\ <<x, y>> \in Seq(S) /\ <<x, y, z>> \in Seq(S)
OBVIOUS

LEMMA IfType ==
  ASSUME NEW S, NEW c, NEW s \in Seq(S)
  PROVE  If(c, s) \in Seq(S)
<1>1. <<>> \in Seq(S)
  OBVIOUS
<1> QED BY <1>1 DEF If

LEMMA AppendedLast ==
  ASSUME NEW s \in Seq(Call), NEW x \in Call
  PROVE  EndsWith(s \o <<x>>, x)
<1>1. <<x>> \in Seq(Call) /\ Len(<<x>>) = 1 /\ <<x>>[1] = x
  OBVIOUS
<1>2. /\ s \o <<x>> \in Seq(Call) /\ Len(s \o <<x>>) = Len(s) + 1
      /\ (s \o <<x>>)[Len(s) + 1] = x
  BY <1>1
<1>3. s \o <<x>> # <<>>
  BY <1>2
<1> QED BY <1>2, <1>3 DEF EndsWith

LEMMA TailEndsWith ==
  ASSUME NEW s, NEW x, EndsWith(s, x)
  PROVE  IF Tail(s) = <<>> THEN Head(s) = x ELSE EndsWith(Tail(s), x)
<1>1. s \in Seq(Call) /\ s # <<>> /\ s[Len(s)] = x
  BY DEF EndsWith
<1>2. Len(s) \in Nat \ {0}
  BY <1>1, EmptySeq
<1>3. /\ Tail(s) \in Seq(Call) /\ Len(Tail(s)) = Len(s) - 1
      /\ \A i \in 1..Len(Tail(s)) : Tail(s)[i] = s[i + 1]
  BY <1>1, HeadTailProperties
<1>4. CASE Tail(s) = <<>>
  <2>1. Len(s) = 1
    BY <1>2, <1>3, <1>4, EmptySeq
  <2>2. Head(s) = s[1]
    BY <1>1
  <2> QED BY <1>1, <1>4, <2>1, <2>2
<1>5. CASE Tail(s) # <<>>
  <2>1. Len(Tail(s)) \in Nat \ {0}
    BY <1>3, <1>5, EmptySeq
  <2>2. Tail(s)[Len(Tail(s))] = s[Len(s)]
    BY <1>2, <1>3, <2>1
  <2> QED BY <1>1, <1>3, <1>5, <2>2 DEF EndsWith
<1> QED BY <1>4, <1>5

\* The calls of leaving the files, with the runs and blocks in them.
LEMMA LeaveFilesType == leaveFiles \in Seq(Call)
<1> DEFINE L == Seq(Call)
<1>1. ASSUME NEW s \in L, NEW t \in L
      PROVE  s \o t \in L
  OBVIOUS
<1>2. ASSUME NEW c, NEW s \in L
      PROVE  If(c, s) \in L
  BY IfType
<1>3. ASSUME NEW x \in Call
      PROVE  <<x>> \in L
  OBVIOUS
<1>4. /\ <<"flagRun">> \in L /\ <<"endRun">> \in L /\ <<"endLumi">> \in L
      /\ <<"exitHandleLumis">> \in L /\ <<"destroyHandleLumis">> \in L
      /\ <<"exitHandleRuns">> \in L /\ <<"destroyHandleRuns">> \in L
      /\ <<"exitHandleFiles">> \in L /\ <<"destroyHandleFiles">> \in L
  BY <1>3 DEF Call, RunCalls, LumiCalls, Own
<1>5. <<"writeRun", "deleteRunFromCache">> \in L /\ <<"writeLumi", "deleteLumiFromCache">> \in L
  BY ListsOfOneToThree DEF Call, RunCalls, LumiCalls
<1>6. closeFiles \in L
  <2>1. {"respondToCloseInputFile", "closeInputFile", "closeOutputFiles"} \subseteq Call
    BY DEF Call, FileCalls, OutputCalls
  <2> QED BY <2>1, ListsOfOneToThree DEF closeFiles
<1> HIDE DEF L
<1>7. finalizeRun \in L
  BY <1>1, <1>2, <1>4, <1>5 DEF finalizeRun
<1>8. finalizeLumi \in L
  BY <1>1, <1>2, <1>4, <1>5 DEF finalizeLumi
<1>9. leaveLumis \in L
  <2>1. <<"exitHandleLumis">> \o finalizeLumi \o <<"destroyHandleLumis">> \in L
    BY <1>1, <1>4, <1>8
  <2> QED BY <2>1, <1>2 DEF leaveLumis
<1>10. leaveRuns \in L
  <2>1. <<"exitHandleRuns">> \o finalizeRun \o <<"destroyHandleRuns">> \in L
    BY <1>1, <1>4, <1>7
  <2> QED BY <2>1, <1>1, <1>2, <1>9 DEF leaveRuns
<1>11. leaveFiles \in L
  <2>1. <<"exitHandleFiles">> \o closeFiles \o <<"destroyHandleFiles">> \in L
    BY <1>1, <1>4, <1>6
  <2> QED BY <2>1, <1>1, <1>2, <1>10 DEF leaveFiles
<1> QED BY <1>11 DEF L

-----------------------------------------------------------------------------
(* The steps. *)

\* An item is received only in a state that can follow the item before.
LEMMA ReceivedWhere ==
  ASSUME ExpectedInv, NEW type, NEW n, Receive(type, n)
  PROVE  /\ leaf \in {"Starting"} \cup InFiles \cup InRuns \cup InLumis
         /\ type \in NextItems(previous)
         /\ previous' = type /\ unwinding' = unwinding /\ posted' = posted
<1>1. leaf # "EndingLoop"
  BY DEF ExpectedInv, EndingLoopGoesOn, Receive, Idle
<1> QED
  BY <1>1 DEF ExpectedInv, LeafFollowsSource, Receive, Idle, Leaves

LEMMA FileExpected ==
  ASSUME ExpectedInv, OnFile
  PROVE  ExpectedInv'
<1>1. /\ leaf \in {"Starting"} \cup InFiles \cup InRuns \cup InLumis
      /\ previous' = "File"
  BY ReceivedWhere DEF OnFile
<1>2. leaf' \in InFiles \cup {"HandleNewInputFile2", "HandleNewInputFile3"}
  BY <1>1 DEF OnFile, GoTo, Unexpected, InFiles, InRuns, InLumis
<1> QED
  BY <1>1, <1>2 DEF ExpectedInv, LeafFollowsSource, EndingLoopGoesOn, Leaves, InFiles, InRuns,
       InLumis

LEMMA RunExpected ==
  ASSUME ExpectedInv, NEW r \in RunNumbers, OnRun(r)
  PROVE  ExpectedInv'
<1>1. /\ leaf \in {"Starting"} \cup InFiles \cup InRuns \cup InLumis
      /\ "Run" \in NextItems(previous) /\ previous' = "Run"
  BY ReceivedWhere DEF OnRun
<1>2. leaf # "Starting"
  BY <1>1 DEF ExpectedInv, LeafFollowsSource, NextItems
<1>3. leaf' \in {"NewRun", "ContinueRun1", "ContinueRun2"}
  BY <1>1, <1>2 DEF OnRun, GoTo, Unexpected
<1> QED
  BY <1>1, <1>3 DEF ExpectedInv, LeafFollowsSource, EndingLoopGoesOn, Leaves, InFiles, InRuns,
       InLumis

LEMMA LumiExpected ==
  ASSUME ExpectedInv, NEW l \in LumiNumbers, OnLumi(l)
  PROVE  ExpectedInv'
<1>1. /\ leaf \in {"Starting"} \cup InFiles \cup InRuns \cup InLumis
      /\ "Lumi" \in NextItems(previous) /\ previous' = "Lumi"
  BY ReceivedWhere DEF OnLumi
<1>2. previous \notin {"Invalid", "File"}
  BY <1>1 DEF NextItems
<1>3. leaf \in {"NewRun", "ContinueRun1", "FirstLumi", "AnotherLumi", "ContinueLumi",
                "ContinueRun2", "HandleEvent"}
  BY <1>1, <1>2 DEF ExpectedInv, LeafFollowsSource, InFiles, InRuns, InLumis
<1>4. leaf' \in {"FirstLumi", "AnotherLumi", "ContinueLumi"}
  BY <1>3 DEF OnLumi, GoTo, Unexpected
<1> QED
  BY <1>4 DEF ExpectedInv, LeafFollowsSource, EndingLoopGoesOn, Leaves, InFiles, InRuns, InLumis

LEMMA EventExpected ==
  ASSUME ExpectedInv, OnEvent
  PROVE  ExpectedInv'
<1>1. /\ leaf \in {"Starting"} \cup InFiles \cup InRuns \cup InLumis
      /\ "Event" \in NextItems(previous) /\ previous' = "Event"
  BY ReceivedWhere DEF OnEvent
<1>2. previous \notin {"Invalid", "File", "Run"}
  BY <1>1 DEF NextItems
<1>3. leaf \in InLumis \ {"HandleNewInputFile3", "ContinueRun2"}
  BY <1>1, <1>2 DEF ExpectedInv, LeafFollowsSource, InFiles, InRuns, InLumis
<1>4. leaf' = "HandleEvent"
  BY <1>3 DEF OnEvent, GoTo
<1> QED
  BY <1>4 DEF ExpectedInv, LeafFollowsSource, EndingLoopGoesOn, Leaves, InFiles, InRuns, InLumis

\* A loop that ends has endOfLoop to call, and one that was ended terminates.
LEMMA StopExpected ==
  ASSUME ExpectedInv, OnStop
  PROVE  ExpectedInv'
<1>1. CASE leaf = "EndingLoop"
  <2>1. leaf' = "Terminated"
    BY <1>1 DEF OnStop, GoTo
  <2> QED
    BY <2>1 DEF ExpectedInv, LeafFollowsSource, EndingLoopGoesOn, Leaves, InFiles, InRuns, InLumis
<1>2. CASE leaf # "EndingLoop"
  <2>1. leaf' = "EndingLoop"
    BY <1>2 DEF OnStop, GoTo
  <2>2. EndsWith(calls', "endOfLoop")
    <3>1. EndsWith(<<"startingNewLoop", "endOfLoop">>, "endOfLoop")
      <4>1. "startingNewLoop" \in Call /\ "endOfLoop" \in Call
        BY DEF Call, OtherCalls
      <4>2. <<"startingNewLoop", "endOfLoop">> \in Seq(Call)
        BY <4>1, ListsOfOneToThree
      <4> QED BY <4>2 DEF EndsWith
    <3>2. EndsWith(leaveFiles \o <<"endOfLoop">>, "endOfLoop")
      BY LeaveFilesType, AppendedLast DEF Call, OtherCalls
    <3> QED BY <1>2, <3>1, <3>2 DEF OnStop, GoTo
  <2>3. calls' # <<>>
    BY <2>2 DEF EndsWith
  <2> QED
    BY <2>1, <2>2, <2>3 DEF ExpectedInv, LeafFollowsSource, EndingLoopGoesOn, Leaves, InFiles,
         InRuns, InLumis
<1> QED BY <1>1, <1>2

\* Only endOfLoop leaves EndingLoop without calls, and it posts Stop or Restart.
LEMMA ReturnExpected ==
  ASSUME ExpectedInv, CallReturns
  PROVE  ExpectedInv'
<1>1. /\ calls # <<>> /\ calls' = Tail(calls) /\ posted' \in Posts(Head(calls))
      /\ UNCHANGED <<leaf, previous, unwinding>>
  BY DEF CallReturns
<1>2. LeafFollowsSource'
  BY <1>1 DEF ExpectedInv, LeafFollowsSource
<1>3. EndingLoopGoesOn'
  <2> SUFFICES ASSUME leaf = "EndingLoop", ~unwinding
               PROVE  IF calls' = <<>> THEN posted' # "none" ELSE EndsWith(calls', "endOfLoop")
    BY <1>1 DEF EndingLoopGoesOn
  <2>1. EndsWith(calls, "endOfLoop")
    BY <1>1 DEF ExpectedInv, EndingLoopGoesOn
  <2>2. IF calls' = <<>> THEN Head(calls) = "endOfLoop" ELSE EndsWith(calls', "endOfLoop")
    BY <1>1, <2>1, TailEndsWith
  <2>3. "none" \notin Posts("endOfLoop")
    BY DEF Posts
  <2> QED BY <1>1, <2>2, <2>3
<1> QED BY <1>2, <1>3 DEF ExpectedInv

\* The other steps stay where they are, on the way out of an exception or to the next loop.
LEMMA StepExpected ==
  ASSUME ExpectedInv, [Next]_vars
  PROVE  ExpectedInv'
<1>1. CASE OnFile
  BY <1>1, FileExpected
<1>2. CASE \E r \in RunNumbers : OnRun(r)
  BY <1>2, RunExpected
<1>3. CASE \E l \in LumiNumbers : OnLumi(l)
  BY <1>3, LumiExpected
<1>4. CASE OnEvent
  BY <1>4, EventExpected
<1>5. CASE OnStop
  BY <1>5, StopExpected
<1>6. CASE OnRestart
  <2>1. leaf' = "Starting" /\ previous' = "Invalid"
    BY <1>6 DEF OnRestart, GoTo
  <2> QED
    BY <2>1 DEF ExpectedInv, LeafFollowsSource, EndingLoopGoesOn, Leaves, InFiles, InRuns, InLumis
<1>7. CASE CallReturns
  BY <1>7, ReturnExpected
<1>8. CASE Destructor
  <2>1. unwinding' /\ previous' = previous /\ leaf' \in {leaf, "Terminated"}
    BY <1>8 DEF Destructor, Destroy
  <2> QED
    BY <2>1 DEF ExpectedInv, LeafFollowsSource, EndingLoopGoesOn, Leaves, InFiles, InRuns, InLumis
<1>9. CASE CallThrows \/ SourceThrows
  <2>1. unwinding' = TRUE /\ previous' = previous /\ leaf' = leaf
    BY <1>9 DEF CallThrows, Throws, SourceThrows
  <2> QED BY <2>1 DEF ExpectedInv, LeafFollowsSource, EndingLoopGoesOn
<1>10. CASE UNCHANGED vars
  BY <1>10 DEF vars, machineVars, ExpectedInv, LeafFollowsSource, EndingLoopGoesOn
<1> QED
  BY <1>1, <1>2, <1>3, <1>4, <1>5, <1>6, <1>7, <1>8, <1>9, <1>10 DEF Next, MachineStep

LEMMA InitExpected == Init => ExpectedInv
BY DEF Init, ExpectedInv, LeafFollowsSource, EndingLoopGoesOn, Leaves, InFiles, InRuns, InLumis

-----------------------------------------------------------------------------
(* The order of calls. *)

\* Every list of calls is in this order, so that a list is known by the set of its calls.
Rank == [c \in Call |->
  CASE c = "startingNewLoop" -> 0 [] c = "enterHandleFiles" -> 1
    [] c = "exitHandleLumis" -> 2 [] c = "endLumi" -> 3 [] c = "writeLumi" -> 4
    [] c = "deleteLumiFromCache" -> 5 [] c = "destroyHandleLumis" -> 6
    [] c = "exitHandleRuns" -> 7 [] c = "flagRun" -> 8 [] c = "endRun" -> 9 [] c = "writeRun" -> 10
    [] c = "deleteRunFromCache" -> 11 [] c = "destroyHandleRuns" -> 12
    [] c = "enterHandleRuns" -> 13 [] c = "readRun" -> 14 [] c = "readAndMergeRun" -> 15
    [] c = "beginRun" -> 16 [] c = "enterHandleLumis" -> 17 [] c = "readLuminosityBlock" -> 18
    [] c = "beginLumi" -> 19 [] c = "markNonEmpty" -> 20 [] c = "readAndProcessEvent" -> 21
    [] c = "readAndMergeLumi" -> 22 [] c = "exitHandleFiles" -> 23
    [] c = "respondToCloseInputFile" -> 24 [] c = "closeInputFile" -> 25
    [] c = "closeOutputFiles" -> 26 [] c = "readFile" -> 27 [] c = "respondToOpenInputFile" -> 28
    [] c = "openOutputFiles" -> 29 [] c = "destroyHandleFiles" -> 30 [] c = "endOfLoop" -> 31
    [] c = "doErrorStuff" -> 32 [] c = "prepareForNextLoop" -> 33 [] c = "rewindInput" -> 34]

Sorted(s) ==
  /\ s \in Seq(Call)
  /\ \A i, j \in 1..Len(s) : i < j => Rank[s[i]] < Rank[s[j]]
Items(s) == {s[i] : i \in 1..Len(s)}

CallsSorted == Sorted(calls)
Todo == Items(calls)

HandleAll == config.emptyMode = "handleEmptyRunsAndLumis"
BeginsRuns == config.emptyMode # "doNotHandleEmptyRunsAndLumis"

\* The calls of an event, of leaving HandleLumis, and of the start of a loop.
EventCalls == {"beginRun", "beginLumi", "markNonEmpty", "readAndProcessEvent"}
LeavesLumis == {"exitHandleLumis", "endLumi", "writeLumi", "deleteLumiFromCache",
    "destroyHandleLumis"}
Starts == {"startingNewLoop", "enterHandleFiles"}

Gone(x) == x \in abandoned
RunDone == run = "none" \/ Gone("run")
LumiDone == lumi = "none" \/ Gone("lumi") \/ Gone("run")
FileDone == file = "closed" \/ Gone("file")
OutputsDone == outputs = "closed" \/ Gone("outputs") \/ Gone("file")

\* What an exception left behind.
Failures ==
  /\ abandoned \subseteq {"file", "outputs", "run", "lumi"}
  /\ abandoned # {} => unwinding
  /\ lumiException <=> Gone("lumi")
  /\ {unwinding, runException, lumiException} \subseteq BOOLEAN
  /\ Gone("run") => Todo \cap LumiCalls = {}
  /\ Gone("lumi") => Todo \cap LumiCalls = {}
  /\ unwinding =>
       \/ Todo \subseteq {"endLumi", "writeLumi", "deleteLumiFromCache"}
       \/ Todo \subseteq {"flagRun", "endRun", "writeRun", "deleteRunFromCache"}
       \/ Todo \subseteq {"respondToCloseInputFile", "closeInputFile", "closeOutputFiles"}

\* How far the run is, from what is still to be done with it.
RunPlan ==
  /\ run \in Stages
  /\ "endRun" \in Todo => run = "begun" /\ "writeRun" \in Todo
  /\ "writeRun" \in Todo =>
       /\ "deleteRunFromCache" \in Todo
       /\ "endRun" \in Todo \/ run \in {"read", "ended", "unsaved"}
       /\ LumiDone \/ "deleteLumiFromCache" \in Todo
  /\ "deleteRunFromCache" \in Todo => "writeRun" \in Todo \/ run \in {"written", "rewritten"}
  /\ "readRun" \in Todo =>
       /\ file = "open" /\ outputs = "open"
       /\ run = "none" \/ "deleteRunFromCache" \in Todo
       /\ lumi = "none" \/ "deleteLumiFromCache" \in Todo
       /\ BeginsRuns => "beginRun" \in Todo
       /\ depth >= 2 \/ "enterHandleRuns" \in Todo
       /\ Todo \cap {"closeOutputFiles", "openOutputFiles", "destroyHandleRuns"} = {}
  /\ "beginRun" \in Todo /\ "readRun" \notin Todo => run = "read" /\ Todo \subseteq EventCalls
  /\ run \in {"ended", "written"} /\ ~Gone("run") =>
       /\ "deleteRunFromCache" \in Todo
       /\ Todo \cap (Starts \cup LeavesLumis \cup {"exitHandleRuns", "flagRun", "endRun"}) = {}
  /\ run = "read" /\ BeginsRuns /\ ~Gone("run") => "beginRun" \in Todo /\ "readRun" \notin Todo
  /\ ~Gone("run") => (beginRunCalled <=> run = "begun")
  /\ ~RunDone => outputs = "open"

\* Which calls of finalizeRun are left while runException_ is set, and the run that is written
\* once more: its destructor came upon it with the flag down.
Saving == "deleteRunFromCache" \in Todo /\ "flagRun" \notin Todo
RunFlag ==
  /\ "flagRun" \in Todo => {"writeRun", "deleteRunFromCache"} \subseteq Todo /\ ~runException
  /\ "deleteRunFromCache" \in Todo =>
       IF unwinding THEN depth = 1 ELSE depth = 2 \/ "destroyHandleLumis" \in Todo
  /\ unwinding /\ "closeOutputFiles" \in Todo => depth = 0
  /\ Saving => Todo \cap (Starts \cup LeavesLumis \cup {"exitHandleRuns"}) = {}
  /\ runException /\ ~Gone("run") => Saving
  /\ Saving /\ "endRun" \notin Todo /\ run \notin {"ended", "written"} => runException
  /\ run \in {"unsaved", "rewritten"} =>
       Gone("run") /\ ~beginRunCalled /\ (lumi = "none" \/ Gone("lumi"))
  /\ Gone("run") =>
       \/ /\ Todo \cap (RunCalls \cup {"flagRun"}) = {}
          /\ \/ runException \/ depth < 2
             \/ depth = 2 /\ (2 \in exited \/ (run = "unsaved" /\ outputs = "open"))
       \/ /\ Todo \subseteq {"flagRun", "writeRun", "deleteRunFromCache"} /\ depth = 1
          /\ run \in {"unsaved", "rewritten"} /\ outputs = "open"

\* How far the luminosity block is.
LumiPlan ==
  /\ lumi \in Stages \ {"unsaved", "rewritten"}
  /\ "endLumi" \in Todo => lumi = "begun" /\ "writeLumi" \in Todo
  /\ "writeLumi" \in Todo =>
       /\ "deleteLumiFromCache" \in Todo
       /\ "endLumi" \in Todo \/ lumi \in {"read", "ended"}
  /\ "deleteLumiFromCache" \in Todo => "writeLumi" \in Todo \/ lumi = "written"
  /\ "readLuminosityBlock" \in Todo =>
       /\ run \in {"read", "begun"} /\ outputs = "open"
       /\ lumi = "none" \/ "deleteLumiFromCache" \in Todo
       /\ HandleAll => "beginLumi" \in Todo
       /\ "beginLumi" \in Todo => run = "begun"
       /\ depth = 3 \/ "enterHandleLumis" \in Todo
       /\ Todo \cap RunCalls = {} /\ Todo \cap {"closeOutputFiles", "destroyHandleLumis"} = {}
  /\ "beginLumi" \in Todo /\ "readLuminosityBlock" \notin Todo =>
       /\ lumi = "read" /\ (run = "begun" \/ "beginRun" \in Todo)
       /\ Todo \subseteq EventCalls
  /\ "beginLumi" \in Todo => HandleAll \/ "markNonEmpty" \in Todo
  /\ "markNonEmpty" \in Todo =>
       (lumi = "begun" \/ "beginLumi" \in Todo) /\ Todo \subseteq EventCalls
  /\ lumi \in {"ended", "written"} /\ ~LumiDone =>
       /\ "deleteLumiFromCache" \in Todo
       /\ Todo \cap (Starts \cup {"exitHandleLumis", "endLumi"}) = {}
  /\ lumi = "begun" /\ ~LumiDone =>
       run = "begun" /\ (~currentLumiEmpty \/ HandleAll \/ "markNonEmpty" \in Todo)
  /\ lumi = "read" /\ ~LumiDone /\ (~currentLumiEmpty \/ HandleAll) =>
       "beginLumi" \in Todo /\ "readLuminosityBlock" \notin Todo
  /\ ~LumiDone => outputs = "open"

\* The files.
FilePlan ==
  /\ {file, outputs} \subseteq {"open", "closed"}
  /\ "closeOutputFiles" \in Todo =>
       (RunDone \/ "deleteRunFromCache" \in Todo) /\ (LumiDone \/ "deleteLumiFromCache" \in Todo)
  /\ "readFile" \in Todo =>
       /\ file = "closed" \/ "closeInputFile" \in Todo
       /\ depth >= 1 \/ "enterHandleFiles" \in Todo
       /\ "destroyHandleFiles" \notin Todo
  /\ "openOutputFiles" \in Todo =>
       /\ (file = "open" /\ "closeInputFile" \notin Todo) \/ "readFile" \in Todo
       /\ outputs = "closed" \/ "closeOutputFiles" \in Todo
       /\ run = "none" \/ "deleteRunFromCache" \in Todo
       /\ depth >= 1 \/ "enterHandleFiles" \in Todo
       /\ "destroyHandleFiles" \notin Todo

\* The nested states: what each is responsible for is done before it is gone, and entered again
\* only when it is there.
DepthPlan ==
  /\ depth \in 0..3
  /\ Todo \cap {"startingNewLoop", "enterHandleFiles"} # {} => depth = 0
  /\ ~unwinding =>
       /\ "deleteLumiFromCache" \in Todo => depth = 3
       /\ "deleteRunFromCache" \in Todo => depth >= 2
       /\ Todo \cap {"closeInputFile", "closeOutputFiles"} # {} => depth >= 1
  /\ "enterHandleRuns" \in Todo =>
       /\ depth = 1 /\ run = "none"
       /\ "readRun" \in Todo /\ Todo \subseteq {"enterHandleRuns", "readRun", "beginRun"}
  /\ "enterHandleLumis" \in Todo =>
       /\ depth = 2 /\ lumi = "none"
       /\ "readLuminosityBlock" \in Todo
       /\ Todo \subseteq {"enterHandleLumis", "readLuminosityBlock", "beginLumi"}
  /\ "exitHandleLumis" \in Todo => "destroyHandleLumis" \in Todo
  /\ "exitHandleRuns" \in Todo => "destroyHandleRuns" \in Todo
  /\ "exitHandleFiles" \in Todo => "destroyHandleFiles" \in Todo
  /\ "destroyHandleLumis" \in Todo => depth = 3 /\ (lumi = "none" \/ "deleteLumiFromCache" \in Todo)
  /\ "destroyHandleRuns" \in Todo =>
       /\ "destroyHandleLumis" \notin Todo => depth = 2
       /\ run = "none" \/ "deleteRunFromCache" \in Todo
  /\ "destroyHandleFiles" \in Todo =>
       /\ "destroyHandleLumis" \in Todo => "destroyHandleRuns" \in Todo
       /\ Todo \cap {"destroyHandleLumis", "destroyHandleRuns"} = {} => depth = 1
       /\ file = "closed" \/ "closeInputFile" \in Todo
       /\ outputs = "closed" \/ "closeOutputFiles" \in Todo
  /\ Todo \cap {"enterHandleFiles", "enterHandleRuns", "enterHandleLumis"} # {} =>
       Todo \cap {"destroyHandleFiles", "destroyHandleRuns", "destroyHandleLumis"} = {}
  /\ depth < 3 => LumiDone \/ "deleteLumiFromCache" \in Todo
  /\ depth < 2 => RunDone \/ "deleteRunFromCache" \in Todo
  /\ depth < 1 =>
       /\ FileDone \/ "closeInputFile" \in Todo
       /\ OutputsDone \/ "closeOutputFiles" \in Todo
  /\ depth = 3 /\ 3 \notin exited /\ lumi = "none" /\ ~Gone("lumi") /\ ~Gone("run") =>
       "readLuminosityBlock" \in Todo /\ Todo \subseteq {"readLuminosityBlock", "beginLumi"}
  /\ depth >= 2 /\ 2 \notin exited /\ run = "none" /\ ~Gone("run") =>
       "readRun" \in Todo /\ Todo \subseteq {"readRun", "beginRun"}

\* A state of which exit() was called.
ExitPlan ==
  /\ exited \subseteq 1..3
  /\ 3 \in exited =>
       \/ unwinding /\ LumiDone
       \/ /\ ~unwinding /\ "destroyHandleLumis" \in Todo
          /\ Todo \cap (Starts \cup {"exitHandleLumis"}) = {}
  /\ 2 \in exited =>
       \/ unwinding /\ RunDone
       \/ /\ ~unwinding /\ "destroyHandleRuns" \in Todo
          /\ Todo \cap (Starts \cup LeavesLumis \cup {"exitHandleRuns"}) = {}
  /\ 1 \in exited =>
       \/ unwinding /\ FileDone /\ OutputsDone
       \/ /\ ~unwinding /\ "destroyHandleFiles" \in Todo
          /\ Todo \subseteq FileCalls \cup OutputCalls \cup {"destroyHandleFiles", "endOfLoop",
               "doErrorStuff"}
  /\ "deleteLumiFromCache" \in Todo /\ depth = 3 /\ 3 \notin exited /\ "exitHandleLumis" \notin Todo =>
       /\ "readLuminosityBlock" \in Todo
       /\ Todo \subseteq LumiCalls
  /\ "deleteRunFromCache" \in Todo /\ depth >= 2 /\ 2 \notin exited /\ "exitHandleRuns" \notin Todo =>
       /\ "readRun" \in Todo
       /\ Todo \subseteq LeavesLumis \cup RunCalls \cup {"flagRun"}

\* Where the calls lead to.
LeafPlan ==
  /\ ~unwinding /\ leaf \in InLumis =>
       /\ depth = 3 \/ "enterHandleLumis" \in Todo
       /\ Todo \cap {"destroyHandleFiles", "destroyHandleRuns", "destroyHandleLumis"} = {}
  /\ ~unwinding /\ leaf \in InRuns =>
       /\ depth = 2 \/ "enterHandleRuns" \in Todo \/ "destroyHandleLumis" \in Todo
       /\ Todo \cap {"enterHandleLumis", "destroyHandleFiles", "destroyHandleRuns"} = {}
  /\ ~unwinding /\ leaf \in InFiles =>
       /\ depth = 1 \/ "enterHandleFiles" \in Todo \/ "destroyHandleRuns" \in Todo
       /\ Todo \cap {"enterHandleLumis", "enterHandleRuns", "destroyHandleFiles"} = {}
  /\ ~unwinding /\ leaf \in {"Starting", "EndingLoop", "Terminated"} =>
       /\ depth = 0 \/ "destroyHandleFiles" \in Todo
       /\ Todo \cap {"enterHandleLumis", "enterHandleRuns", "enterHandleFiles"} = {}
  /\ ~unwinding /\ leaf \in InFiles \cup InRuns \cup InLumis =>
       /\ (file = "open" /\ "closeInputFile" \notin Todo) \/ "readFile" \in Todo
       /\ (outputs = "open" /\ "closeOutputFiles" \notin Todo) \/ "openOutputFiles" \in Todo
  /\ leaf = "Terminated" => calls = <<>> /\ depth = 0
  /\ "endOfLoop" \in Todo \/ posted = "Restart" => leaf \in {"EndingLoop", "Terminated"}
  /\ Todo \cap {"prepareForNextLoop", "rewindInput"} # {} =>
       Todo \subseteq {"prepareForNextLoop", "rewindInput"}

\* What is planned fits what is done.
PlanInv ==
  /\ CallsSorted /\ Failures /\ RunPlan /\ RunFlag /\ LumiPlan
  /\ FilePlan /\ DepthPlan /\ ExitPlan /\ LeafPlan

-----------------------------------------------------------------------------
(* Calls that return. *)

LEMMA Ranks ==
  /\ Rank["startingNewLoop"] = 0
  /\ Rank["enterHandleFiles"] = 1
  /\ Rank["exitHandleLumis"] = 2
  /\ Rank["endLumi"] = 3
  /\ Rank["writeLumi"] = 4
  /\ Rank["deleteLumiFromCache"] = 5
  /\ Rank["destroyHandleLumis"] = 6
  /\ Rank["exitHandleRuns"] = 7
  /\ Rank["flagRun"] = 8
  /\ Rank["endRun"] = 9
  /\ Rank["writeRun"] = 10
  /\ Rank["deleteRunFromCache"] = 11
  /\ Rank["destroyHandleRuns"] = 12
  /\ Rank["enterHandleRuns"] = 13
  /\ Rank["readRun"] = 14
  /\ Rank["readAndMergeRun"] = 15
  /\ Rank["beginRun"] = 16
  /\ Rank["enterHandleLumis"] = 17
  /\ Rank["readLuminosityBlock"] = 18
  /\ Rank["beginLumi"] = 19
  /\ Rank["markNonEmpty"] = 20
  /\ Rank["readAndProcessEvent"] = 21
  /\ Rank["readAndMergeLumi"] = 22
  /\ Rank["exitHandleFiles"] = 23
  /\ Rank["respondToCloseInputFile"] = 24
  /\ Rank["closeInputFile"] = 25
  /\ Rank["closeOutputFiles"] = 26
  /\ Rank["readFile"] = 27
  /\ Rank["respondToOpenInputFile"] = 28
  /\ Rank["openOutputFiles"] = 29
  /\ Rank["destroyHandleFiles"] = 30
  /\ Rank["endOfLoop"] = 31
  /\ Rank["doErrorStuff"] = 32
  /\ Rank["prepareForNextLoop"] = 33
  /\ Rank["rewindInput"] = 34
BY DEF Rank, Call, RunCalls, LumiCalls, FileCalls, OutputCalls, OtherCalls, Own


LEMMA RankIsNat ==
  ASSUME NEW c \in Call
  PROVE  Rank[c] \in 0..34
BY Ranks DEF Call, RunCalls, LumiCalls, FileCalls, OutputCalls, OtherCalls, Own

\* A call that returns is the first of the list, and only later ones are left.
LEMMA HeadReturns ==
  ASSUME CallsSorted, calls # <<>>, calls' = Tail(calls)
  PROVE  /\ CallsSorted'
         /\ Head(calls) \in Call /\ Head(calls) \in Todo
         /\ Todo' = Todo \ {Head(calls)}
         /\ \A c \in Todo' : Rank[c] > Rank[Head(calls)]
<1>1. calls \in Seq(Call) /\ calls # <<>> /\ Len(calls) \in Nat \ {0}
  BY EmptySeq DEF CallsSorted, Sorted
<1>2. /\ Head(calls) = calls[1] /\ Head(calls) \in Call
      /\ calls' \in Seq(Call) /\ Len(calls') = Len(calls) - 1
      /\ \A i \in 1..Len(calls') : calls'[i] = calls[i + 1]
  BY <1>1, HeadTailProperties
<1>3. \A i \in 2..Len(calls) : Rank[calls[i]] > Rank[calls[1]]
  <2> SUFFICES ASSUME NEW i \in 2..Len(calls)
               PROVE  Rank[calls[1]] < Rank[calls[i]]
    BY <1>1, RankIsNat DEF CallsSorted, Sorted
  <2>1. 1 \in 1..Len(calls) /\ i \in 1..Len(calls) /\ 1 < i
    BY <1>1
  <2> QED BY <2>1 DEF CallsSorted, Sorted
<1>4. CallsSorted'
  <2> SUFFICES ASSUME NEW i \in 1..Len(calls'), NEW j \in 1..Len(calls'), i < j
               PROVE  Rank[calls'[i]] < Rank[calls'[j]]
    BY <1>2 DEF CallsSorted, Sorted
  <2>1. i + 1 \in 1..Len(calls) /\ j + 1 \in 1..Len(calls) /\ i + 1 < j + 1
    BY <1>1, <1>2
  <2>2. Rank[calls[i + 1]] < Rank[calls[j + 1]]
    BY <2>1 DEF CallsSorted, Sorted
  <2> QED BY <1>2, <2>2
<1>5. Todo' = {calls[i] : i \in 2..Len(calls)}
  <2>1. ASSUME NEW i \in 1..Len(calls')
        PROVE  i + 1 \in 2..Len(calls) /\ calls'[i] = calls[i + 1]
    BY <1>1, <1>2
  <2>2. ASSUME NEW i \in 2..Len(calls)
        PROVE  i - 1 \in 1..Len(calls') /\ calls'[i - 1] = calls[i]
    BY <1>1, <1>2
  <2>3. Todo' = {calls'[i] : i \in 1..Len(calls')}
    BY DEF Todo, Items
  <2>4. ASSUME NEW i \in 1..Len(calls')
        PROVE  calls'[i] \in {calls[j] : j \in 2..Len(calls)}
    BY <2>1
  <2>5. ASSUME NEW i \in 2..Len(calls)
        PROVE  calls[i] \in {calls'[j] : j \in 1..Len(calls')}
    BY <2>2
  <2> QED BY <2>3, <2>4, <2>5
<1>6. \A i \in 2..Len(calls) : calls[i] # calls[1]
  <2>1. Rank[calls[1]] \in 0..34
    BY <1>2, RankIsNat
  <2>2. ~(Rank[calls[1]] > Rank[calls[1]])
    <3>1. \A n \in 0..34 : ~(n > n)
      OBVIOUS
    <3> QED BY <2>1, <3>1
  <2> QED BY <1>3, <2>2
<1>7. Todo = {calls[1]} \cup {calls[i] : i \in 2..Len(calls)}
  BY <1>1 DEF Todo, Items
<1> QED BY <1>2, <1>3, <1>4, <1>5, <1>6, <1>7

LEMMA StartingNewLoopReturns ==
  ASSUME PlanInv, CallReturns, Head(calls) = "startingNewLoop"
  PROVE  PlanInv'
<1>1. /\ CallsSorted' /\ Todo' = Todo \ {"startingNewLoop"} /\ "startingNewLoop" \in Todo
      /\ \A c \in Todo' : Rank[c] > 0
  BY HeadReturns, Ranks DEF PlanInv, CallReturns
<1>2. leaf # "Terminated"
  BY DEF PlanInv, LeafPlan, CallReturns
<1>3. UNCHANGED <<depth, exited, beginRunCalled, currentLumiEmpty, run, lumi, file, outputs,
        posted, config, leaf, unwinding, runException, lumiException, abandoned>>
  BY DEF CallReturns, After, Posts, RunCalls, LumiCalls, FileCalls, OutputCalls
<1>4. Failures'
  BY <1>1, <1>2, <1>3 DEF PlanInv, Failures, RunPlan, FileCalls, OutputCalls, Gone
<1>5. RunPlan'
  BY <1>1, <1>2, <1>3 DEF PlanInv, Failures, RunPlan, LumiPlan, FilePlan, DepthPlan,
       ExitPlan, FileCalls, OutputCalls, Gone, RunDone, LumiDone, FileDone
<1>6. LumiPlan'
  BY <1>1, <1>2, <1>3 DEF PlanInv, Failures, RunPlan, LumiPlan, FilePlan, DepthPlan,
       ExitPlan, FileCalls, OutputCalls, Gone, RunDone, LumiDone, FileDone
<1>7. FilePlan'
  BY <1>1, <1>2, <1>3 DEF PlanInv, Failures, RunPlan, LumiPlan, FilePlan, DepthPlan
<1>8. DepthPlan'
  BY <1>1, <1>2, <1>3 DEF PlanInv, Failures, RunPlan, LumiPlan, FilePlan, DepthPlan,
       ExitPlan, LeafPlan, HandleAll, BeginsRuns, EventCalls, OutputCalls, Gone, RunDone, LumiDone,
       FileDone, OutputsDone
<1>9. ExitPlan'
  BY <1>1, <1>2, <1>3 DEF PlanInv, Failures, RunPlan, ExitPlan, LeafPlan, HandleAll
<1>10. LeafPlan'
  BY <1>1, <1>2, <1>3 DEF PlanInv, Failures, RunPlan, ExitPlan, LeafPlan, HandleAll
<1>11. RunFlag'
  BY <1>1, <1>2, <1>3 DEF PlanInv, Failures, RunPlan, RunFlag, Saving, LumiPlan, DepthPlan, Gone,
       RunDone, LumiDone, RunCalls, LumiCalls, LeavesLumis, Starts
<1> QED BY <1>1, <1>4, <1>5, <1>6, <1>7, <1>8, <1>9, <1>10, <1>11 DEF PlanInv

LEMMA EnterHandleFilesReturns ==
  ASSUME PlanInv, CallReturns, Head(calls) = "enterHandleFiles"
  PROVE  PlanInv'
<1>1. /\ CallsSorted' /\ Todo' = Todo \ {"enterHandleFiles"} /\ "enterHandleFiles" \in Todo
      /\ \A c \in Todo' : Rank[c] > 1
  BY HeadReturns, Ranks DEF PlanInv, CallReturns
<1>2. leaf # "Terminated"
  BY DEF PlanInv, LeafPlan, CallReturns
<1>3. Todo \cap {"startingNewLoop"} = {}
  BY <1>1, Ranks
<1>4. depth' = 1 /\ UNCHANGED <<exited, beginRunCalled, currentLumiEmpty, run, lumi, file, outputs,
        posted, config, leaf, unwinding, runException, lumiException, abandoned>>
  BY DEF CallReturns, After, Posts, RunCalls, LumiCalls, FileCalls, OutputCalls
<1>5. Failures'
  BY <1>1, <1>2, <1>3, <1>4 DEF PlanInv, Failures, RunPlan, FileCalls, OutputCalls, Gone
<1>6. RunPlan'
  BY <1>1, <1>2, <1>3, <1>4 DEF PlanInv, Failures, RunPlan, LumiPlan, FilePlan, DepthPlan,
       ExitPlan, FileCalls, OutputCalls, Gone, RunDone, LumiDone, FileDone
<1>7. LumiPlan'
  BY <1>1, <1>2, <1>3, <1>4 DEF PlanInv, Failures, RunPlan, LumiPlan, FilePlan, DepthPlan,
       ExitPlan, FileCalls, OutputCalls, Gone, RunDone, LumiDone, FileDone
<1>8. FilePlan'
  BY <1>1, <1>2, <1>3, <1>4 DEF PlanInv, Failures, RunPlan, LumiPlan, FilePlan, DepthPlan
<1>9. DepthPlan'
  BY <1>1, <1>2, <1>3, <1>4 DEF PlanInv, Failures, RunPlan, LumiPlan, FilePlan, DepthPlan,
       ExitPlan, FileCalls, OutputCalls, Gone, RunDone, LumiDone, FileDone
<1>10. ExitPlan'
  BY <1>1, <1>2, <1>3, <1>4 DEF PlanInv, Failures, RunPlan, ExitPlan, LeafPlan, HandleAll
<1>11. LeafPlan'
  BY <1>1, <1>2, <1>3, <1>4 DEF PlanInv, Failures, RunPlan, LumiPlan, FilePlan, DepthPlan,
       ExitPlan, LeafPlan, HandleAll
<1>12. RunFlag'
  BY <1>1, <1>2, <1>3, <1>4 DEF PlanInv, Failures, RunPlan, RunFlag, Saving, LumiPlan, DepthPlan,
       Gone, RunDone, LumiDone, RunCalls, LumiCalls, LeavesLumis, Starts
<1> QED BY <1>1, <1>5, <1>6, <1>7, <1>8, <1>9, <1>10, <1>11, <1>12 DEF PlanInv

LEMMA ExitHandleLumisReturns ==
  ASSUME PlanInv, CallReturns, Head(calls) = "exitHandleLumis"
  PROVE  PlanInv'
<1>1. /\ CallsSorted' /\ Todo' = Todo \ {"exitHandleLumis"} /\ "exitHandleLumis" \in Todo
      /\ \A c \in Todo' : Rank[c] > 2
  BY HeadReturns, Ranks DEF PlanInv, CallReturns
<1>2. leaf # "Terminated"
  BY DEF PlanInv, LeafPlan, CallReturns
<1>3. Todo \cap {"startingNewLoop", "enterHandleFiles"} = {}
  BY <1>1, Ranks
<1>4. exited' = exited \cup {3} /\ UNCHANGED <<depth, beginRunCalled, currentLumiEmpty, run, lumi,
        file, outputs, posted, config, leaf, unwinding, runException, lumiException, abandoned>>
  BY DEF CallReturns, After, Posts, RunCalls, LumiCalls, FileCalls, OutputCalls
<1>5. Failures'
  BY <1>1, <1>2, <1>3, <1>4 DEF PlanInv, Failures, RunPlan, FileCalls, OutputCalls, Gone
<1>6. RunPlan'
  BY <1>1, <1>2, <1>3, <1>4 DEF PlanInv, Failures, RunPlan, LumiPlan, LeafPlan, HandleAll,
       BeginsRuns, FileCalls, OutputCalls, Gone, RunDone, LumiDone, FileDone
<1>7. LumiPlan'
  BY <1>1, <1>2, <1>3, <1>4 DEF PlanInv, Failures, RunPlan, LumiPlan, LeafPlan, HandleAll,
       BeginsRuns, FileCalls, OutputCalls, Gone, RunDone, LumiDone, FileDone
<1>8. FilePlan'
  BY <1>1, <1>2, <1>3, <1>4 DEF PlanInv, Failures, RunPlan, LumiPlan, FilePlan, Starts, FileCalls,
       OutputCalls, Gone, RunDone, LumiDone, FileDone
<1>9. DepthPlan'
  BY <1>1, <1>2, <1>3, <1>4 DEF PlanInv, Failures, RunPlan, LumiPlan, FilePlan, DepthPlan,
       ExitPlan, FileCalls, OutputCalls, Gone
<1>10. ExitPlan'
  BY <1>1, <1>2, <1>3, <1>4 DEF PlanInv, Failures, RunPlan, LumiPlan, FilePlan, DepthPlan,
       ExitPlan, EventCalls, LeavesLumis, Starts
<1>11. LeafPlan'
  BY <1>1, <1>2, <1>3, <1>4 DEF PlanInv, Failures, RunPlan, ExitPlan, LeafPlan, HandleAll
<1>12. RunFlag'
  BY <1>1, <1>2, <1>3, <1>4 DEF PlanInv, Failures, RunPlan, RunFlag, Saving, LumiPlan, DepthPlan,
       Gone, RunDone, LumiDone, RunCalls, LumiCalls, LeavesLumis, Starts
<1> QED BY <1>1, <1>5, <1>6, <1>7, <1>8, <1>9, <1>10, <1>11, <1>12 DEF PlanInv

LEMMA EndLumiReturns ==
  ASSUME PlanInv, CallReturns, Head(calls) = "endLumi"
  PROVE  PlanInv'
<1>1. /\ CallsSorted' /\ Todo' = Todo \ {"endLumi"} /\ "endLumi" \in Todo
      /\ \A c \in Todo' : Rank[c] > 3
  BY HeadReturns, Ranks DEF PlanInv, CallReturns
<1>2. leaf # "Terminated"
  BY DEF PlanInv, LeafPlan, CallReturns
<1>3. Todo \cap {"startingNewLoop", "enterHandleFiles", "exitHandleLumis"} = {}
  BY <1>1, Ranks
<1>4. lumi' = "ended" /\ UNCHANGED <<depth, exited, beginRunCalled, currentLumiEmpty, run, file,
        outputs, posted, config, leaf, unwinding, runException, lumiException, abandoned>>
  BY DEF CallReturns, After, Posts, RunCalls, LumiCalls, FileCalls, OutputCalls
<1>5. Failures'
  BY <1>1, <1>2, <1>3, <1>4 DEF PlanInv, Failures, RunPlan, FileCalls, OutputCalls, Gone
<1>6. RunPlan'
  BY <1>1, <1>2, <1>3, <1>4 DEF PlanInv, Failures, RunPlan, LumiPlan, LeafPlan, HandleAll,
       BeginsRuns, FileCalls, OutputCalls, Gone, RunDone, LumiDone, FileDone
<1>7. LumiPlan'
  BY <1>1, <1>2, <1>3, <1>4 DEF PlanInv, Failures, RunPlan, LumiPlan, FilePlan, DepthPlan,
       ExitPlan, LeafPlan, HandleAll, BeginsRuns, EventCalls, LeavesLumis, Starts, FileCalls,
       LumiDone, FileDone, OutputsDone, Stages, RunCalls, LumiCalls
<1>8. FilePlan'
  BY <1>1, <1>2, <1>3, <1>4 DEF PlanInv, Failures, RunPlan, LumiPlan, FilePlan, Starts, FileCalls,
       OutputCalls, Gone, RunDone, LumiDone, FileDone
<1>9. DepthPlan'
  BY <1>1, <1>2, <1>3, <1>4 DEF PlanInv, Failures, RunPlan, LumiPlan, FilePlan, DepthPlan,
       ExitPlan, LeafPlan, HandleAll, BeginsRuns, EventCalls, OutputCalls, Gone, RunDone, LumiDone,
       FileDone, OutputsDone
<1>10. ExitPlan'
  BY <1>1, <1>2, <1>3, <1>4 DEF PlanInv, Failures, RunPlan, LumiPlan, FilePlan, DepthPlan,
       ExitPlan, LeafPlan, HandleAll, BeginsRuns, EventCalls, OutputCalls, Gone, RunDone, LumiDone,
       FileDone, OutputsDone
<1>11. LeafPlan'
  BY <1>1, <1>2, <1>3, <1>4 DEF PlanInv, Failures, RunPlan, ExitPlan, LeafPlan, HandleAll
<1>12. RunFlag'
  BY <1>1, <1>2, <1>3, <1>4 DEF PlanInv, Failures, RunPlan, RunFlag, Saving, LumiPlan, DepthPlan,
       Gone, RunDone, LumiDone, RunCalls, LumiCalls, LeavesLumis, Starts
<1> QED BY <1>1, <1>5, <1>6, <1>7, <1>8, <1>9, <1>10, <1>11, <1>12 DEF PlanInv

LEMMA WriteLumiReturns ==
  ASSUME PlanInv, CallReturns, Head(calls) = "writeLumi"
  PROVE  PlanInv'
<1>1. /\ CallsSorted' /\ Todo' = Todo \ {"writeLumi"} /\ "writeLumi" \in Todo
      /\ \A c \in Todo' : Rank[c] > 4
  BY HeadReturns, Ranks DEF PlanInv, CallReturns
<1>2. leaf # "Terminated"
  BY DEF PlanInv, LeafPlan, CallReturns
<1>3. Todo \cap {"startingNewLoop", "enterHandleFiles", "exitHandleLumis", "endLumi"} = {}
  BY <1>1, Ranks
<1>4. lumi' = "written" /\ UNCHANGED <<depth, exited, beginRunCalled, currentLumiEmpty, run, file,
        outputs, posted, config, leaf, unwinding, runException, lumiException, abandoned>>
  BY DEF CallReturns, After, Posts, RunCalls, LumiCalls, FileCalls, OutputCalls
<1>5. Failures'
  BY <1>1, <1>2, <1>3, <1>4 DEF PlanInv, Failures, RunPlan, FileCalls, OutputCalls, Gone
<1>6. RunPlan'
  BY <1>1, <1>2, <1>3, <1>4 DEF PlanInv, Failures, RunPlan, LumiPlan, LeafPlan, HandleAll,
       BeginsRuns, FileCalls, OutputCalls, Gone, RunDone, LumiDone, FileDone
<1>7. LumiPlan'
  BY <1>1, <1>2, <1>3, <1>4 DEF PlanInv, Failures, RunPlan, LumiPlan, FilePlan, DepthPlan,
       ExitPlan, LeafPlan, HandleAll, BeginsRuns, EventCalls, LeavesLumis, Starts, FileCalls,
       LumiDone, FileDone, OutputsDone, Stages, RunCalls, LumiCalls
<1>8. FilePlan'
  BY <1>1, <1>2, <1>3, <1>4 DEF PlanInv, Failures, RunPlan, LumiPlan, FilePlan, Starts, FileCalls,
       OutputCalls, Gone, RunDone, LumiDone, FileDone
<1>9. DepthPlan'
  BY <1>1, <1>2, <1>3, <1>4 DEF PlanInv, Failures, RunPlan, LumiPlan, FilePlan, DepthPlan,
       ExitPlan, LeafPlan, HandleAll, BeginsRuns, EventCalls, OutputCalls, Gone, RunDone, LumiDone,
       FileDone, OutputsDone
<1>10. ExitPlan'
  BY <1>1, <1>2, <1>3, <1>4 DEF PlanInv, Failures, RunPlan, LumiPlan, FilePlan, DepthPlan,
       ExitPlan, LeafPlan, HandleAll, BeginsRuns, EventCalls, OutputCalls, Gone, RunDone, LumiDone,
       FileDone, OutputsDone
<1>11. LeafPlan'
  BY <1>1, <1>2, <1>3, <1>4 DEF PlanInv, Failures, RunPlan, ExitPlan, LeafPlan, HandleAll
<1>12. RunFlag'
  BY <1>1, <1>2, <1>3, <1>4 DEF PlanInv, Failures, RunPlan, RunFlag, Saving, LumiPlan, DepthPlan,
       Gone, RunDone, LumiDone, RunCalls, LumiCalls, LeavesLumis, Starts
<1> QED BY <1>1, <1>5, <1>6, <1>7, <1>8, <1>9, <1>10, <1>11, <1>12 DEF PlanInv

LEMMA DeleteLumiFromCacheReturns ==
  ASSUME PlanInv, CallReturns, Head(calls) = "deleteLumiFromCache"
  PROVE  PlanInv'
<1>1. /\ CallsSorted' /\ Todo' = Todo \ {"deleteLumiFromCache"} /\ "deleteLumiFromCache" \in Todo
      /\ \A c \in Todo' : Rank[c] > 5
  BY HeadReturns, Ranks DEF PlanInv, CallReturns
<1>2. leaf # "Terminated"
  BY DEF PlanInv, LeafPlan, CallReturns
<1>3. Todo \cap {"startingNewLoop", "enterHandleFiles", "exitHandleLumis", "endLumi",
        "writeLumi"} = {}
  BY <1>1, Ranks
<1>4. lumi' = "none" /\ UNCHANGED <<depth, exited, beginRunCalled, currentLumiEmpty, run, file,
        outputs, posted, config, leaf, unwinding, runException, lumiException, abandoned>>
  BY DEF CallReturns, After, Posts, RunCalls, LumiCalls, FileCalls, OutputCalls
<1>5. Failures'
  BY <1>1, <1>2, <1>3, <1>4 DEF PlanInv, Failures, RunPlan, FileCalls, OutputCalls, Gone
<1>6. RunPlan'
  BY <1>1, <1>2, <1>3, <1>4 DEF PlanInv, Failures, RunPlan, LumiPlan, LeafPlan, HandleAll,
       BeginsRuns, FileCalls, OutputCalls, Gone, RunDone, LumiDone, FileDone
<1>7. LumiPlan'
  BY <1>1, <1>2, <1>3, <1>4 DEF PlanInv, Failures, RunPlan, LumiPlan, FilePlan, DepthPlan,
       ExitPlan, LeafPlan, HandleAll, BeginsRuns, EventCalls, LumiDone, FileDone, OutputsDone,
       Stages, RunCalls, LumiCalls
<1>8. FilePlan'
  BY <1>1, <1>2, <1>3, <1>4 DEF PlanInv, Failures, RunPlan, LumiPlan, FilePlan, Starts, FileCalls,
       OutputCalls, Gone, RunDone, LumiDone, FileDone
<1>9. DepthPlan'
  BY <1>1, <1>2, <1>3, <1>4 DEF PlanInv, Failures, RunPlan, LumiPlan, FilePlan, DepthPlan,
       ExitPlan, LeafPlan, HandleAll, BeginsRuns, EventCalls, OutputCalls, Gone, RunDone, LumiDone,
       FileDone, OutputsDone, Stages, RunCalls, LumiCalls
<1>10. ExitPlan'
  BY <1>1, <1>2, <1>3, <1>4 DEF PlanInv, Failures, RunPlan, LumiPlan, FilePlan, DepthPlan,
       ExitPlan, LeafPlan, HandleAll, BeginsRuns, EventCalls, OutputCalls, Gone, RunDone, LumiDone,
       FileDone, OutputsDone
<1>11. LeafPlan'
  BY <1>1, <1>2, <1>3, <1>4 DEF PlanInv, Failures, RunPlan, ExitPlan, LeafPlan, HandleAll
<1>12. RunFlag'
  BY <1>1, <1>2, <1>3, <1>4 DEF PlanInv, Failures, RunPlan, RunFlag, Saving, LumiPlan, DepthPlan,
       Gone, RunDone, LumiDone, RunCalls, LumiCalls, LeavesLumis, Starts
<1> QED BY <1>1, <1>5, <1>6, <1>7, <1>8, <1>9, <1>10, <1>11, <1>12 DEF PlanInv

LEMMA DestroyHandleLumisReturns ==
  ASSUME PlanInv, CallReturns, Head(calls) = "destroyHandleLumis"
  PROVE  PlanInv'
<1>1. /\ CallsSorted' /\ Todo' = Todo \ {"destroyHandleLumis"} /\ "destroyHandleLumis" \in Todo
      /\ \A c \in Todo' : Rank[c] > 6
  BY HeadReturns, Ranks DEF PlanInv, CallReturns
<1>2. leaf # "Terminated"
  BY DEF PlanInv, LeafPlan, CallReturns
<1>3. Todo \cap {"startingNewLoop", "enterHandleFiles", "exitHandleLumis", "endLumi", "writeLumi",
        "deleteLumiFromCache"} = {}
  BY <1>1, Ranks
<1>4. depth' = depth - 1 /\ exited' = exited \ {depth} /\ UNCHANGED <<beginRunCalled,
        currentLumiEmpty, run, lumi, file, outputs, posted, config, leaf, unwinding, runException,
        lumiException, abandoned>>
  BY DEF CallReturns, After, Posts, RunCalls, LumiCalls, FileCalls, OutputCalls
<1>5. Failures'
  BY <1>1, <1>2, <1>3, <1>4 DEF PlanInv, Failures, RunPlan, FileCalls, OutputCalls, Gone
<1>6. RunPlan'
  BY <1>1, <1>2, <1>3, <1>4 DEF PlanInv, Failures, RunPlan, LumiPlan, FilePlan, DepthPlan,
       ExitPlan, LeafPlan, HandleAll, BeginsRuns, FileCalls, OutputCalls, Gone, RunDone, LumiDone,
       FileDone
<1>7. LumiPlan'
  BY <1>1, <1>2, <1>3, <1>4 DEF PlanInv, Failures, RunPlan, LumiPlan, FilePlan, DepthPlan,
       ExitPlan, RunDone, LumiDone, FileDone
<1>8. FilePlan'
  BY <1>1, <1>2, <1>3, <1>4 DEF PlanInv, Failures, RunPlan, LumiPlan, FilePlan, DepthPlan,
       ExitPlan, FileCalls, OutputCalls, Gone, RunDone, LumiDone, FileDone
<1>9. DepthPlan'
  BY <1>1, <1>2, <1>3, <1>4 DEF PlanInv, Failures, RunPlan, LumiPlan, FilePlan, DepthPlan,
       ExitPlan, FileCalls, OutputCalls, Gone, RunDone, LumiDone, FileDone
<1>10. ExitPlan'
  BY <1>1, <1>2, <1>3, <1>4 DEF PlanInv, Failures, RunPlan, LumiPlan, FilePlan, DepthPlan,
       ExitPlan, LeafPlan, HandleAll, BeginsRuns, EventCalls, OutputCalls, Gone, RunDone,
       LumiDone, FileDone, OutputsDone
<1>11. LeafPlan'
  BY <1>1, <1>2, <1>3, <1>4 DEF PlanInv, Failures, RunPlan, LumiPlan, FilePlan, DepthPlan,
       ExitPlan, LeafPlan, HandleAll
<1>12. RunFlag'
  BY <1>1, <1>2, <1>3, <1>4 DEF PlanInv, Failures, RunPlan, RunFlag, Saving, LumiPlan, DepthPlan,
       Gone, RunDone, LumiDone, RunCalls, LumiCalls, LeavesLumis, Starts
<1> QED BY <1>1, <1>5, <1>6, <1>7, <1>8, <1>9, <1>10, <1>11, <1>12 DEF PlanInv

LEMMA ExitHandleRunsReturns ==
  ASSUME PlanInv, CallReturns, Head(calls) = "exitHandleRuns"
  PROVE  PlanInv'
<1>1. /\ CallsSorted' /\ Todo' = Todo \ {"exitHandleRuns"} /\ "exitHandleRuns" \in Todo
      /\ \A c \in Todo' : Rank[c] > 7
  BY HeadReturns, Ranks DEF PlanInv, CallReturns
<1>2. leaf # "Terminated"
  BY DEF PlanInv, LeafPlan, CallReturns
<1>3. Todo \cap {"startingNewLoop", "enterHandleFiles", "exitHandleLumis", "endLumi", "writeLumi",
        "deleteLumiFromCache", "destroyHandleLumis"} = {}
  BY <1>1, Ranks
<1>4. exited' = exited \cup {2} /\ UNCHANGED <<depth, beginRunCalled, currentLumiEmpty, run, lumi,
        file, outputs, posted, config, leaf, unwinding, runException, lumiException, abandoned>>
  BY DEF CallReturns, After, Posts, RunCalls, LumiCalls, FileCalls, OutputCalls
<1>5. Failures'
  BY <1>1, <1>2, <1>3, <1>4 DEF PlanInv, Failures, RunPlan, FileCalls, OutputCalls, Gone
<1>6. RunPlan'
  BY <1>1, <1>2, <1>3, <1>4 DEF PlanInv, Failures, RunPlan, LumiPlan, LeafPlan, HandleAll,
       BeginsRuns, FileCalls, OutputCalls, Gone, RunDone, LumiDone, FileDone
<1>7. LumiPlan'
  BY <1>1, <1>2, <1>3, <1>4 DEF PlanInv, Failures, RunPlan, LumiPlan, FilePlan, DepthPlan,
       ExitPlan, FileCalls, OutputCalls, Gone, RunDone, LumiDone, FileDone
<1>8. FilePlan'
  BY <1>1, <1>2, <1>3, <1>4 DEF PlanInv, Failures, RunPlan, LumiPlan, FilePlan, Starts, FileCalls,
       OutputCalls, Gone, RunDone, LumiDone, FileDone
<1>9. DepthPlan'
  BY <1>1, <1>2, <1>3, <1>4 DEF PlanInv, Failures, RunPlan, LumiPlan, FilePlan, DepthPlan,
       ExitPlan, FileCalls, OutputCalls, Gone, RunDone, LumiDone, FileDone
<1>10. ExitPlan'
  BY <1>1, <1>2, <1>3, <1>4 DEF PlanInv, Failures, RunPlan, LumiPlan, FilePlan, DepthPlan,
       ExitPlan, EventCalls, LeavesLumis, Starts
<1>11. LeafPlan'
  BY <1>1, <1>2, <1>3, <1>4 DEF PlanInv, Failures, RunPlan, ExitPlan, LeafPlan, HandleAll
<1>12. RunFlag'
  BY <1>1, <1>2, <1>3, <1>4 DEF PlanInv, Failures, RunPlan, RunFlag, Saving, LumiPlan, DepthPlan,
       Gone, RunDone, LumiDone, RunCalls, LumiCalls, LeavesLumis, Starts
<1> QED BY <1>1, <1>5, <1>6, <1>7, <1>8, <1>9, <1>10, <1>11, <1>12 DEF PlanInv

LEMMA FlagRunReturns ==
  ASSUME PlanInv, CallReturns, Head(calls) = "flagRun"
  PROVE  PlanInv'
<1>1. /\ CallsSorted' /\ Todo' = Todo \ {"flagRun"} /\ "flagRun" \in Todo
      /\ \A c \in Todo' : Rank[c] > 8
  BY HeadReturns, Ranks DEF PlanInv, CallReturns
<1>2. leaf # "Terminated"
  BY DEF PlanInv, LeafPlan, CallReturns
<1>3. Todo \cap {"startingNewLoop", "enterHandleFiles", "exitHandleLumis", "endLumi", "writeLumi",
        "deleteLumiFromCache", "destroyHandleLumis", "exitHandleRuns"} = {}
  BY <1>1, Ranks
<1>4. runException' = TRUE /\ UNCHANGED <<depth, exited, beginRunCalled, currentLumiEmpty,
        run, lumi, file, outputs, posted, config, leaf, unwinding, lumiException, abandoned>>
  BY DEF CallReturns, After, Posts, RunCalls, LumiCalls, FileCalls, OutputCalls
<1>5. Todo' = Todo \ {"flagRun"} /\ "flagRun" \in Todo
  BY <1>1
<1>6. Failures'
  BY <1>4, <1>5 DEF PlanInv, Failures, Gone
<1>7. RunPlan'
  BY <1>4, <1>5 DEF PlanInv, RunPlan, BeginsRuns, RunDone, LumiDone, Gone
<1>8. LumiPlan'
  BY <1>4, <1>5 DEF PlanInv, LumiPlan, HandleAll, LumiDone, Gone
<1>9. FilePlan'
  BY <1>4, <1>5 DEF PlanInv, FilePlan, RunDone, LumiDone, Gone
<1>10. DepthPlan'
  BY <1>4, <1>5 DEF PlanInv, DepthPlan, RunDone, LumiDone, FileDone, OutputsDone, Gone
<1>11. ExitPlan'
  BY <1>4, <1>5 DEF PlanInv, ExitPlan, RunDone, LumiDone, FileDone, OutputsDone, Gone
<1>12. LeafPlan'
  BY <1>2, <1>4, <1>5 DEF PlanInv, LeafPlan
<1>13. RunFlag'
  BY <1>1, <1>2, <1>3, <1>4 DEF PlanInv, Failures, RunPlan, RunFlag, Saving, LumiPlan, DepthPlan,
       Gone, RunDone, LumiDone, RunCalls, LumiCalls, LeavesLumis, Starts
<1> QED BY <1>1, <1>6, <1>7, <1>8, <1>9, <1>10, <1>11, <1>12, <1>13 DEF PlanInv

LEMMA EndRunReturns ==
  ASSUME PlanInv, CallReturns, Head(calls) = "endRun"
  PROVE  PlanInv'
<1>1. /\ CallsSorted' /\ Todo' = Todo \ {"endRun"} /\ "endRun" \in Todo
      /\ \A c \in Todo' : Rank[c] > 9
  BY HeadReturns, Ranks DEF PlanInv, CallReturns
<1>2. leaf # "Terminated"
  BY DEF PlanInv, LeafPlan, CallReturns
<1>3. Todo \cap {"startingNewLoop", "enterHandleFiles", "exitHandleLumis", "endLumi", "writeLumi",
        "deleteLumiFromCache", "destroyHandleLumis", "exitHandleRuns", "flagRun"} = {}
  BY <1>1, Ranks
<1>4. run' = "ended" /\ beginRunCalled' = FALSE /\ runException' = FALSE /\ UNCHANGED <<depth,
        exited, currentLumiEmpty, lumi, file, outputs, posted, config, leaf, unwinding,
        lumiException, abandoned>>
  BY DEF CallReturns, After, Posts, RunCalls, LumiCalls, FileCalls, OutputCalls
<1>5. Failures'
  BY <1>1, <1>2, <1>3, <1>4 DEF PlanInv, Failures, RunPlan, FileCalls, OutputCalls, Gone
<1>6. RunPlan'
  BY <1>1, <1>2, <1>3, <1>4 DEF PlanInv, Failures, RunPlan, LumiPlan, FilePlan, DepthPlan,
       ExitPlan, LeafPlan, HandleAll, BeginsRuns, EventCalls, LeavesLumis, Starts, FileCalls,
       OutputCalls, Gone, RunDone, LumiDone, FileDone, OutputsDone, Stages, RunCalls, LumiCalls
<1>7. LumiPlan'
  BY <1>1, <1>2, <1>3, <1>4 DEF PlanInv, Failures, RunPlan, LumiPlan, FilePlan, DepthPlan,
       ExitPlan, FileCalls, OutputCalls, Gone, RunDone, LumiDone, FileDone
<1>8. FilePlan'
  BY <1>1, <1>2, <1>3, <1>4 DEF PlanInv, Failures, RunPlan, LumiPlan, FilePlan, Starts, FileCalls,
       OutputCalls, Gone, RunDone, LumiDone, FileDone
<1>9. DepthPlan'
  BY <1>1, <1>2, <1>3, <1>4 DEF PlanInv, Failures, RunPlan, LumiPlan, FilePlan, DepthPlan,
       ExitPlan, LeafPlan, HandleAll, BeginsRuns, EventCalls, OutputCalls, Gone, RunDone, LumiDone,
       FileDone, OutputsDone
<1>10. ExitPlan'
  BY <1>1, <1>2, <1>3, <1>4 DEF PlanInv, Failures, RunPlan, LumiPlan, FilePlan, DepthPlan,
       ExitPlan, LeafPlan, HandleAll, BeginsRuns, EventCalls, OutputCalls, Gone, RunDone, LumiDone,
       FileDone, OutputsDone
<1>11. LeafPlan'
  BY <1>1, <1>2, <1>3, <1>4 DEF PlanInv, Failures, RunPlan, ExitPlan, LeafPlan, HandleAll
<1>12. RunFlag'
  BY <1>1, <1>2, <1>3, <1>4 DEF PlanInv, Failures, RunPlan, RunFlag, Saving, LumiPlan, DepthPlan,
       Gone, RunDone, LumiDone, RunCalls, LumiCalls, LeavesLumis, Starts
<1> QED BY <1>1, <1>5, <1>6, <1>7, <1>8, <1>9, <1>10, <1>11, <1>12 DEF PlanInv

LEMMA WriteRunReturns ==
  ASSUME PlanInv, CallReturns, Head(calls) = "writeRun"
  PROVE  PlanInv'
<1>1. /\ CallsSorted' /\ Todo' = Todo \ {"writeRun"} /\ "writeRun" \in Todo
      /\ \A c \in Todo' : Rank[c] > 10
  BY HeadReturns, Ranks DEF PlanInv, CallReturns
<1>2. leaf # "Terminated"
  BY DEF PlanInv, LeafPlan, CallReturns
<1>3. Todo \cap {"startingNewLoop", "enterHandleFiles", "exitHandleLumis", "endLumi", "writeLumi",
        "deleteLumiFromCache", "destroyHandleLumis", "exitHandleRuns", "flagRun", "endRun"} = {}
  BY <1>1, Ranks
<1>4. run' = (IF run = "unsaved" THEN "rewritten" ELSE "written") /\ UNCHANGED <<depth,
        exited, beginRunCalled, currentLumiEmpty, lumi, file, outputs, posted, config, leaf,
        unwinding, runException, lumiException, abandoned>>
  BY DEF CallReturns, After, Posts, RunCalls, LumiCalls, FileCalls, OutputCalls
<1>5. Failures'
  BY <1>1, <1>2, <1>3, <1>4 DEF PlanInv, Failures, RunPlan, FileCalls, OutputCalls, Gone
<1>6. RunPlan'
  BY <1>1, <1>2, <1>3, <1>4 DEF PlanInv, Failures, RunPlan, LumiPlan, FilePlan, DepthPlan,
       ExitPlan, LeafPlan, HandleAll, BeginsRuns, EventCalls, LeavesLumis, Starts, FileCalls,
       OutputCalls, Gone, RunDone, Stages, RunCalls, LumiCalls
<1>7. LumiPlan'
  BY <1>1, <1>2, <1>3, <1>4 DEF PlanInv, Failures, RunPlan, LumiPlan, FilePlan, DepthPlan,
       ExitPlan, FileCalls, OutputCalls, Gone, RunDone, LumiDone, FileDone
<1>8. FilePlan'
  BY <1>1, <1>2, <1>3, <1>4 DEF PlanInv, Failures, RunPlan, LumiPlan, FilePlan, Starts, FileCalls,
       OutputCalls, Gone, RunDone, LumiDone, FileDone
<1>9. DepthPlan'
  BY <1>1, <1>2, <1>3, <1>4 DEF PlanInv, Failures, RunPlan, LumiPlan, FilePlan, DepthPlan,
       ExitPlan, LeafPlan, HandleAll, BeginsRuns, EventCalls, OutputCalls, Gone, RunDone, LumiDone,
       FileDone, OutputsDone
<1>10. ExitPlan'
  BY <1>1, <1>2, <1>3, <1>4 DEF PlanInv, Failures, RunPlan, LumiPlan, FilePlan, DepthPlan,
       ExitPlan, LeafPlan, HandleAll, BeginsRuns, EventCalls, OutputCalls, Gone, RunDone, LumiDone,
       FileDone, OutputsDone
<1>11. LeafPlan'
  BY <1>1, <1>2, <1>3, <1>4 DEF PlanInv, Failures, RunPlan, ExitPlan, LeafPlan, HandleAll
<1>12. RunFlag'
  BY <1>1, <1>2, <1>3, <1>4 DEF PlanInv, Failures, RunPlan, RunFlag, Saving, LumiPlan, DepthPlan,
       Gone, RunDone, LumiDone, RunCalls, LumiCalls, LeavesLumis, Starts
<1> QED BY <1>1, <1>5, <1>6, <1>7, <1>8, <1>9, <1>10, <1>11, <1>12 DEF PlanInv

LEMMA DeleteRunFromCacheReturns ==
  ASSUME PlanInv, CallReturns, Head(calls) = "deleteRunFromCache"
  PROVE  PlanInv'
<1>1. /\ CallsSorted' /\ Todo' = Todo \ {"deleteRunFromCache"} /\ "deleteRunFromCache" \in Todo
      /\ \A c \in Todo' : Rank[c] > 11
  BY HeadReturns, Ranks DEF PlanInv, CallReturns
<1>2. leaf # "Terminated"
  BY DEF PlanInv, LeafPlan, CallReturns
<1>3. Todo \cap {"startingNewLoop", "enterHandleFiles", "exitHandleLumis", "endLumi", "writeLumi",
        "deleteLumiFromCache", "destroyHandleLumis", "exitHandleRuns", "flagRun", "endRun",
        "writeRun"} = {}
  BY <1>1, Ranks
<1>4. run' = "none" /\ runException' = FALSE /\ UNCHANGED <<depth, exited, beginRunCalled,
        currentLumiEmpty, lumi, file, outputs, posted, config, leaf, unwinding, lumiException,
        abandoned>>
  BY DEF CallReturns, After, Posts, RunCalls, LumiCalls, FileCalls, OutputCalls
<1>5. Failures'
  BY <1>1, <1>2, <1>3, <1>4 DEF PlanInv, Failures, RunPlan, FileCalls, OutputCalls, Gone
<1>6. RunPlan'
  BY <1>1, <1>2, <1>3, <1>4 DEF PlanInv, Failures, RunPlan, LumiPlan, FilePlan, DepthPlan,
       ExitPlan, LeafPlan, HandleAll, BeginsRuns, EventCalls, OutputCalls, Gone, RunDone, Stages,
       RunCalls, LumiCalls
<1>7. LumiPlan'
  BY <1>1, <1>2, <1>3, <1>4 DEF PlanInv, Failures, RunPlan, LumiPlan, FilePlan, DepthPlan,
       ExitPlan, FileCalls, OutputCalls, Gone, RunDone, LumiDone, FileDone
<1>8. FilePlan'
  BY <1>1, <1>2, <1>3, <1>4 DEF PlanInv, Failures, RunPlan, LumiPlan, FilePlan, Starts, FileCalls,
       OutputCalls, Gone, RunDone, LumiDone, FileDone
<1>9. DepthPlan'
  BY <1>1, <1>2, <1>3, <1>4 DEF PlanInv, Failures, RunPlan, LumiPlan, FilePlan, DepthPlan,
       ExitPlan, LeafPlan, HandleAll, BeginsRuns, LeavesLumis, RunFlag, Gone, RunDone, LumiDone,
       FileDone, OutputsDone, Stages, RunCalls, LumiCalls
<1>10. ExitPlan'
  BY <1>1, <1>2, <1>3, <1>4 DEF PlanInv, Failures, RunPlan, LumiPlan, FilePlan, DepthPlan,
       ExitPlan, LeafPlan, HandleAll, BeginsRuns, EventCalls, OutputCalls, Gone, RunDone, LumiDone,
       FileDone, OutputsDone
<1>11. LeafPlan'
  BY <1>1, <1>2, <1>3, <1>4 DEF PlanInv, Failures, RunPlan, ExitPlan, LeafPlan, HandleAll
<1>12. RunFlag'
  BY <1>1, <1>2, <1>3, <1>4 DEF PlanInv, Failures, RunPlan, RunFlag, Saving, LumiPlan, DepthPlan,
       Gone, RunDone, LumiDone, RunCalls, LumiCalls, LeavesLumis, Starts
<1> QED BY <1>1, <1>5, <1>6, <1>7, <1>8, <1>9, <1>10, <1>11, <1>12 DEF PlanInv

LEMMA DestroyHandleRunsReturns ==
  ASSUME PlanInv, CallReturns, Head(calls) = "destroyHandleRuns"
  PROVE  PlanInv'
<1>1. /\ CallsSorted' /\ Todo' = Todo \ {"destroyHandleRuns"} /\ "destroyHandleRuns" \in Todo
      /\ \A c \in Todo' : Rank[c] > 12
  BY HeadReturns, Ranks DEF PlanInv, CallReturns
<1>2. leaf # "Terminated"
  BY DEF PlanInv, LeafPlan, CallReturns
<1>3. Todo \cap {"startingNewLoop", "enterHandleFiles", "exitHandleLumis", "endLumi", "writeLumi",
        "deleteLumiFromCache", "destroyHandleLumis", "exitHandleRuns", "flagRun", "endRun",
        "writeRun", "deleteRunFromCache"} = {}
  BY <1>1, Ranks
<1>4. depth' = depth - 1 /\ exited' = exited \ {depth} /\ UNCHANGED <<beginRunCalled,
        currentLumiEmpty, run, lumi, file, outputs, posted, config, leaf, unwinding, runException,
        lumiException, abandoned>>
  BY DEF CallReturns, After, Posts, RunCalls, LumiCalls, FileCalls, OutputCalls
<1>5. Failures'
  BY <1>1, <1>2, <1>3, <1>4 DEF PlanInv, Failures, RunPlan, FileCalls, OutputCalls, Gone
<1>6. RunPlan'
  BY <1>1, <1>2, <1>3, <1>4 DEF PlanInv, Failures, RunPlan, LumiPlan, FilePlan, DepthPlan,
       ExitPlan, FileCalls, OutputCalls, Gone, RunDone, LumiDone, FileDone
<1>7. LumiPlan'
  BY <1>1, <1>2, <1>3, <1>4 DEF PlanInv, Failures, RunPlan, LumiPlan, FilePlan, DepthPlan,
       ExitPlan, FileCalls, OutputCalls, Gone, RunDone, LumiDone, FileDone
<1>8. FilePlan'
  BY <1>1, <1>2, <1>3, <1>4 DEF PlanInv, Failures, RunPlan, LumiPlan, FilePlan, DepthPlan,
       ExitPlan, FileCalls, OutputCalls, Gone, RunDone, LumiDone, FileDone
<1>9. DepthPlan'
  BY <1>1, <1>2, <1>3, <1>4 DEF PlanInv, Failures, RunPlan, LumiPlan, FilePlan, DepthPlan,
       ExitPlan, FileCalls, OutputCalls, Gone, RunDone, LumiDone, FileDone
<1>10. ExitPlan'
  BY <1>1, <1>2, <1>3, <1>4 DEF PlanInv, Failures, RunPlan, LumiPlan, FilePlan, DepthPlan,
       ExitPlan, LeafPlan, HandleAll
<1>11. LeafPlan'
  BY <1>1, <1>2, <1>3, <1>4 DEF PlanInv, Failures, RunPlan, LumiPlan, FilePlan, DepthPlan,
       ExitPlan, LeafPlan, HandleAll
<1>12. RunFlag'
  BY <1>1, <1>2, <1>3, <1>4 DEF PlanInv, Failures, RunPlan, RunFlag, Saving, LumiPlan, DepthPlan,
       Gone, RunDone, LumiDone, RunCalls, LumiCalls, LeavesLumis, Starts
<1> QED BY <1>1, <1>5, <1>6, <1>7, <1>8, <1>9, <1>10, <1>11, <1>12 DEF PlanInv

LEMMA EnterHandleRunsReturns ==
  ASSUME PlanInv, CallReturns, Head(calls) = "enterHandleRuns"
  PROVE  PlanInv'
<1>1. /\ CallsSorted' /\ Todo' = Todo \ {"enterHandleRuns"} /\ "enterHandleRuns" \in Todo
      /\ \A c \in Todo' : Rank[c] > 13
  BY HeadReturns, Ranks DEF PlanInv, CallReturns
<1>2. leaf # "Terminated"
  BY DEF PlanInv, LeafPlan, CallReturns
<1>3. Todo \cap {"startingNewLoop", "enterHandleFiles", "exitHandleLumis", "endLumi", "writeLumi",
        "deleteLumiFromCache", "destroyHandleLumis", "exitHandleRuns", "flagRun", "endRun",
        "writeRun", "deleteRunFromCache", "destroyHandleRuns"} = {}
  BY <1>1, Ranks
<1>4. depth' = 2 /\ beginRunCalled' = FALSE /\ runException' = FALSE /\ UNCHANGED <<exited,
        currentLumiEmpty, run, lumi, file, outputs, posted, config, leaf, unwinding, lumiException,
        abandoned>>
  BY DEF CallReturns, After, Posts, RunCalls, LumiCalls, FileCalls, OutputCalls
<1>5. Failures'
  BY <1>1, <1>2, <1>3, <1>4 DEF PlanInv, Failures, RunPlan, FileCalls, OutputCalls, Gone
<1>6. RunPlan'
  BY <1>1, <1>2, <1>3, <1>4 DEF PlanInv, Failures, RunPlan, LumiPlan, FilePlan, DepthPlan,
       BeginsRuns, EventCalls, LeavesLumis
<1>7. LumiPlan'
  BY <1>1, <1>2, <1>3, <1>4 DEF PlanInv, Failures, RunPlan, LumiPlan, FilePlan, DepthPlan
<1>8. FilePlan'
  BY <1>1, <1>2, <1>3, <1>4 DEF PlanInv, Failures, RunPlan, LumiPlan, FilePlan, DepthPlan
<1>9. DepthPlan'
  BY <1>1, <1>2, <1>3, <1>4 DEF PlanInv, Failures, RunPlan, LumiPlan, FilePlan, DepthPlan,
       ExitPlan, RunDone, LumiDone, FileDone
<1>10. ExitPlan'
  BY <1>1, <1>2, <1>3, <1>4 DEF PlanInv, Failures, RunPlan, ExitPlan, LeafPlan, HandleAll
<1>11. LeafPlan'
  BY <1>1, <1>2, <1>3, <1>4 DEF PlanInv, Failures, RunPlan, LumiPlan, FilePlan, DepthPlan,
       ExitPlan, LeafPlan, HandleAll
<1>12. RunFlag'
  BY <1>1, <1>2, <1>3, <1>4 DEF PlanInv, Failures, RunPlan, RunFlag, Saving, LumiPlan, DepthPlan,
       Gone, RunDone, LumiDone, RunCalls, LumiCalls, LeavesLumis, Starts
<1> QED BY <1>1, <1>5, <1>6, <1>7, <1>8, <1>9, <1>10, <1>11, <1>12 DEF PlanInv

LEMMA ReadRunReturns ==
  ASSUME PlanInv, CallReturns, Head(calls) = "readRun"
  PROVE  PlanInv'
<1>1. /\ CallsSorted' /\ Todo' = Todo \ {"readRun"} /\ "readRun" \in Todo
      /\ \A c \in Todo' : Rank[c] > 14
  BY HeadReturns, Ranks DEF PlanInv, CallReturns
<1>2. leaf # "Terminated"
  BY DEF PlanInv, LeafPlan, CallReturns
<1>3. Todo \cap {"startingNewLoop", "enterHandleFiles", "exitHandleLumis", "endLumi", "writeLumi",
        "deleteLumiFromCache", "destroyHandleLumis", "exitHandleRuns", "flagRun", "endRun",
        "writeRun", "deleteRunFromCache", "destroyHandleRuns", "enterHandleRuns"} = {}
  BY <1>1, Ranks
<1>4. run' = "read" /\ runException' = FALSE /\ UNCHANGED <<depth, exited, beginRunCalled,
        currentLumiEmpty, lumi, file, outputs, posted, config, leaf, unwinding, lumiException,
        abandoned>>
  BY DEF CallReturns, After, Posts, RunCalls, LumiCalls, FileCalls, OutputCalls
<1>5. Failures'
  BY <1>1, <1>2, <1>3, <1>4 DEF PlanInv, Failures, RunPlan, FileCalls, OutputCalls, Gone
<1>6. RunPlan'
  BY <1>1, <1>2, <1>3, <1>4 DEF PlanInv, Failures, RunPlan, RunFlag, Gone, LumiPlan, FilePlan,
       DepthPlan, ExitPlan, LeafPlan, HandleAll, BeginsRuns, EventCalls, LeavesLumis, OutputsDone,
       Stages, RunCalls, LumiCalls
<1>7. LumiPlan'
  BY <1>1, <1>2, <1>3, <1>4 DEF PlanInv, Failures, RunPlan, LumiPlan
<1>8. FilePlan'
  BY <1>1, <1>2, <1>3, <1>4 DEF PlanInv, Failures, RunPlan, FilePlan
<1>9. DepthPlan'
  BY <1>1, <1>2, <1>3, <1>4 DEF PlanInv, Failures, RunPlan, LumiPlan, FilePlan, DepthPlan,
       ExitPlan, FileCalls, OutputCalls, Gone, RunDone, LumiDone, FileDone
<1>10. ExitPlan'
  BY <1>1, <1>2, <1>3, <1>4 DEF PlanInv, Failures, RunPlan, ExitPlan, LeafPlan, HandleAll
<1>11. LeafPlan'
  BY <1>1, <1>2, <1>3, <1>4 DEF PlanInv, Failures, RunPlan, ExitPlan, LeafPlan, HandleAll
<1>12. RunFlag'
  BY <1>1, <1>2, <1>3, <1>4 DEF PlanInv, Failures, RunPlan, RunFlag, Saving, LumiPlan, DepthPlan,
       Gone, RunDone, LumiDone, RunCalls, LumiCalls, LeavesLumis, Starts
<1> QED BY <1>1, <1>5, <1>6, <1>7, <1>8, <1>9, <1>10, <1>11, <1>12 DEF PlanInv

LEMMA ReadAndMergeRunReturns ==
  ASSUME PlanInv, CallReturns, Head(calls) = "readAndMergeRun"
  PROVE  PlanInv'
<1>1. /\ CallsSorted' /\ Todo' = Todo \ {"readAndMergeRun"} /\ "readAndMergeRun" \in Todo
      /\ \A c \in Todo' : Rank[c] > 15
  BY HeadReturns, Ranks DEF PlanInv, CallReturns
<1>2. leaf # "Terminated"
  BY DEF PlanInv, LeafPlan, CallReturns
<1>3. Todo \cap {"startingNewLoop", "enterHandleFiles", "exitHandleLumis", "endLumi", "writeLumi",
        "deleteLumiFromCache", "destroyHandleLumis", "exitHandleRuns", "flagRun", "endRun",
        "writeRun", "deleteRunFromCache", "destroyHandleRuns", "enterHandleRuns", "readRun"} = {}
  BY <1>1, Ranks
<1>4. UNCHANGED <<depth, exited, beginRunCalled, currentLumiEmpty, run, lumi, file, outputs,
        posted, config, leaf, unwinding, runException, lumiException, abandoned>>
  BY DEF CallReturns, After, Posts, RunCalls, LumiCalls, FileCalls, OutputCalls
<1>5. Failures'
  BY <1>1, <1>2, <1>3, <1>4 DEF PlanInv, Failures, RunPlan, FileCalls, OutputCalls, Gone
<1>6. RunPlan'
  BY <1>1, <1>2, <1>3, <1>4 DEF PlanInv, Failures, RunPlan, LumiPlan, LeafPlan, HandleAll,
       BeginsRuns, FileCalls, OutputCalls, Gone, RunDone, LumiDone, FileDone
<1>7. LumiPlan'
  BY <1>1, <1>2, <1>3, <1>4 DEF PlanInv, Failures, RunPlan, LumiPlan, LeafPlan, HandleAll,
       BeginsRuns, FileCalls, OutputCalls, Gone, RunDone, LumiDone, FileDone
<1>8. FilePlan'
  BY <1>1, <1>2, <1>3, <1>4 DEF PlanInv, Failures, RunPlan, LumiPlan, FilePlan, Starts, FileCalls,
       OutputCalls, Gone, RunDone, LumiDone, FileDone
<1>9. DepthPlan'
  BY <1>1, <1>2, <1>3, <1>4 DEF PlanInv, Failures, RunPlan, LumiPlan, FilePlan, DepthPlan,
       ExitPlan, LeafPlan, HandleAll, BeginsRuns, EventCalls, OutputCalls, Gone, RunDone, LumiDone,
       FileDone, OutputsDone
<1>10. ExitPlan'
  BY <1>1, <1>2, <1>3, <1>4 DEF PlanInv, Failures, RunPlan, ExitPlan, LeafPlan, HandleAll
<1>11. LeafPlan'
  BY <1>1, <1>2, <1>3, <1>4 DEF PlanInv, Failures, RunPlan, ExitPlan, LeafPlan, HandleAll
<1>12. RunFlag'
  BY <1>1, <1>2, <1>3, <1>4 DEF PlanInv, Failures, RunPlan, RunFlag, Saving, LumiPlan, DepthPlan,
       Gone, RunDone, LumiDone, RunCalls, LumiCalls, LeavesLumis, Starts
<1> QED BY <1>1, <1>5, <1>6, <1>7, <1>8, <1>9, <1>10, <1>11, <1>12 DEF PlanInv

LEMMA BeginRunReturns ==
  ASSUME PlanInv, CallReturns, Head(calls) = "beginRun"
  PROVE  PlanInv'
<1>1. /\ CallsSorted' /\ Todo' = Todo \ {"beginRun"} /\ "beginRun" \in Todo
      /\ \A c \in Todo' : Rank[c] > 16
  BY HeadReturns, Ranks DEF PlanInv, CallReturns
<1>2. leaf # "Terminated"
  BY DEF PlanInv, LeafPlan, CallReturns
<1>3. Todo \cap {"startingNewLoop", "enterHandleFiles", "exitHandleLumis", "endLumi", "writeLumi",
        "deleteLumiFromCache", "destroyHandleLumis", "exitHandleRuns", "flagRun", "endRun",
        "writeRun", "deleteRunFromCache", "destroyHandleRuns", "enterHandleRuns", "readRun",
        "readAndMergeRun"} = {}
  BY <1>1, Ranks
<1>4. run' = "begun" /\ beginRunCalled' = TRUE /\ runException' = FALSE /\ UNCHANGED <<depth,
        exited, currentLumiEmpty, lumi, file, outputs, posted, config, leaf, unwinding,
        lumiException, abandoned>>
  BY DEF CallReturns, After, Posts, RunCalls, LumiCalls, FileCalls, OutputCalls
<1>5. Failures'
  BY <1>1, <1>2, <1>3, <1>4 DEF PlanInv, Failures, RunPlan, FileCalls, OutputCalls, Gone
<1>6. RunPlan'
  BY <1>1, <1>2, <1>3, <1>4 DEF PlanInv, Failures, RunPlan, LumiPlan, OutputCalls, Gone, RunDone,
       Stages, RunCalls, LumiCalls
<1>7. LumiPlan'
  BY <1>1, <1>2, <1>3, <1>4 DEF PlanInv, Failures, RunPlan, LumiPlan, LeafPlan, HandleAll,
       BeginsRuns, FileCalls, OutputCalls, Gone, RunDone, LumiDone, FileDone
<1>8. FilePlan'
  BY <1>1, <1>2, <1>3, <1>4 DEF PlanInv, Failures, RunPlan, LumiPlan, FilePlan, DepthPlan,
       BeginsRuns, EventCalls, LeavesLumis
<1>9. DepthPlan'
  BY <1>1, <1>2, <1>3, <1>4 DEF PlanInv, Failures, RunPlan, LumiPlan, FilePlan, DepthPlan,
       ExitPlan, FileCalls, OutputCalls, Gone, RunDone, LumiDone, FileDone
<1>10. ExitPlan'
  BY <1>1, <1>2, <1>3, <1>4 DEF PlanInv, Failures, RunPlan, ExitPlan, LeafPlan, HandleAll
<1>11. LeafPlan'
  BY <1>1, <1>2, <1>3, <1>4 DEF PlanInv, Failures, RunPlan, ExitPlan, LeafPlan, HandleAll
<1>12. RunFlag'
  BY <1>1, <1>2, <1>3, <1>4 DEF PlanInv, Failures, RunPlan, RunFlag, Saving, LumiPlan, DepthPlan,
       Gone, RunDone, LumiDone, RunCalls, LumiCalls, LeavesLumis, Starts
<1> QED BY <1>1, <1>5, <1>6, <1>7, <1>8, <1>9, <1>10, <1>11, <1>12 DEF PlanInv

LEMMA EnterHandleLumisReturns ==
  ASSUME PlanInv, CallReturns, Head(calls) = "enterHandleLumis"
  PROVE  PlanInv'
<1>1. /\ CallsSorted' /\ Todo' = Todo \ {"enterHandleLumis"} /\ "enterHandleLumis" \in Todo
      /\ \A c \in Todo' : Rank[c] > 17
  BY HeadReturns, Ranks DEF PlanInv, CallReturns
<1>2. leaf # "Terminated"
  BY DEF PlanInv, LeafPlan, CallReturns
<1>3. Todo \cap {"startingNewLoop", "enterHandleFiles", "exitHandleLumis", "endLumi", "writeLumi",
        "deleteLumiFromCache", "destroyHandleLumis", "exitHandleRuns", "flagRun", "endRun",
        "writeRun", "deleteRunFromCache", "destroyHandleRuns", "enterHandleRuns", "readRun",
        "readAndMergeRun", "beginRun"} = {}
  BY <1>1, Ranks
<1>4. depth' = 3 /\ currentLumiEmpty' = TRUE /\ UNCHANGED <<exited, beginRunCalled, run, lumi,
        file, outputs, posted, config, leaf, unwinding, runException, lumiException, abandoned>>
  BY DEF CallReturns, After, Posts, RunCalls, LumiCalls, FileCalls, OutputCalls
<1>5. Failures'
  BY <1>1, <1>2, <1>3, <1>4 DEF PlanInv, Failures, RunPlan, FileCalls, OutputCalls, Gone
<1>6. RunPlan'
  BY <1>1, <1>2, <1>3, <1>4 DEF PlanInv, Failures, RunPlan, LumiPlan, FilePlan, DepthPlan,
       ExitPlan, LeafPlan, HandleAll, BeginsRuns, FileCalls, OutputCalls, Gone
<1>7. LumiPlan'
  BY <1>1, <1>2, <1>3, <1>4 DEF PlanInv, Failures, RunPlan, LumiPlan, FilePlan, DepthPlan,
       ExitPlan, LeafPlan, HandleAll
<1>8. FilePlan'
  BY <1>1, <1>2, <1>3, <1>4 DEF PlanInv, Failures, RunPlan, LumiPlan, FilePlan, DepthPlan
<1>9. DepthPlan'
  BY <1>1, <1>2, <1>3, <1>4 DEF PlanInv, Failures, RunPlan, LumiPlan, FilePlan, DepthPlan
<1>10. ExitPlan'
  BY <1>1, <1>2, <1>3, <1>4 DEF PlanInv, Failures, RunPlan, ExitPlan, LeafPlan, HandleAll
<1>11. LeafPlan'
  BY <1>1, <1>2, <1>3, <1>4 DEF PlanInv, Failures, RunPlan, ExitPlan, LeafPlan, HandleAll
<1>12. RunFlag'
  BY <1>1, <1>2, <1>3, <1>4 DEF PlanInv, Failures, RunPlan, RunFlag, Saving, LumiPlan, DepthPlan,
       Gone, RunDone, LumiDone, RunCalls, LumiCalls, LeavesLumis, Starts
<1> QED BY <1>1, <1>5, <1>6, <1>7, <1>8, <1>9, <1>10, <1>11, <1>12 DEF PlanInv

LEMMA ReadLuminosityBlockReturns ==
  ASSUME PlanInv, CallReturns, Head(calls) = "readLuminosityBlock"
  PROVE  PlanInv'
<1>1. /\ CallsSorted' /\ Todo' = Todo \ {"readLuminosityBlock"} /\ "readLuminosityBlock" \in Todo
      /\ \A c \in Todo' : Rank[c] > 18
  BY HeadReturns, Ranks DEF PlanInv, CallReturns
<1>2. leaf # "Terminated"
  BY DEF PlanInv, LeafPlan, CallReturns
<1>3. Todo \cap {"startingNewLoop", "enterHandleFiles", "exitHandleLumis", "endLumi", "writeLumi",
        "deleteLumiFromCache", "destroyHandleLumis", "exitHandleRuns", "flagRun", "endRun",
        "writeRun", "deleteRunFromCache", "destroyHandleRuns", "enterHandleRuns", "readRun",
        "readAndMergeRun", "beginRun", "enterHandleLumis"} = {}
  BY <1>1, Ranks
<1>4. lumi' = "read" /\ currentLumiEmpty' = TRUE /\ UNCHANGED <<depth, exited, beginRunCalled, run,
        file, outputs, posted, config, leaf, unwinding, runException, lumiException, abandoned>>
  BY DEF CallReturns, After, Posts, RunCalls, LumiCalls, FileCalls, OutputCalls
<1>5. Failures'
  BY <1>1, <1>2, <1>3, <1>4 DEF PlanInv, Failures, RunPlan, FileCalls, OutputCalls, Gone
<1>6. RunPlan'
  BY <1>1, <1>2, <1>3, <1>4 DEF PlanInv, Failures, RunPlan, LumiPlan, LeafPlan, HandleAll,
       BeginsRuns, FileCalls, OutputCalls, Gone
<1>7. LumiPlan'
  BY <1>1, <1>2, <1>3, <1>4 DEF PlanInv, Failures, RunPlan, LumiPlan, FilePlan, DepthPlan,
       ExitPlan, LeafPlan, HandleAll, BeginsRuns, EventCalls, LeavesLumis, OutputsDone, Stages,
       RunCalls, LumiCalls
<1>8. FilePlan'
  BY <1>1, <1>2, <1>3, <1>4 DEF PlanInv, Failures, RunPlan, LumiPlan, FilePlan
<1>9. DepthPlan'
  BY <1>1, <1>2, <1>3, <1>4 DEF PlanInv, Failures, RunPlan, LumiPlan, FilePlan, DepthPlan
<1>10. ExitPlan'
  BY <1>1, <1>2, <1>3, <1>4 DEF PlanInv, Failures, RunPlan, ExitPlan, LeafPlan, HandleAll
<1>11. LeafPlan'
  BY <1>1, <1>2, <1>3, <1>4 DEF PlanInv, Failures, RunPlan, ExitPlan, LeafPlan, HandleAll
<1>12. RunFlag'
  BY <1>1, <1>2, <1>3, <1>4 DEF PlanInv, Failures, RunPlan, RunFlag, Saving, LumiPlan, DepthPlan,
       Gone, RunDone, LumiDone, RunCalls, LumiCalls, LeavesLumis, Starts
<1> QED BY <1>1, <1>5, <1>6, <1>7, <1>8, <1>9, <1>10, <1>11, <1>12 DEF PlanInv

LEMMA BeginLumiReturns ==
  ASSUME PlanInv, CallReturns, Head(calls) = "beginLumi"
  PROVE  PlanInv'
<1>1. /\ CallsSorted' /\ Todo' = Todo \ {"beginLumi"} /\ "beginLumi" \in Todo
      /\ \A c \in Todo' : Rank[c] > 19
  BY HeadReturns, Ranks DEF PlanInv, CallReturns
<1>2. leaf # "Terminated"
  BY DEF PlanInv, LeafPlan, CallReturns
<1>3. Todo \cap {"startingNewLoop", "enterHandleFiles", "exitHandleLumis", "endLumi", "writeLumi",
        "deleteLumiFromCache", "destroyHandleLumis", "exitHandleRuns", "flagRun", "endRun",
        "writeRun", "deleteRunFromCache", "destroyHandleRuns", "enterHandleRuns", "readRun",
        "readAndMergeRun", "beginRun", "enterHandleLumis", "readLuminosityBlock"} = {}
  BY <1>1, Ranks
<1>4. lumi' = "begun" /\ UNCHANGED <<depth, exited, beginRunCalled, currentLumiEmpty, run, file,
        outputs, posted, config, leaf, unwinding, runException, lumiException, abandoned>>
  BY DEF CallReturns, After, Posts, RunCalls, LumiCalls, FileCalls, OutputCalls
<1>5. Failures'
  BY <1>1, <1>2, <1>3, <1>4 DEF PlanInv, Failures, RunPlan, FileCalls, OutputCalls, Gone
<1>6. RunPlan'
  BY <1>1, <1>2, <1>3, <1>4 DEF PlanInv, Failures, RunPlan, LumiPlan, FilePlan, Starts, FileCalls,
       OutputCalls, Gone, RunDone, LumiDone, FileDone
<1>7. LumiPlan'
  BY <1>1, <1>2, <1>3, <1>4 DEF PlanInv, Failures, RunPlan, LumiPlan, LeafPlan, HandleAll,
       BeginsRuns, FileCalls, OutputCalls, Gone, RunDone, LumiDone, FileDone
<1>8. FilePlan'
  BY <1>1, <1>2, <1>3, <1>4 DEF PlanInv, Failures, RunPlan, LumiPlan, FilePlan, DepthPlan,
       BeginsRuns, EventCalls, LeavesLumis
<1>9. DepthPlan'
  BY <1>1, <1>2, <1>3, <1>4 DEF PlanInv, Failures, RunPlan, LumiPlan, FilePlan, DepthPlan,
       ExitPlan, FileCalls, OutputCalls, Gone, RunDone, LumiDone, FileDone
<1>10. ExitPlan'
  BY <1>1, <1>2, <1>3, <1>4 DEF PlanInv, Failures, RunPlan, ExitPlan, LeafPlan, HandleAll
<1>11. LeafPlan'
  BY <1>1, <1>2, <1>3, <1>4 DEF PlanInv, Failures, RunPlan, ExitPlan, LeafPlan, HandleAll
<1>12. RunFlag'
  BY <1>1, <1>2, <1>3, <1>4 DEF PlanInv, Failures, RunPlan, RunFlag, Saving, LumiPlan, DepthPlan,
       Gone, RunDone, LumiDone, RunCalls, LumiCalls, LeavesLumis, Starts
<1> QED BY <1>1, <1>5, <1>6, <1>7, <1>8, <1>9, <1>10, <1>11, <1>12 DEF PlanInv

LEMMA MarkNonEmptyReturns ==
  ASSUME PlanInv, CallReturns, Head(calls) = "markNonEmpty"
  PROVE  PlanInv'
<1>1. /\ CallsSorted' /\ Todo' = Todo \ {"markNonEmpty"} /\ "markNonEmpty" \in Todo
      /\ \A c \in Todo' : Rank[c] > 20
  BY HeadReturns, Ranks DEF PlanInv, CallReturns
<1>2. leaf # "Terminated"
  BY DEF PlanInv, LeafPlan, CallReturns
<1>3. Todo \cap {"startingNewLoop", "enterHandleFiles", "exitHandleLumis", "endLumi", "writeLumi",
        "deleteLumiFromCache", "destroyHandleLumis", "exitHandleRuns", "flagRun", "endRun",
        "writeRun", "deleteRunFromCache", "destroyHandleRuns", "enterHandleRuns", "readRun",
        "readAndMergeRun", "beginRun", "enterHandleLumis", "readLuminosityBlock", "beginLumi"} = {}
  BY <1>1, Ranks
<1>4. currentLumiEmpty' = FALSE /\ UNCHANGED <<depth, exited, beginRunCalled, run, lumi, file,
        outputs, posted, config, leaf, unwinding, runException, lumiException, abandoned>>
  BY DEF CallReturns, After, Posts, RunCalls, LumiCalls, FileCalls, OutputCalls
<1>5. Failures'
  BY <1>1, <1>2, <1>3, <1>4 DEF PlanInv, Failures, RunPlan, FileCalls, OutputCalls, Gone
<1>6. RunPlan'
  BY <1>1, <1>2, <1>3, <1>4 DEF PlanInv, Failures, RunPlan, LumiPlan, FilePlan, Starts, FileCalls,
       OutputCalls, Gone, RunDone, LumiDone, FileDone
<1>7. LumiPlan'
  BY <1>1, <1>2, <1>3, <1>4 DEF PlanInv, Failures, RunPlan, LumiPlan, FilePlan, Starts, FileCalls,
       OutputCalls, Gone, RunDone, LumiDone, FileDone
<1>8. FilePlan'
  BY <1>1, <1>2, <1>3, <1>4 DEF PlanInv, Failures, RunPlan, LumiPlan, FilePlan, DepthPlan,
       BeginsRuns, EventCalls, LeavesLumis
<1>9. DepthPlan'
  BY <1>1, <1>2, <1>3, <1>4 DEF PlanInv, Failures, RunPlan, LumiPlan, FilePlan, DepthPlan,
       ExitPlan, FileCalls, OutputCalls, Gone, RunDone, LumiDone, FileDone
<1>10. ExitPlan'
  BY <1>1, <1>2, <1>3, <1>4 DEF PlanInv, Failures, RunPlan, ExitPlan, LeafPlan, HandleAll
<1>11. LeafPlan'
  BY <1>1, <1>2, <1>3, <1>4 DEF PlanInv, Failures, RunPlan, ExitPlan, LeafPlan, HandleAll
<1>12. RunFlag'
  BY <1>1, <1>2, <1>3, <1>4 DEF PlanInv, Failures, RunPlan, RunFlag, Saving, LumiPlan, DepthPlan,
       Gone, RunDone, LumiDone, RunCalls, LumiCalls, LeavesLumis, Starts
<1> QED BY <1>1, <1>5, <1>6, <1>7, <1>8, <1>9, <1>10, <1>11, <1>12 DEF PlanInv

LEMMA ReadAndProcessEventReturns ==
  ASSUME PlanInv, CallReturns, Head(calls) = "readAndProcessEvent"
  PROVE  PlanInv'
<1>1. /\ CallsSorted' /\ Todo' = Todo \ {"readAndProcessEvent"} /\ "readAndProcessEvent" \in Todo
      /\ \A c \in Todo' : Rank[c] > 21
  BY HeadReturns, Ranks DEF PlanInv, CallReturns
<1>2. leaf # "Terminated"
  BY DEF PlanInv, LeafPlan, CallReturns
<1>3. Todo \cap {"startingNewLoop", "enterHandleFiles", "exitHandleLumis", "endLumi", "writeLumi",
        "deleteLumiFromCache", "destroyHandleLumis", "exitHandleRuns", "flagRun", "endRun",
        "writeRun", "deleteRunFromCache", "destroyHandleRuns", "enterHandleRuns", "readRun",
        "readAndMergeRun", "beginRun", "enterHandleLumis", "readLuminosityBlock", "beginLumi",
        "markNonEmpty"} = {}
  BY <1>1, Ranks
<1>4. posted' \in {"none", "Stop"} /\ UNCHANGED <<depth, exited, beginRunCalled, currentLumiEmpty,
        run, lumi, file, outputs, config, leaf, unwinding, runException, lumiException, abandoned>>
  BY DEF CallReturns, After, Posts, RunCalls, LumiCalls, FileCalls, OutputCalls
<1>5. Failures'
  BY <1>1, <1>2, <1>3, <1>4 DEF PlanInv, Failures, RunPlan, FileCalls, OutputCalls, Gone
<1>6. RunPlan'
  BY <1>1, <1>2, <1>3, <1>4 DEF PlanInv, Failures, RunPlan, LumiPlan, LeafPlan, HandleAll,
       BeginsRuns, FileCalls, OutputCalls, Gone, RunDone, LumiDone, FileDone
<1>7. LumiPlan'
  BY <1>1, <1>2, <1>3, <1>4 DEF PlanInv, Failures, RunPlan, LumiPlan, LeafPlan, HandleAll,
       BeginsRuns, FileCalls, OutputCalls, Gone, RunDone, LumiDone, FileDone
<1>8. FilePlan'
  BY <1>1, <1>2, <1>3, <1>4 DEF PlanInv, Failures, RunPlan, LumiPlan, FilePlan, Starts, FileCalls,
       OutputCalls, Gone, RunDone, LumiDone, FileDone
<1>9. DepthPlan'
  BY <1>1, <1>2, <1>3, <1>4 DEF PlanInv, Failures, RunPlan, LumiPlan, FilePlan, DepthPlan,
       ExitPlan, LeafPlan, HandleAll, BeginsRuns, EventCalls, OutputCalls, Gone, RunDone, LumiDone,
       FileDone, OutputsDone
<1>10. ExitPlan'
  BY <1>1, <1>2, <1>3, <1>4 DEF PlanInv, Failures, RunPlan, ExitPlan, LeafPlan, HandleAll
<1>11. LeafPlan'
  BY <1>1, <1>2, <1>3, <1>4 DEF PlanInv, Failures, RunPlan, ExitPlan, LeafPlan, HandleAll
<1>12. RunFlag'
  BY <1>1, <1>2, <1>3, <1>4 DEF PlanInv, Failures, RunPlan, RunFlag, Saving, LumiPlan, DepthPlan,
       Gone, RunDone, LumiDone, RunCalls, LumiCalls, LeavesLumis, Starts
<1> QED BY <1>1, <1>5, <1>6, <1>7, <1>8, <1>9, <1>10, <1>11, <1>12 DEF PlanInv

LEMMA ReadAndMergeLumiReturns ==
  ASSUME PlanInv, CallReturns, Head(calls) = "readAndMergeLumi"
  PROVE  PlanInv'
<1>1. /\ CallsSorted' /\ Todo' = Todo \ {"readAndMergeLumi"} /\ "readAndMergeLumi" \in Todo
      /\ \A c \in Todo' : Rank[c] > 22
  BY HeadReturns, Ranks DEF PlanInv, CallReturns
<1>2. leaf # "Terminated"
  BY DEF PlanInv, LeafPlan, CallReturns
<1>3. Todo \cap {"startingNewLoop", "enterHandleFiles", "exitHandleLumis", "endLumi", "writeLumi",
        "deleteLumiFromCache", "destroyHandleLumis", "exitHandleRuns", "flagRun", "endRun",
        "writeRun", "deleteRunFromCache", "destroyHandleRuns", "enterHandleRuns", "readRun",
        "readAndMergeRun", "beginRun", "enterHandleLumis", "readLuminosityBlock", "beginLumi",
        "markNonEmpty", "readAndProcessEvent"} = {}
  BY <1>1, Ranks
<1>4. UNCHANGED <<depth, exited, beginRunCalled, currentLumiEmpty, run, lumi, file, outputs,
        posted, config, leaf, unwinding, runException, lumiException, abandoned>>
  BY DEF CallReturns, After, Posts, RunCalls, LumiCalls, FileCalls, OutputCalls
<1>5. Failures'
  BY <1>1, <1>2, <1>3, <1>4 DEF PlanInv, Failures, RunPlan, FileCalls, OutputCalls, Gone
<1>6. RunPlan'
  BY <1>1, <1>2, <1>3, <1>4 DEF PlanInv, Failures, RunPlan, LumiPlan, LeafPlan, HandleAll,
       BeginsRuns, FileCalls, OutputCalls, Gone, RunDone, LumiDone, FileDone
<1>7. LumiPlan'
  BY <1>1, <1>2, <1>3, <1>4 DEF PlanInv, Failures, RunPlan, LumiPlan, LeafPlan, HandleAll,
       BeginsRuns, FileCalls, OutputCalls, Gone, RunDone, LumiDone, FileDone
<1>8. FilePlan'
  BY <1>1, <1>2, <1>3, <1>4 DEF PlanInv, Failures, RunPlan, LumiPlan, FilePlan, Starts, FileCalls,
       OutputCalls, Gone, RunDone, LumiDone, FileDone
<1>9. DepthPlan'
  BY <1>1, <1>2, <1>3, <1>4 DEF PlanInv, Failures, RunPlan, LumiPlan, FilePlan, DepthPlan,
       ExitPlan, LeafPlan, HandleAll, BeginsRuns, EventCalls, OutputCalls, Gone, RunDone, LumiDone,
       FileDone, OutputsDone
<1>10. ExitPlan'
  BY <1>1, <1>2, <1>3, <1>4 DEF PlanInv, Failures, RunPlan, ExitPlan, LeafPlan, HandleAll
<1>11. LeafPlan'
  BY <1>1, <1>2, <1>3, <1>4 DEF PlanInv, Failures, RunPlan, ExitPlan, LeafPlan, HandleAll
<1>12. RunFlag'
  BY <1>1, <1>2, <1>3, <1>4 DEF PlanInv, Failures, RunPlan, RunFlag, Saving, LumiPlan, DepthPlan,
       Gone, RunDone, LumiDone, RunCalls, LumiCalls, LeavesLumis, Starts
<1> QED BY <1>1, <1>5, <1>6, <1>7, <1>8, <1>9, <1>10, <1>11, <1>12 DEF PlanInv

LEMMA ExitHandleFilesReturns ==
  ASSUME PlanInv, CallReturns, Head(calls) = "exitHandleFiles"
  PROVE  PlanInv'
<1>1. /\ CallsSorted' /\ Todo' = Todo \ {"exitHandleFiles"} /\ "exitHandleFiles" \in Todo
      /\ \A c \in Todo' : Rank[c] > 23
  BY HeadReturns, Ranks DEF PlanInv, CallReturns
<1>11. leaf # "Terminated"
  BY DEF PlanInv, LeafPlan, CallReturns
<1>10. Todo \cap {"startingNewLoop", "enterHandleFiles", "exitHandleLumis", "endLumi", "writeLumi",
        "deleteLumiFromCache", "destroyHandleLumis", "exitHandleRuns", "flagRun", "endRun",
        "writeRun", "deleteRunFromCache", "destroyHandleRuns", "enterHandleRuns", "readRun",
        "readAndMergeRun", "beginRun", "enterHandleLumis", "readLuminosityBlock", "beginLumi",
        "markNonEmpty", "readAndProcessEvent", "readAndMergeLumi"} = {}
  BY <1>1, Ranks
<1>2. exited' = exited \cup {1} /\ UNCHANGED <<depth, beginRunCalled, currentLumiEmpty, run, lumi,
        file, outputs, posted, config, leaf, unwinding, runException, lumiException, abandoned>>
  BY DEF CallReturns, After, Posts, RunCalls, LumiCalls, FileCalls, OutputCalls
<1>12. Todo' \subseteq FileCalls \cup OutputCalls \cup {"destroyHandleFiles", "endOfLoop",
         "doErrorStuff"}
  <2>1. Todo \subseteq Call
    BY DEF PlanInv, CallsSorted, Sorted, Todo, Items
  <2>2. Todo \cap {"prepareForNextLoop", "rewindInput"} = {}
    BY <1>1 DEF PlanInv, LeafPlan
  <2>3. "exitHandleFiles" \notin Todo'
    BY <1>1
  <2> QED BY <1>1, <1>10, <2>1, <2>2, <2>3 DEF Call, RunCalls, LumiCalls, OtherCalls, Own
<1>3. Failures'
  BY <1>1, <1>2 DEF PlanInv, Failures, RunPlan, FileCalls, OutputCalls, Gone
<1>4. RunPlan'
  BY <1>1, <1>2, <1>10, <1>11, <1>12 DEF PlanInv, Failures, RunPlan, LumiPlan, FilePlan, DepthPlan,
       ExitPlan, FileCalls, OutputCalls, Gone, RunDone, LumiDone, FileDone
<1>5. LumiPlan'
  BY <1>1, <1>2, <1>10, <1>11, <1>12 DEF PlanInv, Failures, RunPlan, LumiPlan, FilePlan, DepthPlan,
       ExitPlan, FileCalls, OutputCalls, Gone, RunDone, LumiDone, FileDone
<1>6. FilePlan'
  BY <1>1, <1>2 DEF PlanInv, Failures, RunPlan, LumiPlan, FilePlan, Starts, FileCalls, OutputCalls,
       Gone, RunDone, LumiDone, FileDone
<1>7. DepthPlan'
  BY <1>1, <1>2, <1>10, <1>11, <1>12 DEF PlanInv, Failures, RunPlan, LumiPlan, FilePlan, DepthPlan,
       ExitPlan, FileCalls, OutputCalls, Gone, RunDone, LumiDone, FileDone
<1>8. ExitPlan'
  BY <1>1, <1>2, <1>10, <1>11, <1>12 DEF PlanInv, Failures, RunPlan, LumiPlan, FilePlan, DepthPlan,
       ExitPlan, LeafPlan, HandleAll
<1>9. LeafPlan'
  BY <1>1, <1>2, <1>10, <1>11, <1>12 DEF PlanInv, Failures, RunPlan, ExitPlan, LeafPlan, HandleAll
<1>13. RunFlag'
  BY <1>1, <1>2, <1>4 DEF PlanInv, Failures, RunPlan, RunFlag, Saving, LumiPlan, DepthPlan, Gone,
       RunDone, LumiDone, RunCalls, LumiCalls, LeavesLumis, Starts
<1> QED BY <1>1, <1>3, <1>4, <1>5, <1>6, <1>7, <1>8, <1>9, <1>13 DEF PlanInv

LEMMA RespondToCloseInputFileReturns ==
  ASSUME PlanInv, CallReturns, Head(calls) = "respondToCloseInputFile"
  PROVE  PlanInv'
<1>1. /\ CallsSorted' /\ Todo' = Todo \ {"respondToCloseInputFile"} /\ "respondToCloseInputFile" \in Todo
      /\ \A c \in Todo' : Rank[c] > 24
  BY HeadReturns, Ranks DEF PlanInv, CallReturns
<1>2. leaf # "Terminated"
  BY DEF PlanInv, LeafPlan, CallReturns
<1>3. Todo \cap {"startingNewLoop", "enterHandleFiles", "exitHandleLumis", "endLumi", "writeLumi",
        "deleteLumiFromCache", "destroyHandleLumis", "exitHandleRuns", "flagRun", "endRun",
        "writeRun", "deleteRunFromCache", "destroyHandleRuns", "enterHandleRuns", "readRun",
        "readAndMergeRun", "beginRun", "enterHandleLumis", "readLuminosityBlock", "beginLumi",
        "markNonEmpty", "readAndProcessEvent", "readAndMergeLumi", "exitHandleFiles"} = {}
  BY <1>1, Ranks
<1>4. UNCHANGED <<depth, exited, beginRunCalled, currentLumiEmpty, run, lumi, file, outputs,
        posted, config, leaf, unwinding, runException, lumiException, abandoned>>
  BY DEF CallReturns, After, Posts, RunCalls, LumiCalls, FileCalls, OutputCalls
<1>5. Failures'
  BY <1>1, <1>2, <1>3, <1>4 DEF PlanInv, Failures, RunPlan, FileCalls, OutputCalls, Gone
<1>6. RunPlan'
  BY <1>1, <1>2, <1>3, <1>4 DEF PlanInv, Failures, RunPlan, LumiPlan, LeafPlan, HandleAll,
       BeginsRuns, FileCalls, OutputCalls, Gone, RunDone, LumiDone, FileDone
<1>7. LumiPlan'
  BY <1>1, <1>2, <1>3, <1>4 DEF PlanInv, Failures, RunPlan, LumiPlan, LeafPlan, HandleAll,
       BeginsRuns, FileCalls, OutputCalls, Gone, RunDone, LumiDone, FileDone
<1>8. FilePlan'
  BY <1>1, <1>2, <1>3, <1>4 DEF PlanInv, Failures, RunPlan, LumiPlan, FilePlan, Starts, FileCalls,
       OutputCalls, Gone, RunDone, LumiDone, FileDone
<1>9. DepthPlan'
  BY <1>1, <1>2, <1>3, <1>4 DEF PlanInv, Failures, RunPlan, LumiPlan, FilePlan, DepthPlan,
       ExitPlan, LeafPlan, HandleAll, BeginsRuns, EventCalls, OutputCalls, Gone, RunDone, LumiDone,
       FileDone, OutputsDone
<1>10. ExitPlan'
  BY <1>1, <1>2, <1>3, <1>4 DEF PlanInv, Failures, RunPlan, LumiPlan, FilePlan, DepthPlan,
       ExitPlan, LeafPlan, HandleAll, BeginsRuns, EventCalls, OutputCalls, Gone, RunDone, LumiDone,
       FileDone, OutputsDone
<1>11. LeafPlan'
  BY <1>1, <1>2, <1>3, <1>4 DEF PlanInv, Failures, RunPlan, ExitPlan, LeafPlan, HandleAll
<1>12. RunFlag'
  BY <1>1, <1>2, <1>3, <1>4 DEF PlanInv, Failures, RunPlan, RunFlag, Saving, LumiPlan, DepthPlan,
       Gone, RunDone, LumiDone, RunCalls, LumiCalls, LeavesLumis, Starts
<1> QED BY <1>1, <1>5, <1>6, <1>7, <1>8, <1>9, <1>10, <1>11, <1>12 DEF PlanInv

LEMMA CloseInputFileReturns ==
  ASSUME PlanInv, CallReturns, Head(calls) = "closeInputFile"
  PROVE  PlanInv'
<1>1. /\ CallsSorted' /\ Todo' = Todo \ {"closeInputFile"} /\ "closeInputFile" \in Todo
      /\ \A c \in Todo' : Rank[c] > 25
  BY HeadReturns, Ranks DEF PlanInv, CallReturns
<1>2. leaf # "Terminated"
  BY DEF PlanInv, LeafPlan, CallReturns
<1>3. Todo \cap {"startingNewLoop", "enterHandleFiles", "exitHandleLumis", "endLumi", "writeLumi",
        "deleteLumiFromCache", "destroyHandleLumis", "exitHandleRuns", "flagRun", "endRun",
        "writeRun", "deleteRunFromCache", "destroyHandleRuns", "enterHandleRuns", "readRun",
        "readAndMergeRun", "beginRun", "enterHandleLumis", "readLuminosityBlock", "beginLumi",
        "markNonEmpty", "readAndProcessEvent", "readAndMergeLumi", "exitHandleFiles",
        "respondToCloseInputFile"} = {}
  BY <1>1, Ranks
<1>4. file' = "closed" /\ UNCHANGED <<depth, exited, beginRunCalled, currentLumiEmpty, run, lumi,
        outputs, posted, config, leaf, unwinding, runException, lumiException, abandoned>>
  BY DEF CallReturns, After, Posts, RunCalls, LumiCalls, FileCalls, OutputCalls
<1>5. Failures'
  BY <1>1, <1>2, <1>3, <1>4 DEF PlanInv, Failures, RunPlan, FileCalls, OutputCalls, Gone
<1>6. RunPlan'
  BY <1>1, <1>2, <1>3, <1>4 DEF PlanInv, Failures, RunPlan, LumiPlan, LeafPlan, HandleAll,
       BeginsRuns, FileCalls, OutputCalls, Gone, RunDone, LumiDone, FileDone
<1>7. LumiPlan'
  BY <1>1, <1>2, <1>3, <1>4 DEF PlanInv, Failures, RunPlan, LumiPlan, LeafPlan, HandleAll,
       BeginsRuns, FileCalls, OutputCalls, Gone, RunDone, LumiDone, FileDone
<1>8. FilePlan'
  BY <1>1, <1>2, <1>3, <1>4 DEF PlanInv, Failures, RunPlan, LumiPlan, FilePlan, Starts, FileCalls,
       OutputCalls, Gone, RunDone, LumiDone, FileDone
<1>9. DepthPlan'
  BY <1>1, <1>2, <1>3, <1>4 DEF PlanInv, Failures, RunPlan, LumiPlan, FilePlan, DepthPlan,
       ExitPlan, LeafPlan, HandleAll, BeginsRuns, EventCalls, OutputCalls, Gone, RunDone, LumiDone,
       FileDone, OutputsDone
<1>10. ExitPlan'
  BY <1>1, <1>2, <1>3, <1>4 DEF PlanInv, Failures, RunPlan, LumiPlan, FilePlan, DepthPlan,
       ExitPlan, LeafPlan, HandleAll, BeginsRuns, EventCalls, OutputCalls, Gone, RunDone, LumiDone,
       FileDone, OutputsDone
<1>11. LeafPlan'
  BY <1>1, <1>2, <1>3, <1>4 DEF PlanInv, Failures, RunPlan, ExitPlan, LeafPlan, HandleAll
<1>12. RunFlag'
  BY <1>1, <1>2, <1>3, <1>4 DEF PlanInv, Failures, RunPlan, RunFlag, Saving, LumiPlan, DepthPlan,
       Gone, RunDone, LumiDone, RunCalls, LumiCalls, LeavesLumis, Starts
<1> QED BY <1>1, <1>5, <1>6, <1>7, <1>8, <1>9, <1>10, <1>11, <1>12 DEF PlanInv

LEMMA CloseOutputFilesReturns ==
  ASSUME PlanInv, CallReturns, Head(calls) = "closeOutputFiles"
  PROVE  PlanInv'
<1>1. /\ CallsSorted' /\ Todo' = Todo \ {"closeOutputFiles"} /\ "closeOutputFiles" \in Todo
      /\ \A c \in Todo' : Rank[c] > 26
  BY HeadReturns, Ranks DEF PlanInv, CallReturns
<1>2. leaf # "Terminated"
  BY DEF PlanInv, LeafPlan, CallReturns
<1>3. Todo \cap {"startingNewLoop", "enterHandleFiles", "exitHandleLumis", "endLumi", "writeLumi",
        "deleteLumiFromCache", "destroyHandleLumis", "exitHandleRuns", "flagRun", "endRun",
        "writeRun", "deleteRunFromCache", "destroyHandleRuns", "enterHandleRuns", "readRun",
        "readAndMergeRun", "beginRun", "enterHandleLumis", "readLuminosityBlock", "beginLumi",
        "markNonEmpty", "readAndProcessEvent", "readAndMergeLumi", "exitHandleFiles",
        "respondToCloseInputFile", "closeInputFile"} = {}
  BY <1>1, Ranks
<1>4. outputs' = "closed" /\ UNCHANGED <<depth, exited, beginRunCalled, currentLumiEmpty, run,
        lumi, file, posted, config, leaf, unwinding, runException, lumiException, abandoned>>
  BY DEF CallReturns, After, Posts, RunCalls, LumiCalls, FileCalls, OutputCalls
<1>5. Failures'
  BY <1>1, <1>2, <1>3, <1>4 DEF PlanInv, Failures, RunPlan, FileCalls, OutputCalls, Gone
<1>6. RunPlan'
  BY <1>1, <1>2, <1>3, <1>4 DEF PlanInv, Failures, RunPlan, LumiPlan, FilePlan, Starts, FileCalls,
       OutputCalls, Gone, RunDone, LumiDone, FileDone
<1>7. LumiPlan'
  BY <1>1, <1>2, <1>3, <1>4 DEF PlanInv, Failures, RunPlan, LumiPlan, FilePlan, Starts, FileCalls,
       OutputCalls, Gone, RunDone, LumiDone, FileDone
<1>8. FilePlan'
  BY <1>1, <1>2, <1>3, <1>4 DEF PlanInv, Failures, RunPlan, FilePlan
<1>9. DepthPlan'
  BY <1>1, <1>2, <1>3, <1>4 DEF PlanInv, Failures, RunPlan, LumiPlan, FilePlan, DepthPlan,
       ExitPlan, LeafPlan, HandleAll, BeginsRuns, EventCalls, OutputCalls, Gone, RunDone, LumiDone,
       FileDone, OutputsDone
<1>10. ExitPlan'
  BY <1>1, <1>2, <1>3, <1>4 DEF PlanInv, Failures, RunPlan, LumiPlan, FilePlan, DepthPlan,
       ExitPlan, LeafPlan, HandleAll, BeginsRuns, EventCalls, OutputCalls, Gone, RunDone, LumiDone,
       FileDone, OutputsDone
<1>11. LeafPlan'
  BY <1>1, <1>2, <1>3, <1>4 DEF PlanInv, Failures, RunPlan, ExitPlan, LeafPlan, HandleAll
<1>12. RunFlag'
  BY <1>1, <1>2, <1>3, <1>4 DEF PlanInv, Failures, RunPlan, RunFlag, Saving, LumiPlan, DepthPlan,
       Gone, RunDone, LumiDone, RunCalls, LumiCalls, LeavesLumis, Starts
<1> QED BY <1>1, <1>5, <1>6, <1>7, <1>8, <1>9, <1>10, <1>11, <1>12 DEF PlanInv

LEMMA ReadFileReturns ==
  ASSUME PlanInv, CallReturns, Head(calls) = "readFile"
  PROVE  PlanInv'
<1>1. /\ CallsSorted' /\ Todo' = Todo \ {"readFile"} /\ "readFile" \in Todo
      /\ \A c \in Todo' : Rank[c] > 27
  BY HeadReturns, Ranks DEF PlanInv, CallReturns
<1>2. leaf # "Terminated"
  BY DEF PlanInv, LeafPlan, CallReturns
<1>3. Todo \cap {"startingNewLoop", "enterHandleFiles", "exitHandleLumis", "endLumi", "writeLumi",
        "deleteLumiFromCache", "destroyHandleLumis", "exitHandleRuns", "flagRun", "endRun",
        "writeRun", "deleteRunFromCache", "destroyHandleRuns", "enterHandleRuns", "readRun",
        "readAndMergeRun", "beginRun", "enterHandleLumis", "readLuminosityBlock", "beginLumi",
        "markNonEmpty", "readAndProcessEvent", "readAndMergeLumi", "exitHandleFiles",
        "respondToCloseInputFile", "closeInputFile", "closeOutputFiles"} = {}
  BY <1>1, Ranks
<1>4. file' = "open" /\ UNCHANGED <<depth, exited, beginRunCalled, currentLumiEmpty, run, lumi,
        outputs, posted, config, leaf, unwinding, runException, lumiException, abandoned>>
  BY DEF CallReturns, After, Posts, RunCalls, LumiCalls, FileCalls, OutputCalls
<1>5. Failures'
  BY <1>1, <1>2, <1>3, <1>4 DEF PlanInv, Failures, RunPlan, FileCalls, OutputCalls, Gone
<1>6. RunPlan'
  BY <1>1, <1>2, <1>3, <1>4 DEF PlanInv, Failures, RunPlan, LumiPlan, LeafPlan, HandleAll,
       BeginsRuns, FileCalls, OutputCalls, Gone, RunDone, LumiDone, FileDone
<1>7. LumiPlan'
  BY <1>1, <1>2, <1>3, <1>4 DEF PlanInv, Failures, RunPlan, LumiPlan, LeafPlan, HandleAll,
       BeginsRuns, FileCalls, OutputCalls, Gone, RunDone, LumiDone, FileDone
<1>8. FilePlan'
  BY <1>1, <1>2, <1>3, <1>4 DEF PlanInv, Failures, RunPlan, FilePlan
<1>9. DepthPlan'
  BY <1>1, <1>2, <1>3, <1>4 DEF PlanInv, Failures, RunPlan, LumiPlan, FilePlan, DepthPlan,
       ExitPlan, FileCalls, OutputCalls, Gone, RunDone, LumiDone, FileDone
<1>10. ExitPlan'
  BY <1>1, <1>2, <1>3, <1>4 DEF PlanInv, Failures, RunPlan, ExitPlan, LeafPlan, HandleAll
<1>11. LeafPlan'
  BY <1>1, <1>2, <1>3, <1>4 DEF PlanInv, Failures, RunPlan, ExitPlan, LeafPlan, HandleAll
<1>12. RunFlag'
  BY <1>1, <1>2, <1>3, <1>4 DEF PlanInv, Failures, RunPlan, RunFlag, Saving, LumiPlan, DepthPlan,
       Gone, RunDone, LumiDone, RunCalls, LumiCalls, LeavesLumis, Starts
<1> QED BY <1>1, <1>5, <1>6, <1>7, <1>8, <1>9, <1>10, <1>11, <1>12 DEF PlanInv

LEMMA RespondToOpenInputFileReturns ==
  ASSUME PlanInv, CallReturns, Head(calls) = "respondToOpenInputFile"
  PROVE  PlanInv'
<1>1. /\ CallsSorted' /\ Todo' = Todo \ {"respondToOpenInputFile"} /\ "respondToOpenInputFile" \in Todo
      /\ \A c \in Todo' : Rank[c] > 28
  BY HeadReturns, Ranks DEF PlanInv, CallReturns
<1>2. leaf # "Terminated"
  BY DEF PlanInv, LeafPlan, CallReturns
<1>3. Todo \cap {"startingNewLoop", "enterHandleFiles", "exitHandleLumis", "endLumi", "writeLumi",
        "deleteLumiFromCache", "destroyHandleLumis", "exitHandleRuns", "flagRun", "endRun",
        "writeRun", "deleteRunFromCache", "destroyHandleRuns", "enterHandleRuns", "readRun",
        "readAndMergeRun", "beginRun", "enterHandleLumis", "readLuminosityBlock", "beginLumi",
        "markNonEmpty", "readAndProcessEvent", "readAndMergeLumi", "exitHandleFiles",
        "respondToCloseInputFile", "closeInputFile", "closeOutputFiles", "readFile"} = {}
  BY <1>1, Ranks
<1>4. UNCHANGED <<depth, exited, beginRunCalled, currentLumiEmpty, run, lumi, file, outputs,
        posted, config, leaf, unwinding, runException, lumiException, abandoned>>
  BY DEF CallReturns, After, Posts, RunCalls, LumiCalls, FileCalls, OutputCalls
<1>5. Failures'
  BY <1>1, <1>2, <1>3, <1>4 DEF PlanInv, Failures, RunPlan, FileCalls, OutputCalls, Gone
<1>6. RunPlan'
  BY <1>1, <1>2, <1>3, <1>4 DEF PlanInv, Failures, RunPlan, LumiPlan, LeafPlan, HandleAll,
       BeginsRuns, FileCalls, OutputCalls, Gone, RunDone, LumiDone, FileDone
<1>7. LumiPlan'
  BY <1>1, <1>2, <1>3, <1>4 DEF PlanInv, Failures, RunPlan, LumiPlan, LeafPlan, HandleAll,
       BeginsRuns, FileCalls, OutputCalls, Gone, RunDone, LumiDone, FileDone
<1>8. FilePlan'
  BY <1>1, <1>2, <1>3, <1>4 DEF PlanInv, Failures, RunPlan, FilePlan
<1>9. DepthPlan'
  BY <1>1, <1>2, <1>3, <1>4 DEF PlanInv, Failures, RunPlan, LumiPlan, FilePlan, DepthPlan,
       ExitPlan, LeafPlan, HandleAll, BeginsRuns, EventCalls, OutputCalls, Gone, RunDone, LumiDone,
       FileDone, OutputsDone
<1>10. ExitPlan'
  BY <1>1, <1>2, <1>3, <1>4 DEF PlanInv, Failures, RunPlan, ExitPlan, LeafPlan, HandleAll
<1>11. LeafPlan'
  BY <1>1, <1>2, <1>3, <1>4 DEF PlanInv, Failures, RunPlan, ExitPlan, LeafPlan, HandleAll
<1>12. RunFlag'
  BY <1>1, <1>2, <1>3, <1>4 DEF PlanInv, Failures, RunPlan, RunFlag, Saving, LumiPlan, DepthPlan,
       Gone, RunDone, LumiDone, RunCalls, LumiCalls, LeavesLumis, Starts
<1> QED BY <1>1, <1>5, <1>6, <1>7, <1>8, <1>9, <1>10, <1>11, <1>12 DEF PlanInv

LEMMA OpenOutputFilesReturns ==
  ASSUME PlanInv, CallReturns, Head(calls) = "openOutputFiles"
  PROVE  PlanInv'
<1>1. /\ CallsSorted' /\ Todo' = Todo \ {"openOutputFiles"} /\ "openOutputFiles" \in Todo
      /\ \A c \in Todo' : Rank[c] > 29
  BY HeadReturns, Ranks DEF PlanInv, CallReturns
<1>2. leaf # "Terminated"
  BY DEF PlanInv, LeafPlan, CallReturns
<1>3. Todo \cap {"startingNewLoop", "enterHandleFiles", "exitHandleLumis", "endLumi", "writeLumi",
        "deleteLumiFromCache", "destroyHandleLumis", "exitHandleRuns", "flagRun", "endRun",
        "writeRun", "deleteRunFromCache", "destroyHandleRuns", "enterHandleRuns", "readRun",
        "readAndMergeRun", "beginRun", "enterHandleLumis", "readLuminosityBlock", "beginLumi",
        "markNonEmpty", "readAndProcessEvent", "readAndMergeLumi", "exitHandleFiles",
        "respondToCloseInputFile", "closeInputFile", "closeOutputFiles", "readFile",
        "respondToOpenInputFile"} = {}
  BY <1>1, Ranks
<1>4. outputs' = "open" /\ UNCHANGED <<depth, exited, beginRunCalled, currentLumiEmpty, run, lumi,
        file, posted, config, leaf, unwinding, runException, lumiException, abandoned>>
  BY DEF CallReturns, After, Posts, RunCalls, LumiCalls, FileCalls, OutputCalls
<1>5. Failures'
  BY <1>1, <1>2, <1>3, <1>4 DEF PlanInv, Failures, RunPlan, FileCalls, OutputCalls, Gone
<1>6. RunPlan'
  BY <1>1, <1>2, <1>3, <1>4 DEF PlanInv, Failures, RunPlan, LumiPlan, FilePlan, Starts, FileCalls,
       OutputCalls, Gone
<1>7. LumiPlan'
  BY <1>1, <1>2, <1>3, <1>4 DEF PlanInv, Failures, RunPlan, LumiPlan, FilePlan, Starts, FileCalls,
       OutputCalls, Gone, RunDone, LumiDone, FileDone
<1>8. FilePlan'
  BY <1>1, <1>2, <1>3, <1>4 DEF PlanInv, Failures, RunPlan, FilePlan
<1>9. DepthPlan'
  BY <1>1, <1>2, <1>3, <1>4 DEF PlanInv, Failures, RunPlan, LumiPlan, FilePlan, DepthPlan,
       ExitPlan, FileCalls, OutputCalls, Gone, RunDone, LumiDone, FileDone
<1>10. ExitPlan'
  BY <1>1, <1>2, <1>3, <1>4 DEF PlanInv, Failures, RunPlan, ExitPlan, LeafPlan, HandleAll
<1>11. LeafPlan'
  BY <1>1, <1>2, <1>3, <1>4 DEF PlanInv, Failures, RunPlan, ExitPlan, LeafPlan, HandleAll
<1>12. RunFlag'
  BY <1>1, <1>2, <1>3, <1>4 DEF PlanInv, Failures, RunPlan, RunFlag, Saving, LumiPlan, DepthPlan,
       Gone, RunDone, LumiDone, RunCalls, LumiCalls, LeavesLumis, Starts
<1> QED BY <1>1, <1>5, <1>6, <1>7, <1>8, <1>9, <1>10, <1>11, <1>12 DEF PlanInv

LEMMA DestroyHandleFilesReturns ==
  ASSUME PlanInv, CallReturns, Head(calls) = "destroyHandleFiles"
  PROVE  PlanInv'
<1>1. /\ CallsSorted' /\ Todo' = Todo \ {"destroyHandleFiles"} /\ "destroyHandleFiles" \in Todo
      /\ \A c \in Todo' : Rank[c] > 30
  BY HeadReturns, Ranks DEF PlanInv, CallReturns
<1>2. leaf # "Terminated"
  BY DEF PlanInv, LeafPlan, CallReturns
<1>3. Todo \cap {"startingNewLoop", "enterHandleFiles", "exitHandleLumis", "endLumi", "writeLumi",
        "deleteLumiFromCache", "destroyHandleLumis", "exitHandleRuns", "flagRun", "endRun",
        "writeRun", "deleteRunFromCache", "destroyHandleRuns", "enterHandleRuns", "readRun",
        "readAndMergeRun", "beginRun", "enterHandleLumis", "readLuminosityBlock", "beginLumi",
        "markNonEmpty", "readAndProcessEvent", "readAndMergeLumi", "exitHandleFiles",
        "respondToCloseInputFile", "closeInputFile", "closeOutputFiles", "readFile",
        "respondToOpenInputFile", "openOutputFiles"} = {}
  BY <1>1, Ranks
<1>4. depth' = depth - 1 /\ exited' = exited \ {depth} /\ UNCHANGED <<beginRunCalled,
        currentLumiEmpty, run, lumi, file, outputs, posted, config, leaf, unwinding, runException,
        lumiException, abandoned>>
  BY DEF CallReturns, After, Posts, RunCalls, LumiCalls, FileCalls, OutputCalls
<1>5. Failures'
  BY <1>1, <1>2, <1>3, <1>4 DEF PlanInv, Failures, RunPlan, FileCalls, OutputCalls, Gone
<1>6. RunPlan'
  BY <1>1, <1>2, <1>3, <1>4 DEF PlanInv, Failures, RunPlan, LumiPlan, FilePlan, DepthPlan,
       ExitPlan, FileCalls, OutputCalls, Gone, RunDone, LumiDone, FileDone
<1>7. LumiPlan'
  BY <1>1, <1>2, <1>3, <1>4 DEF PlanInv, Failures, RunPlan, LumiPlan, FilePlan, DepthPlan,
       ExitPlan, FileCalls, OutputCalls, Gone, RunDone, LumiDone, FileDone
<1>8. FilePlan'
  BY <1>1, <1>2, <1>3, <1>4 DEF PlanInv, Failures, RunPlan, FilePlan
<1>9. DepthPlan'
  BY <1>1, <1>2, <1>3, <1>4 DEF PlanInv, Failures, RunPlan, LumiPlan, FilePlan, DepthPlan,
       ExitPlan, LeafPlan, HandleAll, BeginsRuns, EventCalls, OutputCalls, Gone, RunDone, LumiDone,
       FileDone, OutputsDone
<1>10. ExitPlan'
  BY <1>1, <1>2, <1>3, <1>4 DEF PlanInv, Failures, RunPlan, LumiPlan, FilePlan, DepthPlan,
       ExitPlan, LeafPlan, HandleAll
<1>11. LeafPlan'
  BY <1>1, <1>2, <1>3, <1>4 DEF PlanInv, Failures, RunPlan, LumiPlan, FilePlan, DepthPlan,
       ExitPlan, LeafPlan, HandleAll
<1>12. RunFlag'
  BY <1>1, <1>2, <1>3, <1>4 DEF PlanInv, Failures, RunPlan, RunFlag, Saving, LumiPlan, DepthPlan,
       Gone, RunDone, LumiDone, RunCalls, LumiCalls, LeavesLumis, Starts
<1> QED BY <1>1, <1>5, <1>6, <1>7, <1>8, <1>9, <1>10, <1>11, <1>12 DEF PlanInv

LEMMA EndOfLoopReturns ==
  ASSUME PlanInv, CallReturns, Head(calls) = "endOfLoop"
  PROVE  PlanInv'
<1>1. /\ CallsSorted' /\ Todo' = Todo \ {"endOfLoop"} /\ "endOfLoop" \in Todo
      /\ \A c \in Todo' : Rank[c] > 31
  BY HeadReturns, Ranks DEF PlanInv, CallReturns
<1>2. leaf # "Terminated"
  BY DEF PlanInv, LeafPlan, CallReturns
<1>3. Todo \cap {"startingNewLoop", "enterHandleFiles", "exitHandleLumis", "endLumi", "writeLumi",
        "deleteLumiFromCache", "destroyHandleLumis", "exitHandleRuns", "flagRun", "endRun",
        "writeRun", "deleteRunFromCache", "destroyHandleRuns", "enterHandleRuns", "readRun",
        "readAndMergeRun", "beginRun", "enterHandleLumis", "readLuminosityBlock", "beginLumi",
        "markNonEmpty", "readAndProcessEvent", "readAndMergeLumi", "exitHandleFiles",
        "respondToCloseInputFile", "closeInputFile", "closeOutputFiles", "readFile",
        "respondToOpenInputFile", "openOutputFiles", "destroyHandleFiles"} = {}
  BY <1>1, Ranks
<1>4. UNCHANGED <<depth, exited, beginRunCalled, currentLumiEmpty, run, lumi, file, outputs,
        config, leaf, unwinding, runException, lumiException, abandoned>>
  BY DEF CallReturns, After, Posts, RunCalls, LumiCalls, FileCalls, OutputCalls
<1>5. Failures'
  BY <1>1, <1>2, <1>3, <1>4 DEF PlanInv, Failures, RunPlan, FileCalls, OutputCalls, Gone
<1>6. RunPlan'
  BY <1>1, <1>2, <1>3, <1>4 DEF PlanInv, Failures, RunPlan, LumiPlan, LeafPlan, HandleAll,
       BeginsRuns, FileCalls, OutputCalls, Gone, RunDone, LumiDone, FileDone
<1>7. LumiPlan'
  BY <1>1, <1>2, <1>3, <1>4 DEF PlanInv, Failures, RunPlan, LumiPlan, LeafPlan, HandleAll,
       BeginsRuns, FileCalls, OutputCalls, Gone, RunDone, LumiDone, FileDone
<1>8. FilePlan'
  BY <1>1, <1>2, <1>3, <1>4 DEF PlanInv, Failures, RunPlan, FilePlan
<1>9. DepthPlan'
  BY <1>1, <1>2, <1>3, <1>4 DEF PlanInv, Failures, RunPlan, LumiPlan, FilePlan, DepthPlan,
       ExitPlan, LeafPlan, HandleAll, BeginsRuns, EventCalls, OutputCalls, Gone, RunDone, LumiDone,
       FileDone, OutputsDone
<1>10. ExitPlan'
  BY <1>1, <1>2, <1>3, <1>4 DEF PlanInv, Failures, RunPlan, ExitPlan, LeafPlan, HandleAll
<1>11. LeafPlan'
  BY <1>1, <1>2, <1>3, <1>4 DEF PlanInv, Failures, RunPlan, ExitPlan, LeafPlan, HandleAll
<1>12. RunFlag'
  BY <1>1, <1>2, <1>3, <1>4 DEF PlanInv, Failures, RunPlan, RunFlag, Saving, LumiPlan, DepthPlan,
       Gone, RunDone, LumiDone, RunCalls, LumiCalls, LeavesLumis, Starts
<1> QED BY <1>1, <1>5, <1>6, <1>7, <1>8, <1>9, <1>10, <1>11, <1>12 DEF PlanInv

LEMMA DoErrorStuffReturns ==
  ASSUME PlanInv, CallReturns, Head(calls) = "doErrorStuff"
  PROVE  PlanInv'
<1>1. /\ CallsSorted' /\ Todo' = Todo \ {"doErrorStuff"} /\ "doErrorStuff" \in Todo
      /\ \A c \in Todo' : Rank[c] > 32
  BY HeadReturns, Ranks DEF PlanInv, CallReturns
<1>2. leaf # "Terminated"
  BY DEF PlanInv, LeafPlan, CallReturns
<1>3. Todo \cap {"startingNewLoop", "enterHandleFiles", "exitHandleLumis", "endLumi", "writeLumi",
        "deleteLumiFromCache", "destroyHandleLumis", "exitHandleRuns", "flagRun", "endRun",
        "writeRun", "deleteRunFromCache", "destroyHandleRuns", "enterHandleRuns", "readRun",
        "readAndMergeRun", "beginRun", "enterHandleLumis", "readLuminosityBlock", "beginLumi",
        "markNonEmpty", "readAndProcessEvent", "readAndMergeLumi", "exitHandleFiles",
        "respondToCloseInputFile", "closeInputFile", "closeOutputFiles", "readFile",
        "respondToOpenInputFile", "openOutputFiles", "destroyHandleFiles", "endOfLoop"} = {}
  BY <1>1, Ranks
<1>4. posted' \in {"Stop"} /\ UNCHANGED <<depth, exited, beginRunCalled, currentLumiEmpty, run,
        lumi, file, outputs, config, leaf, unwinding, runException, lumiException, abandoned>>
  BY DEF CallReturns, After, Posts, RunCalls, LumiCalls, FileCalls, OutputCalls
<1>5. Failures'
  BY <1>1, <1>2, <1>3, <1>4 DEF PlanInv, Failures, RunPlan, FileCalls, OutputCalls, Gone
<1>6. RunPlan'
  BY <1>1, <1>2, <1>3, <1>4 DEF PlanInv, Failures, RunPlan, LumiPlan, LeafPlan, HandleAll,
       BeginsRuns, FileCalls, OutputCalls, Gone, RunDone, LumiDone, FileDone
<1>7. LumiPlan'
  BY <1>1, <1>2, <1>3, <1>4 DEF PlanInv, Failures, RunPlan, LumiPlan, LeafPlan, HandleAll,
       BeginsRuns, FileCalls, OutputCalls, Gone, RunDone, LumiDone, FileDone
<1>8. FilePlan'
  BY <1>1, <1>2, <1>3, <1>4 DEF PlanInv, Failures, RunPlan, FilePlan
<1>9. DepthPlan'
  BY <1>1, <1>2, <1>3, <1>4 DEF PlanInv, Failures, RunPlan, LumiPlan, FilePlan, DepthPlan,
       ExitPlan, LeafPlan, HandleAll, BeginsRuns, EventCalls, OutputCalls, Gone, RunDone, LumiDone,
       FileDone, OutputsDone
<1>10. ExitPlan'
  BY <1>1, <1>2, <1>3, <1>4 DEF PlanInv, Failures, RunPlan, ExitPlan, LeafPlan, HandleAll
<1>11. LeafPlan'
  BY <1>1, <1>2, <1>3, <1>4 DEF PlanInv, Failures, RunPlan, ExitPlan, LeafPlan, HandleAll
<1>12. RunFlag'
  BY <1>1, <1>2, <1>3, <1>4 DEF PlanInv, Failures, RunPlan, RunFlag, Saving, LumiPlan, DepthPlan,
       Gone, RunDone, LumiDone, RunCalls, LumiCalls, LeavesLumis, Starts
<1> QED BY <1>1, <1>5, <1>6, <1>7, <1>8, <1>9, <1>10, <1>11, <1>12 DEF PlanInv

LEMMA PrepareForNextLoopReturns ==
  ASSUME PlanInv, CallReturns, Head(calls) = "prepareForNextLoop"
  PROVE  PlanInv'
<1>1. /\ CallsSorted' /\ Todo' = Todo \ {"prepareForNextLoop"} /\ "prepareForNextLoop" \in Todo
      /\ \A c \in Todo' : Rank[c] > 33
  BY HeadReturns, Ranks DEF PlanInv, CallReturns
<1>2. leaf # "Terminated"
  BY DEF PlanInv, LeafPlan, CallReturns
<1>3. Todo \cap {"startingNewLoop", "enterHandleFiles", "exitHandleLumis", "endLumi", "writeLumi",
        "deleteLumiFromCache", "destroyHandleLumis", "exitHandleRuns", "flagRun", "endRun",
        "writeRun", "deleteRunFromCache", "destroyHandleRuns", "enterHandleRuns", "readRun",
        "readAndMergeRun", "beginRun", "enterHandleLumis", "readLuminosityBlock", "beginLumi",
        "markNonEmpty", "readAndProcessEvent", "readAndMergeLumi", "exitHandleFiles",
        "respondToCloseInputFile", "closeInputFile", "closeOutputFiles", "readFile",
        "respondToOpenInputFile", "openOutputFiles", "destroyHandleFiles", "endOfLoop",
        "doErrorStuff"} = {}
  BY <1>1, Ranks
<1>4. UNCHANGED <<depth, exited, beginRunCalled, currentLumiEmpty, run, lumi, file, outputs,
        posted, config, leaf, unwinding, runException, lumiException, abandoned>>
  BY DEF CallReturns, After, Posts, RunCalls, LumiCalls, FileCalls, OutputCalls
<1>5. Failures'
  BY <1>1, <1>2, <1>3, <1>4 DEF PlanInv, Failures, RunPlan, FileCalls, OutputCalls, Gone
<1>6. RunPlan'
  BY <1>1, <1>2, <1>3, <1>4 DEF PlanInv, Failures, RunPlan, LumiPlan, LeafPlan, HandleAll,
       BeginsRuns, FileCalls, OutputCalls, Gone, RunDone, LumiDone, FileDone
<1>7. LumiPlan'
  BY <1>1, <1>2, <1>3, <1>4 DEF PlanInv, Failures, RunPlan, LumiPlan, LeafPlan, HandleAll,
       BeginsRuns, FileCalls, OutputCalls, Gone, RunDone, LumiDone, FileDone
<1>8. FilePlan'
  BY <1>1, <1>2, <1>3, <1>4 DEF PlanInv, Failures, RunPlan, FilePlan
<1>9. DepthPlan'
  BY <1>1, <1>2, <1>3, <1>4 DEF PlanInv, Failures, RunPlan, LumiPlan, FilePlan, DepthPlan,
       ExitPlan, LeafPlan, HandleAll, BeginsRuns, EventCalls, OutputCalls, Gone, RunDone, LumiDone,
       FileDone, OutputsDone
<1>10. ExitPlan'
  BY <1>1, <1>2, <1>3, <1>4 DEF PlanInv, Failures, RunPlan, ExitPlan, LeafPlan, HandleAll
<1>11. LeafPlan'
  BY <1>1, <1>2, <1>3, <1>4 DEF PlanInv, Failures, RunPlan, ExitPlan, LeafPlan, HandleAll
<1>12. RunFlag'
  BY <1>1, <1>2, <1>3, <1>4 DEF PlanInv, Failures, RunPlan, RunFlag, Saving, LumiPlan, DepthPlan,
       Gone, RunDone, LumiDone, RunCalls, LumiCalls, LeavesLumis, Starts
<1> QED BY <1>1, <1>5, <1>6, <1>7, <1>8, <1>9, <1>10, <1>11, <1>12 DEF PlanInv

LEMMA RewindInputReturns ==
  ASSUME PlanInv, CallReturns, Head(calls) = "rewindInput"
  PROVE  PlanInv'
<1>1. /\ CallsSorted' /\ Todo' = Todo \ {"rewindInput"} /\ "rewindInput" \in Todo
      /\ \A c \in Todo' : Rank[c] > 34
  BY HeadReturns, Ranks DEF PlanInv, CallReturns
<1>2. leaf # "Terminated"
  BY DEF PlanInv, LeafPlan, CallReturns
<1>3. Todo \cap {"startingNewLoop", "enterHandleFiles", "exitHandleLumis", "endLumi", "writeLumi",
        "deleteLumiFromCache", "destroyHandleLumis", "exitHandleRuns", "flagRun", "endRun",
        "writeRun", "deleteRunFromCache", "destroyHandleRuns", "enterHandleRuns", "readRun",
        "readAndMergeRun", "beginRun", "enterHandleLumis", "readLuminosityBlock", "beginLumi",
        "markNonEmpty", "readAndProcessEvent", "readAndMergeLumi", "exitHandleFiles",
        "respondToCloseInputFile", "closeInputFile", "closeOutputFiles", "readFile",
        "respondToOpenInputFile", "openOutputFiles", "destroyHandleFiles", "endOfLoop",
        "doErrorStuff", "prepareForNextLoop"} = {}
  BY <1>1, Ranks
<1>4. UNCHANGED <<depth, exited, beginRunCalled, currentLumiEmpty, run, lumi, file, outputs,
        posted, config, leaf, unwinding, runException, lumiException, abandoned>>
  BY DEF CallReturns, After, Posts, RunCalls, LumiCalls, FileCalls, OutputCalls
<1>5. Failures'
  BY <1>1, <1>2, <1>3, <1>4 DEF PlanInv, Failures, RunPlan, FileCalls, OutputCalls, Gone
<1>6. RunPlan'
  BY <1>1, <1>2, <1>3, <1>4 DEF PlanInv, Failures, RunPlan, LumiPlan, LeafPlan, HandleAll,
       BeginsRuns, FileCalls, OutputCalls, Gone, RunDone, LumiDone, FileDone
<1>7. LumiPlan'
  BY <1>1, <1>2, <1>3, <1>4 DEF PlanInv, Failures, RunPlan, LumiPlan, LeafPlan, HandleAll,
       BeginsRuns, FileCalls, OutputCalls, Gone, RunDone, LumiDone, FileDone
<1>8. FilePlan'
  BY <1>1, <1>2, <1>3, <1>4 DEF PlanInv, Failures, RunPlan, FilePlan
<1>9. DepthPlan'
  BY <1>1, <1>2, <1>3, <1>4 DEF PlanInv, Failures, RunPlan, LumiPlan, FilePlan, DepthPlan,
       ExitPlan, LeafPlan, HandleAll, BeginsRuns, EventCalls, OutputCalls, Gone, RunDone, LumiDone,
       FileDone, OutputsDone
<1>10. ExitPlan'
  BY <1>1, <1>2, <1>3, <1>4 DEF PlanInv, Failures, RunPlan, ExitPlan, LeafPlan, HandleAll
<1>11. LeafPlan'
  BY <1>1, <1>2, <1>3, <1>4 DEF PlanInv, Failures, RunPlan, ExitPlan, LeafPlan, HandleAll
<1>12. RunFlag'
  BY <1>1, <1>2, <1>3, <1>4 DEF PlanInv, Failures, RunPlan, RunFlag, Saving, LumiPlan, DepthPlan,
       Gone, RunDone, LumiDone, RunCalls, LumiCalls, LeavesLumis, Starts
<1> QED BY <1>1, <1>5, <1>6, <1>7, <1>8, <1>9, <1>10, <1>11, <1>12 DEF PlanInv

-----------------------------------------------------------------------------
(* Calls that throw, and the destructors. *)

\* Where a call throws, it is the first of the list: nothing else of the list is done.
LEMMA ThrowingCall ==
  ASSUME CallsSorted, calls # <<>>
  PROVE  /\ Head(calls) \in Todo /\ Head(calls) \in Call
         /\ \A c \in Todo : c # Head(calls) => Rank[c] > Rank[Head(calls)]
<1>1. calls \in Seq(Call) /\ Len(calls) \in Nat \ {0}
  BY EmptySeq DEF CallsSorted, Sorted
<1>2. 1 \in 1..Len(calls) /\ Head(calls) = calls[1]
  BY <1>1
<1>3. ASSUME NEW i \in 1..Len(calls), calls[i] # calls[1]
      PROVE  Rank[calls[i]] > Rank[calls[1]]
  <2>1. i > 1
    BY <1>1, <1>3
  <2>2. Rank[calls[1]] < Rank[calls[i]] /\ calls[1] \in Call /\ calls[i] \in Call
    BY <1>1, <1>2, <2>1 DEF CallsSorted, Sorted
  <2> QED BY <2>2, RankIsNat
<1> QED BY <1>1, <1>2, <1>3 DEF Todo, Items

LEMMA NothingToDo ==
  ASSUME NEW s, s = <<>>
  PROVE  Sorted(s) /\ Items(s) = {}
<1>1. s \in Seq(Call) /\ Len(s) = 0
  OBVIOUS
<1> QED BY <1>1 DEF Sorted, Items

\* What the list still holds says what the throwing call was about.
LEMMA ThrowsKeepsPlan ==
  ASSUME PlanInv, CallThrows
  PROVE  PlanInv'
<1> DEFINE h == Head(calls)
<1>1. /\ h \in Todo /\ h \in Call \ Own
      /\ \A c \in Todo : c # h => Rank[c] > Rank[h]
  BY ThrowingCall DEF PlanInv, CallThrows, Throwing
<1>2. /\ CallsSorted' /\ Todo' = {}
  BY NothingToDo DEF CallThrows, Throws, CallsSorted, Todo
<1>3. /\ calls' = <<>> /\ unwinding' = TRUE
      /\ runException' = (runException \/ h \in {"readRun", "beginRun", "endRun"})
      /\ lumiException' = (lumiException \/ h \in LumiCalls)
      /\ beginRunCalled' = IF h = "endRun" THEN FALSE ELSE beginRunCalled \/ h = "beginRun"
      /\ abandoned' = abandoned \cup
           (CASE h \in RunCalls -> {"run"}
              [] h \in LumiCalls -> {"lumi"}
              [] h \in FileCalls -> {"file"}
              [] h \in OutputCalls -> {"outputs"}
              [] OTHER -> {})
      /\ run' = IF h \in {"writeRun", "deleteRunFromCache"} /\ run \in {"ended", "written"}
                THEN "unsaved" ELSE run
      /\ UNCHANGED <<config, leaf, depth, exited, posted, currentLumiEmpty, file, outputs, lumi>>
  BY DEF CallThrows, Throws
<1>30. /\ Gone("run")' <=> (Gone("run") \/ h \in RunCalls)
       /\ Gone("lumi")' <=> (Gone("lumi") \/ h \in LumiCalls)
       /\ Gone("file")' <=> (Gone("file") \/ h \in FileCalls)
       /\ Gone("outputs")' <=> (Gone("outputs") \/ h \in OutputCalls)
  BY <1>3 DEF Gone, RunCalls, LumiCalls, FileCalls, OutputCalls
<1> HIDE DEF h
<1>4. "deleteLumiFromCache" \in Todo => h \in {"startingNewLoop", "endLumi", "writeLumi",
        "deleteLumiFromCache"}
  BY <1>1, Ranks DEF Call, RunCalls, LumiCalls, FileCalls, OutputCalls, OtherCalls, Own
<1>5. "deleteRunFromCache" \in Todo => h \in {"startingNewLoop", "endLumi", "writeLumi",
                         "deleteLumiFromCache", "endRun", "writeRun", "deleteRunFromCache"}
  BY <1>1, Ranks DEF Call, RunCalls, LumiCalls, FileCalls, OutputCalls, OtherCalls, Own
<1>6. "beginRun" \in Todo /\ Todo \subseteq EventCalls => h = "beginRun"
  BY <1>1, Ranks DEF EventCalls
<1>7. "beginLumi" \in Todo /\ Todo \subseteq EventCalls => h \in {"beginRun", "beginLumi"}
  BY <1>1, Ranks DEF EventCalls
<1>8. "markNonEmpty" \in Todo /\ Todo \subseteq EventCalls => h \in {"beginRun", "beginLumi"}
  BY <1>1, Ranks DEF EventCalls, Own
<1>9. "closeInputFile" \in Todo => h # "closeOutputFiles" /\ h \notin {"readFile",
         "respondToOpenInputFile", "openOutputFiles", "endOfLoop", "prepareForNextLoop",
             "rewindInput"}
  BY <1>1, Ranks
<1>10. "closeOutputFiles" \in Todo => h \notin {"readFile", "respondToOpenInputFile",
         "openOutputFiles", "endOfLoop", "prepareForNextLoop", "rewindInput"}
  BY <1>1, Ranks
<1>11. "readRun" \in Todo /\ Todo \subseteq {"readRun", "beginRun"} => h = "readRun"
  BY <1>1, Ranks
<1>12. "readLuminosityBlock" \in Todo /\ Todo \subseteq {"readLuminosityBlock", "beginLumi"} =>
         h = "readLuminosityBlock"
  BY <1>1, Ranks
<1>13. Failures'
  BY <1>30, <1>1, <1>2, <1>3 DEF PlanInv, Failures, Gone, RunCalls, LumiCalls, FileCalls,
       OutputCalls
<1>14. RunPlan'
  BY <1>30, <1>1, <1>2, <1>3, <1>5, <1>6 DEF PlanInv, Failures, RunPlan, Gone, RunDone, LumiDone,
       BeginsRuns, HandleAll, RunCalls, LumiCalls, FileCalls, OutputCalls, LeavesLumis, Starts,
       Stages
<1>15. LumiPlan'
  BY <1>30, <1>1, <1>2, <1>3, <1>4, <1>7, <1>8 DEF PlanInv, Failures, LumiPlan, RunPlan, Gone,
       RunDone, LumiDone, BeginsRuns, HandleAll, RunCalls, LumiCalls, FileCalls, Starts, Stages
<1>16. FilePlan'
  BY <1>1, <1>2, <1>3 DEF PlanInv, FilePlan
<1>17. /\ LumiDone' \/ ~(LumiDone \/ "deleteLumiFromCache" \in Todo) \/ h = "startingNewLoop"
       /\ RunDone' \/ ~(RunDone \/ "deleteRunFromCache" \in Todo) \/ h = "startingNewLoop"
                   \/ h \in LumiCalls
  BY <1>30, <1>3, <1>4, <1>5 DEF LumiDone, RunDone, RunCalls, LumiCalls
<1>18. DepthPlan'
  BY <1>30, <1>1, <1>2, <1>3, <1>4, <1>5, <1>9, <1>10, <1>11, <1>12, <1>17
       DEF PlanInv, Failures, DepthPlan, Gone, RunDone, LumiDone, FileDone, OutputsDone, RunCalls,
       LumiCalls, FileCalls, OutputCalls, OtherCalls
<1>19. ExitPlan'
  BY <1>30, <1>1, <1>2, <1>3, <1>4, <1>5, <1>9, <1>10, <1>17
       DEF PlanInv, Failures, DepthPlan, ExitPlan, Gone, RunDone, LumiDone, FileDone, OutputsDone,
       RunCalls, LumiCalls, FileCalls, OutputCalls, OtherCalls, Call, Own, Starts, LeavesLumis
<1>20. LeafPlan'
  BY <1>1, <1>2, <1>3 DEF PlanInv, LeafPlan
<1>21. /\ h \in RunCalls \/ (Gone("run")' <=> Gone("run"))
       /\ Saving => h \in {"endRun", "writeRun", "deleteRunFromCache"}
       /\ h \in {"endRun", "writeRun", "deleteRunFromCache"} => Saving
  BY <1>30, <1>1, <1>5, Ranks DEF PlanInv, RunPlan, RunFlag, Saving, Starts, LeavesLumis
<1>22. RunFlag'
  <2>1. Saving' = FALSE /\ "flagRun" \notin Todo' /\ "deleteRunFromCache" \notin Todo'
    BY <1>2 DEF Saving
  <2>2. runException' /\ ~Gone("run")' => FALSE
    BY <1>30, <1>3, <1>21 DEF PlanInv, RunFlag, RunCalls
  <2>3. ASSUME h \in {"writeRun", "deleteRunFromCache"}
        PROVE  /\ Saving /\ "endRun" \notin Todo /\ depth < 3 /\ (depth = 1 \/ depth = 2)
               /\ LumiDone /\ (Gone("run") => depth = 1 /\ run \in {"unsaved", "rewritten"})
    <3>1. Saving /\ "endRun" \notin Todo
      BY <1>1, <1>21, <2>3, Ranks
    <3>2. depth = 1 \/ depth = 2
      BY <3>1 DEF PlanInv, RunFlag, Saving, LeavesLumis
    <3>3. LumiDone
      <4>1. "deleteLumiFromCache" \notin Todo
        BY <3>1 DEF PlanInv, RunFlag, Saving, LeavesLumis
      <4> QED BY <3>2, <4>1 DEF PlanInv, DepthPlan
    <3>4. Gone("run") => depth = 1 /\ run \in {"unsaved", "rewritten"}
      BY <1>1, <2>3 DEF PlanInv, RunFlag, RunCalls
    <3> QED BY <3>1, <3>2, <3>3, <3>4
  <2>4. run' \in {"unsaved", "rewritten"} =>
          Gone("run")' /\ ~beginRunCalled' /\ (lumi' = "none" \/ Gone("lumi")')
    <3>1. CASE h \in {"writeRun", "deleteRunFromCache"} /\ run \in {"ended", "written"}
      <4>1. ~Gone("run") /\ LumiDone
        BY <2>3, <3>1
      <4>2. lumi = "none" \/ Gone("lumi")
        BY <4>1 DEF LumiDone
      <4>3. ~beginRunCalled
        BY <3>1, <4>1 DEF PlanInv, RunPlan
      <4> QED BY <1>3, <1>30, <3>1, <4>2, <4>3 DEF RunCalls
    <3>2. CASE run' = run
      BY <1>1, <1>3, <1>30, <3>2 DEF PlanInv, RunFlag, RunCalls
    <3> QED BY <1>3, <3>1, <3>2
  <2>5. Gone("run")' =>
          \/ runException' \/ depth' < 2
          \/ depth' = 2 /\ (2 \in exited' \/ (run' = "unsaved" /\ outputs' = "open"))
    <3>1. CASE h \in {"writeRun", "deleteRunFromCache"}
      <4>1. CASE Gone("run")
        BY <1>3, <2>3, <3>1, <4>1
      <4>2. CASE ~Gone("run") /\ run \in {"ended", "written"}
        BY <1>3, <2>3, <3>1, <4>2 DEF PlanInv, RunPlan, RunDone
      <4>3. CASE ~Gone("run") /\ run \notin {"ended", "written"}
        BY <1>3, <2>3, <3>1, <4>3 DEF PlanInv, RunFlag
      <4> QED BY <4>1, <4>2, <4>3
    <3>2. CASE h \in {"readRun", "beginRun", "endRun"}
      BY <1>3, <3>2
    <3>3. CASE h \notin RunCalls
      <4>1. /\ UNCHANGED <<depth, exited, outputs, run>> /\ (Gone("run")' <=> Gone("run"))
            /\ runException => runException'
        BY <1>3, <1>30, <3>3 DEF RunCalls
      <4> QED BY <4>1 DEF PlanInv, RunFlag
    <3> QED BY <3>1, <3>2, <3>3 DEF RunCalls
  <2> QED BY <1>2, <2>1, <2>2, <2>4, <2>5 DEF RunFlag
<1> QED BY <1>2, <1>13, <1>14, <1>15, <1>16, <1>18, <1>19, <1>20, <1>22 DEF PlanInv

-----------------------------------------------------------------------------
(* The lists of the reactions. *)

\* A list of calls in order, and which calls they are.
List(s, S) == Sorted(s) /\ Items(s) = S

FinalLumi == {"writeLumi", "deleteLumiFromCache"} \cup
             (IF ~currentLumiEmpty \/ HandleAll THEN {"endLumi"} ELSE {})
FinalRun ==
  {"flagRun", "writeRun", "deleteRunFromCache"} \cup (IF beginRunCalled THEN {"endRun"} ELSE {})
LumiExit == IF depth = 3 THEN {"exitHandleLumis", "destroyHandleLumis"} \cup FinalLumi ELSE {}
RunExit == IF depth >= 2 THEN {"exitHandleRuns", "destroyHandleRuns"} \cup FinalRun ELSE {}
FilesExit ==
  IF depth >= 1 THEN {"exitHandleFiles", "respondToCloseInputFile", "closeInputFile",
                      "closeOutputFiles", "destroyHandleFiles"} ELSE {}

RunSetup == {"readRun"} \cup (IF BeginsRuns THEN {"beginRun"} ELSE {})
LumiSetup == {"readLuminosityBlock"} \cup (IF HandleAll THEN {"beginLumi"} ELSE {})
Handling ==
  (IF ~beginRunCalled THEN {"beginRun"} ELSE {}) \cup
  ((IF currentLumiEmpty /\ ~HandleAll THEN {"beginLumi"} ELSE {}) \cup {"markNonEmpty",
      "readAndProcessEvent"})
FileChange == {"respondToCloseInputFile", "closeInputFile", "readFile", "respondToOpenInputFile"}
FilesChange == FileChange \cup {"closeOutputFiles", "openOutputFiles"}

LEMMA OneCall ==
  ASSUME NEW x \in Call
  PROVE  List(<<x>>, {x})
<1>1. <<x>> \in Seq(Call) /\ Len(<<x>>) = 1 /\ <<x>>[1] = x
  OBVIOUS
<1>2. Items(<<x>>) = {x}
  BY <1>1 DEF Items
<1>3. \A i, j \in 1..1 : ~(i < j)
  OBVIOUS
<1> QED BY <1>1, <1>2, <1>3 DEF List, Sorted

LEMMA SomeCalls ==
  ASSUME NEW c, NEW s, NEW S, List(s, S)
  PROVE  List(If(c, s), IF c THEN S ELSE {})
<1>1. List(<<>>, {})
  BY NothingToDo DEF List
<1> QED BY <1>1 DEF If

\* Two lists, the calls of the one before the calls of the other.
LEMMA JoinedLists ==
  ASSUME NEW s, NEW S, NEW t, NEW T, List(s, S), List(t, T),
         \A x \in S, y \in T : Rank[x] < Rank[y]
  PROVE  List(s \o t, S \cup T)
<1>1. s \in Seq(Call) /\ t \in Seq(Call) /\ Len(s) \in Nat /\ Len(t) \in Nat
  BY DEF List, Sorted
<1>2. /\ s \o t \in Seq(Call) /\ Len(s \o t) = Len(s) + Len(t)
      /\ \A i \in 1..Len(s) : (s \o t)[i] = s[i]
      /\ \A i \in 1..Len(t) : (s \o t)[Len(s) + i] = t[i]
  BY <1>1
<1>3. \A i \in 1..Len(s \o t) :
        i \in 1..Len(s) \/ \E k \in 1..Len(t) : i = Len(s) + k
  <2> SUFFICES ASSUME NEW i \in 1..Len(s \o t), i \notin 1..Len(s)
               PROVE  \E k \in 1..Len(t) : i = Len(s) + k
    OBVIOUS
  <2>1. i - Len(s) \in 1..Len(t) /\ i = Len(s) + (i - Len(s))
    BY <1>1, <1>2
  <2> QED BY <2>1
<1>4. Sorted(s \o t)
  <2> SUFFICES ASSUME NEW i \in 1..Len(s \o t), NEW j \in 1..Len(s \o t), i < j
               PROVE  Rank[(s \o t)[i]] < Rank[(s \o t)[j]]
    BY <1>2 DEF Sorted
  <2>1. CASE i \in 1..Len(s) /\ j \in 1..Len(s)
    BY <1>2, <2>1 DEF List, Sorted
  <2>2. ASSUME NEW k \in 1..Len(t), j = Len(s) + k, i \in 1..Len(s)
        PROVE  Rank[(s \o t)[i]] < Rank[(s \o t)[j]]
    BY <1>2, <2>2 DEF List, Items
  <2>3. ASSUME NEW k \in 1..Len(t), i = Len(s) + k, NEW m \in 1..Len(t), j = Len(s) + m
        PROVE  Rank[(s \o t)[i]] < Rank[(s \o t)[j]]
    <3>1. k < m
      BY <1>1, <2>3
    <3> QED BY <1>2, <2>3, <3>1 DEF List, Sorted
  <2>4. ASSUME NEW k \in 1..Len(t), i = Len(s) + k, j \in 1..Len(s)
        PROVE  FALSE
    BY <1>1, <2>4
  <2> QED BY <1>3, <2>1, <2>2, <2>3, <2>4
<1>5. Items(s \o t) = Items(s) \cup Items(t)
  <2>1. ASSUME NEW i \in 1..Len(s \o t)
        PROVE  (s \o t)[i] \in Items(s) \cup Items(t)
    BY <1>2, <1>3 DEF Items
  <2>2. ASSUME NEW i \in 1..Len(s)
        PROVE  s[i] \in Items(s \o t)
    <3>1. i \in 1..Len(s \o t) /\ (s \o t)[i] = s[i]
      BY <1>1, <1>2
    <3> QED BY <3>1 DEF Items
  <2>3. ASSUME NEW i \in 1..Len(t)
        PROVE  t[i] \in Items(s \o t)
    <3>1. Len(s) + i \in 1..Len(s \o t) /\ (s \o t)[Len(s) + i] = t[i]
      BY <1>1, <1>2
    <3> QED BY <3>1 DEF Items
  <2> QED BY <2>1, <2>2, <2>3 DEF Items
<1> QED BY <1>4, <1>5 DEF List

\* A list that is written out.
LEMMA TwoCalls ==
  ASSUME NEW x \in Call, NEW y \in Call, Rank[x] < Rank[y]
  PROVE  List(<<x, y>>, {x, y})
<1>1. <<x, y>> \in Seq(Call) /\ Len(<<x, y>>) = 2 /\ <<x, y>>[1] = x /\ <<x, y>>[2] = y
  OBVIOUS
<1>2. 1..2 = {1, 2} /\ \A i, j \in 1..2 : i < j => i = 1 /\ j = 2
  OBVIOUS
<1>3. Items(<<x, y>>) = {x, y}
  BY <1>1, <1>2 DEF Items
<1>4. Sorted(<<x, y>>)
  BY <1>1, <1>2 DEF Sorted
<1> QED BY <1>3, <1>4 DEF List

LEMMA ThreeCalls ==
  ASSUME NEW x \in Call, NEW y \in Call, NEW z \in Call, Rank[x] < Rank[y], Rank[y] < Rank[z]
  PROVE  List(<<x, y, z>>, {x, y, z})
<1>1. <<x, y, z>> = <<x, y>> \o <<z>>
  OBVIOUS
<1>2. Rank[x] < Rank[z]
  BY RankIsNat
<1>3. List(<<x, y>>, {x, y}) /\ List(<<z>>, {z})
  BY TwoCalls, OneCall
<1>4. List(<<x, y>> \o <<z>>, {x, y} \cup {z})
  BY <1>2, <1>3, JoinedLists
<1> QED BY <1>1, <1>4

LEMMA FourCalls ==
  ASSUME NEW w \in Call, NEW x \in Call, NEW y \in Call, NEW z \in Call,
         Rank[w] < Rank[x], Rank[x] < Rank[y], Rank[y] < Rank[z]
  PROVE  List(<<w, x, y, z>>, {w, x, y, z})
<1>1. <<w, x, y, z>> = <<w, x>> \o <<y, z>>
  OBVIOUS
<1>2. Rank[w] < Rank[y] /\ Rank[w] < Rank[z] /\ Rank[x] < Rank[z]
  BY RankIsNat
<1>3. List(<<w, x>>, {w, x}) /\ List(<<y, z>>, {y, z})
  BY TwoCalls
<1>4. List(<<w, x>> \o <<y, z>>, {w, x} \cup {y, z})
  BY <1>2, <1>3, JoinedLists
<1>5. {w, x} \cup {y, z} = {w, x, y, z}
  OBVIOUS
<1> QED BY <1>1, <1>4, <1>5

\* The lists about files.
LEMMA FileLists ==
  /\ List(closeFiles, {"respondToCloseInputFile", "closeInputFile", "closeOutputFiles"})
  /\ List(openFiles, {"readFile", "respondToOpenInputFile", "openOutputFiles"})
  /\ List(goToNewInputFile, FileChange)
  /\ List(goToNewInputAndOutputFiles, FilesChange)
<1>1. {"respondToCloseInputFile", "closeInputFile", "closeOutputFiles",
       "readFile", "respondToOpenInputFile", "openOutputFiles"} \subseteq Call
  BY DEF Call, FileCalls, OutputCalls
<1>2. List(closeFiles, {"respondToCloseInputFile", "closeInputFile", "closeOutputFiles"})
  BY <1>1, ThreeCalls, Ranks DEF closeFiles
<1>3. List(openFiles, {"readFile", "respondToOpenInputFile", "openOutputFiles"})
  BY <1>1, ThreeCalls, Ranks DEF openFiles
<1>4. List(goToNewInputFile,
          {"respondToCloseInputFile", "closeInputFile", "readFile", "respondToOpenInputFile"})
  BY <1>1, FourCalls, Ranks DEF goToNewInputFile
<1>5. List(goToNewInputAndOutputFiles,
          {"respondToCloseInputFile", "closeInputFile", "closeOutputFiles"} \cup
          {"readFile", "respondToOpenInputFile", "openOutputFiles"})
  BY <1>2, <1>3, JoinedLists, Ranks DEF goToNewInputAndOutputFiles
<1> QED BY <1>2, <1>3, <1>4, <1>5 DEF FileChange, FilesChange, List

\* The lists about a run.
LEMMA RunLists ==
  /\ List(finalizeRun, FinalRun)
  /\ List(setupCurrentRun, RunSetup)
<1>1. RunCalls \subseteq Call /\ "flagRun" \in Call
  BY DEF Call, Own
<1>2. /\ List(<<"flagRun">>, {"flagRun"}) /\ List(<<"endRun">>, {"endRun"})
      /\ List(<<"readRun">>, {"readRun"})
      /\ List(<<"beginRun">>, {"beginRun"})
      /\ List(<<"writeRun", "deleteRunFromCache">>, {"writeRun", "deleteRunFromCache"})
  BY <1>1, OneCall, TwoCalls, Ranks DEF RunCalls
<1>3. /\ List(If(beginRunCalled, <<"endRun">>), IF beginRunCalled THEN {"endRun"} ELSE {})
      /\ List(If(BeginsRuns, <<"beginRun">>), IF BeginsRuns THEN {"beginRun"} ELSE {})
  BY <1>2, SomeCalls
<1>4. List(finalizeRun, ({"flagRun"} \cup (IF beginRunCalled THEN {"endRun"} ELSE {}))
                            \cup {"writeRun", "deleteRunFromCache"})
  <2>1. List(<<"flagRun">> \o If(beginRunCalled, <<"endRun">>),
             {"flagRun"} \cup (IF beginRunCalled THEN {"endRun"} ELSE {}))
    BY <1>2, <1>3, JoinedLists, Ranks
  <2> QED BY <1>2, <2>1, JoinedLists, Ranks DEF finalizeRun
<1>5. List(setupCurrentRun, {"readRun"} \cup IF BeginsRuns THEN {"beginRun"} ELSE {})
  BY <1>2, <1>3, JoinedLists, Ranks DEF setupCurrentRun, BeginsRuns
<1> QED BY <1>4, <1>5 DEF FinalRun, RunSetup, List

\* The lists about a luminosity block.
LEMMA LumiLists ==
  /\ List(finalizeLumi, FinalLumi)
  /\ List(setupCurrentLumi, LumiSetup)
<1>1. LumiCalls \subseteq Call
  BY DEF Call
<1>2. /\ List(<<"endLumi">>, {"endLumi"}) /\ List(<<"readLuminosityBlock">>,
        {"readLuminosityBlock"})
      /\ List(<<"beginLumi">>, {"beginLumi"})
      /\ List(<<"writeLumi", "deleteLumiFromCache">>, {"writeLumi", "deleteLumiFromCache"})
  BY <1>1, OneCall, TwoCalls, Ranks DEF LumiCalls
<1>3. /\ List(If(~currentLumiEmpty \/ HandleAll, <<"endLumi">>),
              IF ~currentLumiEmpty \/ HandleAll THEN {"endLumi"} ELSE {})
      /\ List(If(HandleAll, <<"beginLumi">>), IF HandleAll THEN {"beginLumi"} ELSE {})
  BY <1>2, SomeCalls
<1>4. List(finalizeLumi, (IF ~currentLumiEmpty \/ HandleAll THEN {"endLumi"} ELSE {})
                           \cup {"writeLumi", "deleteLumiFromCache"})
  BY <1>2, <1>3, JoinedLists, Ranks DEF finalizeLumi, HandleAll
<1>5. List(setupCurrentLumi, {"readLuminosityBlock"} \cup IF HandleAll THEN {"beginLumi"} ELSE {})
  BY <1>2, <1>3, JoinedLists, Ranks DEF setupCurrentLumi, HandleAll
<1> QED BY <1>4, <1>5 DEF FinalLumi, LumiSetup, List

\* Leaving the states, from the innermost out.
LEMMA ExitLists ==
  /\ List(leaveLumis, LumiExit)
  /\ List(leaveRuns, LumiExit \cup RunExit)
  /\ List(leaveFiles, (LumiExit \cup RunExit) \cup FilesExit)
<1>1. Own \subseteq Call
  BY DEF Call
<1>2. /\ List(<<"exitHandleLumis">>, {"exitHandleLumis"})
      /\ List(<<"exitHandleRuns">>, {"exitHandleRuns"})
      /\ List(<<"exitHandleFiles">>, {"exitHandleFiles"})
      /\ List(<<"destroyHandleLumis">>, {"destroyHandleLumis"})
      /\ List(<<"destroyHandleRuns">>, {"destroyHandleRuns"})
      /\ List(<<"destroyHandleFiles">>, {"destroyHandleFiles"})
  BY <1>1, OneCall DEF Own
<1> DEFINE lumis == ({"exitHandleLumis"} \cup FinalLumi) \cup {"destroyHandleLumis"}
           runs == ({"exitHandleRuns"} \cup FinalRun) \cup {"destroyHandleRuns"}
           closing == {"respondToCloseInputFile", "closeInputFile", "closeOutputFiles"}
           files == ({"exitHandleFiles"} \cup closing) \cup {"destroyHandleFiles"}
<1>3. List(<<"exitHandleLumis">> \o finalizeLumi \o <<"destroyHandleLumis">>, lumis)
  <2>1. \A x \in {"exitHandleLumis"}, y \in FinalLumi : Rank[x] < Rank[y]
    BY Ranks DEF FinalLumi
  <2>2. List(<<"exitHandleLumis">> \o finalizeLumi, {"exitHandleLumis"} \cup FinalLumi)
    BY <1>2, <2>1, LumiLists, JoinedLists
  <2>3. \A x \in {"exitHandleLumis"} \cup FinalLumi,
          y \in {"destroyHandleLumis"} : Rank[x] < Rank[y]
    BY Ranks DEF FinalLumi
  <2> QED BY <1>2, <2>2, <2>3, JoinedLists
<1>4. List(<<"exitHandleRuns">> \o finalizeRun \o <<"destroyHandleRuns">>, runs)
  <2>1. \A x \in {"exitHandleRuns"}, y \in FinalRun : Rank[x] < Rank[y]
    BY Ranks DEF FinalRun
  <2>2. List(<<"exitHandleRuns">> \o finalizeRun, {"exitHandleRuns"} \cup FinalRun)
    BY <1>2, <2>1, RunLists, JoinedLists
  <2>3. \A x \in {"exitHandleRuns"} \cup FinalRun, y \in {"destroyHandleRuns"} : Rank[x] < Rank[y]
    BY Ranks DEF FinalRun
  <2> QED BY <1>2, <2>2, <2>3, JoinedLists
<1>5. List(<<"exitHandleFiles">> \o closeFiles \o <<"destroyHandleFiles">>, files)
  <2>1. \A x \in {"exitHandleFiles"}, y \in closing : Rank[x] < Rank[y]
    BY Ranks
  <2>2. List(<<"exitHandleFiles">> \o closeFiles, {"exitHandleFiles"} \cup closing)
    BY <1>2, <2>1, FileLists, JoinedLists
  <2>3. \A x \in {"exitHandleFiles"} \cup closing, y \in {"destroyHandleFiles"} : Rank[x] < Rank[y]
    BY Ranks
  <2> QED BY <1>2, <2>2, <2>3, JoinedLists
<1>6. /\ LumiExit = IF depth = 3 THEN lumis ELSE {}
      /\ RunExit = IF depth >= 2 THEN runs ELSE {}
      /\ FilesExit = IF depth >= 1 THEN files ELSE {}
  BY DEF LumiExit, RunExit, FilesExit
<1>7. /\ List(If(depth = 3, <<"exitHandleLumis">> \o finalizeLumi \o <<"destroyHandleLumis">>),
        LumiExit)
      /\ List(If(depth >= 2, <<"exitHandleRuns">> \o finalizeRun \o <<"destroyHandleRuns">>),
           RunExit)
      /\ List(If(depth >= 1, <<"exitHandleFiles">> \o closeFiles \o <<"destroyHandleFiles">>),
           FilesExit)
  BY <1>3, <1>4, <1>5, <1>6, SomeCalls
<1>8. \A x \in LumiExit, y \in RunExit : Rank[x] < Rank[y]
  BY Ranks DEF LumiExit, RunExit, FinalLumi, FinalRun
<1>9. \A x \in LumiExit \cup RunExit, y \in FilesExit : Rank[x] < Rank[y]
  BY Ranks DEF LumiExit, RunExit, FilesExit, FinalLumi, FinalRun
<1>10. List(leaveRuns, LumiExit \cup RunExit)
  BY <1>7, <1>8, JoinedLists DEF leaveRuns, leaveLumis
<1>11. List(leaveFiles, (LumiExit \cup RunExit) \cup FilesExit)
  BY <1>7, <1>9, <1>10, JoinedLists DEF leaveFiles
<1> QED BY <1>7, <1>10, <1>11 DEF leaveLumis

-----------------------------------------------------------------------------
(* The destructors and the reactions. *)

LEMMA Empty ==
  ASSUME PlanInv, calls = <<>>
  PROVE  Todo = {}
BY NothingToDo DEF Todo

\* One state is destroyed: what it cleans up is finished, or was finished or given up before.
LEMMA DestructorKeepsPlan ==
  ASSUME PlanInv, Destructor
  PROVE  PlanInv'
<1>1. /\ unwinding /\ unwinding' = unwinding /\ calls = <<>> /\ leaf # "Terminated"
      /\ UNCHANGED <<config, exited, posted, runVars, lumiVars, doneVars>>
  BY DEF Destructor, Destroy
<1>2. Todo = {}
  BY <1>1, Empty
<1>3. UNCHANGED <<config, exited, posted, currentRun, beginRunCalled, runException, currentLumi,
                  currentLumiEmpty, lumiException, file, outputs, run, lumi, abandoned>>
  BY <1>1 DEF runVars, lumiVars, doneVars
<1>4. CASE depth = 0
  <2>1. leaf' = "Terminated" /\ depth' = depth /\ calls' = calls
    BY <1>4 DEF Destructor, Destroy
  <2>2. /\ CallsSorted' /\ Todo' = {}
    BY <2>1, <1>1, NothingToDo DEF CallsSorted, Todo
  <2>3. Failures' /\ RunPlan' /\ RunFlag' /\ LumiPlan' /\ FilePlan'
    BY <1>1, <1>2, <1>3, <2>1, <2>2 DEF PlanInv, Failures, RunPlan, RunFlag, Saving, LumiPlan,
         FilePlan, Gone, RunDone, LumiDone, BeginsRuns, HandleAll
  <2>4. DepthPlan' /\ ExitPlan'
    BY <1>1, <1>2, <1>3, <2>1, <2>2 DEF PlanInv, DepthPlan, ExitPlan, Gone, RunDone, LumiDone,
         FileDone, OutputsDone
  <2>5. LeafPlan'
    <3>1. calls' = <<>> /\ depth' = 0 /\ leaf' = "Terminated"
      BY <1>1, <1>4, <2>1
    <3>2. unwinding' /\ Todo' = {}
      BY <1>1, <2>2
    <3> QED BY <3>1, <3>2 DEF LeafPlan
  <2> QED BY <2>2, <2>3, <2>4, <2>5 DEF PlanInv
<1>5. CASE depth # 0
  <2>1. /\ depth' = depth - 1 /\ leaf' = leaf /\ depth \in 1..3
        /\ calls' = CASE depth \in exited -> <<>>
                      [] depth = 3 /\ depth \notin exited -> If(~lumiException /\ ~runException,
                          finalizeLumi)
                      [] depth = 2 /\ depth \notin exited -> If(~runException, finalizeRun)
                      [] OTHER -> closeFiles
    BY <1>5 DEF PlanInv, DepthPlan, Destructor, Destroy
  <2> DEFINE T == CASE depth \in exited -> {}
                    [] depth = 3 /\ depth \notin exited -> IF ~lumiException /\ ~runException THEN FinalLumi ELSE {}
                    [] depth = 2 /\ depth \notin exited -> IF ~runException THEN FinalRun ELSE {}
                    [] OTHER -> {"respondToCloseInputFile", "closeInputFile", "closeOutputFiles"}
  <2>2. List(calls', T)
    <3>1. /\ List(<<>>, {})
          /\ List(If(~lumiException /\ ~runException, finalizeLumi),
                  IF ~lumiException /\ ~runException THEN FinalLumi ELSE {})
          /\ List(If(~runException, finalizeRun), IF ~runException THEN FinalRun ELSE {})
          /\ List(closeFiles, {"respondToCloseInputFile", "closeInputFile", "closeOutputFiles"})
      BY NothingToDo, SomeCalls, FileLists, RunLists, LumiLists DEF List
    <3> QED BY <2>1, <3>1
  <2>3. CallsSorted' /\ Todo' = T
    BY <2>2 DEF List, CallsSorted, Todo
  <2>4. CASE depth = 3
    <3>1. depth' = 2 /\ Todo' = IF 3 \in exited \/ Gone("run") \/ Gone("lumi") THEN {} ELSE FinalLumi
      BY <1>1, <1>2, <2>1, <2>3, <2>4 DEF PlanInv, Failures, RunFlag, Saving, ExitPlan, LumiDone
    <3>2. /\ LumiDone \/ (lumi \in {"read", "begun"} /\ 3 \notin exited)
          /\ run \in Stages
          /\ 3 \in exited => LumiDone
      BY <1>1, <1>2, <2>4 DEF PlanInv, LumiPlan, RunPlan, ExitPlan, Stages, LumiDone
    <3>3. LumiDone /\ 3 \notin exited => Gone("run") \/ Gone("lumi")
      BY <1>1, <1>2, <2>4 DEF PlanInv, DepthPlan, LumiDone
    <3>4. Failures'
      BY <1>1, <1>3, <3>1 DEF PlanInv, Failures, Gone, RunCalls, FinalLumi
    <3>5. RunPlan' /\ LumiPlan' /\ FilePlan'
      BY <1>1, <1>2, <1>3, <3>1, <3>2, <3>3 DEF PlanInv, RunPlan, LumiPlan, FilePlan, Gone,
           RunDone, LumiDone, BeginsRuns, HandleAll, FinalLumi
    <3>6. DepthPlan'
      BY <1>1, <1>2, <1>3, <2>4, <3>1, <3>2, <3>3 DEF PlanInv, DepthPlan, Gone, LumiDone, FinalLumi
    <3>7. ExitPlan'
      BY <1>1, <1>2, <1>3, <2>4, <3>1, <3>2, <3>3 DEF PlanInv, ExitPlan, Gone, RunDone, LumiDone,
           FileDone, OutputsDone, FinalLumi
    <3>8. LeafPlan'
      BY <1>1, <1>2, <1>3, <2>1, <3>1 DEF PlanInv, LeafPlan, FinalLumi
    <3>9. RunFlag'
      BY <1>1, <1>2, <1>3, <2>4, <3>1 DEF PlanInv, RunFlag, Saving, Gone, FinalLumi, RunCalls
    <3> QED BY <2>3, <3>4, <3>5, <3>6, <3>7, <3>8, <3>9 DEF PlanInv
  <2>5. CASE depth = 2
    <3>1. depth' = 1 /\ Todo' = IF 2 \in exited \/ runException THEN {} ELSE FinalRun
      BY <1>1, <2>1, <2>3, <2>5
    <3>2. /\ RunDone \/ (run \in {"read", "begun"} /\ 2 \notin exited)
          /\ LumiDone
          /\ 2 \in exited => RunDone
          /\ runException => RunDone
      BY <1>1, <1>2, <2>5 DEF PlanInv, RunPlan, RunFlag, Saving, DepthPlan, ExitPlan, Stages,
           RunDone
    <3>3. RunDone /\ 2 \notin exited /\ ~runException =>
            /\ Gone("run") /\ run = "unsaved" /\ outputs = "open" /\ ~beginRunCalled
            /\ lumi = "none" \/ Gone("lumi")
      BY <1>1, <1>2, <2>5 DEF PlanInv, DepthPlan, RunFlag, RunDone
    <3>4. Failures'
      BY <1>1, <1>3, <3>1 DEF PlanInv, Failures, Gone, RunCalls, LumiCalls, FinalRun
    <3>5. RunPlan' /\ LumiPlan' /\ FilePlan'
      BY <1>1, <1>2, <1>3, <3>1, <3>2, <3>3 DEF PlanInv, RunPlan, LumiPlan, FilePlan, Gone,
           RunDone, LumiDone, BeginsRuns, HandleAll, FinalRun
    <3>6. DepthPlan'
      BY <1>1, <1>2, <1>3, <2>5, <3>1, <3>2, <3>3 DEF PlanInv, DepthPlan, Gone, RunDone, LumiDone,
           FinalRun
    <3>7. ExitPlan'
      BY <1>1, <1>2, <1>3, <2>5, <3>1, <3>2, <3>3 DEF PlanInv, ExitPlan, Gone, RunDone, LumiDone,
           FileDone, OutputsDone
    <3>8. LeafPlan'
      BY <1>1, <1>2, <1>3, <2>1, <3>1 DEF PlanInv, LeafPlan, FinalRun
    <3>9. RunFlag'
      <4>1. "endRun" \in FinalRun => beginRunCalled
        BY DEF FinalRun
      <4>2. /\ FinalRun \cap LumiCalls = {}
            /\ {"flagRun", "writeRun", "deleteRunFromCache"} \subseteq FinalRun
            /\ FinalRun \subseteq {"flagRun", "endRun", "writeRun", "deleteRunFromCache"}
        BY DEF FinalRun, LumiCalls
      <4>3. CASE 2 \in exited \/ runException
        <5>1. Todo' = {} /\ depth' = 1
          BY <3>1, <4>3
        <5> QED BY <1>1, <1>2, <1>3, <5>1 DEF PlanInv, RunFlag, Saving, Gone
      <4>4. CASE 2 \notin exited /\ ~runException
        <5>1. Todo' = FinalRun /\ depth' = 1 /\ ~Saving'
          BY <3>1, <4>2, <4>4 DEF Saving
        <5>2. Gone("run") => /\ run = "unsaved" /\ outputs = "open"
                             /\ FinalRun \subseteq {"flagRun", "writeRun", "deleteRunFromCache"}
          BY <3>3, <4>1, <4>2, <4>4 DEF RunDone
        <5> QED BY <1>1, <1>3, <4>2, <4>4, <5>1, <5>2 DEF PlanInv, RunFlag, Gone
      <4> QED BY <4>3, <4>4
    <3> QED BY <2>3, <3>4, <3>5, <3>6, <3>7, <3>8, <3>9 DEF PlanInv
  <2>6. CASE depth = 1
    <3>1. depth' = 0 /\ Todo' = IF 1 \in exited THEN {} ELSE
                                  {"respondToCloseInputFile", "closeInputFile", "closeOutputFiles"}
      BY <1>1, <2>1, <2>3, <2>6
    <3>2. LumiDone /\ RunDone /\ (1 \in exited => FileDone /\ OutputsDone)
      BY <1>1, <1>2, <2>6 DEF PlanInv, DepthPlan, ExitPlan
    <3>4. Failures'
      BY <1>1, <1>3, <3>1 DEF PlanInv, Failures, Gone, RunCalls, LumiCalls
    <3>5. RunPlan' /\ LumiPlan' /\ FilePlan'
      BY <1>3, <3>1, <3>2 DEF PlanInv, RunPlan, LumiPlan, FilePlan, Gone, RunDone, LumiDone
    <3>6. DepthPlan'
      BY <1>1, <1>2, <1>3, <2>6, <3>1, <3>2 DEF PlanInv, DepthPlan, Gone, RunDone, LumiDone,
           FileDone, OutputsDone
    <3>7. ExitPlan'
      BY <1>1, <1>2, <1>3, <2>6, <3>1, <3>2 DEF PlanInv, ExitPlan, Gone, RunDone, LumiDone,
           FileDone, OutputsDone
    <3>8. LeafPlan'
      BY <1>1, <1>2, <1>3, <2>1, <3>1 DEF PlanInv, LeafPlan
    <3>9. RunFlag'
      BY <1>1, <1>2, <1>3, <2>6, <3>1 DEF PlanInv, RunFlag, Saving, Gone, RunCalls
    <3> QED BY <2>3, <3>4, <3>5, <3>6, <3>7, <3>8, <3>9 DEF PlanInv
  <2> QED BY <2>1, <2>4, <2>5, <2>6
<1> QED BY <1>4, <1>5

\* What the machine has open between two items, by the state it is in.
Resting ==
  /\ Todo = {} /\ ~unwinding /\ abandoned = {} /\ exited = {}
  /\ ~runException /\ ~lumiException
  /\ beginRunCalled <=> run = "begun"
  /\ BeginsRuns => run # "read"
  /\ run \in {"none", "read", "begun"}
  /\ leaf \in InLumis =>
       /\ depth = 3 /\ lumi \in {"read", "begun"} /\ (lumi = "begun" => run = "begun")
       /\ lumi = "begun" <=> (~currentLumiEmpty \/ HandleAll)
  /\ leaf \in InLumis \cup InRuns => run \in {"read", "begun"}
  /\ leaf \in InRuns => depth = 2 /\ lumi = "none"
  /\ leaf \in InFiles => depth = 1 /\ lumi = "none" /\ run = "none"
  /\ leaf \in InLumis \cup InRuns \cup InFiles => file = "open" /\ outputs = "open"
  /\ leaf \in {"Starting", "EndingLoop"} =>
       depth = 0 /\ file = "closed" /\ outputs = "closed" /\ lumi = "none" /\ run = "none"

LEMMA RestingPlan ==
  ASSUME PlanInv, Idle
  PROVE  Resting
<1>1. Todo = {} /\ ~unwinding /\ leaf # "Terminated"
  BY Empty DEF Idle
<1>2. /\ abandoned = {} /\ ~runException /\ ~lumiException
      /\ ~Gone("run") /\ ~Gone("lumi") /\ ~Gone("file") /\ ~Gone("outputs")
  BY <1>1 DEF PlanInv, Failures, RunFlag, Saving, Gone
<1>3. exited = {}
  BY <1>1 DEF PlanInv, ExitPlan
<1>4. /\ beginRunCalled <=> run = "begun"
      /\ BeginsRuns => run # "read"
      /\ run \in {"none", "read", "begun"}
  BY <1>1, <1>2 DEF PlanInv, RunPlan, RunFlag, Stages
<1>5. /\ leaf \in InLumis => depth = 3
      /\ leaf \in InRuns => depth = 2
      /\ leaf \in InFiles => depth = 1
      /\ leaf \in {"Starting", "EndingLoop"} => depth = 0
      /\ leaf \in InLumis \cup InRuns \cup InFiles => file = "open" /\ outputs = "open"
  BY <1>1 DEF PlanInv, LeafPlan
<1>6. /\ depth < 3 => lumi = "none"
      /\ depth < 2 => run = "none"
      /\ depth < 1 => file = "closed" /\ outputs = "closed"
      /\ depth = 3 => lumi # "none"
      /\ depth >= 2 => run # "none"
  BY <1>1, <1>2, <1>3 DEF PlanInv, DepthPlan, LumiDone, RunDone, FileDone, OutputsDone
<1>7. lumi # "none" =>
        /\ lumi \in {"read", "begun"} /\ (lumi = "begun" => run = "begun")
        /\ lumi = "begun" <=> (~currentLumiEmpty \/ HandleAll)
  BY <1>1, <1>2 DEF PlanInv, LumiPlan, LumiDone, Stages
<1>8. /\ leaf \in InLumis =>
           /\ depth = 3 /\ lumi \in {"read", "begun"} /\ (lumi = "begun" => run = "begun")
           /\ lumi = "begun" <=> (~currentLumiEmpty \/ HandleAll)
      /\ leaf \in InLumis \cup InRuns => run \in {"read", "begun"}
      /\ leaf \in InRuns => depth = 2 /\ lumi = "none"
      /\ leaf \in InFiles => depth = 1 /\ lumi = "none" /\ run = "none"
  BY <1>4, <1>5, <1>6, <1>7
<1>9. leaf \in {"Starting", "EndingLoop"} =>
       depth = 0 /\ file = "closed" /\ outputs = "closed" /\ lumi = "none" /\ run = "none"
  BY <1>5, <1>6
<1> QED BY <1>1, <1>2, <1>3, <1>4, <1>5, <1>8, <1>9 DEF Resting

\* A reaction plans calls and does nothing yet.
OnlyCalls ==
  /\ UNCHANGED <<config, depth, exited, unwinding, beginRunCalled, runException, currentLumiEmpty,
                 lumiException, file, outputs, run, lumi, abandoned>>
  /\ posted' \in {posted, "none"} /\ posted' # "Restart"

LEMMA FirstFilePlanned ==
  ASSUME PlanInv, Resting, OnlyCalls, leaf = "Starting",
         leaf' = "FirstFile",
         List(calls', {"startingNewLoop", "enterHandleFiles", "readFile", "respondToOpenInputFile",
             "openOutputFiles"})
  PROVE  PlanInv'
<1>1. CallsSorted' /\ Todo' = {"startingNewLoop", "enterHandleFiles", "readFile",
        "respondToOpenInputFile", "openOutputFiles"}
  BY DEF List, CallsSorted, Todo
<1>2. Failures'
  BY <1>1 DEF PlanInv, OnlyCalls, Failures, Resting, Gone
<1>3. RunPlan'
  BY <1>1 DEF PlanInv, OnlyCalls, RunPlan, Resting, Gone, RunDone, LumiDone
<1>4. LumiPlan'
  BY <1>1 DEF PlanInv, OnlyCalls, LumiPlan, Resting, Gone, RunDone, LumiDone
<1>5. FilePlan'
  BY <1>1 DEF PlanInv, OnlyCalls, FilePlan, Resting, Gone
<1>6. DepthPlan'
  BY <1>1 DEF PlanInv, OnlyCalls, DepthPlan, Resting, Gone, RunDone, LumiDone, FileDone, OutputsDone
<1>7. ExitPlan'
  BY DEF OnlyCalls, ExitPlan, Resting
<1>8. LeafPlan'
  BY <1>1 DEF PlanInv, OnlyCalls, LeafPlan, Resting, Gone, InFiles, InRuns, InLumis, Configurations
<1>9. RunFlag'
  BY <1>1 DEF PlanInv, OnlyCalls, RunFlag, Saving, Resting, Gone, BeginsRuns, HandleAll, RunCalls,
       LeavesLumis, Starts, FinalLumi, FinalRun, LumiExit, RunExit, FilesExit, RunSetup,
       LumiSetup, Handling, FileChange, FilesChange
<1> QED BY <1>1, <1>2, <1>3, <1>4, <1>5, <1>6, <1>7, <1>8, <1>9 DEF PlanInv

LEMMA NextFilePlanned ==
  ASSUME PlanInv, Resting, OnlyCalls, leaf \in InFiles \cup InRuns \cup InLumis,
         IF leaf \in InFiles THEN leaf' = "HandleNewInputFile1" ELSE IF leaf \in InRuns THEN leaf' = "HandleNewInputFile2" ELSE leaf' = "HandleNewInputFile3",
         List(calls', FileChange)
  PROVE  PlanInv'
<1>1. CallsSorted' /\ Todo' = FileChange
  BY DEF List, CallsSorted, Todo
<1>2. Failures'
  BY <1>1 DEF PlanInv, OnlyCalls, Failures, Resting, Gone
<1>3. RunPlan'
  BY <1>1 DEF PlanInv, OnlyCalls, RunPlan, Resting, Gone, BeginsRuns, HandleAll, Stages, RunCalls,
       LumiSetup, Handling, FileChange, FilesChange
<1>4. LumiPlan'
  BY <1>1 DEF PlanInv, OnlyCalls, LumiPlan, Resting, Gone, BeginsRuns, HandleAll, Stages, RunCalls,
       LumiSetup, Handling, FileChange, FilesChange
<1>5. FilePlan'
  BY <1>1 DEF PlanInv, OnlyCalls, FilePlan, Resting, Gone, LumiSetup, Handling, FileChange,
       FilesChange
<1>6. DepthPlan'
  BY <1>1 DEF PlanInv, OnlyCalls, DepthPlan, Resting, Gone, RunDone, LumiDone, FileDone,
       OutputsDone, LumiSetup, Handling, FileChange, FilesChange
<1>7. ExitPlan'
  BY <1>1 DEF PlanInv, OnlyCalls, ExitPlan, Resting, Gone, LumiSetup, Handling, FileChange,
       FilesChange
<1>8. LeafPlan'
  BY <1>1 DEF PlanInv, OnlyCalls, LeafPlan, Resting, Gone, LumiSetup, Handling, FileChange,
       FilesChange, InFiles, InRuns, InLumis, Configurations
<1>9. RunFlag'
  BY <1>1 DEF PlanInv, OnlyCalls, RunFlag, Saving, Resting, Gone, BeginsRuns, HandleAll, RunCalls,
       LeavesLumis, Starts, FinalLumi, FinalRun, LumiExit, RunExit, FilesExit, RunSetup,
       LumiSetup, Handling, FileChange, FilesChange
<1> QED BY <1>1, <1>2, <1>3, <1>4, <1>5, <1>6, <1>7, <1>8, <1>9 DEF PlanInv

LEMMA NewFilesPlanned ==
  ASSUME PlanInv, Resting, OnlyCalls, leaf \in InFiles \cup InRuns \cup InLumis,
         leaf' = "NewInputAndOutputFiles",
         List(calls', (LumiExit \cup RunExit) \cup FilesChange)
  PROVE  PlanInv'
<1>1. CallsSorted' /\ Todo' = (LumiExit \cup RunExit) \cup FilesChange
  BY DEF List, CallsSorted, Todo
<1>2. Failures'
  BY <1>1 DEF PlanInv, OnlyCalls, Failures, Resting, Gone
<1>3. RunPlan'
  BY <1>1 DEF PlanInv, OnlyCalls, RunPlan, Resting, Gone, RunDone, LumiDone, FileDone, OutputsDone,
       BeginsRuns, HandleAll, Stages, RunCalls, LeavesLumis, Starts, FinalLumi, FinalRun, LumiExit,
       RunExit, FilesExit, RunSetup, LumiSetup, Handling, FileChange, FilesChange
<1>4. LumiPlan'
  BY <1>1 DEF PlanInv, OnlyCalls, LumiPlan, Resting, Gone, RunDone, LumiDone, FileDone,
       OutputsDone, BeginsRuns, HandleAll, Stages, RunCalls, LeavesLumis, Starts, FinalLumi,
       FinalRun, LumiExit, RunExit, FilesExit, RunSetup, LumiSetup, Handling, FileChange,
       FilesChange
<1>5. FilePlan'
  BY <1>1 DEF PlanInv, OnlyCalls, FilePlan, Resting, Gone, RunDone, LumiDone, FileDone,
       OutputsDone, LeavesLumis, Starts, FinalLumi, FinalRun, LumiExit, RunExit, FilesExit,
       RunSetup, LumiSetup, Handling, FileChange, FilesChange
<1>6. DepthPlan'
  BY <1>1 DEF PlanInv, OnlyCalls, DepthPlan, Resting, Gone, RunDone, LumiDone, FileDone,
       OutputsDone, LeavesLumis, Starts, FinalLumi, FinalRun, LumiExit, RunExit, FilesExit,
       RunSetup, LumiSetup, Handling, FileChange, FilesChange
<1>7. ExitPlan'
  BY <1>1 DEF PlanInv, OnlyCalls, ExitPlan, Resting, Gone, LumiExit, RunExit, FilesExit, RunSetup
<1>8. LeafPlan'
  BY <1>1 DEF PlanInv, OnlyCalls, LeafPlan, Resting, Gone, LeavesLumis, Starts, FinalLumi,
       FinalRun, LumiExit, RunExit, FilesExit, RunSetup, LumiSetup, Handling, FileChange,
       FilesChange, InFiles, InRuns, InLumis, Configurations
<1>9. RunFlag'
  BY <1>1 DEF PlanInv, OnlyCalls, RunFlag, Saving, Resting, Gone, BeginsRuns, HandleAll, RunCalls,
       LeavesLumis, Starts, FinalLumi, FinalRun, LumiExit, RunExit, FilesExit, RunSetup,
       LumiSetup, Handling, FileChange, FilesChange
<1> QED BY <1>1, <1>2, <1>3, <1>4, <1>5, <1>6, <1>7, <1>8, <1>9 DEF PlanInv

LEMMA FirstRunPlanned ==
  ASSUME PlanInv, Resting, OnlyCalls, leaf \in InFiles,
         leaf' = "NewRun",
         List(calls', {"enterHandleRuns"} \cup RunSetup)
  PROVE  PlanInv'
<1>1. CallsSorted' /\ Todo' = {"enterHandleRuns"} \cup RunSetup
  BY DEF List, CallsSorted, Todo
<1>2. Failures'
  BY <1>1 DEF PlanInv, OnlyCalls, Failures, Resting, Gone
<1>3. RunPlan'
  BY <1>1 DEF PlanInv, OnlyCalls, RunPlan, Resting, Gone, BeginsRuns, HandleAll, Stages, RunCalls,
       LumiExit, RunExit, FilesExit, RunSetup
<1>4. LumiPlan'
  BY <1>1 DEF PlanInv, OnlyCalls, LumiPlan, Resting, Gone, LumiExit, RunExit, FilesExit, RunSetup
<1>5. FilePlan'
  BY <1>1 DEF PlanInv, OnlyCalls, FilePlan, Resting, Gone, LumiExit, RunExit, FilesExit, RunSetup
<1>6. DepthPlan'
  BY <1>1 DEF PlanInv, OnlyCalls, DepthPlan, Resting, Gone, RunDone, LumiDone, FileDone,
       OutputsDone, LumiExit, RunExit, FilesExit, RunSetup
<1>7. ExitPlan'
  BY DEF OnlyCalls, ExitPlan, Resting
<1>8. LeafPlan'
  BY <1>1 DEF PlanInv, OnlyCalls, LeafPlan, Resting, Gone, LumiExit, RunExit, FilesExit, RunSetup,
       InFiles, InRuns, InLumis, Configurations
<1>9. RunFlag'
  BY <1>1 DEF PlanInv, OnlyCalls, RunFlag, Saving, Resting, Gone, BeginsRuns, HandleAll, RunCalls,
       LeavesLumis, Starts, FinalLumi, FinalRun, LumiExit, RunExit, FilesExit, RunSetup,
       LumiSetup, Handling, FileChange, FilesChange
<1> QED BY <1>1, <1>2, <1>3, <1>4, <1>5, <1>6, <1>7, <1>8, <1>9 DEF PlanInv

LEMMA SameRunPlanned ==
  ASSUME PlanInv, Resting, OnlyCalls, leaf \in InRuns \cup InLumis,
         IF leaf \in InRuns THEN leaf' = "ContinueRun1" ELSE leaf' = "ContinueRun2",
         List(calls', {"readAndMergeRun"})
  PROVE  PlanInv'
<1>1. CallsSorted' /\ Todo' = {"readAndMergeRun"}
  BY DEF List, CallsSorted, Todo
<1>2. Failures'
  BY <1>1 DEF PlanInv, OnlyCalls, Failures, Resting, Gone
<1>3. RunPlan'
  BY <1>1 DEF PlanInv, OnlyCalls, RunPlan, Resting, Gone, BeginsRuns, HandleAll, Stages, RunCalls
<1>4. LumiPlan'
  BY <1>1 DEF PlanInv, OnlyCalls, LumiPlan, Resting, Gone, BeginsRuns, HandleAll, Stages, RunCalls
<1>5. FilePlan'
  BY <1>1 DEF PlanInv, OnlyCalls, FilePlan
<1>6. DepthPlan'
  BY <1>1 DEF PlanInv, OnlyCalls, DepthPlan, Resting, Gone, RunDone, LumiDone
<1>7. ExitPlan'
  BY <1>1 DEF PlanInv, OnlyCalls, ExitPlan, Resting, Gone
<1>8. LeafPlan'
  BY <1>1 DEF PlanInv, OnlyCalls, LeafPlan, Resting, Gone, InFiles, InRuns, InLumis, Configurations
<1>9. RunFlag'
  BY <1>1 DEF PlanInv, OnlyCalls, RunFlag, Saving, Resting, Gone, BeginsRuns, HandleAll, RunCalls,
       LeavesLumis, Starts, FinalLumi, FinalRun, LumiExit, RunExit, FilesExit, RunSetup,
       LumiSetup, Handling, FileChange, FilesChange
<1> QED BY <1>1, <1>2, <1>3, <1>4, <1>5, <1>6, <1>7, <1>8, <1>9 DEF PlanInv

LEMMA NextRunPlanned ==
  ASSUME PlanInv, Resting, OnlyCalls, leaf \in InRuns \cup InLumis,
         leaf' = "NewRun",
         List(calls', (LumiExit \cup FinalRun) \cup RunSetup)
  PROVE  PlanInv'
<1>1. CallsSorted' /\ Todo' = (LumiExit \cup FinalRun) \cup RunSetup
  BY DEF List, CallsSorted, Todo
<1>2. Failures'
  BY <1>1 DEF PlanInv, OnlyCalls, Failures, Resting, Gone
<1>3. RunPlan'
  BY <1>1 DEF PlanInv, OnlyCalls, RunPlan, Resting, Gone, RunDone, LumiDone, FileDone, OutputsDone,
       BeginsRuns, HandleAll, Stages, RunCalls, LeavesLumis, Starts, FinalLumi, FinalRun, LumiExit,
       RunExit, FilesExit, RunSetup
<1>4. LumiPlan'
  BY <1>1 DEF PlanInv, OnlyCalls, LumiPlan, Resting, Gone, BeginsRuns, HandleAll, Stages, RunCalls,
       LeavesLumis, Starts, FinalLumi, FinalRun, LumiExit, RunExit, FilesExit, RunSetup
<1>5. FilePlan'
  BY <1>1 DEF PlanInv, OnlyCalls, FilePlan, Resting, Gone, LeavesLumis, Starts, FinalLumi,
       FinalRun, LumiExit, RunExit, FilesExit, RunSetup
<1>6. DepthPlan'
  BY <1>1 DEF PlanInv, OnlyCalls, DepthPlan, Resting, Gone, RunDone, LumiDone, FileDone,
       OutputsDone, LeavesLumis, Starts, FinalLumi, FinalRun, LumiExit, RunExit, FilesExit, RunSetup
<1>7. ExitPlan'
  BY <1>1 DEF PlanInv, OnlyCalls, ExitPlan, Resting, Gone, BeginsRuns, HandleAll, Stages, RunCalls,
       LeavesLumis, Starts, FinalLumi, FinalRun, LumiExit, RunExit, FilesExit, RunSetup
<1>8. LeafPlan'
  BY <1>1 DEF PlanInv, OnlyCalls, LeafPlan, Resting, Gone, LeavesLumis, Starts, FinalLumi,
       FinalRun, LumiExit, RunExit, FilesExit, RunSetup, InFiles, InRuns, InLumis, Configurations
<1>9. RunFlag'
  BY <1>1 DEF PlanInv, OnlyCalls, RunFlag, Saving, Resting, Gone, BeginsRuns, HandleAll, RunCalls,
       LeavesLumis, Starts, FinalLumi, FinalRun, LumiExit, RunExit, FilesExit, RunSetup,
       LumiSetup, Handling, FileChange, FilesChange
<1> QED BY <1>1, <1>2, <1>3, <1>4, <1>5, <1>6, <1>7, <1>8, <1>9 DEF PlanInv

LEMMA FirstLumiPlanned ==
  ASSUME PlanInv, Resting, OnlyCalls, leaf \in InRuns,
         leaf' = "FirstLumi",
         List(calls', {"enterHandleLumis"} \cup LumiSetup)
  PROVE  PlanInv'
<1>1. CallsSorted' /\ Todo' = {"enterHandleLumis"} \cup LumiSetup
  BY DEF List, CallsSorted, Todo
<1>2. Failures'
  BY <1>1 DEF PlanInv, OnlyCalls, Failures, Resting, Gone
<1>3. RunPlan'
  BY <1>1 DEF PlanInv, OnlyCalls, RunPlan, Resting, Gone, BeginsRuns, HandleAll, Stages, RunCalls,
       LumiSetup, Handling, FileChange, FilesChange
<1>4. LumiPlan'
  BY <1>1 DEF PlanInv, OnlyCalls, LumiPlan, Resting, Gone, BeginsRuns, HandleAll, Stages, RunCalls,
       LumiSetup, Handling, FileChange, FilesChange
<1>5. FilePlan'
  BY <1>1 DEF PlanInv, OnlyCalls, FilePlan, Resting, Gone, LumiSetup, Handling, FileChange,
       FilesChange
<1>6. DepthPlan'
  BY <1>1 DEF PlanInv, OnlyCalls, DepthPlan, Resting, Gone, RunDone, LumiDone, FileDone,
       OutputsDone, LumiSetup, Handling, FileChange, FilesChange
<1>7. ExitPlan'
  BY <1>1 DEF PlanInv, OnlyCalls, ExitPlan, Resting, Gone, LumiSetup, Handling, FileChange,
       FilesChange
<1>8. LeafPlan'
  BY <1>1 DEF PlanInv, OnlyCalls, LeafPlan, Resting, Gone, LumiSetup, Handling, FileChange,
       FilesChange, InFiles, InRuns, InLumis, Configurations
<1>9. RunFlag'
  BY <1>1 DEF PlanInv, OnlyCalls, RunFlag, Saving, Resting, Gone, BeginsRuns, HandleAll, RunCalls,
       LeavesLumis, Starts, FinalLumi, FinalRun, LumiExit, RunExit, FilesExit, RunSetup,
       LumiSetup, Handling, FileChange, FilesChange
<1> QED BY <1>1, <1>2, <1>3, <1>4, <1>5, <1>6, <1>7, <1>8, <1>9 DEF PlanInv

LEMMA SameLumiPlanned ==
  ASSUME PlanInv, Resting, OnlyCalls, leaf \in InLumis,
         leaf' = "ContinueLumi",
         List(calls', {"readAndMergeLumi"})
  PROVE  PlanInv'
<1>1. CallsSorted' /\ Todo' = {"readAndMergeLumi"}
  BY DEF List, CallsSorted, Todo
<1>2. Failures'
  BY <1>1 DEF PlanInv, OnlyCalls, Failures, Resting, Gone
<1>3. RunPlan'
  BY <1>1 DEF PlanInv, OnlyCalls, RunPlan, Resting, Gone, BeginsRuns, HandleAll, Stages, RunCalls
<1>4. LumiPlan'
  BY <1>1 DEF PlanInv, OnlyCalls, LumiPlan, Resting, Gone, BeginsRuns, HandleAll, Stages, RunCalls
<1>5. FilePlan'
  BY <1>1 DEF PlanInv, OnlyCalls, FilePlan
<1>6. DepthPlan'
  BY <1>1 DEF PlanInv, OnlyCalls, DepthPlan, Resting, Gone
<1>7. ExitPlan'
  BY <1>1 DEF PlanInv, OnlyCalls, ExitPlan, Resting, Gone
<1>8. LeafPlan'
  BY <1>1 DEF PlanInv, OnlyCalls, LeafPlan, Resting, Gone, InFiles, InRuns, InLumis, Configurations
<1>9. RunFlag'
  BY <1>1 DEF PlanInv, OnlyCalls, RunFlag, Saving, Resting, Gone, BeginsRuns, HandleAll, RunCalls,
       LeavesLumis, Starts, FinalLumi, FinalRun, LumiExit, RunExit, FilesExit, RunSetup,
       LumiSetup, Handling, FileChange, FilesChange
<1> QED BY <1>1, <1>2, <1>3, <1>4, <1>5, <1>6, <1>7, <1>8, <1>9 DEF PlanInv

LEMMA NextLumiPlanned ==
  ASSUME PlanInv, Resting, OnlyCalls, leaf \in InLumis,
         leaf' = "AnotherLumi",
         List(calls', FinalLumi \cup LumiSetup)
  PROVE  PlanInv'
<1>1. CallsSorted' /\ Todo' = FinalLumi \cup LumiSetup
  BY DEF List, CallsSorted, Todo
<1>2. Failures'
  BY <1>1 DEF PlanInv, OnlyCalls, Failures, Resting, Gone
<1>3. RunPlan'
  BY <1>1 DEF PlanInv, OnlyCalls, RunPlan, Resting, Gone, RunDone, LumiDone, FileDone, OutputsDone,
       BeginsRuns, HandleAll, Stages, RunCalls, LeavesLumis, Starts, FinalLumi, FinalRun,
       LumiSetup, Handling, FileChange, FilesChange
<1>4. LumiPlan'
  BY <1>1 DEF PlanInv, OnlyCalls, LumiPlan, Resting, Gone, RunDone, LumiDone, FileDone,
       OutputsDone, BeginsRuns, HandleAll, Stages, RunCalls, LeavesLumis, Starts, FinalLumi,
       FinalRun, LumiSetup, Handling, FileChange, FilesChange
<1>5. FilePlan'
  BY <1>1 DEF PlanInv, OnlyCalls, FilePlan, Resting, Gone, LeavesLumis, Starts, FinalLumi,
       FinalRun, LumiSetup, Handling, FileChange, FilesChange
<1>6. DepthPlan'
  BY <1>1 DEF PlanInv, OnlyCalls, DepthPlan, Resting, Gone, LeavesLumis, Starts, FinalLumi,
       FinalRun, LumiSetup, Handling, FileChange, FilesChange
<1>7. ExitPlan'
  BY <1>1 DEF PlanInv, OnlyCalls, ExitPlan, Resting, Gone, RunDone, LumiDone, FileDone,
       OutputsDone, BeginsRuns, HandleAll, Stages, RunCalls, LumiCalls, FileCalls, OutputCalls,
       EventCalls, LeavesLumis, Starts, FinalLumi, FinalRun, LumiSetup, Handling, FileChange,
       FilesChange
<1>8. LeafPlan'
  BY <1>1 DEF PlanInv, OnlyCalls, LeafPlan, Resting, Gone, LeavesLumis, Starts, FinalLumi,
       FinalRun, LumiSetup, Handling, FileChange, FilesChange, InFiles, InRuns, InLumis,
       Configurations
<1>9. RunFlag'
  BY <1>1 DEF PlanInv, OnlyCalls, RunFlag, Saving, Resting, Gone, BeginsRuns, HandleAll, RunCalls,
       LeavesLumis, Starts, FinalLumi, FinalRun, LumiExit, RunExit, FilesExit, RunSetup,
       LumiSetup, Handling, FileChange, FilesChange
<1> QED BY <1>1, <1>2, <1>3, <1>4, <1>5, <1>6, <1>7, <1>8, <1>9 DEF PlanInv

LEMMA EventPlanned ==
  ASSUME PlanInv, Resting, OnlyCalls, leaf \in InLumis,
         leaf' = "HandleEvent",
         List(calls', Handling)
  PROVE  PlanInv'
<1>1. CallsSorted' /\ Todo' = Handling
  BY DEF List, CallsSorted, Todo
<1>2. Failures'
  BY <1>1 DEF PlanInv, OnlyCalls, Failures, Resting, Gone
<1>3. RunPlan'
  BY <1>1 DEF PlanInv, OnlyCalls, RunPlan, Resting, Gone, LumiCalls, FileCalls, OutputCalls,
       EventCalls, LumiSetup, Handling, FileChange, FilesChange
<1>4. LumiPlan'
  BY <1>1 DEF PlanInv, OnlyCalls, LumiPlan, Resting, Gone, LumiCalls, FileCalls, OutputCalls,
       EventCalls, LumiSetup, Handling, FileChange, FilesChange
<1>5. FilePlan'
  BY <1>1 DEF PlanInv, OnlyCalls, FilePlan, Resting, Gone, LumiSetup, Handling, FileChange,
       FilesChange
<1>6. DepthPlan'
  BY <1>1 DEF PlanInv, OnlyCalls, DepthPlan, Resting, Gone, LumiSetup, Handling, FileChange,
       FilesChange
<1>7. ExitPlan'
  BY <1>1 DEF PlanInv, OnlyCalls, ExitPlan, Resting, Gone, LumiSetup, Handling, FileChange,
       FilesChange
<1>8. LeafPlan'
  BY <1>1 DEF PlanInv, OnlyCalls, LeafPlan, Resting, Gone, LumiSetup, Handling, FileChange,
       FilesChange, InFiles, InRuns, InLumis, Configurations
<1>9. RunFlag'
  BY <1>1 DEF PlanInv, OnlyCalls, RunFlag, Saving, Resting, Gone, BeginsRuns, HandleAll, RunCalls,
       LeavesLumis, Starts, FinalLumi, FinalRun, LumiExit, RunExit, FilesExit, RunSetup,
       LumiSetup, Handling, FileChange, FilesChange
<1> QED BY <1>1, <1>2, <1>3, <1>4, <1>5, <1>6, <1>7, <1>8, <1>9 DEF PlanInv

LEMMA NoFilePlanned ==
  ASSUME PlanInv, Resting, OnlyCalls, leaf = "Starting",
         leaf' = "EndingLoop",
         List(calls', {"startingNewLoop", "endOfLoop"})
  PROVE  PlanInv'
<1>1. CallsSorted' /\ Todo' = {"startingNewLoop", "endOfLoop"}
  BY DEF List, CallsSorted, Todo
<1>2. Failures'
  BY <1>1 DEF PlanInv, OnlyCalls, Failures, Resting, Gone
<1>3. RunPlan'
  BY <1>1 DEF PlanInv, OnlyCalls, RunPlan, Resting, Gone, RunDone, LumiDone
<1>4. LumiPlan'
  BY <1>1 DEF PlanInv, OnlyCalls, LumiPlan, Resting, Gone, RunDone, LumiDone
<1>5. FilePlan'
  BY <1>1 DEF PlanInv, OnlyCalls, FilePlan
<1>6. DepthPlan'
  BY <1>1 DEF PlanInv, OnlyCalls, DepthPlan, Resting, Gone, RunDone, LumiDone, FileDone, OutputsDone
<1>7. ExitPlan'
  BY DEF OnlyCalls, ExitPlan, Resting
<1>8. LeafPlan'
  BY <1>1 DEF PlanInv, OnlyCalls, LeafPlan, Resting, Gone, InFiles, InRuns, InLumis, Configurations
<1>9. RunFlag'
  BY <1>1 DEF PlanInv, OnlyCalls, RunFlag, Saving, Resting, Gone, BeginsRuns, HandleAll, RunCalls,
       LeavesLumis, Starts, FinalLumi, FinalRun, LumiExit, RunExit, FilesExit, RunSetup,
       LumiSetup, Handling, FileChange, FilesChange
<1> QED BY <1>1, <1>2, <1>3, <1>4, <1>5, <1>6, <1>7, <1>8, <1>9 DEF PlanInv

LEMMA LastFilePlanned ==
  ASSUME PlanInv, Resting, OnlyCalls, leaf \in InFiles \cup InRuns \cup InLumis,
         leaf' = "EndingLoop",
         List(calls', ((LumiExit \cup RunExit) \cup FilesExit) \cup {"endOfLoop"})
  PROVE  PlanInv'
<1>1. CallsSorted' /\ Todo' = ((LumiExit \cup RunExit) \cup FilesExit) \cup {"endOfLoop"}
  BY DEF List, CallsSorted, Todo
<1>2. Failures'
  BY <1>1 DEF PlanInv, OnlyCalls, Failures, Resting, Gone
<1>3. RunPlan'
  BY <1>1 DEF PlanInv, OnlyCalls, RunPlan, Resting, Gone, RunDone, LumiDone, FileDone, OutputsDone,
       BeginsRuns, HandleAll, Stages, RunCalls, LeavesLumis, Starts, FinalLumi, FinalRun, LumiExit,
       RunExit, FilesExit, RunSetup
<1>4. LumiPlan'
  BY <1>1 DEF PlanInv, OnlyCalls, LumiPlan, Resting, Gone, BeginsRuns, HandleAll, Stages, RunCalls,
       LeavesLumis, Starts, FinalLumi, FinalRun, LumiExit, RunExit, FilesExit, RunSetup
<1>5. FilePlan'
  BY <1>1 DEF PlanInv, OnlyCalls, FilePlan, Resting, Gone, RunDone, LumiDone, FileDone,
       OutputsDone, LeavesLumis, Starts, FinalLumi, FinalRun, LumiExit, RunExit, FilesExit, RunSetup
<1>6. DepthPlan'
  BY <1>1 DEF PlanInv, OnlyCalls, DepthPlan, Resting, Gone, RunDone, LumiDone, FileDone,
       OutputsDone, LeavesLumis, Starts, FinalLumi, FinalRun, LumiExit, RunExit, FilesExit, RunSetup
<1>7. ExitPlan'
  BY <1>1 DEF PlanInv, OnlyCalls, ExitPlan, Resting, Gone, LumiExit, RunExit, FilesExit, RunSetup
<1>8. LeafPlan'
  BY <1>1 DEF PlanInv, OnlyCalls, LeafPlan, Resting, Gone, LeavesLumis, Starts, FinalLumi,
       FinalRun, LumiExit, RunExit, FilesExit, RunSetup, InFiles, InRuns, InLumis, Configurations
<1>9. RunFlag'
  BY <1>1 DEF PlanInv, OnlyCalls, RunFlag, Saving, Resting, Gone, BeginsRuns, HandleAll, RunCalls,
       LeavesLumis, Starts, FinalLumi, FinalRun, LumiExit, RunExit, FilesExit, RunSetup,
       LumiSetup, Handling, FileChange, FilesChange
<1> QED BY <1>1, <1>2, <1>3, <1>4, <1>5, <1>6, <1>7, <1>8, <1>9 DEF PlanInv

LEMMA NextLoopPlanned ==
  ASSUME PlanInv, Resting, OnlyCalls, leaf = "EndingLoop",
         leaf' = "Starting",
         List(calls', {"prepareForNextLoop", "rewindInput"})
  PROVE  PlanInv'
<1>1. CallsSorted' /\ Todo' = {"prepareForNextLoop", "rewindInput"}
  BY DEF List, CallsSorted, Todo
<1>2. Failures'
  BY <1>1 DEF PlanInv, OnlyCalls, Failures, Resting, Gone
<1>3. RunPlan'
  BY <1>1 DEF PlanInv, OnlyCalls, RunPlan, Resting, Gone, RunDone, LumiDone
<1>4. LumiPlan'
  BY <1>1 DEF PlanInv, OnlyCalls, LumiPlan, Resting, Gone, RunDone, LumiDone
<1>5. FilePlan'
  BY <1>1 DEF PlanInv, OnlyCalls, FilePlan
<1>6. DepthPlan'
  BY <1>1 DEF PlanInv, OnlyCalls, DepthPlan, Resting, Gone, RunDone, LumiDone, FileDone, OutputsDone
<1>7. ExitPlan'
  BY DEF OnlyCalls, ExitPlan, Resting
<1>8. LeafPlan'
  BY <1>1 DEF PlanInv, OnlyCalls, LeafPlan, Resting, Gone, InFiles, InRuns, InLumis, Configurations
<1>9. RunFlag'
  BY <1>1 DEF PlanInv, OnlyCalls, RunFlag, Saving, Resting, Gone, BeginsRuns, HandleAll, RunCalls,
       LeavesLumis, Starts, FinalLumi, FinalRun, LumiExit, RunExit, FilesExit, RunSetup,
       LumiSetup, Handling, FileChange, FilesChange
<1> QED BY <1>1, <1>2, <1>3, <1>4, <1>5, <1>6, <1>7, <1>8, <1>9 DEF PlanInv

\* What a received item leaves alone.
LEMMA ReceivedCalls ==
  ASSUME ExpectedInv, PlanInv, NEW type, NEW n, Receive(type, n)
  PROVE  /\ Resting /\ OnlyCalls
         /\ leaf \in {"Starting"} \cup InFiles \cup InRuns \cup InLumis
         /\ type \in NextItems(previous) /\ previous' = type
<1>1. Idle /\ posted = "none"
      /\ UNCHANGED <<config, depth, exited, unwinding, posted, runVars, lumiVars, doneVars>>
  BY DEF Receive
<1>2. OnlyCalls
  BY <1>1 DEF OnlyCalls, runVars, lumiVars, doneVars
<1> QED BY <1>1, <1>2, RestingPlan, ReceivedWhere

\* The lists of calls with which the machine reacts to a file, by where it is.
LEMMA FileReaction ==
  ASSUME ExpectedInv, PlanInv, OnFile
  PROVE  /\ Resting /\ OnlyCalls
         /\ \/ /\ leaf = "Starting" /\ leaf' = "FirstFile"
               /\ List(calls', {"startingNewLoop", "enterHandleFiles", "readFile",
                                "respondToOpenInputFile", "openOutputFiles"})
            \/ /\ leaf \in InFiles \cup InRuns \cup InLumis /\ leaf' = "NewInputAndOutputFiles"
               /\ List(calls', (LumiExit \cup RunExit) \cup FilesChange)
            \/ /\ leaf \in InFiles \cup InRuns \cup InLumis
               /\ leaf' = IF leaf \in InFiles THEN "HandleNewInputFile1"
                          ELSE IF leaf \in InRuns THEN "HandleNewInputFile2" ELSE "HandleNewInputFile3"
               /\ List(calls', FileChange)
<1>1. /\ Resting /\ OnlyCalls
      /\ leaf \in {"Starting"} \cup InFiles \cup InRuns \cup InLumis
  BY ReceivedCalls DEF OnFile
<1>2. CASE leaf = "Starting"
  <2>1. leaf' = "FirstFile" /\ calls' = <<"startingNewLoop", "enterHandleFiles">> \o openFiles
    BY <1>2 DEF OnFile, GoTo, InFiles, InRuns, InLumis
  <2>2. List(<<"startingNewLoop", "enterHandleFiles">>, {"startingNewLoop", "enterHandleFiles"})
    BY TwoCalls, Ranks DEF Call, OtherCalls, Own
  <2>3. List(<<"startingNewLoop", "enterHandleFiles">> \o openFiles,
             {"startingNewLoop", "enterHandleFiles"} \cup
             {"readFile", "respondToOpenInputFile", "openOutputFiles"})
    BY <2>2, FileLists, JoinedLists, Ranks
  <2>4. {"startingNewLoop", "enterHandleFiles"} \cup
        {"readFile", "respondToOpenInputFile", "openOutputFiles"} =
        {"startingNewLoop", "enterHandleFiles", "readFile", "respondToOpenInputFile",
            "openOutputFiles"}
    OBVIOUS
  <2> QED BY <1>1, <1>2, <2>1, <2>3, <2>4
<1>3. CASE leaf \in InFiles \cup InRuns \cup InLumis
  <2>1. \/ /\ leaf' = "NewInputAndOutputFiles" /\ calls' = leaveRuns \o goToNewInputAndOutputFiles
        \/ /\ leaf' = IF leaf \in InFiles THEN "HandleNewInputFile1"
                      ELSE IF leaf \in InRuns THEN "HandleNewInputFile2" ELSE "HandleNewInputFile3"
           /\ calls' = goToNewInputFile
    BY <1>3 DEF OnFile, GoTo, InFiles, InRuns, InLumis
  <2>2. \A x \in LumiExit \cup RunExit, y \in FilesChange : Rank[x] < Rank[y]
    BY Ranks DEF LumiExit, RunExit, FinalLumi, FinalRun, FilesChange, FileChange
  <2>3. List(leaveRuns \o goToNewInputAndOutputFiles, (LumiExit \cup RunExit) \cup FilesChange)
    BY <2>2, ExitLists, FileLists, JoinedLists
  <2> QED BY <1>1, <1>3, <2>1, <2>3, FileLists
<1> QED BY <1>1, <1>2, <1>3

LEMMA FileKeepsPlan ==
  ASSUME ExpectedInv, PlanInv, OnFile
  PROVE  PlanInv'
BY FileReaction, FirstFilePlanned, NewFilesPlanned, NextFilePlanned

\* The reactions to a run.
LEMMA RunReaction ==
  ASSUME ExpectedInv, PlanInv, NEW r \in RunNumbers, OnRun(r)
  PROVE  /\ Resting /\ OnlyCalls
         /\ \/ leaf \in InFiles /\ leaf' = "NewRun" /\ List(calls',
              {"enterHandleRuns"} \cup RunSetup)
            \/ /\ leaf \in InRuns \cup InLumis /\ r = currentRun
               /\ leaf' = IF leaf \in InRuns THEN "ContinueRun1" ELSE "ContinueRun2"
               /\ List(calls', {"readAndMergeRun"})
            \/ /\ leaf \in InRuns \cup InLumis /\ leaf' = "NewRun"
               /\ List(calls', (LumiExit \cup FinalRun) \cup RunSetup)
<1>1. /\ Resting /\ OnlyCalls
      /\ leaf \in {"Starting"} \cup InFiles \cup InRuns \cup InLumis
      /\ "Run" \in NextItems(previous)
  BY ReceivedCalls DEF OnRun
<1>2. leaf # "Starting"
  BY <1>1 DEF ExpectedInv, LeafFollowsSource, NextItems
<1>3. \/ leaf \in InFiles /\ leaf' = "NewRun" /\ calls' = <<"enterHandleRuns">> \o setupCurrentRun
      \/ /\ leaf \in InRuns \cup InLumis /\ r = currentRun /\ calls' = <<"readAndMergeRun">>
         /\ leaf' = IF leaf \in InRuns THEN "ContinueRun1" ELSE "ContinueRun2"
      \/ leaf \in InRuns /\ leaf' = "NewRun" /\ calls' = finalizeRun \o setupCurrentRun
      \/ leaf \in InLumis /\ leaf' = "NewRun" /\ calls' = leaveLumis \o finalizeRun \o setupCurrentRun
  BY <1>1, <1>2 DEF OnRun, GoTo, InFiles, InRuns, InLumis
<1>4. List(<<"enterHandleRuns">> \o setupCurrentRun, {"enterHandleRuns"} \cup RunSetup)
  <2>1. \A x \in {"enterHandleRuns"}, y \in RunSetup : Rank[x] < Rank[y]
    BY Ranks DEF RunSetup
  <2>2. List(<<"enterHandleRuns">>, {"enterHandleRuns"})
    BY OneCall DEF Call, Own
  <2> QED BY <2>1, <2>2, RunLists, JoinedLists
<1>5. List(<<"readAndMergeRun">>, {"readAndMergeRun"})
  BY OneCall DEF Call, OtherCalls
<1>6. CASE leaf \in InRuns /\ leaf' = "NewRun" /\ calls' = finalizeRun \o setupCurrentRun
  <2>1. \A x \in FinalRun, y \in RunSetup : Rank[x] < Rank[y]
    BY Ranks DEF FinalRun, RunSetup
  <2>2. List(finalizeRun \o setupCurrentRun, FinalRun \cup RunSetup)
    BY <2>1, RunLists, JoinedLists
  <2>3. LumiExit = {}
    BY <1>1, <1>6 DEF Resting, LumiExit
  <2>4. FinalRun \cup RunSetup = (LumiExit \cup FinalRun) \cup RunSetup
    BY <2>3
  <2> QED BY <1>1, <1>6, <2>2, <2>4
<1>7. List(leaveLumis \o finalizeRun \o setupCurrentRun, (LumiExit \cup FinalRun) \cup RunSetup)
  <2>1. \A x \in LumiExit, y \in FinalRun : Rank[x] < Rank[y]
    BY Ranks DEF LumiExit, FinalLumi, FinalRun
  <2>2. List(leaveLumis \o finalizeRun, LumiExit \cup FinalRun)
    BY <2>1, ExitLists, RunLists, JoinedLists
  <2>3. \A x \in LumiExit \cup FinalRun, y \in RunSetup : Rank[x] < Rank[y]
    BY Ranks DEF LumiExit, FinalLumi, FinalRun, RunSetup
  <2>4. List((leaveLumis \o finalizeRun) \o setupCurrentRun, (LumiExit \cup FinalRun) \cup RunSetup)
    BY <2>2, <2>3, RunLists, JoinedLists
  <2> QED BY <2>4
<1> QED BY <1>1, <1>3, <1>4, <1>5, <1>6, <1>7

LEMMA RunKeepsPlan ==
  ASSUME ExpectedInv, PlanInv, NEW r \in RunNumbers, OnRun(r)
  PROVE  PlanInv'
BY RunReaction, FirstRunPlanned, SameRunPlanned, NextRunPlanned

\* The reactions to a luminosity block.
LEMMA LumiReaction ==
  ASSUME ExpectedInv, PlanInv, NEW l \in LumiNumbers, OnLumi(l)
  PROVE  /\ Resting /\ OnlyCalls
         /\ \/ leaf \in InRuns /\ leaf' = "FirstLumi" /\ List(calls',
              {"enterHandleLumis"} \cup LumiSetup)
            \/ /\ leaf \in InLumis /\ l = currentLumi /\ leaf' = "ContinueLumi"
               /\ List(calls', {"readAndMergeLumi"})
            \/ leaf \in InLumis /\ leaf' = "AnotherLumi" /\ List(calls', FinalLumi \cup LumiSetup)
<1>1. /\ Resting /\ OnlyCalls
      /\ leaf \in {"Starting"} \cup InFiles \cup InRuns \cup InLumis
      /\ "Lumi" \in NextItems(previous)
  BY ReceivedCalls DEF OnLumi
<1>2. previous \notin {"Invalid", "File"}
  BY <1>1 DEF NextItems
<1>3. leaf \in {"NewRun", "ContinueRun1", "FirstLumi", "AnotherLumi", "ContinueLumi",
                "ContinueRun2", "HandleEvent"}
  BY <1>1, <1>2 DEF ExpectedInv, LeafFollowsSource, InFiles, InRuns, InLumis
<1>4. \/ leaf \in InRuns /\ leaf' = "FirstLumi" /\ calls' = <<"enterHandleLumis">> \o setupCurrentLumi
      \/ leaf \in InLumis /\ l = currentLumi /\ leaf' = "ContinueLumi" /\ calls' = <<"readAndMergeLumi">>
      \/ leaf \in InLumis /\ leaf' = "AnotherLumi" /\ calls' = finalizeLumi \o setupCurrentLumi
  BY <1>3 DEF OnLumi, GoTo, InRuns, InLumis
<1>5. List(<<"enterHandleLumis">> \o setupCurrentLumi, {"enterHandleLumis"} \cup LumiSetup)
  <2>1. \A x \in {"enterHandleLumis"}, y \in LumiSetup : Rank[x] < Rank[y]
    BY Ranks DEF LumiSetup
  <2>2. List(<<"enterHandleLumis">>, {"enterHandleLumis"})
    BY OneCall DEF Call, Own
  <2> QED BY <2>1, <2>2, LumiLists, JoinedLists
<1>6. List(<<"readAndMergeLumi">>, {"readAndMergeLumi"})
  BY OneCall DEF Call, OtherCalls
<1>7. List(finalizeLumi \o setupCurrentLumi, FinalLumi \cup LumiSetup)
  <2>1. \A x \in FinalLumi, y \in LumiSetup : Rank[x] < Rank[y]
    BY Ranks DEF FinalLumi, LumiSetup
  <2> QED BY <2>1, LumiLists, JoinedLists
<1> QED BY <1>1, <1>4, <1>5, <1>6, <1>7

LEMMA LumiKeepsPlan ==
  ASSUME ExpectedInv, PlanInv, NEW l \in LumiNumbers, OnLumi(l)
  PROVE  PlanInv'
BY LumiReaction, FirstLumiPlanned, SameLumiPlanned, NextLumiPlanned

\* The reaction to an event.
LEMMA EventReaction ==
  ASSUME ExpectedInv, PlanInv, OnEvent
  PROVE  /\ Resting /\ OnlyCalls
         /\ leaf \in InLumis /\ leaf' = "HandleEvent" /\ List(calls', Handling)
<1>1. /\ Resting /\ OnlyCalls
      /\ leaf \in {"Starting"} \cup InFiles \cup InRuns \cup InLumis
      /\ "Event" \in NextItems(previous)
  BY ReceivedCalls DEF OnEvent
<1>2. previous \notin {"Invalid", "File", "Run"}
  BY <1>1 DEF NextItems
<1>3. leaf \in InLumis \ {"HandleNewInputFile3", "ContinueRun2"}
  BY <1>1, <1>2 DEF ExpectedInv, LeafFollowsSource, InFiles, InRuns, InLumis
<1>4. leaf' = "HandleEvent" /\ calls' = handleEvent
  BY <1>3 DEF OnEvent, GoTo
<1> DEFINE first == IF ~beginRunCalled THEN {"beginRun"} ELSE {}
           second == IF currentLumiEmpty /\ ~HandleAll THEN {"beginLumi"} ELSE {}
           third == {"markNonEmpty", "readAndProcessEvent"}
<1>5. /\ List(If(~beginRunCalled, <<"beginRun">>), first)
      /\ List(If(currentLumiEmpty /\ ~HandleAll, <<"beginLumi">>), second)
      /\ List(<<"markNonEmpty", "readAndProcessEvent">>, third)
  <2>1. {"beginRun", "beginLumi", "markNonEmpty", "readAndProcessEvent"} \subseteq Call
    BY DEF Call, RunCalls, LumiCalls, OtherCalls, Own
  <2>2. List(<<"markNonEmpty", "readAndProcessEvent">>, third)
    BY <2>1, TwoCalls, Ranks
  <2>3. List(<<"beginRun">>, {"beginRun"}) /\ List(<<"beginLumi">>, {"beginLumi"})
    BY <2>1, OneCall
  <2> QED BY <2>2, <2>3, SomeCalls
<1>6. List(If(~beginRunCalled, <<"beginRun">>) \o If(currentLumiEmpty /\ ~HandleAll,
        <<"beginLumi">>),
           first \cup second)
  BY <1>5, JoinedLists, Ranks
<1>7. List(If(~beginRunCalled, <<"beginRun">>) \o If(currentLumiEmpty /\ ~HandleAll,
        <<"beginLumi">>)
             \o <<"markNonEmpty", "readAndProcessEvent">>, (first \cup second) \cup third)
  BY <1>5, <1>6, JoinedLists, Ranks
<1>8. handleEvent = If(~beginRunCalled, <<"beginRun">>) \o If(currentLumiEmpty /\ ~HandleAll,
        <<"beginLumi">>)
             \o <<"markNonEmpty", "readAndProcessEvent">>
  BY DEF handleEvent, HandleAll
<1>9. (first \cup second) \cup third = Handling
  BY DEF Handling
<1> QED BY <1>1, <1>3, <1>4, <1>7, <1>8, <1>9

LEMMA EventKeepsPlan ==
  ASSUME ExpectedInv, PlanInv, OnEvent
  PROVE  PlanInv'
BY EventReaction, EventPlanned

\* The reaction to a Stop: a loop that has ended leaves the machine with nothing to do.
LEMMA StopReaction ==
  ASSUME ExpectedInv, PlanInv, OnStop
  PROVE  /\ Resting /\ OnlyCalls
         /\ \/ leaf = "Starting" /\ leaf' = "EndingLoop" /\ List(calls', {"startingNewLoop",
              "endOfLoop"})
            \/ leaf = "EndingLoop" /\ leaf' = "Terminated" /\ calls' = <<>>
            \/ /\ leaf \in InFiles \cup InRuns \cup InLumis /\ leaf' = "EndingLoop"
               /\ List(calls', ((LumiExit \cup RunExit) \cup FilesExit) \cup {"endOfLoop"})
<1>1. /\ Idle /\ posted \in {"none", "Stop"} /\ posted' = "none"
      /\ UNCHANGED <<config, depth, exited, unwinding, runVars, lumiVars, doneVars>>
  BY DEF OnStop
<1>2. Resting /\ OnlyCalls
  BY <1>1, RestingPlan DEF OnlyCalls, runVars, lumiVars, doneVars
<1>3. List(<<"startingNewLoop", "endOfLoop">>, {"startingNewLoop", "endOfLoop"})
  BY TwoCalls, Ranks DEF Call, OtherCalls
<1>4. List(leaveFiles \o <<"endOfLoop">>,
        ((LumiExit \cup RunExit) \cup FilesExit) \cup {"endOfLoop"})
  <2>1. \A x \in (LumiExit \cup RunExit) \cup FilesExit, y \in {"endOfLoop"} : Rank[x] < Rank[y]
    BY Ranks DEF LumiExit, RunExit, FilesExit, FinalLumi, FinalRun
  <2>2. List(<<"endOfLoop">>, {"endOfLoop"})
    BY OneCall DEF Call, OtherCalls
  <2> QED BY <2>1, <2>2, ExitLists, JoinedLists
<1>5. leaf \in {"Starting", "EndingLoop"} \cup InFiles \cup InRuns \cup InLumis
  BY <1>1 DEF ExpectedInv, LeafFollowsSource, Leaves, Idle
<1>6. CASE leaf = "Starting"
  BY <1>2, <1>3, <1>6 DEF OnStop, GoTo
<1>7. CASE leaf = "EndingLoop"
  BY <1>2, <1>7 DEF OnStop, GoTo
<1>8. CASE leaf \in InFiles \cup InRuns \cup InLumis
  <2>1. leaf' = "EndingLoop" /\ calls' = leaveFiles \o <<"endOfLoop">>
    BY <1>8 DEF OnStop, GoTo, InFiles, InRuns, InLumis
  <2> QED BY <1>2, <1>4, <1>8, <2>1
<1> QED BY <1>5, <1>6, <1>7, <1>8

LEMMA StopKeepsPlan ==
  ASSUME ExpectedInv, PlanInv, OnStop
  PROVE  PlanInv'
<1>1. Resting /\ OnlyCalls
  BY StopReaction
<1>2. CASE leaf = "EndingLoop" /\ leaf' = "Terminated" /\ calls' = <<>>
  <2>1. CallsSorted' /\ Todo' = {}
    BY <1>2, NothingToDo DEF CallsSorted, Todo
  <2>2. depth' = 0 /\ exited' = {} /\ abandoned' = {} /\ ~unwinding'
    BY <1>1, <1>2 DEF Resting, OnlyCalls
  <2>3. /\ run' = "none" /\ lumi' = "none" /\ file' = "closed" /\ outputs' = "closed"
        /\ ~runException' /\ ~lumiException' /\ ~beginRunCalled'
    BY <1>1, <1>2 DEF Resting, OnlyCalls
  <2>4. Failures' /\ RunPlan' /\ RunFlag' /\ LumiPlan' /\ FilePlan' /\ DepthPlan' /\ ExitPlan'
    BY <1>1, <2>1, <2>2, <2>3 DEF PlanInv, Resting, OnlyCalls, Failures, RunPlan, RunFlag, Saving,
         LumiPlan, FilePlan, DepthPlan, ExitPlan, Gone, RunDone, LumiDone, FileDone, OutputsDone,
         Stages
  <2>5. LeafPlan'
    BY <1>2, <2>1, <2>2 DEF LeafPlan, InFiles, InRuns, InLumis
  <2> QED BY <2>1, <2>4, <2>5 DEF PlanInv
<1> QED BY <1>1, <1>2, StopReaction, NoFilePlanned, LastFilePlanned

LEMMA RestartReaction ==
  ASSUME PlanInv, OnRestart
  PROVE  /\ Resting /\ OnlyCalls /\ leaf = "EndingLoop" /\ leaf' = "Starting"
         /\ List(calls', {"prepareForNextLoop", "rewindInput"})
<1>1. /\ Idle /\ posted = "Restart" /\ posted' = "none" /\ leaf' = "Starting"
      /\ calls' = <<"prepareForNextLoop", "rewindInput">>
      /\ UNCHANGED <<config, depth, exited, unwinding, runVars, lumiVars, doneVars>>
  BY DEF OnRestart, GoTo
<1>2. Resting /\ OnlyCalls
  BY <1>1, RestingPlan DEF OnlyCalls, runVars, lumiVars, doneVars
<1>3. leaf = "EndingLoop"
  BY <1>1 DEF PlanInv, LeafPlan, Idle
<1>4. List(<<"prepareForNextLoop", "rewindInput">>, {"prepareForNextLoop", "rewindInput"})
  BY TwoCalls, Ranks DEF Call, OtherCalls
<1> QED BY <1>1, <1>2, <1>3, <1>4

LEMMA RestartKeepsPlan ==
  ASSUME PlanInv, OnRestart
  PROVE  PlanInv'
BY RestartReaction, NextLoopPlanned

\* The source throws between two items: the machine starts to unwind.
LEMMA SourceKeepsPlan ==
  ASSUME PlanInv, SourceThrows
  PROVE  PlanInv'
<1>1. /\ Idle /\ unwinding' = TRUE
      /\ UNCHANGED <<leaf, posted>>
      /\ UNCHANGED <<config, depth, exited, calls, runVars, lumiVars, doneVars>>
  BY DEF SourceThrows
<1>2. Resting
  BY <1>1, RestingPlan
<1>3. CallsSorted' /\ Todo' = {}
  BY <1>1, NothingToDo DEF Idle, CallsSorted, Todo
<1>4. UNCHANGED <<config, depth, exited, beginRunCalled, runException,
                  currentLumiEmpty, lumiException, file, outputs, run, lumi, abandoned>>
  BY <1>1 DEF runVars, lumiVars, doneVars
<1>5. Failures' /\ RunPlan' /\ RunFlag' /\ LumiPlan' /\ FilePlan'
  BY <1>1, <1>2, <1>3, <1>4 DEF PlanInv, Resting, Failures, RunPlan, RunFlag, Saving, LumiPlan,
       FilePlan, Gone, RunDone, LumiDone, BeginsRuns, HandleAll
<1>6. DepthPlan' /\ ExitPlan'
  BY <1>2, <1>3, <1>4 DEF PlanInv, Resting, DepthPlan, ExitPlan, Gone, RunDone, LumiDone, FileDone,
       OutputsDone
<1>7. LeafPlan'
  BY <1>1, <1>3 DEF PlanInv, LeafPlan, Idle
<1> QED BY <1>3, <1>5, <1>6, <1>7 DEF PlanInv

\* A call that returns keeps the plan, whichever it is.
LEMMA ReturnKeepsPlan ==
  ASSUME PlanInv, CallReturns
  PROVE  PlanInv'
<1>1. Head(calls) \in Call
  BY HeadReturns DEF PlanInv, CallReturns
<1>2. CASE Head(calls) = "startingNewLoop"
  BY <1>2, StartingNewLoopReturns
<1>3. CASE Head(calls) = "enterHandleFiles"
  BY <1>3, EnterHandleFilesReturns
<1>4. CASE Head(calls) = "exitHandleLumis"
  BY <1>4, ExitHandleLumisReturns
<1>5. CASE Head(calls) = "endLumi"
  BY <1>5, EndLumiReturns
<1>6. CASE Head(calls) = "writeLumi"
  BY <1>6, WriteLumiReturns
<1>7. CASE Head(calls) = "deleteLumiFromCache"
  BY <1>7, DeleteLumiFromCacheReturns
<1>8. CASE Head(calls) = "destroyHandleLumis"
  BY <1>8, DestroyHandleLumisReturns
<1>9. CASE Head(calls) = "exitHandleRuns"
  BY <1>9, ExitHandleRunsReturns
<1>10. CASE Head(calls) = "endRun"
  BY <1>10, EndRunReturns
<1>11. CASE Head(calls) = "writeRun"
  BY <1>11, WriteRunReturns
<1>12. CASE Head(calls) = "deleteRunFromCache"
  BY <1>12, DeleteRunFromCacheReturns
<1>13. CASE Head(calls) = "destroyHandleRuns"
  BY <1>13, DestroyHandleRunsReturns
<1>14. CASE Head(calls) = "enterHandleRuns"
  BY <1>14, EnterHandleRunsReturns
<1>15. CASE Head(calls) = "readRun"
  BY <1>15, ReadRunReturns
<1>16. CASE Head(calls) = "readAndMergeRun"
  BY <1>16, ReadAndMergeRunReturns
<1>17. CASE Head(calls) = "beginRun"
  BY <1>17, BeginRunReturns
<1>18. CASE Head(calls) = "enterHandleLumis"
  BY <1>18, EnterHandleLumisReturns
<1>19. CASE Head(calls) = "readLuminosityBlock"
  BY <1>19, ReadLuminosityBlockReturns
<1>20. CASE Head(calls) = "beginLumi"
  BY <1>20, BeginLumiReturns
<1>21. CASE Head(calls) = "markNonEmpty"
  BY <1>21, MarkNonEmptyReturns
<1>22. CASE Head(calls) = "readAndProcessEvent"
  BY <1>22, ReadAndProcessEventReturns
<1>23. CASE Head(calls) = "readAndMergeLumi"
  BY <1>23, ReadAndMergeLumiReturns
<1>24. CASE Head(calls) = "exitHandleFiles"
  BY <1>24, ExitHandleFilesReturns
<1>25. CASE Head(calls) = "respondToCloseInputFile"
  BY <1>25, RespondToCloseInputFileReturns
<1>26. CASE Head(calls) = "closeInputFile"
  BY <1>26, CloseInputFileReturns
<1>27. CASE Head(calls) = "closeOutputFiles"
  BY <1>27, CloseOutputFilesReturns
<1>28. CASE Head(calls) = "readFile"
  BY <1>28, ReadFileReturns
<1>29. CASE Head(calls) = "respondToOpenInputFile"
  BY <1>29, RespondToOpenInputFileReturns
<1>30. CASE Head(calls) = "openOutputFiles"
  BY <1>30, OpenOutputFilesReturns
<1>31. CASE Head(calls) = "destroyHandleFiles"
  BY <1>31, DestroyHandleFilesReturns
<1>32. CASE Head(calls) = "endOfLoop"
  BY <1>32, EndOfLoopReturns
<1>33. CASE Head(calls) = "doErrorStuff"
  BY <1>33, DoErrorStuffReturns
<1>34. CASE Head(calls) = "prepareForNextLoop"
  BY <1>34, PrepareForNextLoopReturns
<1>35. CASE Head(calls) = "rewindInput"
  BY <1>35, RewindInputReturns
<1>36. CASE Head(calls) = "flagRun"
  BY <1>36, FlagRunReturns
<1> QED BY <1>1, <1>2, <1>3, <1>4, <1>5, <1>6, <1>7, <1>8, <1>9, <1>10, <1>11, <1>12, <1>13, <1>14,
    <1>15, <1>16, <1>17, <1>18, <1>19, <1>20, <1>21, <1>22, <1>23, <1>24, <1>25, <1>26, <1>27,
    <1>28, <1>29, <1>30, <1>31, <1>32, <1>33, <1>34, <1>35, <1>36 DEF Call, RunCalls, LumiCalls,
    FileCalls, OutputCalls, OtherCalls, Own

LEMMA StepKeepsPlan ==
  ASSUME ExpectedInv, PlanInv, [Next]_vars
  PROVE  PlanInv'
<1>1. CASE OnFile
  BY <1>1, FileKeepsPlan
<1>2. CASE \E r \in RunNumbers : OnRun(r)
  BY <1>2, RunKeepsPlan
<1>3. CASE \E l \in LumiNumbers : OnLumi(l)
  BY <1>3, LumiKeepsPlan
<1>4. CASE OnEvent
  BY <1>4, EventKeepsPlan
<1>5. CASE OnStop
  BY <1>5, StopKeepsPlan
<1>6. CASE OnRestart
  BY <1>6, RestartKeepsPlan
<1>7. CASE CallReturns
  BY <1>7, ReturnKeepsPlan
<1>8. CASE Destructor
  BY <1>8, DestructorKeepsPlan
<1>9. CASE CallThrows
  BY <1>9, ThrowsKeepsPlan
<1>10. CASE SourceThrows
  BY <1>10, SourceKeepsPlan
<1>11. CASE UNCHANGED vars
  <2>1. /\ UNCHANGED <<config, leaf, depth, exited, calls, unwinding, posted>>
        /\ UNCHANGED <<beginRunCalled, runException, currentLumiEmpty, lumiException>>
        /\ UNCHANGED <<file, outputs, run, lumi, abandoned>>
    BY <1>11 DEF vars, machineVars, runVars, lumiVars, doneVars
  <2>2. CallsSorted' /\ Todo' = Todo
    BY <2>1 DEF PlanInv, CallsSorted, Todo
  <2>3. Failures' /\ RunPlan' /\ RunFlag' /\ LumiPlan' /\ FilePlan'
    BY <2>1, <2>2 DEF PlanInv, Failures, RunPlan, RunFlag, Saving, LumiPlan, FilePlan, Gone,
         RunDone, LumiDone, BeginsRuns, HandleAll
  <2>4. DepthPlan' /\ ExitPlan' /\ LeafPlan'
    BY <2>1, <2>2 DEF PlanInv, DepthPlan, ExitPlan, LeafPlan, Gone, RunDone, LumiDone, FileDone,
         OutputsDone
  <2> QED BY <2>2, <2>3, <2>4 DEF PlanInv
<1> QED
  BY <1>1, <1>2, <1>3, <1>4, <1>5, <1>6, <1>7, <1>8, <1>9, <1>10, <1>11 DEF Next, MachineStep

LEMMA InitPlan == Init => PlanInv
<1> SUFFICES ASSUME Init PROVE PlanInv
  OBVIOUS
<1>1. CallsSorted /\ Todo = {}
  BY NothingToDo DEF Init, CallsSorted, Todo
<1>2. Failures /\ RunPlan /\ RunFlag /\ LumiPlan /\ FilePlan
  BY <1>1 DEF Init, Failures, RunPlan, RunFlag, Saving, LumiPlan, FilePlan, Gone, RunDone, LumiDone,
       BeginsRuns, HandleAll, Stages
<1>3. DepthPlan /\ ExitPlan
  BY <1>1 DEF Init, DepthPlan, ExitPlan, RunDone, LumiDone, FileDone, OutputsDone
<1>4. LeafPlan
  BY <1>1 DEF Init, LeafPlan, InFiles, InRuns, InLumis
<1> QED BY <1>1, <1>2, <1>3, <1>4 DEF PlanInv

LEMMA AlwaysPlanned == Spec => [](ExpectedInv /\ PlanInv)
<1>1. Init => ExpectedInv /\ PlanInv
  BY InitExpected, InitPlan
<1>2. ExpectedInv /\ PlanInv /\ [Next]_vars => (ExpectedInv /\ PlanInv)'
  BY StepExpected, StepKeepsPlan
<1> QED BY <1>1, <1>2, PTL DEF Spec

-----------------------------------------------------------------------------
(* The calls come in the order of TransitionOrder. *)

\* A call that returns finds what it is about as the one before left it.
LEMMA ReturnInOrder ==
  ASSUME PlanInv, CallReturns
  PROVE  [Order!Next]_(Order!vars)
<1> DEFINE h == Head(calls)
<1>1. /\ h \in Todo /\ h \in Call
      /\ \A c \in Todo : c # h => Rank[c] > Rank[h]
  <2>1. \A c \in Todo' : Rank[c] > Rank[h]
    BY HeadReturns DEF PlanInv, CallReturns
  <2>2. h \in Todo /\ h \in Call /\ Todo' = Todo \ {h}
    BY HeadReturns DEF PlanInv, CallReturns
  <2> QED BY <2>1, <2>2
<1>2. /\ run'     = IF h \in RunCalls THEN After(h, run) ELSE run
      /\ lumi'    = IF h \in LumiCalls THEN After(h, lumi) ELSE lumi
      /\ file'    = IF h \in FileCalls THEN After(h, file) ELSE file
      /\ outputs' = IF h \in OutputCalls THEN After(h, outputs) ELSE outputs
      /\ abandoned' = abandoned
  BY DEF CallReturns
<1> HIDE DEF h
<1>3. /\ h \in {"readRun", "beginRun", "endRun"} => "run" \notin abandoned
      /\ h \in LumiCalls => "run" \notin abandoned /\ "lumi" \notin abandoned
  BY <1>1 DEF PlanInv, Failures, RunFlag, Gone, RunCalls
<1>4. CASE h = "readRun"
  <2>1. "readRun" \in Todo /\ "deleteRunFromCache" \notin Todo /\ "deleteLumiFromCache" \notin Todo
    BY <1>1, <1>4, Ranks
  <2>2. lumi = "none" /\ run = "none" /\ file = "open" /\ outputs = "open"
    BY <1>3, <2>1 DEF PlanInv, RunPlan
  <2>3. run' = "read" /\ UNCHANGED <<file, outputs, lumi, abandoned>>
    BY <1>2, <1>4 DEF After, RunCalls, LumiCalls, FileCalls, OutputCalls
  <2>4. Order!ReadRun
    BY <1>3, <1>4, <2>2, <2>3 DEF Order!ReadRun, Order!MoveRun, Order!Usable, Order!vars, RunCalls,
         LumiCalls
  <2> QED BY <2>4 DEF Order!Next
<1>5. CASE h = "beginRun"
  <2>1. "beginRun" \in Todo /\ "readRun" \notin Todo
    BY <1>1, <1>5, Ranks
  <2>2. run = "read"
    BY <1>3, <2>1 DEF PlanInv, RunPlan
  <2>3. run' = "begun" /\ UNCHANGED <<file, outputs, lumi, abandoned>>
    BY <1>2, <1>5 DEF After, RunCalls, LumiCalls, FileCalls, OutputCalls
  <2>4. Order!BeginRun
    BY <1>3, <1>5, <2>2, <2>3 DEF Order!BeginRun, Order!MoveRun, Order!Usable, Order!vars,
         RunCalls, LumiCalls
  <2> QED BY <2>4 DEF Order!Next
<1>6. CASE h = "endRun"
  <2>1. "endRun" \in Todo /\ "deleteLumiFromCache" \notin Todo
    BY <1>1, <1>6, Ranks
  <2>2. run = "begun" /\ (lumi = "none" \/ "lumi" \in abandoned)
    BY <1>3, <1>6, <2>1 DEF PlanInv, Failures, RunPlan, LumiDone, Gone, RunCalls
  <2>3. run' = "ended" /\ UNCHANGED <<file, outputs, lumi, abandoned>>
    BY <1>2, <1>6 DEF After, RunCalls, LumiCalls, FileCalls, OutputCalls
  <2>4. Order!EndRun
    BY <1>3, <1>6, <2>2, <2>3 DEF Order!EndRun, Order!MoveRun, Order!Usable, Order!vars, RunCalls,
         LumiCalls
  <2> QED BY <2>4 DEF Order!Next
<1>7. CASE h = "writeRun"
  <2>1. "writeRun" \in Todo /\ "endRun" \notin Todo /\ "deleteLumiFromCache" \notin Todo
    BY <1>1, <1>7, Ranks
  <2>2. CASE Gone("run")
    <3>1. run = "unsaved" /\ outputs = "open" /\ (lumi = "none" \/ "lumi" \in abandoned)
      BY <2>1, <2>2 DEF PlanInv, RunPlan, RunFlag, RunCalls, Gone
    <3>2. run' = "rewritten" /\ UNCHANGED <<file, outputs, lumi, abandoned>>
      BY <1>2, <1>7, <3>1 DEF After, RunCalls, LumiCalls, FileCalls, OutputCalls
    <3>3. Order!WriteAgain
      BY <3>1, <3>2 DEF Order!WriteAgain, Order!SaveAgain, Order!Usable
    <3> QED BY <3>3 DEF Order!Next
  <2>3. CASE ~Gone("run")
    <3>1. run \in {"read", "ended"} /\ outputs = "open" /\ (lumi = "none" \/ "lumi" \in abandoned)
      BY <1>7, <2>1, <2>3 DEF PlanInv, RunPlan, RunFlag, RunDone, LumiDone, Gone
    <3>2. run' = "written" /\ UNCHANGED <<file, outputs, lumi, abandoned>>
      BY <1>2, <1>7, <3>1 DEF After, RunCalls, LumiCalls, FileCalls, OutputCalls
    <3>3. Order!WriteRun
      BY <2>3, <3>1, <3>2 DEF Order!WriteRun, Order!MoveRun, Order!Usable, Gone
    <3> QED BY <3>3 DEF Order!Next
  <2> QED BY <2>2, <2>3
<1>8. CASE h = "deleteRunFromCache"
  <2>1. "deleteRunFromCache" \in Todo /\ "writeRun" \notin Todo
    BY <1>1, <1>8, Ranks
  <2>2. run' = "none" /\ UNCHANGED <<file, outputs, lumi, abandoned>>
    BY <1>2, <1>8 DEF After, RunCalls, LumiCalls, FileCalls, OutputCalls
  <2>3. CASE Gone("run")
    <3>1. run = "rewritten" /\ outputs = "open" /\ (lumi = "none" \/ "lumi" \in abandoned)
      BY <2>1, <2>3 DEF PlanInv, RunPlan, RunFlag, RunCalls, Gone
    <3>2. Order!DeleteAgain
      BY <2>2, <3>1 DEF Order!DeleteAgain, Order!SaveAgain, Order!Usable
    <3> QED BY <3>2 DEF Order!Next
  <2>4. CASE ~Gone("run")
    <3>1. run = "written"
      BY <2>1, <2>4 DEF PlanInv, RunPlan, RunFlag
    <3>2. Order!DeleteRun
      BY <2>2, <2>4, <3>1 DEF Order!DeleteRun, Order!MoveRun, Order!Usable, Gone
    <3> QED BY <3>2 DEF Order!Next
  <2> QED BY <2>3, <2>4
<1>9. CASE h = "readLuminosityBlock"
  <2>1. "readLuminosityBlock" \in Todo /\ "deleteLumiFromCache" \notin Todo
    BY <1>1, <1>9, Ranks
  <2>2. run \in {"read", "begun"} /\ lumi = "none"
    BY <1>3, <1>9, <2>1 DEF PlanInv, LumiPlan
  <2>3. lumi' = "read" /\ UNCHANGED <<file, outputs, run, abandoned>>
    BY <1>2, <1>9 DEF After, RunCalls, LumiCalls, FileCalls, OutputCalls
  <2>4. Order!ReadLumi
    BY <1>3, <1>9, <2>2, <2>3 DEF Order!ReadLumi, Order!MoveLumi, Order!Usable, Order!vars,
         RunCalls, LumiCalls
  <2> QED BY <2>4 DEF Order!Next
<1>10. CASE h = "beginLumi"
  <2>1. "beginLumi" \in Todo /\ "readLuminosityBlock" \notin Todo /\ "beginRun" \notin Todo
    BY <1>1, <1>10, Ranks
  <2>2. run = "begun" /\ lumi = "read"
    BY <1>3, <1>10, <2>1 DEF PlanInv, LumiPlan
  <2>3. lumi' = "begun" /\ UNCHANGED <<file, outputs, run, abandoned>>
    BY <1>2, <1>10 DEF After, RunCalls, LumiCalls, FileCalls, OutputCalls
  <2>4. Order!BeginLumi
    BY <1>3, <1>10, <2>2, <2>3 DEF Order!BeginLumi, Order!MoveLumi, Order!Usable, Order!vars,
         RunCalls, LumiCalls
  <2> QED BY <2>4 DEF Order!Next
<1>11. CASE h = "endLumi"
  <2>1. "endLumi" \in Todo
    BY <1>1, <1>11, Ranks
  <2>2. run = "begun" /\ lumi = "begun"
    BY <1>3, <1>11, <2>1 DEF PlanInv, Failures, RunPlan, LumiPlan, FilePlan, RunDone, LumiDone,
         LumiCalls
  <2>3. lumi' = "ended" /\ UNCHANGED <<file, outputs, run, abandoned>>
    BY <1>2, <1>11 DEF After, RunCalls, LumiCalls, FileCalls, OutputCalls
  <2>4. Order!EndLumi
    BY <1>3, <1>11, <2>2, <2>3 DEF Order!EndLumi, Order!MoveLumi, Order!Usable, Order!vars,
         RunCalls, LumiCalls
  <2> QED BY <2>4 DEF Order!Next
<1>12. CASE h = "writeLumi"
  <2>1. "writeLumi" \in Todo /\ "endLumi" \notin Todo
    BY <1>1, <1>12, Ranks
  <2>2. lumi \in {"read", "ended"} /\ outputs = "open"
    BY <1>3, <1>12, <2>1 DEF PlanInv, Failures, RunPlan, LumiPlan, FilePlan, RunDone, LumiDone,
         LumiCalls
  <2>3. lumi' = "written" /\ UNCHANGED <<file, outputs, run, abandoned>>
    BY <1>2, <1>12 DEF After, RunCalls, LumiCalls, FileCalls, OutputCalls
  <2>4. Order!WriteLumi
    BY <1>3, <1>12, <2>2, <2>3 DEF Order!WriteLumi, Order!MoveLumi, Order!Usable, Order!vars,
         RunCalls, LumiCalls
  <2> QED BY <2>4 DEF Order!Next
<1>13. CASE h = "deleteLumiFromCache"
  <2>1. "deleteLumiFromCache" \in Todo /\ "writeLumi" \notin Todo
    BY <1>1, <1>13, Ranks
  <2>2. lumi = "written"
    BY <1>3, <1>13, <2>1 DEF PlanInv, LumiPlan
  <2>3. lumi' = "none" /\ UNCHANGED <<file, outputs, run, abandoned>>
    BY <1>2, <1>13 DEF After, RunCalls, LumiCalls, FileCalls, OutputCalls
  <2>4. Order!DeleteLumi
    BY <1>3, <1>13, <2>2, <2>3 DEF Order!DeleteLumi, Order!MoveLumi, Order!Usable, Order!vars,
         RunCalls, LumiCalls
  <2> QED BY <2>4 DEF Order!Next
<1>14. CASE h = "readFile"
  <2>1. "readFile" \in Todo /\ "closeInputFile" \notin Todo
    BY <1>1, <1>14, Ranks
  <2>2. file = "closed"
    BY <1>3, <1>14, <2>1 DEF PlanInv, FilePlan
  <2>3. file' = "open" /\ UNCHANGED <<outputs, run, lumi, abandoned>>
    BY <1>2, <1>14 DEF After, RunCalls, LumiCalls, FileCalls, OutputCalls
  <2>4. Order!OpenFile
    BY <1>3, <1>14, <2>2, <2>3 DEF Order!OpenFile, Order!Usable, Order!vars, RunCalls, LumiCalls
  <2> QED BY <2>4 DEF Order!Next
<1>15. CASE h = "closeInputFile"
  <2>1. "closeInputFile" \in Todo
    BY <1>1, <1>15, Ranks
  <2>2. file \in {"open", "closed"}
    BY DEF PlanInv, FilePlan
  <2>3. file' = "closed" /\ UNCHANGED <<outputs, run, lumi, abandoned>>
    BY <1>2, <1>15 DEF After, RunCalls, LumiCalls, FileCalls, OutputCalls
  <2>4. Order!CloseFile \/ UNCHANGED Order!vars
    BY <1>3, <1>15, <2>2, <2>3 DEF Order!CloseFile, Order!Usable, Order!vars, RunCalls, LumiCalls
  <2> QED BY <2>4 DEF Order!Next
<1>16. CASE h = "openOutputFiles"
  <2>1. "openOutputFiles" \in Todo /\ "readFile" \notin Todo /\ "closeOutputFiles" \notin Todo /\ "deleteRunFromCache" \notin Todo
    BY <1>1, <1>16, Ranks
  <2>2. outputs = "closed" /\ file = "open" /\ run = "none"
    BY <1>3, <1>16, <2>1 DEF PlanInv, FilePlan
  <2>3. outputs' = "open" /\ UNCHANGED <<file, run, lumi, abandoned>>
    BY <1>2, <1>16 DEF After, RunCalls, LumiCalls, FileCalls, OutputCalls
  <2>4. Order!OpenOutputs
    BY <1>3, <1>16, <2>2, <2>3 DEF Order!OpenOutputs, Order!Usable, Order!vars, RunCalls, LumiCalls
  <2> QED BY <2>4 DEF Order!Next
<1>17. CASE h = "closeOutputFiles"
  <2>1. "closeOutputFiles" \in Todo /\ "deleteRunFromCache" \notin Todo
    BY <1>1, <1>17, Ranks
  <2>2. outputs \in {"open", "closed"} /\ (run = "none" \/ "run" \in abandoned)
    BY <1>3, <1>17, <2>1 DEF PlanInv, Failures, RunPlan, LumiPlan, FilePlan, RunDone, Gone
  <2>3. outputs' = "closed" /\ UNCHANGED <<file, run, lumi, abandoned>>
    BY <1>2, <1>17 DEF After, RunCalls, LumiCalls, FileCalls, OutputCalls
  <2>4. Order!CloseOutputs \/ UNCHANGED Order!vars
    BY <1>3, <1>17, <2>2, <2>3 DEF Order!CloseOutputs, Order!Usable, Order!vars, RunCalls, LumiCalls
  <2> QED BY <2>4 DEF Order!Next
<1>18. CASE h \notin {"readRun", "beginRun", "endRun", "writeRun", "deleteRunFromCache",
                  "readLuminosityBlock", "beginLumi", "endLumi", "writeLumi", "deleteLumiFromCache",
                  "readFile", "closeInputFile", "openOutputFiles", "closeOutputFiles"}
  <2>1. UNCHANGED <<file, outputs, run, lumi, abandoned>>
    BY <1>2, <1>18 DEF After, RunCalls, LumiCalls, FileCalls, OutputCalls
  <2> QED BY <2>1 DEF Order!vars
<1> QED BY <1>4, <1>5, <1>6, <1>7, <1>8, <1>9, <1>10, <1>11, <1>12, <1>13, <1>14, <1>15, <1>16,
    <1>17, <1>18

\* A call that throws gives up what it is about; a run may be left for its destructor to save.
LEMMA ThrowInOrder ==
  ASSUME CallThrows
  PROVE  [Order!Next]_(Order!vars)
<1> DEFINE h == Head(calls)
<1>1. /\ UNCHANGED <<file, outputs, lumi>>
      /\ run' = IF h \in {"writeRun", "deleteRunFromCache"} /\ run \in {"ended", "written"}
                THEN "unsaved" ELSE run
  BY DEF CallThrows, Throws
<1>6. abandoned' \in {abandoned} \cup
                       {abandoned \cup {x} : x \in {"file", "outputs", "run", "lumi"}}
  <2>1. abandoned' = abandoned \cup
          (CASE h \in RunCalls -> {"run"}
             [] h \in LumiCalls -> {"lumi"}
             [] h \in FileCalls -> {"file"}
             [] h \in OutputCalls -> {"outputs"}
             [] OTHER -> {})
    BY DEF CallThrows, Throws
  <2> QED BY <2>1
<1>5. h \in RunCalls => abandoned' = abandoned \cup {"run"}
  BY DEF CallThrows, Throws, RunCalls, LumiCalls, FileCalls, OutputCalls
<1> HIDE DEF h
<1>2. CASE h \in {"writeRun", "deleteRunFromCache"} /\ run \in {"ended", "written"}
  <2>1. Order!FailToSave
    BY <1>1, <1>2, <1>5 DEF Order!FailToSave, RunCalls
  <2> QED BY <2>1 DEF Order!Next
<1>3. CASE run' = run /\ abandoned' = abandoned
  BY <1>1, <1>3 DEF Order!vars
<1>4. CASE /\ run' = run
           /\ \E x \in {"file", "outputs", "run", "lumi"} : abandoned' = abandoned \cup {x}
  BY <1>1, <1>4 DEF Order!Next, Order!Things, Order!Abandon
<1> QED BY <1>1, <1>2, <1>3, <1>4, <1>6

\* Items, posted events and destructors only make plans.
LEMMA StepInOrder ==
  ASSUME PlanInv, [Next]_vars
  PROVE  [Order!Next]_(Order!vars)
<1>1. CASE CallReturns
  BY <1>1, ReturnInOrder
<1>2. CASE CallThrows
  BY <1>2, ThrowInOrder
<1>3. CASE \/ OnFile \/ OnEvent \/ \E r \in RunNumbers : OnRun(r)
           \/ \E l \in LumiNumbers : OnLumi(l)
  <2>1. UNCHANGED doneVars
    BY <1>3 DEF OnFile, OnEvent, OnRun, OnLumi, Receive
  <2> QED BY <2>1 DEF doneVars, Order!vars
<1>4. CASE OnStop \/ OnRestart \/ SourceThrows \/ Destructor \/ UNCHANGED vars
  <2>1. UNCHANGED doneVars
    BY <1>4 DEF OnStop, OnRestart, SourceThrows, Destructor, Destroy, vars
  <2> QED BY <2>1 DEF doneVars, Order!vars
<1> QED BY <1>1, <1>2, <1>3, <1>4 DEF Next, MachineStep

-----------------------------------------------------------------------------
(* The cache of principals. *)

\* The cache holds the run and the block that the machine deals with, unless a call about them
\* threw.  A run that is written once more it holds, or has let go of.
CacheHolds ==
  /\ ~Gone("run") => (runPrincipal <=> run # "none")
  /\ ~Gone("run") /\ run # "none" => run_ = currentRun
  /\ ~Gone("run") /\ ~Gone("lumi") => (lumiPrincipal <=> lumi # "none")
  /\ ~Gone("run") /\ ~Gone("lumi") /\ lumi # "none" => lumi_ = currentLumi /\ run # "none"
  /\ "deleteRunFromCache" \in Todo => LumiDone \/ "deleteLumiFromCache" \in Todo
  /\ run = "unsaved" /\ runPrincipal => run_ = currentRun
  /\ run = "rewritten" /\ "deleteRunFromCache" \in Todo => runPrincipal /\ run_ = currentRun

\* The source is where the machine is, or where the calls to be made bring it.
SourceFollowed ==
  /\ "readRun" \in Todo => number = sourceRun
  /\ "readLuminosityBlock" \in Todo => number = sourceLumi
  /\ Todo \cap {"readLuminosityBlock", "readAndMergeRun", "readAndMergeLumi",
       "readAndProcessEvent"} # {} =>
       sourceRun = currentRun /\ run # "none" /\ Todo \cap {"readRun", "deleteRunFromCache"} = {}
  /\ Todo \cap {"readAndMergeLumi", "readAndProcessEvent"} # {} =>
       /\ sourceLumi = currentLumi /\ lumi # "none"
       /\ Todo \cap {"readLuminosityBlock", "deleteLumiFromCache"} = {}
  /\ ~unwinding /\ leaf \in InRuns \cup InLumis => "readRun" \in Todo \/ sourceRun = currentRun
  /\ ~unwinding /\ leaf \in InLumis => "readLuminosityBlock" \in Todo \/ sourceLumi = currentLumi
CacheInv == CacheHolds /\ SourceFollowed

\* A planned list starts with no run or block half done, so that a run that is dropped has its block
\* dropped before.
LEMMA PlannedHolds ==
  ASSUME PlanInv', CacheHolds, Resting, OnlyCalls,
         UNCHANGED <<currentRun, currentLumi, cacheVars>>
  PROVE  CacheHolds'
<1>1. UNCHANGED <<run, lumi, abandoned, currentRun, currentLumi, runPrincipal, lumiPrincipal, run_,
        lumi_>>
  BY DEF OnlyCalls, cacheVars
<1>2. run' \in {"none", "read", "begun"}
  BY <1>1 DEF Resting
<1>3. "deleteRunFromCache" \in Todo' => LumiDone' \/ "deleteLumiFromCache" \in Todo'
  BY <1>2 DEF PlanInv, RunPlan
<1> QED BY <1>1, <1>2, <1>3 DEF CacheHolds, Gone

LEMMA ReceivedNumbers ==
  ASSUME NEW type, NEW n, Receive(type, n)
  PROVE  /\ number' = n /\ unwinding' = unwinding
         /\ UNCHANGED <<currentRun, currentLumi, run, lumi, abandoned>>
BY DEF Receive, runVars, lumiVars, doneVars

\* The source and the machine go to a run together.
LEMMA RunFollowed ==
  ASSUME ExpectedInv, PlanInv, CacheInv, NEW r \in RunNumbers, OnRun(r),
         sourceRun' = r, UNCHANGED <<sourceLumi, cacheVars>>
  PROVE  CacheInv'
<1>1. /\ number' = r /\ unwinding' = unwinding
      /\ UNCHANGED <<currentRun, currentLumi, run, lumi, abandoned>>
  BY ReceivedNumbers DEF OnRun
<1>2. CacheHolds'
  BY <1>1, RunReaction, RunKeepsPlan, PlannedHolds DEF CacheInv
<1>3. CASE leaf \in InFiles /\ leaf' = "NewRun" /\ List(calls', {"enterHandleRuns"} \cup RunSetup)
  <2>1. Todo' = {"enterHandleRuns"} \cup RunSetup
    BY <1>3 DEF List, Todo
  <2> QED BY <1>1, <1>2, <1>3, <2>1 DEF CacheInv, SourceFollowed, RunSetup, InRuns, InLumis
<1>4. CASE /\ leaf \in InRuns \cup InLumis /\ r = currentRun
           /\ leaf' = IF leaf \in InRuns THEN "ContinueRun1" ELSE "ContinueRun2"
           /\ List(calls', {"readAndMergeRun"})
  <2>1. Todo' = {"readAndMergeRun"} /\ Todo = {}
    BY <1>4, RunReaction DEF List, Todo, Resting
  <2>2. run \in {"read", "begun"} /\ ~unwinding
    BY <1>4, RunReaction DEF Resting
  <2>3. leaf' \in InLumis => leaf \in InLumis
    BY <1>4 DEF InRuns, InLumis
  <2> QED BY <1>1, <1>2, <1>4, <2>1, <2>2, <2>3 DEF CacheInv, SourceFollowed
<1>5. CASE /\ leaf \in InRuns \cup InLumis /\ leaf' = "NewRun"
           /\ List(calls', (LumiExit \cup FinalRun) \cup RunSetup)
  <2>1. Todo' = (LumiExit \cup FinalRun) \cup RunSetup
    BY <1>5 DEF List, Todo
  <2> QED BY <1>1, <1>2, <1>5, <2>1 DEF CacheInv, SourceFollowed, RunSetup, LumiExit, FinalLumi,
      FinalRun, InLumis
<1> QED BY <1>3, <1>4, <1>5, RunReaction

\* The same for a luminosity block.
LEMMA LumiFollowed ==
  ASSUME ExpectedInv, PlanInv, CacheInv, NEW l \in LumiNumbers, OnLumi(l),
         sourceLumi' = l, UNCHANGED <<sourceRun, cacheVars>>
  PROVE  CacheInv'
<1>1. /\ number' = l /\ unwinding' = unwinding
      /\ UNCHANGED <<currentRun, currentLumi, run, lumi, abandoned>>
  BY ReceivedNumbers DEF OnLumi
<1>2. CacheHolds'
  BY <1>1, LumiReaction, LumiKeepsPlan, PlannedHolds DEF CacheInv
<1>3. /\ leaf \in InRuns \cup InLumis /\ leaf' \in InLumis /\ ~unwinding /\ Todo = {}
      /\ run \in {"read", "begun"}
      /\ leaf \in InLumis => lumi \in {"read", "begun"}
      /\ \/ Todo' = {"enterHandleLumis"} \cup LumiSetup
         \/ leaf \in InLumis /\ l = currentLumi /\ Todo' = {"readAndMergeLumi"}
         \/ Todo' = FinalLumi \cup LumiSetup
  BY LumiReaction DEF Resting, List, Todo, InRuns, InLumis
<1>4. sourceRun = currentRun
  BY <1>3 DEF CacheInv, SourceFollowed
<1>5. CASE leaf \in InLumis /\ l = currentLumi /\ Todo' = {"readAndMergeLumi"}
  BY <1>1, <1>2, <1>3, <1>4, <1>5 DEF CacheInv, SourceFollowed
<1>6. CASE Todo' = {"enterHandleLumis"} \cup LumiSetup \/ Todo' = FinalLumi \cup LumiSetup
  BY <1>1, <1>2, <1>3, <1>4, <1>6 DEF CacheInv, SourceFollowed, LumiSetup, FinalLumi
<1> QED BY <1>3, <1>5, <1>6

\* Events are of the run and block where the source and the machine are.
LEMMA EventFollowed ==
  ASSUME ExpectedInv, PlanInv, CacheInv, OnEvent, UNCHANGED <<cacheVars, sourceVars>>
  PROVE  CacheInv'
<1>1. /\ unwinding' = unwinding
      /\ UNCHANGED <<currentRun, currentLumi, run, lumi, abandoned, sourceRun, sourceLumi>>
  BY ReceivedNumbers DEF OnEvent, sourceVars
<1>2. CacheHolds'
  BY <1>1, EventReaction, EventKeepsPlan, PlannedHolds DEF CacheInv
<1>3. /\ leaf \in InLumis /\ ~unwinding /\ Todo = {} /\ Todo' = Handling
      /\ run \in {"read", "begun"} /\ lumi \in {"read", "begun"}
  BY EventReaction DEF Resting, List, Todo
<1>4. sourceRun = currentRun /\ sourceLumi = currentLumi
  BY <1>3 DEF CacheInv, SourceFollowed
<1>5. SourceFollowed'
  BY <1>1, <1>3, <1>4 DEF SourceFollowed, Handling
<1> QED BY <1>2, <1>5 DEF CacheInv

\* Files do not change the run and block of the source, nor where the machine is.
LEMMA FileFollowed ==
  ASSUME ExpectedInv, PlanInv, CacheInv, OnFile, UNCHANGED <<cacheVars, sourceVars>>
  PROVE  CacheInv'
<1>1. /\ unwinding' = unwinding
      /\ UNCHANGED <<currentRun, currentLumi, run, lumi, abandoned, sourceRun, sourceLumi>>
  BY ReceivedNumbers DEF OnFile, sourceVars
<1>2. CacheHolds'
  BY <1>1, FileReaction, FileKeepsPlan, PlannedHolds DEF CacheInv
<1>3. /\ ~unwinding /\ Todo = {}
      /\ leaf' \in InRuns \cup InLumis => leaf \in InRuns \cup InLumis
      /\ leaf' \in InLumis => leaf \in InLumis
      /\ \/ Todo' = {"startingNewLoop", "enterHandleFiles", "readFile",
                     "respondToOpenInputFile", "openOutputFiles"}
         \/ Todo' = (LumiExit \cup RunExit) \cup FilesChange
         \/ Todo' = FileChange
  BY FileReaction DEF Resting, List, Todo, InFiles, InRuns, InLumis
<1>4. Todo' \cap {"readRun", "readLuminosityBlock", "readAndMergeRun", "readAndMergeLumi",
                  "readAndProcessEvent"} = {}
  BY <1>3 DEF LumiExit, RunExit, FinalLumi, FinalRun, FilesChange, FileChange
<1>5. SourceFollowed'
  BY <1>1, <1>3, <1>4 DEF CacheInv, SourceFollowed
<1> QED BY <1>2, <1>5 DEF CacheInv

\* The machine is in no run when a loop ends, nor when another begins.
LEMMA LoopFollowed ==
  ASSUME ExpectedInv, PlanInv, CacheInv, OnStop \/ OnRestart, UNCHANGED <<cacheVars, sourceVars>>
  PROVE  CacheInv'
<1>1. UNCHANGED <<currentRun, currentLumi, run, lumi, abandoned>>
  BY DEF OnStop, OnRestart, runVars, lumiVars, doneVars
<1>2. Resting /\ OnlyCalls /\ PlanInv'
  BY StopReaction, RestartReaction, StopKeepsPlan, RestartKeepsPlan
<1>3. CacheHolds'
  BY <1>1, <1>2, PlannedHolds DEF CacheInv
<1>4. /\ leaf' \in {"Starting", "EndingLoop", "Terminated"}
      /\ \/ Todo' = {"startingNewLoop", "endOfLoop"} \/ Todo' = {}
         \/ Todo' = ((LumiExit \cup RunExit) \cup FilesExit) \cup {"endOfLoop"}
         \/ Todo' = {"prepareForNextLoop", "rewindInput"}
  BY StopReaction, RestartReaction, NothingToDo DEF List, Todo
<1>5. Todo' \cap {"readRun", "readLuminosityBlock", "readAndMergeRun", "readAndMergeLumi",
                  "readAndProcessEvent"} = {}
  BY <1>4 DEF LumiExit, RunExit, FilesExit, FinalLumi, FinalRun
<1>6. SourceFollowed'
  BY <1>4, <1>5 DEF SourceFollowed, InRuns, InLumis
<1> QED BY <1>3, <1>6 DEF CacheInv

\* On the way out of an exception nothing is read.
LEMMA UnwindingFollowed ==
  ASSUME ExpectedInv, PlanInv, CacheInv, SourceThrows \/ Destructor, UNCHANGED <<cacheVars,
      sourceVars>>
  PROVE  CacheInv'
<1>1. PlanInv'
  BY SourceKeepsPlan, DestructorKeepsPlan
<1>2. /\ unwinding' /\ Todo = {}
      /\ UNCHANGED <<currentRun, currentLumi, run, lumi, abandoned>>
      /\ UNCHANGED <<runPrincipal, lumiPrincipal, run_, lumi_>>
  BY Empty DEF SourceThrows, Destructor, Destroy, Idle, runVars, lumiVars, doneVars, cacheVars
<1>3. "deleteRunFromCache" \in Todo' => LumiDone' \/ "deleteLumiFromCache" \in Todo'
  BY <1>1, <1>2 DEF PlanInv, RunFlag, DepthPlan
<1>7. run = "rewritten" => "deleteRunFromCache" \notin Todo'
  <2>1. CASE SourceThrows
    BY <1>2, <2>1 DEF SourceThrows, Todo
  <2>2. CASE Destructor
    <3> SUFFICES ASSUME run = "rewritten", "deleteRunFromCache" \in Todo'
                 PROVE  FALSE
      OBVIOUS
    <3>1. depth' = 1
      BY <1>1, <1>2 DEF PlanInv, RunFlag
    <3>2. depth = 2
      BY <2>2, <3>1 DEF PlanInv, DepthPlan, Destructor, Destroy
    <3>3. runException \/ 2 \in exited
      BY <3>2 DEF PlanInv, RunFlag
    <3>4. calls' = <<>>
      BY <2>2, <3>2, <3>3 DEF Destructor, Destroy, If
    <3> QED BY <3>4, NothingToDo DEF Todo
  <2> QED BY <2>1, <2>2
<1>4. CacheHolds'
  BY <1>2, <1>3, <1>7 DEF CacheInv, CacheHolds, Gone
<1>5. Todo' \cap {"readRun", "readLuminosityBlock", "readAndMergeRun", "readAndMergeLumi",
                  "readAndProcessEvent"} = {}
  BY <1>1, <1>2 DEF PlanInv, Failures
<1>6. SourceFollowed'
  BY <1>2, <1>5 DEF SourceFollowed
<1> QED BY <1>4, <1>6 DEF CacheInv

\* The first call of the list, with those that are gone before it.
LEMMA FirstCall ==
  ASSUME PlanInv, calls # <<>>
  PROVE  /\ Head(calls) \in Todo /\ Head(calls) \in Call
         /\ \A c \in Todo : c # Head(calls) => Rank[c] > Rank[Head(calls)]
BY ThrowingCall DEF PlanInv

\* A delete may throw when the cache has let go of what it is about, which is then given up.
LEMMA ThrowFollowed ==
  ASSUME PlanInv, CacheInv, ThrowsWithCache
  PROVE  CacheInv'
<1> DEFINE h == Head(calls)
<1>1. /\ Todo' = {} /\ unwinding' = TRUE
      /\ UNCHANGED <<currentRun, currentLumi, lumi>>
      /\ run' = IF h \in {"writeRun", "deleteRunFromCache"} /\ run \in {"ended", "written"}
                THEN "unsaved" ELSE run
      /\ abandoned \subseteq abandoned'
      /\ h \in RunCalls => "run" \in abandoned'
      /\ h \in LumiCalls => "lumi" \in abandoned'
  BY NothingToDo DEF ThrowsWithCache, CallThrows, Throws, Todo, RunCalls, LumiCalls, FileCalls,
       OutputCalls
<1>2. \/ UNCHANGED cacheVars
      \/ h = "deleteRunFromCache" /\ runPrincipal' = FALSE
      \/ h = "deleteLumiFromCache" /\ UNCHANGED <<runPrincipal, run_>>
  BY DEF ThrowsWithCache, CacheStep, DeleteLumi, DeleteRun
<1>5. h \in Todo
  BY FirstCall DEF ThrowsWithCache, CallThrows, Throwing
<1> HIDE DEF h
<1>6. run' = "unsaved" => run = "unsaved" \/ run_ = currentRun
  <2>1. CASE h \in {"writeRun", "deleteRunFromCache"} /\ run \in {"ended", "written"}
    <3>1. ~Gone("run")
      BY <1>5, <2>1 DEF PlanInv, RunFlag, RunCalls
    <3> QED BY <2>1, <3>1 DEF CacheInv, CacheHolds
  <2> QED BY <1>1, <2>1
<1>7. h \in RunCalls \/ run' = run
  BY <1>1 DEF RunCalls
<1>3. CacheHolds'
  BY <1>1, <1>2, <1>6, <1>7 DEF CacheInv, CacheHolds, Gone, cacheVars, RunCalls, LumiCalls
<1>4. SourceFollowed'
  BY <1>1 DEF SourceFollowed
<1> QED BY <1>3, <1>4 DEF CacheInv

\* What the call finds in the cache, unless it writes once more a run that the cache let go of.
LEMMA CallAccepted ==
  ASSUME PlanInv, CacheInv,
         NEW h \in Call, h \in Todo, \A c \in Todo : c # h => Rank[c] > Rank[h]
  PROVE  Accepts(h) \/ (h = "writeRun" /\ run = "unsaved" /\ ~runPrincipal /\ unwinding)
<1>1. h \in Todo /\ h \in Call /\ \A c \in Todo : c # h => Rank[c] > Rank[h]
  OBVIOUS
<1>2. /\ h \in {"readRun", "beginRun", "endRun"} => ~Gone("run")
      /\ h \in LumiCalls => ~Gone("run") /\ ~Gone("lumi")
      /\ h \in {"readAndMergeRun", "readAndMergeLumi", "readAndProcessEvent"} =>
           ~Gone("run") /\ ~Gone("lumi")
  BY <1>1 DEF PlanInv, Failures, RunFlag, Gone, RunCalls, LumiCalls
<1>3. CASE h = "readRun"
  <2>1. "deleteRunFromCache" \notin Todo
    BY <1>1, <1>3, Ranks
  <2>2. run = "none"
    BY <1>1, <1>3, <2>1 DEF PlanInv, RunPlan
  <2>3. CanInsertRun
    BY <1>2, <1>3, <2>2 DEF CacheInv, CacheHolds, CanInsertRun, RunCalls
  <2> QED BY <1>3, <2>3 DEF Accepts
<1>4. CASE h \in {"beginRun", "endRun", "writeRun", "deleteRunFromCache"}
  <2>1. h = "beginRun" => "readRun" \notin Todo
    BY <1>1, Ranks
  <2>2. h = "writeRun" => "endRun" \notin Todo
    BY <1>1, Ranks
  <2>3. h = "deleteRunFromCache" => "writeRun" \notin Todo
    BY <1>1, Ranks
  <2>4. run # "none"
    BY <1>1, <1>4, <2>1, <2>2, <2>3 DEF PlanInv, RunPlan
  <2>5. CASE ~Gone("run")
    <3>1. HoldsRun(currentRun)
      BY <2>4, <2>5 DEF CacheInv, CacheHolds, HoldsRun
    <3> QED BY <1>4, <3>1 DEF Accepts
  <2>6. CASE Gone("run")
    <3>1. unwinding
      BY <2>6 DEF PlanInv, Failures, Gone
    <3>2. \/ h = "writeRun" /\ run = "unsaved"
          \/ h = "deleteRunFromCache" /\ run = "rewritten"
      BY <1>1, <1>2, <1>4, <2>3, <2>6 DEF PlanInv, RunPlan, RunFlag, RunCalls
    <3>3. HoldsRun(currentRun) \/ (h = "writeRun" /\ run = "unsaved" /\ ~runPrincipal)
      BY <1>1, <3>2 DEF CacheInv, CacheHolds, HoldsRun
    <3> QED BY <1>4, <3>1, <3>3 DEF Accepts
  <2> QED BY <2>5, <2>6
<1>5. CASE h = "readLuminosityBlock"
  <2>1. "deleteLumiFromCache" \notin Todo
    BY <1>1, <1>5, Ranks
  <2>2. lumi = "none" /\ run # "none" /\ sourceRun = currentRun
    BY <1>1, <1>5, <2>1 DEF PlanInv, LumiPlan, CacheInv, SourceFollowed
  <2>3. CanInsertLumi(sourceRun)
    BY <1>2, <1>5, <2>2 DEF CacheInv, CacheHolds, CanInsertLumi, LumiCalls
  <2> QED BY <1>5, <2>3 DEF Accepts
<1>6. CASE h \in {"beginLumi", "endLumi", "writeLumi", "deleteLumiFromCache"}
  <2>1. h = "beginLumi" => "readLuminosityBlock" \notin Todo
    BY <1>1, Ranks
  <2>2. h = "writeLumi" => "endLumi" \notin Todo
    BY <1>1, Ranks
  <2>3. h = "deleteLumiFromCache" => "writeLumi" \notin Todo
    BY <1>1, Ranks
  <2>4. lumi # "none"
    BY <1>1, <1>6, <2>1, <2>2, <2>3 DEF PlanInv, LumiPlan
  <2>5. HoldsLumi(currentRun, currentLumi)
    BY <1>2, <1>6, <2>4 DEF CacheInv, CacheHolds, HoldsLumi, LumiCalls
  <2> QED BY <1>6, <2>5 DEF Accepts
<1>7. CASE h = "readAndMergeRun"
  <2>1. HoldsRun(sourceRun)
    BY <1>1, <1>2, <1>7 DEF CacheInv, CacheHolds, SourceFollowed, HoldsRun
  <2> QED BY <1>7, <2>1 DEF Accepts
<1>8. CASE h \in {"readAndMergeLumi", "readAndProcessEvent"}
  <2>1. HoldsLumi(sourceRun, sourceLumi)
    BY <1>1, <1>2, <1>8 DEF CacheInv, CacheHolds, SourceFollowed, HoldsLumi
  <2> QED BY <1>8, <2>1 DEF Accepts
<1> QED BY <1>3, <1>4, <1>5, <1>6, <1>7, <1>8 DEF Accepts

\* A call that returns leaves the machine and the cache with the same run and block.
LEMMA ReturnFollowed ==
  ASSUME PlanInv, CacheInv, ReturnsWithCache
  PROVE  CacheInv'
<1> DEFINE h == Head(calls)
<1>1. h \in Todo /\ h \in Call /\ \A c \in Todo : c # h => Rank[c] > Rank[h]
  BY FirstCall DEF ReturnsWithCache, CallReturns
<1>2. Todo' = Todo \ {h}
  BY HeadReturns DEF PlanInv, ReturnsWithCache, CallReturns
<1>3. /\ currentRun' = CASE h = "readRun" -> number
                         [] h = "deleteRunFromCache" -> 0
                         [] OTHER -> currentRun
      /\ currentLumi' = CASE h = "readLuminosityBlock" -> number
                          [] h = "deleteLumiFromCache" -> 0
                          [] OTHER -> currentLumi
      /\ run'  = IF h \in RunCalls THEN After(h, run) ELSE run
      /\ lumi' = IF h \in LumiCalls THEN After(h, lumi) ELSE lumi
      /\ UNCHANGED <<leaf, unwinding, number, abandoned, sourceRun, sourceLumi>>
      /\ CacheStep(h) /\ Accepts(h)
  BY DEF ReturnsWithCache, CallReturns, sourceVars
<1> HIDE DEF h
<1>4. /\ h = "readRun" => ~Gone("run")
      /\ h \in LumiCalls => ~Gone("run") /\ ~Gone("lumi")
  BY <1>1 DEF PlanInv, Failures, RunFlag, Gone, RunCalls
<1>5. CASE h = "readRun"
  <2>1. Todo \cap {"deleteRunFromCache", "deleteLumiFromCache"} = {}
    BY <1>1, <1>5, Ranks
  <2>2. run = "none" /\ lumi = "none"
    BY <1>1, <1>5, <2>1 DEF PlanInv, RunPlan
  <2>3. /\ run' = "read" /\ currentRun' = number /\ UNCHANGED <<lumi, currentLumi>>
        /\ runPrincipal' = TRUE /\ run_' = sourceRun /\ UNCHANGED <<lumiPrincipal, lumi_>>
    BY <1>3, <1>5 DEF CacheStep, InsertRun, After, RunCalls, LumiCalls
  <2>4. CacheHolds'
    BY <1>1, <1>2, <1>3, <1>4, <1>5, <2>1, <2>2, <2>3 DEF CacheInv, CacheHolds, SourceFollowed, Gone
  <2>5. SourceFollowed'
    BY <1>1, <1>2, <1>3, <1>5, <2>1, <2>2, <2>3 DEF CacheInv, SourceFollowed
  <2> QED BY <2>4, <2>5 DEF CacheInv
<1>6. CASE h = "deleteRunFromCache"
  <2>1. Todo \cap {"writeRun", "deleteLumiFromCache", "exitHandleRuns"} = {}
    BY <1>1, <1>6, Ranks
  <2>2. LumiDone
    BY <1>1, <1>6, <2>1 DEF CacheInv, CacheHolds
  <2>3. /\ run' = "none" /\ currentRun' = 0 /\ UNCHANGED <<lumi, currentLumi>>
        /\ runPrincipal' = FALSE /\ UNCHANGED <<run_, lumiPrincipal, lumi_>>
    BY <1>3, <1>6 DEF CacheStep, DeleteRun, After, RunCalls, LumiCalls
  <2>4. CacheHolds'
    BY <1>2, <1>3, <1>6, <2>2, <2>3 DEF CacheInv, CacheHolds, LumiDone, Gone
  <2>5. ~unwinding /\ leaf \in InRuns \cup InLumis => "readRun" \in Todo
    BY <1>1, <1>6, <2>1 DEF PlanInv, LeafPlan, DepthPlan, ExitPlan, InRuns, InLumis
  <2>6. SourceFollowed'
    BY <1>1, <1>2, <1>3, <1>6, <2>3, <2>5 DEF CacheInv, SourceFollowed
  <2> QED BY <2>4, <2>6 DEF CacheInv
<1>7. CASE h = "readLuminosityBlock"
  <2>1. "deleteLumiFromCache" \notin Todo
    BY <1>1, <1>7, Ranks
  <2>2. /\ lumi = "none" /\ run # "none" /\ sourceRun = currentRun /\ "deleteRunFromCache" \notin Todo
        /\ "readRun" \notin Todo
    BY <1>1, <1>7, <2>1 DEF PlanInv, LumiPlan, CacheInv, SourceFollowed
  <2>3. /\ lumi' = "read" /\ currentLumi' = number /\ UNCHANGED <<run, currentRun>>
        /\ lumiPrincipal' = TRUE /\ lumi_' = sourceLumi /\ UNCHANGED <<runPrincipal, run_>>
    BY <1>3, <1>7 DEF CacheStep, InsertLumi, After, RunCalls, LumiCalls
  <2>4. CacheHolds'
    BY <1>1, <1>2, <1>3, <1>4, <1>7, <2>1, <2>2, <2>3 DEF CacheInv, CacheHolds, SourceFollowed
  <2>5. SourceFollowed'
    BY <1>1, <1>2, <1>3, <1>7, <2>1, <2>2, <2>3 DEF CacheInv, SourceFollowed
  <2> QED BY <2>4, <2>5 DEF CacheInv
<1>8. CASE h = "deleteLumiFromCache"
  <2>1. Todo \cap {"writeLumi", "exitHandleLumis"} = {}
    BY <1>1, <1>8, Ranks
  <2>2. /\ lumi' = "none" /\ currentLumi' = 0 /\ UNCHANGED <<run, currentRun>>
        /\ lumiPrincipal' = FALSE /\ UNCHANGED <<runPrincipal, run_, lumi_>>
    BY <1>3, <1>8 DEF CacheStep, DeleteLumi, After, RunCalls, LumiCalls
  <2>3. CacheHolds'
    BY <1>2, <1>3, <1>4, <1>8, <2>2 DEF CacheInv, CacheHolds, LumiDone, Gone, LumiCalls
  <2>4. ~unwinding /\ leaf \in InLumis => "readLuminosityBlock" \in Todo
    BY <1>1, <1>8, <2>1 DEF PlanInv, LeafPlan, DepthPlan, ExitPlan, InLumis
  <2>5. SourceFollowed'
    BY <1>1, <1>2, <1>3, <1>8, <2>2, <2>4 DEF CacheInv, SourceFollowed
  <2> QED BY <2>3, <2>5 DEF CacheInv
<1>9. CASE h \notin {"readRun", "deleteRunFromCache", "readLuminosityBlock", "deleteLumiFromCache"}
  <2>1. UNCHANGED <<currentRun, currentLumi, runPrincipal, lumiPrincipal, run_, lumi_>>
    BY <1>3, <1>9 DEF CacheStep, cacheVars
  <2>2. h = "beginRun" => "readRun" \notin Todo
    BY <1>1, Ranks
  <2>3. h = "writeRun" => "endRun" \notin Todo
    BY <1>1, Ranks
  <2>4. h = "beginLumi" => "readLuminosityBlock" \notin Todo
    BY <1>1, Ranks
  <2>5. h = "writeLumi" => "endLumi" \notin Todo
    BY <1>1, Ranks
  <2>6. run' = "none" <=> run = "none"
    BY <1>1, <1>3, <1>9, <2>2, <2>3 DEF PlanInv, RunPlan, After, RunCalls
  <2>7. lumi' = "none" <=> lumi = "none"
    BY <1>1, <1>3, <1>9, <2>4, <2>5 DEF PlanInv, LumiPlan, After, LumiCalls
  <2>10. /\ run' = "unsaved" => run = "unsaved"
         /\ run' = "rewritten" => run = "rewritten" \/ h = "writeRun"
    BY <1>3 DEF After, RunCalls
  <2>11. h = "writeRun" => runPrincipal /\ run_ = currentRun
    BY <1>3 DEF Accepts, HoldsRun
  <2>8. CacheHolds'
    BY <1>2, <1>3, <1>9, <2>1, <2>6, <2>7, <2>10, <2>11 DEF CacheInv, CacheHolds, LumiDone, Gone
  <2>9. SourceFollowed'
    BY <1>2, <1>3, <1>9, <2>1, <2>6, <2>7 DEF CacheInv, SourceFollowed
  <2> QED BY <2>8, <2>9 DEF CacheInv
<1> QED BY <1>5, <1>6, <1>7, <1>8, <1>9

LEMMA StepFollowed ==
  ASSUME ExpectedInv, PlanInv, CacheInv, [NextAll]_allVars
  PROVE  CacheInv'
<1>1. CASE \E r \in RunNumbers : OnRun(r) /\ sourceRun' = r /\ UNCHANGED <<sourceLumi, cacheVars>>
  BY <1>1, RunFollowed
<1>2. CASE \E l \in LumiNumbers : OnLumi(l) /\ sourceLumi' = l /\ UNCHANGED <<sourceRun, cacheVars>>
  BY <1>2, LumiFollowed
<1>3. CASE OnFile /\ UNCHANGED <<cacheVars, sourceVars>>
  BY <1>3, FileFollowed
<1>4. CASE OnEvent /\ UNCHANGED <<cacheVars, sourceVars>>
  BY <1>4, EventFollowed
<1>5. CASE (OnStop \/ OnRestart) /\ UNCHANGED <<cacheVars, sourceVars>>
  BY <1>5, LoopFollowed
<1>6. CASE (SourceThrows \/ Destructor) /\ UNCHANGED <<cacheVars, sourceVars>>
  BY <1>6, UnwindingFollowed
<1>7. CASE ReturnsWithCache
  BY <1>7, ReturnFollowed
<1>8. CASE ThrowsWithCache
  BY <1>8, ThrowFollowed
<1>9. CASE UNCHANGED allVars
  <2>1. /\ UNCHANGED <<leaf, calls, unwinding, number, currentRun, currentLumi, run, lumi,
          abandoned>>
        /\ UNCHANGED <<runPrincipal, lumiPrincipal, run_, lumi_, sourceRun, sourceLumi>>
    BY <1>9 DEF allVars, vars, machineVars, runVars, lumiVars, doneVars, cacheVars, sourceVars
  <2>2. Todo' = Todo
    BY <2>1 DEF Todo
  <2> QED BY <2>1, <2>2 DEF CacheInv, CacheHolds, SourceFollowed, LumiDone, Gone
<1> QED BY <1>1, <1>2, <1>3, <1>4, <1>5, <1>6, <1>7, <1>8, <1>9 DEF NextAll

LEMMA InitFollowed == InitAll => CacheInv
<1> SUFFICES ASSUME InitAll PROVE CacheInv
  OBVIOUS
<1>1. Todo = {}
  BY NothingToDo DEF InitAll, Init, Todo
<1> QED BY <1>1 DEF InitAll, Init, InitCache, CacheInv, CacheHolds, SourceFollowed, InRuns, InLumis

-----------------------------------------------------------------------------
(* The theorems. *)

\* The cache of principals only refuses calls: with it the machine does what it does alone.
LEMMA CacheOnlyRefuses ==
  ASSUME [NextAll]_allVars
  PROVE  [Next]_vars
BY DEF NextAll, allVars, Next, MachineStep, ReturnsWithCache, ThrowsWithCache

\* A machine with a cache of principals is one of the machines of EPStates.
THEOREM MachineWithCache == FairSpecAll => Spec
<1>1. InitAll => Init
  BY DEF InitAll
<1>2. [NextAll]_allVars => [Next]_vars
  BY CacheOnlyRefuses
<1> QED BY <1>1, <1>2, PTL DEF FairSpecAll, Spec

\* The machine never meets an item that its state has no reaction to, which would end the job with
\* "EventProcessor::doErrorStuff": not after a merge of files, an empty run, an exception that is
\* cleaned up, a Stop posted by a state, nor in another loop.
THEOREM ItemsAreExpected == Spec => []NeverUnexpected
<1>1. Init => ExpectedInv
  BY InitExpected
<1>2. ExpectedInv /\ [Next]_vars => ExpectedInv'
  BY StepExpected
<1>3. ExpectedInv => NeverUnexpected
  BY DEF ExpectedInv, LeafFollowsSource, NeverUnexpected
<1> QED BY <1>1, <1>2, <1>3, PTL DEF Spec

\* So neither does the machine with its cache.
THEOREM ItemsAreExpectedWithCache == FairSpecAll => []NeverUnexpected
BY MachineWithCache, ItemsAreExpected, PTL

\* Whatever items the source delivers and whatever throws, the calls to the EventProcessor come in
\* the order that modules and output modules rely on: the machine implements TransitionOrder.  What a
\* call threw about is left alone, but for a run whose writing or dropping threw when endRun had
\* cleared the flag: the destructor of HandleRuns writes and drops it once more.
THEOREM MachineImplementsOrder == Spec => CallsInOrder
<1>1. Init => Order!Init
  BY DEF Init, Order!Init
<1>2. ExpectedInv /\ PlanInv /\ [Next]_vars => [Order!Next]_(Order!vars)
  BY StepInOrder
<1> QED BY <1>1, <1>2, AlwaysPlanned, PTL DEF Spec, CallsInOrder, Order!Spec

\* A machine that has terminated, in order or by an exception, has closed the files and has written
\* and dropped the run and the block, but for what a call threw about.
THEOREM TerminatedIsClean == Spec => []NothingLeftOpen
<1>1. PlanInv => NothingLeftOpen
  <2> SUFFICES ASSUME PlanInv, leaf = "Terminated"
               PROVE  /\ file = "closed" \/ "file" \in abandoned
                      /\ outputs = "closed" \/ abandoned \cap {"file", "outputs"} # {}
                      /\ run = "none" \/ "run" \in abandoned
                      /\ lumi = "none" \/ abandoned \cap {"lumi", "run"} # {}
    BY DEF NothingLeftOpen
  <2>1. Todo = {} /\ depth = 0
    BY Empty DEF PlanInv, LeafPlan
  <2>2. LumiDone /\ RunDone /\ FileDone /\ OutputsDone
    BY <2>1 DEF PlanInv, DepthPlan
  <2> QED BY <2>2 DEF LumiDone, RunDone, FileDone, OutputsDone, Gone
<1> QED BY <1>1, AlwaysPlanned, PTL

\* Both hold of the machine with its cache.
THEOREM MachineWithCacheIsClean == FairSpecAll => CallsInOrder /\ []NothingLeftOpen
BY MachineWithCache, MachineImplementsOrder, TerminatedIsClean, PTL

\* The cache of principals refuses no call, whatever the items and whatever threw, but the second
\* writing of a run, by the destructor of HandleRuns, that it let go of before the first dropping
\* threw: the machine names the run and block that the cache holds.
THEOREM CacheAgreesWithMachine == FairSpecAll => []CacheHoldsWhatIsUsed
<1>1. InitAll => CacheInv
  BY InitFollowed
<1>2. ExpectedInv /\ PlanInv /\ CacheInv /\ [NextAll]_allVars => CacheInv'
  BY StepFollowed
<1>3. PlanInv /\ CacheInv => CacheHoldsWhatIsUsed
  BY FirstCall, CallAccepted DEF CacheHoldsWhatIsUsed
<1> QED BY <1>1, <1>2, <1>3, MachineWithCache, AlwaysPlanned, PTL DEF FairSpecAll
=============================================================================
