------------------------------- MODULE EPStates -------------------------------
(***************************************************************************)
(* statemachine::Machine (FWCore/Framework/src/EPStates.cc): the states by  *)
(* which EventProcessor handles files, runs and luminosity blocks, driven   *)
(* by the items of the source.  The reaction to an item is a list of calls  *)
(* to the EventProcessor, made one at a time; any of them may throw, and    *)
(* then the destructors of the nested states clean up, as Boost.Statechart  *)
(* calls no exit() on the way out of an exception.                          *)
(***************************************************************************)
EXTENDS Integers, Sequences

CONSTANTS RunNumbers, LumiNumbers \* numbers the source delivers, 0 is invalid

ASSUME NumbersAreValid == RunNumbers \cup LumiNumbers \subseteq Nat \ {0}

\* emptyRunLumiMode, fileMode = NOMERGE, and whether an EDLooper is configured
Configurations ==
  [emptyMode : {"handleEmptyRunsAndLumis", "handleEmptyRuns", "doNotHandleEmptyRunsAndLumis"},
   noMerge : BOOLEAN, looper : BOOLEAN]

VARIABLES
  config,    \* one of the Configurations, for the whole job
  leaf,      \* the innermost state, or "Terminated"
  depth,     \* how many of HandleFiles, HandleRuns, HandleLumis exist
  exited,    \* those of them whose exitCalled_ is set
  calls,     \* the calls still to be made for the last item
  unwinding, \* an exception is on its way out of the machine
  posted,    \* the event posted by a constructor, "none"
  previous,  \* the last item type of the source (InputSource::state_)
  number,    \* the run or block number of that item
  currentRun, beginRunCalled, runException,         \* members of HandleRuns
  currentLumi, currentLumiEmpty, lumiException,     \* members of HandleLumis
  file, outputs, run, lumi, abandoned               \* what the calls have done so far

machineVars == <<leaf, depth, exited, calls, unwinding, posted, previous, number>>
runVars == <<currentRun, beginRunCalled, runException>>
lumiVars == <<currentLumi, currentLumiEmpty, lumiException>>
doneVars == <<file, outputs, run, lumi, abandoned>>
vars == <<config, machineVars, runVars, lumiVars, doneVars>>

InFiles == {"FirstFile", "HandleNewInputFile1", "NewInputAndOutputFiles"}
InRuns  == {"NewRun", "HandleNewInputFile2", "ContinueRun1"}
InLumis == {"FirstLumi", "AnotherLumi", "HandleEvent", "HandleNewInputFile3", "ContinueRun2",
            "ContinueLumi"}
Leaves  == {"Starting", "EndingLoop", "Error", "Terminated"} \cup InFiles \cup InRuns \cup InLumis

Init ==
  /\ config \in Configurations
  /\ leaf = "Starting" /\ depth = 0 /\ exited = {} /\ calls = <<>>
  /\ unwinding = FALSE /\ posted = "none" /\ previous = "Invalid" /\ number = 0
  /\ currentRun = 0 /\ beginRunCalled = FALSE /\ runException = FALSE
  /\ currentLumi = 0 /\ currentLumiEmpty = TRUE /\ lumiException = FALSE
  /\ file = "closed" /\ outputs = "closed" /\ run = "none" /\ lumi = "none" /\ abandoned = {}

-----------------------------------------------------------------------------
(* The calls of the member functions of the states *)

If(condition, some) == IF condition THEN some ELSE <<>>

closeFiles == <<"respondToCloseInputFile", "closeInputFile", "closeOutputFiles">>
openFiles  == <<"readFile", "respondToOpenInputFile", "openOutputFiles">>
goToNewInputFile ==
  <<"respondToCloseInputFile", "closeInputFile", "readFile", "respondToOpenInputFile">>
goToNewInputAndOutputFiles == closeFiles \o openFiles

setupCurrentRun ==
  <<"readRun">> \o If(config.emptyMode # "doNotHandleEmptyRunsAndLumis", <<"beginRun">>)
\* Nothing happens when runException_ is set (no state reacts while it is, see
\* Destroy); "flagRun" sets it.
finalizeRun ==
  <<"flagRun">> \o If(beginRunCalled, <<"endRun">>) \o <<"writeRun", "deleteRunFromCache">>

setupCurrentLumi ==
  <<"readLuminosityBlock">> \o If(config.emptyMode = "handleEmptyRunsAndLumis", <<"beginLumi">>)
finalizeLumi ==
  If(~currentLumiEmpty \/ config.emptyMode = "handleEmptyRunsAndLumis", <<"endLumi">>)
    \o <<"writeLumi", "deleteLumiFromCache">>

\* HandleEvent: beginRunIfNotDoneAlready, markLumiNonEmpty, readAndProcessEvent
handleEvent ==
  If(~beginRunCalled, <<"beginRun">>)
    \o If(currentLumiEmpty /\ config.emptyMode # "handleEmptyRunsAndLumis", <<"beginLumi">>)
    \o <<"markNonEmpty", "readAndProcessEvent">>

\* Leaving a state on a transition: its exit(), then its destructor.
leaveLumis == If(depth = 3, <<"exitHandleLumis">> \o finalizeLumi \o <<"destroyHandleLumis">>)
leaveRunsFirst ==
  If(depth >= 2, <<"exitHandleRuns">> \o finalizeRun) \o leaveLumis \o If(depth >= 2, <<"destroyHandleRuns">>)
leaveRuns ==
  leaveLumis \o If(depth >= 2, <<"exitHandleRuns">> \o finalizeRun \o <<"destroyHandleRuns">>)
leaveFiles ==
  leaveRuns \o If(depth >= 1, <<"exitHandleFiles">> \o closeFiles \o <<"destroyHandleFiles">>)

-----------------------------------------------------------------------------
(* The reactions *)

Idle == calls = <<>> /\ ~unwinding /\ leaf # "Terminated"

GoTo(target, list) == leaf' = target /\ calls' = list
Unexpected == GoTo("Error", leaveFiles \o <<"doErrorStuff">>)

\* What InputSource::nextItemType may say next: it never goes deeper than one
\* level below its last answer.
NextItemsUnpromoted(last) == {"File", "Run", "Lumi", "Event", "Stop"}
NextItems(last) ==
  CASE last = "Invalid" -> {"File", "Stop"}
    [] last = "File" -> {"File", "Run", "Stop"}
    [] last = "Run" -> {"File", "Run", "Lumi", "Stop"}
    [] OTHER -> {"File", "Run", "Lumi", "Event", "Stop"}

Receive(type, n) ==
  /\ Idle /\ posted = "none" /\ type \in NextItems(previous)
  /\ previous' = type /\ number' = n
  /\ UNCHANGED <<config, depth, exited, unwinding, posted, runVars, lumiVars, doneVars>>

\* "closeOutput" is the answer of shouldWeCloseOutput of the states.
OnFile ==
  /\ Receive("File", 0)
  /\ \E closeOutput \in {TRUE, config.noMerge} :
       CASE leaf = "Starting" -> GoTo("FirstFile", <<"startingNewLoop", "enterHandleFiles">> \o openFiles)
         [] leaf \in InFiles /\ ~closeOutput -> GoTo("HandleNewInputFile1", goToNewInputFile)
         [] leaf \in InRuns  /\ ~closeOutput -> GoTo("HandleNewInputFile2", goToNewInputFile)
         [] leaf \in InLumis /\ ~closeOutput -> GoTo("HandleNewInputFile3", goToNewInputFile)
         [] leaf \in InFiles \cup InRuns \cup InLumis /\ closeOutput ->
              GoTo("NewInputAndOutputFiles", leaveRuns \o goToNewInputAndOutputFiles)
         [] OTHER -> Unexpected

OnRun(r) ==
  /\ Receive("Run", r)
  /\ CASE leaf \in InFiles -> GoTo("NewRun", <<"enterHandleRuns">> \o setupCurrentRun)
       [] leaf \in InRuns /\ r = currentRun -> GoTo("ContinueRun1", <<"readAndMergeRun">>)
       [] leaf \in InRuns /\ r # currentRun -> GoTo("NewRun", finalizeRun \o setupCurrentRun)
       [] leaf \in {"HandleNewInputFile3", "ContinueRun2"} /\ r = currentRun ->
            GoTo("ContinueRun2", <<"readAndMergeRun">>)
       [] leaf \in InLumis /\ (leaf \notin {"HandleNewInputFile3", "ContinueRun2"} \/ r # currentRun) ->
            GoTo("NewRun", leaveLumis \o finalizeRun \o setupCurrentRun)
       [] OTHER -> Unexpected

\* HandleEvent starts another block even when the number is the same.
OnLumi(l) ==
  /\ Receive("Lumi", l)
  /\ CASE leaf \in {"NewRun", "ContinueRun1"} -> GoTo("FirstLumi", <<"enterHandleLumis">> \o setupCurrentLumi)
       [] leaf \in {"FirstLumi", "AnotherLumi", "ContinueLumi", "ContinueRun2"} /\ l = currentLumi ->
            GoTo("ContinueLumi", <<"readAndMergeLumi">>)
       [] leaf \in {"FirstLumi", "AnotherLumi", "ContinueLumi", "ContinueRun2"} /\ l # currentLumi ->
            GoTo("AnotherLumi", finalizeLumi \o setupCurrentLumi)
       [] leaf = "HandleEvent" -> GoTo("AnotherLumi", finalizeLumi \o setupCurrentLumi)
       [] OTHER -> Unexpected

OnEvent ==
  /\ Receive("Event", 0)
  /\ IF leaf \in InLumis \ {"HandleNewInputFile3", "ContinueRun2"}
     THEN GoTo("HandleEvent", handleEvent)
     ELSE Unexpected

\* From the source, from runToCompletion after a signal, or posted by a state.
OnStop ==
  /\ Idle
  /\ posted \in {"none", "Stop"}
  /\ posted' = "none"
  /\ CASE leaf = "Starting" -> GoTo("EndingLoop", <<"startingNewLoop", "endOfLoop">>)
       [] leaf = "EndingLoop" -> GoTo("Terminated", <<>>)
       [] OTHER -> GoTo("EndingLoop", leaveFiles \o <<"endOfLoop">>)
  /\ UNCHANGED <<config, depth, exited, unwinding, previous, number, runVars, lumiVars, doneVars>>

\* Posted by EndingLoop: the looper wants another loop.
OnRestart ==
  /\ Idle
  /\ posted = "Restart" /\ posted' = "none"
  /\ GoTo("Starting", <<"prepareForNextLoop", "rewindInput">>)
  /\ previous' = "Invalid"
  /\ UNCHANGED <<config, depth, exited, unwinding, number, runVars, lumiVars, doneVars>>

-----------------------------------------------------------------------------
(* The calls *)

RunCalls  == {"readRun", "beginRun", "endRun", "writeRun", "deleteRunFromCache"}
LumiCalls == {"readLuminosityBlock", "beginLumi", "endLumi", "writeLumi", "deleteLumiFromCache"}
FileCalls == {"readFile", "respondToOpenInputFile", "respondToCloseInputFile", "closeInputFile"}
OutputCalls == {"openOutputFiles", "closeOutputFiles"}
OtherCalls == {"readAndMergeRun", "readAndMergeLumi", "readAndProcessEvent", "startingNewLoop",
               "endOfLoop", "prepareForNextLoop", "rewindInput"}
Own == {"enterHandleFiles", "enterHandleRuns", "enterHandleLumis", "exitHandleFiles",
        "exitHandleRuns", "exitHandleLumis", "destroyHandleFiles", "destroyHandleRuns", "destroyHandleLumis",
        "flagRun", "markNonEmpty", "doErrorStuff"}

\* What is done once a call returned
After(call, before) ==
  CASE call \in {"readRun", "readLuminosityBlock"} -> "read"
    [] call \in {"beginRun", "beginLumi"} -> "begun"
    [] call \in {"endRun", "endLumi"} -> "ended"
    [] call = "writeRun" -> IF before = "unsaved" THEN "rewritten" ELSE "written"
    [] call = "writeLumi" -> "written"
    [] call \in {"deleteRunFromCache", "deleteLumiFromCache"} -> "none"
    [] call \in {"readFile", "openOutputFiles"} -> "open"
    [] call \in {"closeInputFile", "closeOutputFiles"} -> "closed"
    [] OTHER -> before

\* The events that the constructors of HandleEvent (after shouldWeStop),
\* EndingLoop and Error post
PostsNoRestart(call) ==
  CASE call = "readAndProcessEvent" -> {"none", "Stop"}
    [] call = "endOfLoop" -> IF config.looper THEN {"Stop", "none"} ELSE {"Stop"}
    [] call = "doErrorStuff" -> {"Stop"}
    [] OTHER -> {posted}
Posts(call) ==
  CASE call = "readAndProcessEvent" -> {"none", "Stop"}
    [] call = "endOfLoop" -> IF config.looper THEN {"Stop", "Restart"} ELSE {"Stop"}
    [] call = "doErrorStuff" -> {"Stop"}
    [] OTHER -> {posted}

CallReturns ==
  /\ calls # <<>>
  /\ LET call == Head(calls) IN
     /\ calls' = Tail(calls)
     /\ depth' = CASE call = "enterHandleFiles" -> 1
                   [] call = "enterHandleRuns" -> 2
                   [] call = "enterHandleLumis" -> 3
                   [] call \in {"destroyHandleFiles", "destroyHandleRuns", "destroyHandleLumis"} -> depth - 1
                   [] OTHER -> depth
     /\ exited' = CASE call = "exitHandleFiles" -> exited \cup {1}
                    [] call = "exitHandleRuns" -> exited \cup {2}
                    [] call = "exitHandleLumis" -> exited \cup {3}
                    [] call \in {"destroyHandleFiles", "destroyHandleRuns", "destroyHandleLumis"} -> exited \ {depth}
                    [] OTHER -> exited
     /\ currentRun' = CASE call = "readRun" -> number
                        [] call = "deleteRunFromCache" -> 0
                        [] OTHER -> currentRun
     /\ beginRunCalled' = CASE call = "beginRun" -> TRUE
                            [] call \in {"endRun", "enterHandleRuns"} -> FALSE
                            [] OTHER -> beginRunCalled
     /\ currentLumi' = CASE call = "readLuminosityBlock" -> number
                         [] call = "deleteLumiFromCache" -> 0
                         [] OTHER -> currentLumi
     /\ currentLumiEmpty' = CASE call \in {"readLuminosityBlock", "enterHandleLumis"} -> TRUE
                              [] call = "markNonEmpty" -> FALSE
                              [] OTHER -> currentLumiEmpty
     /\ runException' = CASE call = "flagRun" -> TRUE
                          [] call \in {"readRun", "beginRun", "endRun", "deleteRunFromCache",
                                       "enterHandleRuns"} -> FALSE
                          [] OTHER -> runException
     /\ run'     = IF call \in RunCalls THEN After(call, run) ELSE run
     /\ lumi'    = IF call \in LumiCalls THEN After(call, lumi) ELSE lumi
     /\ file'    = IF call \in FileCalls THEN After(call, file) ELSE file
     /\ outputs' = IF call \in OutputCalls THEN After(call, outputs) ELSE outputs
     /\ posted' \in Posts(call)
  /\ UNCHANGED <<config, leaf, unwinding, previous, number, lumiException, abandoned>>

\* readRun, beginRun and endRun set runException_ for as long as they last, and
\* lumiException_ is set throughout the calls about a block.  finalizeRun sets
\* runException_ too, but its endRun leaves it cleared: writeRun and
\* deleteRunFromCache throw with the flag down if the run was ended, so that the
\* destructor of HandleRuns may save the run once more.  An exception thrown
\* while the destructors run is swallowed and ends the work of that destructor.
Throws(call, flagged) ==
  /\ calls' = <<>> /\ unwinding' = TRUE
  /\ runException' = (runException \/ call \in flagged)
  /\ lumiException' = (lumiException \/ call \in LumiCalls)
  /\ beginRunCalled' = IF call = "endRun" THEN FALSE ELSE beginRunCalled \/ call = "beginRun"
  /\ run' = IF call \in {"writeRun", "deleteRunFromCache"} /\ run \in {"ended", "written"}
            THEN "unsaved" ELSE run
  /\ abandoned' = abandoned \cup
       (CASE call \in RunCalls -> {"run"}
          [] call \in LumiCalls -> {"lumi"}
          [] call \in FileCalls -> {"file"}
          [] call \in OutputCalls -> {"outputs"}
          [] OTHER -> {})
  /\ UNCHANGED <<config, leaf, depth, exited, posted, previous, number, currentRun, currentLumi,
                 currentLumiEmpty, file, outputs, lumi>>
Throwing == calls # <<>> /\ Head(calls) \notin Own
CallThrowsUnflagged == Throwing /\ Throws(Head(calls), {"readRun", "endRun"})
CallThrows == Throwing /\ Throws(Head(calls), {"readRun", "beginRun", "endRun"})

\* The source threw between two items: terminateMachine sends a Stop with
\* alreadyHandlingException_ set, so that every exit() returns at once.
SourceThrows ==
  /\ Idle /\ posted = "none"
  /\ unwinding' = TRUE
  /\ UNCHANGED <<config, leaf, depth, exited, calls, posted, previous, number, runVars, lumiVars, doneVars>>

\* The destructors, from the innermost state out; each cleans up unless its
\* exit() was called or what it would clean up is what threw.
Destroy(cleaned) ==
  /\ unwinding /\ calls = <<>> /\ leaf # "Terminated"
  /\ IF depth = 0 THEN leaf' = "Terminated" /\ UNCHANGED <<depth, calls>>
     ELSE /\ depth' = depth - 1
          /\ calls' = CASE depth \in exited \cup cleaned -> <<>>
                        [] depth = 3 /\ depth \notin exited \cup cleaned ->
                             If(~lumiException /\ ~runException, finalizeLumi)
                        [] depth = 2 /\ depth \notin exited \cup cleaned -> If(~runException, finalizeRun)
                        [] OTHER -> closeFiles
          /\ UNCHANGED leaf
  /\ UNCHANGED <<config, exited, unwinding, posted, previous, number, runVars, lumiVars, doneVars>>
DestroyAfterLumi == Destroy(IF lumiException THEN {2} ELSE {})
Destructor == Destroy({})

MachineStep == CallReturns \/ Destructor
Next ==
  \/ OnFile
  \/ \E r \in RunNumbers : OnRun(r)
  \/ \E l \in LumiNumbers : OnLumi(l)
  \/ OnEvent \/ OnStop \/ OnRestart
  \/ MachineStep
  \/ CallThrows \/ SourceThrows

Spec == Init /\ [][Next]_vars

\* Calls return or throw, destructors run, and the events that states posted are
\* processed before process_event returns; the source owes nothing.
PostedEvent == posted # "none" /\ (OnStop \/ OnRestart)
FairSpec == Spec /\ WF_vars(MachineStep) /\ WF_vars(PostedEvent)

-----------------------------------------------------------------------------
(* Properties *)

\* "unsaved" and "rewritten": a call to write or drop the run threw, and it was
\* written again.
Stages == {"none", "read", "begun", "ended", "written", "unsaved", "rewritten"}
TypeOK ==
  /\ config \in Configurations
  /\ leaf \in Leaves
  /\ depth \in 0 .. 3 /\ exited \subseteq 1 .. 3
  /\ \A i \in 1 .. Len(calls) :
        calls[i] \in RunCalls \cup LumiCalls \cup FileCalls \cup OutputCalls \cup OtherCalls \cup Own
  /\ posted \in {"none", "Stop", "Restart"}
  /\ previous \in {"Invalid", "File", "Run", "Lumi", "Event"}
  /\ number \in RunNumbers \cup LumiNumbers \cup {0}
  /\ currentRun \in RunNumbers \cup {0} /\ currentLumi \in LumiNumbers \cup {0}
  /\ {unwinding, beginRunCalled, runException, currentLumiEmpty, lumiException} \subseteq BOOLEAN
  /\ {file, outputs} \subseteq {"open", "closed"} /\ {run, lumi} \subseteq Stages
  /\ abandoned \subseteq {"file", "outputs", "run", "lumi"}

\* The calls to the EventProcessor come in the order of TransitionOrder, also on
\* the way out of an exception: nothing ends that did not begin, nothing is
\* written that is not at its end, a run ends after its luminosity blocks, and
\* nothing is done with a run or a block of which a call threw, except that a run
\* whose writing or dropping threw is written and dropped once more.
Order == INSTANCE TransitionOrder
CallsInOrder == Order!Spec

\* However the machine terminates, nothing is left behind but what a call threw
\* about: files are closed, runs and blocks are written and gone from the cache.
\* A block is given up with its run.
NothingLeftOpen ==
  leaf = "Terminated" =>
    /\ file = "closed" \/ "file" \in abandoned
    /\ outputs = "closed" \/ abandoned \cap {"file", "outputs"} # {}
    /\ run = "none" \/ "run" \in abandoned
    /\ lumi = "none" \/ abandoned \cap {"lumi", "run"} # {}

\* The machine never meets an item it does not expect: the Error state is not
\* reached as long as the source goes no deeper than one level at a time.
NeverUnexpected == leaf # "Error"

\* A loop that is ended is ended: the machine terminates or starts another loop.
LoopsEnd == leaf = "EndingLoop" ~> leaf \in {"Terminated", "Starting"}
=============================================================================
