------------------------------ MODULE EventLoop ------------------------------
(***************************************************************************)
(* edm::EventProcessor: the loop of runToCompletion over the items of the   *)
(* source, and the streams that share the events of one luminosity block.   *)
(* The state machine of runs and luminosity blocks is reduced here to the   *)
(* run and block that are open; EPStates has it in full.  One output module *)
(* with a limit stands for all of them.                                     *)
(***************************************************************************)
EXTENDS InputSource, FiniteSets

CONSTANTS Streams,      \* 0 .. numberOfStreams - 1
          MaxFailures,  \* bound: exceptions thrown by the source and the modules
          MaxSignals    \* bound: 1 when the job may be told to stop, else 0

ASSUME StreamsFromZero == 0 \in Streams /\ Streams \subseteq Nat /\ IsFiniteSet(Streams)
ASSUME BoundsAreCounts == {MaxFailures, MaxSignals} \subseteq Nat

VARIABLES
  main,      \* where runToCompletion is
  itemType,  \* its local of that name
  openRun,   \* the run the machine has read last and not ended, 0 for none
  openLumi,  \* the luminosity block read last and not ended, 0 for none
  nextItem,  \* nextItemTypeFromProcessingEvents_
  asyncStop, \* asyncStopRequestedWhileProcessingEvents_
  shutdown,  \* edm::shutdown_flag, set by the signal handler
  finished,  \* finishedProcessingEvents
  source,    \* the stream that holds nextTransitionMutex_, or NoStream
  stream,    \* where each stream's task is
  event,     \* the position of the event each stream's principal holds, 0 for none
  caught,    \* the exception each stream is handling, 0 for none
  isSet,     \* deferredExceptionPtrIsSet_
  pointer,   \* deferredExceptionPtr_, 0 for null
  failures,  \* exceptions thrown so far; an exception is named by its number
  outLeft,   \* remainingEvents_ of the output module
  written,   \* the events it wrote, as positions
  outcome    \* how runToCompletion ended

loopVars == <<main, itemType, openRun, openLumi, nextItem, asyncStop, finished, outcome>>
streamVars == <<source, stream, event, caught, isSet, pointer>>
outputVars == <<outLeft, written>>
vars == <<sourceVars, loopVars, streamVars, outputVars, shutdown, failures>>

NoStream == -1
Running == [result |-> "running", exception |-> 0]
Returned(code) == [result |-> code, exception |-> 0]
Thrown(e) == [result |-> "exception", exception |-> e]

Init ==
  /\ InitSource
  /\ main = "next" /\ itemType = "Invalid" /\ openRun = 0 /\ openLumi = 0
  /\ nextItem = "Event" /\ asyncStop = FALSE /\ shutdown = FALSE /\ finished = FALSE
  /\ source = NoStream
  /\ stream = [s \in Streams |-> "idle"]
  /\ event  = [s \in Streams |-> 0]
  /\ caught = [s \in Streams |-> 0]
  /\ isSet = FALSE /\ pointer = 0 /\ failures = 0
  /\ outLeft = job.outMax /\ written = {}
  /\ outcome = Running

\* limitReached of the output module, Schedule::terminate, shouldWeStop
shouldWeStop == outLeft = 0

Ended(how) == main' = "ended" /\ outcome' = how

-----------------------------------------------------------------------------
(* runToCompletion, between two passes over the events of a block *)

\* nextItemType or the read of the first event throws in the main thread.
MainSourceThrows ==
  /\ main \in {"next", "event"} /\ failures < MaxFailures
  /\ failures' = failures + 1
  /\ Ended(Thrown(failures + 1))
  /\ UNCHANGED <<sourceVars, itemType, openRun, openLumi, nextItem, asyncStop, finished,
                 streamVars, outputVars, shutdown>>

\* input_->nextItemType(), then checkForAsyncStopRequest
AskSource ==
  /\ main = "next"
  /\ NextItemType
  /\ itemType' = state'
  /\ IF shutdown
     THEN Ended(Returned("epSignal")) /\ openRun' = 0 /\ openLumi' = 0
     ELSE /\ main' = IF state' = "Event" THEN "event" ELSE "transition"
          /\ UNCHANGED <<outcome, openRun, openLumi>>
  /\ UNCHANGED <<nextItem, asyncStop, finished, streamVars, outputVars, shutdown, failures>>

\* The machine is in HandleNewInputFile3 or ContinueRun2: nothing but entries of
\* runs was read since the last file.
OnlyRunsSinceFile ==
  \E f \in 1 .. pos - 1 :
     items[f].type = "File" /\ \A i \in f + 1 .. pos - 1 : items[i].type = "Run"

\* process_event(File | Run | Lumi | Stop).  A new file leaves the run and the
\* block open; their next entries continue them when the numbers agree.
Transition ==
  /\ main = "transition"
  /\ \/ /\ itemType = "Stop"
        /\ openRun' = 0 /\ openLumi' = 0
        /\ Ended(Returned("epSuccess"))
        /\ UNCHANGED sourceVars
     \/ /\ itemType = "File" /\ ReadFile
        /\ main' = "next"
        /\ UNCHANGED <<openRun, openLumi, outcome>>
     \/ /\ itemType = "Run" /\ ReadRun
        /\ openRun' = items[pos].run
        /\ openLumi' = IF openRun = items[pos].run /\ OnlyRunsSinceFile THEN openLumi ELSE 0
        /\ main' = "next"
        /\ UNCHANGED outcome
     \/ /\ itemType = "Lumi" /\ ReadLumi
        /\ openLumi' = items[pos].lumi
        /\ main' = "next"
        /\ UNCHANGED <<openRun, outcome>>
  /\ UNCHANGED <<itemType, nextItem, asyncStop, finished, streamVars, outputVars, shutdown, failures>>

\* readAndProcessEvent: stream 0 gets the event that is already there, then one
\* task per stream is enqueued.
StartTasks(first, holders) ==
  /\ main = "event"
  /\ nextItem' = "Event" /\ asyncStop' = FALSE /\ finished' = FALSE
  /\ ReadEvent
  /\ event' = [s \in Streams |-> IF s \in holders THEN pos ELSE event[s]]
  /\ stream' = [s \in Streams |-> IF s \in holders THEN first ELSE "loop"]
  /\ main' = "wait"
  /\ UNCHANGED <<itemType, openRun, openLumi, outcome, source, caught, isSet, pointer,
                 outputVars, shutdown, failures>>
StartAllOnFirstEvent == StartTasks("process", Streams)
StartStreams == StartTasks("process", {0})

\* The end of spawn_and_wait_for_all, of readAndProcessEvent, of HandleEvent
\* (which posts a Stop when shouldWeStop) and of the pass of runToCompletion.
\* The tasks are over when the counts of the wait task are.
JoinAfterAnyStream ==
  /\ main = "wait" /\ \E s \in Streams : stream[s] = "done"
  /\ main' = IF nextItem = "Event" THEN "next" ELSE "transition"
  /\ itemType' = nextItem
  /\ UNCHANGED <<sourceVars, openRun, openLumi, nextItem, asyncStop, finished, outcome,
                 streamVars, outputVars, shutdown, failures>>
JoinStreams ==
  /\ main = "wait" /\ \A s \in Streams : stream[s] = "done"
  /\ CASE isSet -> Ended(Thrown(pointer)) /\ UNCHANGED <<itemType, openRun, openLumi>>
       [] ~isSet /\ asyncStop ->
            Ended(Returned("epSignal")) /\ openRun' = 0 /\ openLumi' = 0 /\ UNCHANGED itemType
       [] ~isSet /\ ~asyncStop /\ shouldWeStop ->
            Ended(Returned("epSuccess")) /\ openRun' = 0 /\ openLumi' = 0 /\ UNCHANGED itemType
       [] OTHER ->
            /\ main' = IF nextItem = "Event" THEN "next" ELSE "transition"
            /\ itemType' = nextItem
            /\ UNCHANGED <<outcome, openRun, openLumi>>
  /\ UNCHANGED <<sourceVars, nextItem, asyncStop, finished, streamVars, outputVars, shutdown, failures>>

-----------------------------------------------------------------------------
(* processEventsForStreamAsync *)

\* shouldWeStop(), then whether another stream hit an exception
Loop(s) ==
  /\ stream[s] = "loop"
  /\ stream' = [stream EXCEPT ![s] = IF shouldWeStop \/ isSet THEN "done" ELSE "lock"]
  /\ UNCHANGED <<sourceVars, loopVars, source, event, caught, isSet, pointer, outputVars,
                 shutdown, failures>>

\* The critical section up to readEvent.  A stream that goes on to read keeps
\* the mutex ("keep"); "stop" is what checkForAsyncStopRequest says.
EnterAs(s, keep, stop) ==
  /\ stream[s] = "lock" /\ source = NoStream
  /\ IF finished
     THEN /\ stream' = [stream EXCEPT ![s] = "done"]
          /\ UNCHANGED <<sourceVars, source, nextItem, finished, asyncStop>>
     ELSE /\ NextItemType
          /\ IF state' # "Event"
             THEN /\ nextItem' = state' /\ finished' = TRUE
                  /\ stream' = [stream EXCEPT ![s] = "done"]
                  /\ UNCHANGED <<source, asyncStop>>
             ELSE /\ asyncStop' = stop
                  /\ stream' = [stream EXCEPT ![s] = IF stop THEN "done" ELSE "read"]
                  /\ source' = IF stop THEN NoStream ELSE keep
                  /\ UNCHANGED <<nextItem, finished>>
  /\ UNCHANGED <<main, itemType, openRun, openLumi, outcome, event, caught, isSet, pointer,
                 outputVars, shutdown, failures>>
EnterUnlocked(s) == EnterAs(s, NoStream, shutdown)
EnterDeaf(s) == EnterAs(s, s, FALSE)
Enter(s) == EnterAs(s, s, shutdown)

Read(s) ==
  /\ stream[s] = "read"
  /\ ReadEvent
  /\ event' = [event EXCEPT ![s] = pos]
  /\ stream' = [stream EXCEPT ![s] = "recheck"]
  /\ source' = NoStream
  /\ UNCHANGED <<loopVars, caught, isSet, pointer, outputVars, shutdown, failures>>

\* The source throws in a stream; the lock guard gives the mutex back.
SourceThrowsIn(s, holder) ==
  /\ \/ stream[s] = "lock" /\ source = NoStream /\ ~finished
     \/ stream[s] = "read"
  /\ failures < MaxFailures
  /\ failures' = failures + 1
  /\ caught' = [caught EXCEPT ![s] = failures + 1]
  /\ stream' = [stream EXCEPT ![s] = "caught"]
  /\ source' = holder
  /\ UNCHANGED <<sourceVars, loopVars, event, isSet, pointer, outputVars, shutdown>>
StreamSourceThrowsLocked(s) == SourceThrowsIn(s, s)
StreamSourceThrows(s) == SourceThrowsIn(s, NoStream)

\* Another stream hit an exception: the event just read is not processed.
Recheck(s) ==
  /\ stream[s] = "recheck"
  /\ stream' = [stream EXCEPT ![s] = IF isSet THEN "done" ELSE "process"]
  /\ UNCHANGED <<sourceVars, loopVars, source, event, caught, isSet, pointer, outputVars,
                 shutdown, failures>>

\* processEvent up to the write of the output module: doEvent tests the count
\* after the write, outside the mutex of the module.
Process(s) ==
  /\ stream[s] = "process"
  /\ written' = written \cup {event[s]}
  /\ IF outLeft > 0
     THEN stream' = [stream EXCEPT ![s] = "count"] /\ UNCHANGED event
     ELSE stream' = [stream EXCEPT ![s] = "loop"] /\ event' = [event EXCEPT ![s] = 0]
  /\ UNCHANGED <<sourceVars, loopVars, source, caught, isSet, pointer, outLeft, shutdown, failures>>

\* --remainingEvents_, then clearEventPrincipal
Count(s) ==
  /\ stream[s] = "count"
  /\ outLeft' = outLeft - 1
  /\ event' = [event EXCEPT ![s] = 0]
  /\ stream' = [stream EXCEPT ![s] = "loop"]
  /\ UNCHANGED <<sourceVars, loopVars, source, caught, isSet, pointer, written, shutdown, failures>>

\* A module throws.
ProcessThrows(s) ==
  /\ stream[s] = "process" /\ failures < MaxFailures
  /\ failures' = failures + 1
  /\ caught' = [caught EXCEPT ![s] = failures + 1]
  /\ stream' = [stream EXCEPT ![s] = "caught"]
  /\ UNCHANGED <<sourceVars, loopVars, source, event, isSet, pointer, outputVars, shutdown>>

\* catch(...): the first stream to set the flag stores its exception, in a
\* second step.
CatchWithoutStore(s) ==
  /\ stream[s] = "caught"
  /\ isSet' = TRUE
  /\ stream' = [stream EXCEPT ![s] = "done"]
  /\ UNCHANGED <<sourceVars, loopVars, source, event, caught, pointer, outputVars, shutdown, failures>>
Catch(s) ==
  /\ stream[s] = "caught"
  /\ isSet' = TRUE
  /\ stream' = [stream EXCEPT ![s] = IF isSet THEN "done" ELSE "store"]
  /\ UNCHANGED <<sourceVars, loopVars, source, event, caught, pointer, outputVars, shutdown, failures>>
Store(s) ==
  /\ stream[s] = "store"
  /\ pointer' = caught[s]
  /\ stream' = [stream EXCEPT ![s] = "done"]
  /\ UNCHANGED <<sourceVars, loopVars, source, event, caught, isSet, outputVars, shutdown, failures>>

-----------------------------------------------------------------------------

\* The signal handler of edm::shutdown_flag.
Signal ==
  /\ ~shutdown /\ MaxSignals > 0
  /\ shutdown' = TRUE
  /\ UNCHANGED <<sourceVars, loopVars, streamVars, outputVars, failures>>

\* The time of maxSecondsUntilRampdown is over.
TimeIsUp == Rampdown /\ UNCHANGED <<loopVars, streamVars, outputVars, shutdown, failures>>

MainStep == AskSource \/ Transition \/ StartStreams \/ JoinStreams
StreamStep(s) ==
  Loop(s) \/ Enter(s) \/ Read(s) \/ Recheck(s) \/ Process(s) \/ Count(s) \/ Catch(s) \/ Store(s)

Next ==
  \/ MainStep
  \/ \E s \in Streams : StreamStep(s) \/ StreamSourceThrows(s) \/ ProcessThrows(s)
  \/ MainSourceThrows
  \/ Signal
  \/ TimeIsUp

Spec == Init /\ [][Next]_vars

\* The main thread and the tasks it enqueued are scheduled; nothing makes a
\* module throw or a signal come.
FairSpec == Spec /\ WF_vars(MainStep) /\ \A s \in Streams : WF_vars(StreamStep(s))

-----------------------------------------------------------------------------
(* Properties *)

TypeOK ==
  /\ SourceTypeOK
  /\ main \in {"next", "event", "transition", "wait", "ended"}
  /\ {itemType, nextItem} \subseteq ItemTypes
  /\ {openRun, openLumi, pointer, failures} \subseteq Nat
  /\ {asyncStop, shutdown, finished, isSet} \subseteq BOOLEAN
  /\ source \in Streams \cup {NoStream}
  /\ stream \in [Streams -> {"idle", "loop", "lock", "read", "recheck", "process", "count",
                             "caught", "store", "done"}]
  /\ event \in [Streams -> 0 .. Len(items)]
  /\ caught \in [Streams -> 0 .. MaxFailures]
  /\ outLeft \in Int
  /\ written \subseteq 1 .. Len(items)

\* A read finds what it was promised: readEvent's asserts hold whenever a thread
\* is about to read an event, in the main thread and in the streams, whatever
\* the other streams did since nextItemType said so; and the item the machine is
\* told of is the one under the iterator.
ReadFindsItem ==
  /\ main = "event" => CanReadEvent
  /\ \A s \in Streams : stream[s] = "read" => CanReadEvent
  /\ main = "transition" /\ itemType # "Stop" =>
        itemType = state /\ Upcoming = itemType

\* An event is processed by one stream, once.
EventsProcessedOnce ==
  \A s, t \in Streams : stream[s] \in {"recheck", "process"} =>
     /\ event[s] \notin written
     /\ s # t /\ stream[t] \in {"recheck", "process", "count"} => event[s] # event[t]

\* What maxEvents and maxLuminosityBlocks leave to process: the events among
\* the first maxEvents and in the first maxLuminosityBlocks entries of blocks
\* (a block that goes on in a second file has two entries and counts twice).
EntriesUpTo(type, i) == {j \in 1 .. i : items[j].type = type}
Wanted ==
  {i \in EntriesUpTo("Event", Len(items)) :
     /\ job.maxEvents >= 0 => Cardinality(EntriesUpTo("Event", i)) <= job.maxEvents
     /\ job.maxLumis >= 0 => Cardinality(EntriesUpTo("Lumi", i)) <= job.maxLumis}

\* A job that ends with success has processed every event within its limits,
\* unless the output module had written all it may write or the time was up; a
\* job never processes an event beyond the limits of the source; and a job that
\* stops for the time still processes the rest of the block it is in.
NothingLost ==
  /\ written \subseteq Wanted
  /\ outcome = Returned("epSuccess") =>
        \/ written = Wanted
        \/ job.outMax >= 0 /\ Cardinality(written) >= job.outMax
        \/ elapsed /\ \A i \in written : i + 1 \in Wanted => i + 1 \in written

\* runToCompletion never returns normally once a stream caught an exception, and
\* what it throws then is an exception that some stream caught, not a null
\* pointer: the store of the pointer is over when the main thread reads it.
ExceptionsReported ==
  main = "ended" /\ (\E s \in Streams : caught[s] # 0) =>
     /\ outcome.result = "exception"
     /\ \E s \in Streams : caught[s] = outcome.exception /\ caught[s] # 0

\* A change of run or of luminosity block is a barrier: no stream is at work on
\* an event then.
TransitionsAreBarriers ==
  [][<<openRun, openLumi>>' # <<openRun, openLumi>> =>
        \A s \in Streams : stream[s] \in {"idle", "done"}]_vars

\* The job comes to its end: runToCompletion returns or throws.
JobEnds == <>(main = "ended")

\* -1 is used for unlimited: an output module with a limit does not take that
\* value for the events that remain.
LimitIsNotLifted == job.outMax >= 0 => outLeft >= 0
=============================================================================
