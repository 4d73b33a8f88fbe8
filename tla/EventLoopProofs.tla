--------------------------- MODULE EventLoopProofs ---------------------------
(***************************************************************************)
(* Proofs about EventLoop, for any number of streams, any inputs whose      *)
(* entries are in order, any number of exceptions.                          *)
(***************************************************************************)
EXTENDS EventLoopSignal, FiniteSetTheorems, WellFoundedInduction, TLAPS

(* The inductive invariant *)

\* The places in which a stream holds an event.
Busy == {"recheck", "process", "count"}
ReadTypes == {"File", "Run", "Lumi", "Event"}

\* The source announces the entry under its iterator and no other: what was
\* announced last allows it.
InStep == pos <= Len(items) => Level(items[pos].type) <= DeepestAfter(state)

\* What the main thread and the streams were told of is still to be read; the
\* stream about to read is the one that holds the mutex.
Announced ==
  /\ main = "event" => CanReadEvent
  /\ main = "transition" /\ itemType # "Stop" =>
       itemType \in {"File", "Run", "Lumi"} /\ itemType = state /\ Upcoming = itemType
  /\ main = "wait" /\ nextItem # "Event" => finished
  /\ main = "wait" /\ finished =>
       \/ nextItem = "Stop"
       \/ nextItem \in {"File", "Run", "Lumi"} /\ nextItem = state /\ Upcoming = nextItem
  /\ \A s \in Streams : stream[s] = "read" => CanReadEvent /\ ~finished /\ source = s

\* The streams are at work only while the main thread waits for them.
StreamsWait ==
  /\ main # "wait" => \A s \in Streams : stream[s] \in {"idle", "done"}
  /\ source # NoStream => stream[source] = "read"

\* An exception caught sets the flag; once no stream is about to store, the
\* pointer is one of the exceptions caught.
Deferred ==
  /\ \A s \in Streams : stream[s] \in {"caught", "store"} => caught[s] # 0
  /\ \A s \in Streams : caught[s] # 0 =>
       /\ stream[s] \in {"caught", "store", "done"}
       /\ stream[s] # "caught" => isSet
       /\ main \in {"wait", "ended"}
  /\ isSet => \/ \E s \in Streams : stream[s] = "store"
              \/ \E s \in Streams : caught[s] # 0 /\ caught[s] = pointer

\* The events in hand were read, are not written yet and are all different.
EventsHeld ==
  /\ written \subseteq 1 .. pos - 1
  /\ \A s \in Streams : stream[s] \in Busy => event[s] \in 1 .. pos - 1
  /\ \A s, t \in Streams : stream[s] \in Busy /\ stream[t] \in Busy /\ s # t => event[s] # event[t]
  /\ \A s \in Streams : stream[s] \in {"recheck", "process"} => event[s] \notin written

IInv == TypeOK /\ InStep /\ Announced /\ StreamsWait /\ Deferred /\ EventsHeld /\ ExceptionsReported

-----------------------------------------------------------------------------
(* The source *)

LEMMA LevelOf ==
  Level("File") = 1 /\ Level("Run") = 2 /\ Level("Lumi") = 3 /\ Level("Event") = 4
<1>1. Levels[1] = "File" /\ Levels[2] = "Run" /\ Levels[3] = "Lumi" /\ Levels[4] = "Event"
  BY DEF Levels
<1>2. Level("File") = 1 BY <1>1, \A i \in 1 .. 4 : i = 1 \/ i = 2 \/ i = 3 \/ i = 4 DEF Level
<1>3. Level("Run") = 2 BY <1>1, \A i \in 1 .. 4 : i = 1 \/ i = 2 \/ i = 3 \/ i = 4 DEF Level
<1>4. Level("Lumi") = 3 BY <1>1, \A i \in 1 .. 4 : i = 1 \/ i = 2 \/ i = 3 \/ i = 4 DEF Level
<1>5. Level("Event") = 4 BY <1>1, \A i \in 1 .. 4 : i = 1 \/ i = 2 \/ i = 3 \/ i = 4 DEF Level
<1> QED BY <1>2, <1>3, <1>4, <1>5

LEMMA ElementOfSeqOver ==
  \A S : \A q \in Seq(S) : \A i \in 1 .. Len(q) : q[i] \in S
OBVIOUS

LEMMA JobFacts ==
  ASSUME job \in Jobs
  PROVE  /\ items \in Seq([type : ItemTypes, run : Nat, lumi : Nat])
         /\ Len(items) \in Nat /\ Len(items) > 0
         /\ \A i \in 1 .. Len(items) :
              /\ items[i].type \in ReadTypes
              /\ items[i].run \in Nat /\ items[i].lumi \in Nat
         /\ ItemsInOrder(items)
<1>1. items \in Seq([type : ItemTypes, run : Nat, lumi : Nat]) \ {<<>>}
  BY JobsAreInputs DEF items
<1>2. \A i \in DOMAIN items : items[i].type \in ReadTypes
  BY JobsAreInputs DEF items, ReadTypes
<1>3. ItemsInOrder(items) BY JobsAreInputs DEF items
<1>4. Len(items) \in Nat /\ Len(items) > 0 /\ DOMAIN items = 1 .. Len(items) BY <1>1
<1>5. \A i \in 1 .. Len(items) : items[i] \in [type : ItemTypes, run : Nat, lumi : Nat]
  BY <1>1, ElementOfSeqOver
<1> QED BY <1>1, <1>2, <1>3, <1>4, <1>5

LEMMA UpcomingType ==
  ASSUME SourceTypeOK
  PROVE  /\ Upcoming \in ReadTypes \cup {"Stop"}
         /\ Upcoming # "Stop" => pos \in 1 .. Len(items) /\ Upcoming = items[pos].type
<1>1. job \in Jobs /\ pos \in 1 .. Len(items) + 1 BY DEF SourceTypeOK
<1>2. CASE pos <= Len(items)
  <2>1. pos \in 1 .. Len(items) BY <1>1, <1>2, JobFacts
  <2> QED BY <2>1, <1>1, <1>2, JobFacts DEF Upcoming
<1>3. CASE ~(pos <= Len(items)) BY <1>3 DEF Upcoming
<1> QED BY <1>2, <1>3

LEMMA NextItemIsUpcoming ==
  ASSUME SourceTypeOK, InStep
  PROVE  /\ NextItem \in {"Stop", Upcoming}
         /\ NextItem = "Event" => ~eventLimitReached
<1>1. CASE NextItem = "Stop" BY <1>1
<1>2. CASE NextItem # "Stop"
  <2>1. NextItem = Promoted(state, Upcoming) /\ ~eventLimitReached /\ Upcoming # "Stop"
    BY <1>2 DEF NextItem
  <2>2. pos \in 1 .. Len(items) /\ Upcoming = items[pos].type /\ Upcoming \in ReadTypes
    BY <2>1, UpcomingType
  <2>3. Len(items) \in Nat BY JobFacts DEF SourceTypeOK
  <2>4. Level(Upcoming) <= DeepestAfter(state) BY <2>2, <2>3 DEF InStep
  <2>5. Level(Upcoming) \in 1 .. 4 /\ Levels[Level(Upcoming)] = Upcoming
    BY <2>2, LevelOf DEF ReadTypes, Levels
  <2>6. DeepestAfter(state) \in 1 .. 4 BY DEF DeepestAfter
  <2>7. Promoted(state, Upcoming) = Upcoming
    <3>1. CASE Level(Upcoming) < DeepestAfter(state) BY <3>1 DEF Promoted
    <3>2. CASE ~(Level(Upcoming) < DeepestAfter(state))
      <4>1. Level(Upcoming) = DeepestAfter(state) BY <3>2, <2>4, <2>5, <2>6
      <4> QED BY <4>1, <3>2, <2>5 DEF Promoted
    <3> QED BY <3>1, <3>2
  <2> QED BY <2>1, <2>7
<1> QED BY <1>1, <1>2

\* Once an item is read the next one lies no deeper than the one read allows.
LEMMA ReadKeepsStep ==
  ASSUME SourceTypeOK, InStep, Upcoming = state, state # "Stop", pos' = pos + 1,
         job' = job, state' = state
  PROVE  InStep' /\ pos \in 1 .. Len(items)
<1>1. pos \in 1 .. Len(items) /\ items[pos].type = state /\ state \in ReadTypes
  BY UpcomingType DEF ReadTypes
<1>2. items' = items BY DEF items
<1>3. Len(items) \in Nat /\ ItemsInOrder(items)
      /\ \A i \in 1 .. Len(items) : items[i].type \in ReadTypes
  BY JobFacts DEF SourceTypeOK
<1>4. SUFFICES ASSUME pos + 1 <= Len(items)
               PROVE  Level(items[pos + 1].type) <= DeepestAfter(state)
  BY <1>1, <1>2 DEF InStep
<1>5. pos + 1 \in 2 .. Len(items) /\ (pos + 1) - 1 = pos BY <1>1, <1>3, <1>4
<1>6. /\ items[pos + 1].type = "Lumi" => state \in {"Run", "Lumi", "Event"}
      /\ items[pos + 1].type = "Event" => state \in {"Lumi", "Event"}
  BY <1>1, <1>3, <1>5 DEF ItemsInOrder
<1>7. items[pos + 1].type \in ReadTypes BY <1>3, <1>5
<1> QED BY <1>1, <1>6, <1>7, LevelOf DEF DeepestAfter, ReadTypes

LEMMA AskKeepsStep ==
  ASSUME SourceTypeOK, InStep, NextItemType
  PROVE  /\ InStep' /\ state' \in ItemTypes
         /\ state' \in {"Stop", Upcoming'} 
         /\ state' = "Event" => CanReadEvent'
         /\ state' # "Event" => state' \in {"Stop", "File", "Run", "Lumi"}
         /\ Upcoming' = Upcoming
<1>1. state' \in {"Stop", Upcoming} /\ (state' = "Event" => ~eventLimitReached)
  BY NextItemIsUpcoming DEF NextItemType
<1>2. job' = job /\ pos' = pos /\ remainingEvents' = remainingEvents /\ items' = items
  BY DEF NextItemType, items
<1>3. Upcoming' = Upcoming BY <1>2 DEF Upcoming
<1>4. Upcoming \in ReadTypes \cup {"Stop"} /\ (Upcoming # "Stop" => Upcoming = items[pos].type)
  BY UpcomingType
<1>5. InStep'
  <2>1. SUFFICES ASSUME pos <= Len(items)
                 PROVE  Level(items[pos].type) <= DeepestAfter(state')
    BY <1>2 DEF InStep
  <2>2. Upcoming = items[pos].type BY <2>1 DEF Upcoming
  <2>3. items[pos].type \in ReadTypes
    <3>1. pos \in 1 .. Len(items) /\ job \in Jobs BY <2>1, JobFacts DEF SourceTypeOK
    <3> QED BY <3>1, JobFacts
  <2> QED BY <1>1, <2>2, <2>3, LevelOf DEF DeepestAfter, ReadTypes
<1> QED BY <1>1, <1>2, <1>3, <1>4, <1>5 DEF CanReadEvent, ReadTypes, ItemTypes, eventLimitReached


\* Every step leaves the source alone, asks it, reads the item it announced, or
\* is the clock.
ReadsNext == ReadFile \/ ReadRun \/ ReadLumi \/ ReadEvent

LEMMA SourceMoves ==
  ASSUME IInv, Next
  PROVE  \/ UNCHANGED sourceVars
         \/ NextItemType
         \/ ReadsNext /\ Upcoming = state /\ state # "Stop"
         \/ Rampdown
<1>0. Announced BY DEF IInv
<1>1. CASE MainSourceThrows BY <1>1 DEF MainSourceThrows
<1>2. CASE AskSource BY <1>2 DEF AskSource
<1>3. CASE Transition
  <2>1. itemType \in {"File", "Run", "Lumi"} => Upcoming = state /\ state # "Stop"
    BY <1>0, <1>3 DEF Announced, Transition
  <2> QED BY <1>3, <2>1 DEF Transition, ReadsNext
<1>4. CASE StartStreams
  BY <1>0, <1>4 DEF StartStreams, StartTasks, Announced, CanReadEvent, ReadsNext
<1>5. CASE JoinStreams BY <1>5 DEF JoinStreams
<1>6. ASSUME NEW s \in Streams, StreamStep(s)
      PROVE  \/ UNCHANGED sourceVars
             \/ NextItemType
             \/ ReadsNext /\ Upcoming = state /\ state # "Stop"
  <2>1. CASE Enter(s) BY <2>1 DEF Enter, EnterAs, sourceVars
  <2>2. CASE Read(s) BY <1>0, <2>2 DEF Read, Announced, CanReadEvent, ReadsNext
  <2>3. CASE Loop(s) BY <2>3 DEF Loop
  <2>4. CASE Recheck(s) BY <2>4 DEF Recheck
  <2>5. CASE Process(s) BY <2>5 DEF Process
  <2>6. CASE Count(s) BY <2>6 DEF Count
  <2>7. CASE Catch(s) BY <2>7 DEF Catch
  <2>8. CASE Store(s) BY <2>8 DEF Store
  <2> QED BY <1>6, <2>1, <2>2, <2>3, <2>4, <2>5, <2>6, <2>7, <2>8 DEF StreamStep
<1>7. CASE \E s \in Streams : StreamSourceThrows(s) \/ ProcessThrows(s)
  BY <1>7 DEF StreamSourceThrows, SourceThrowsIn, ProcessThrows
<1>8. CASE Signal BY <1>8 DEF Signal
<1>9. CASE TimeIsUp BY <1>9 DEF TimeIsUp
<1> QED BY <1>1, <1>2, <1>3, <1>4, <1>5, <1>6, <1>7, <1>8, <1>9 DEF Next, MainStep

LEMMA LessIsLimit == \A n \in Limits : Less(n) \in Limits
BY DEF Limits, Less

LEMMA SourceStep ==
  ASSUME IInv, Next
  PROVE  SourceTypeOK' /\ InStep' /\ items' = items
<1>0. SourceTypeOK /\ InStep BY DEF IInv, TypeOK
<1>1. CASE UNCHANGED sourceVars
  BY <1>0, <1>1 DEF sourceVars, SourceTypeOK, InStep, items
<1>2. CASE NextItemType
  BY <1>0, <1>2, AskKeepsStep DEF NextItemType, SourceTypeOK, items
<1>3. CASE ReadsNext /\ Upcoming = state /\ state # "Stop"
  <2>1. job' = job /\ pos' = pos + 1 /\ state' = state /\ elapsed' = elapsed
    BY <1>3 DEF ReadsNext, ReadFile, ReadRun, ReadLumi, ReadEvent
  <2>2. remainingEvents' \in {remainingEvents, Less(remainingEvents)}
        /\ remainingLumis' \in {remainingLumis, Less(remainingLumis)}
    BY <1>3 DEF ReadsNext, ReadFile, ReadRun, ReadLumi, ReadEvent
  <2>3. {remainingEvents', remainingLumis'} \subseteq Limits
    BY <1>0, <2>2, LessIsLimit DEF SourceTypeOK
  <2>4. InStep' /\ pos \in 1 .. Len(items) BY <1>0, <1>3, <2>1, ReadKeepsStep
  <2>5. items' = items /\ Len(items) \in Nat BY <1>0, <2>1, JobFacts DEF items, SourceTypeOK
  <2>6. pos' \in 1 .. Len(items') + 1 BY <2>1, <2>4, <2>5
  <2> QED BY <1>0, <2>1, <2>3, <2>4, <2>5, <2>6 DEF SourceTypeOK
<1>4. CASE Rampdown
  BY <1>0, <1>4 DEF Rampdown, SourceTypeOK, InStep, items
<1> QED BY <1>1, <1>2, <1>3, <1>4, SourceMoves

-----------------------------------------------------------------------------
(* The loop and the streams: one lemma for each part of the invariant *)

\* The types but for those of the source.
LoopTypeOK ==
  /\ main \in {"next", "event", "transition", "wait", "ended"}
  /\ {itemType, nextItem} \subseteq ItemTypes
  /\ {openRun, openLumi, pointer, failures} \subseteq Nat
  /\ {asyncStop, shutdown, finished, isSet} \subseteq BOOLEAN
  /\ source \in Streams \cup {NoStream}
  /\ stream \in [Streams -> {"idle", "loop", "lock", "read", "recheck", "process", "count",
                             "caught", "store", "done"}]
  /\ caught \in [Streams -> 0 .. MaxFailures]
  /\ outLeft \in Int

LEMMA LoopTypeStep ==
  ASSUME IInv, Next
  PROVE  LoopTypeOK'
<1>0. LoopTypeOK BY DEF IInv, TypeOK, LoopTypeOK
<1>a. SourceTypeOK' BY SourceStep
<1>b. MaxFailures \in Nat /\ shutdown \in BOOLEAN BY BoundsAreCounts, <1>0 DEF LoopTypeOK
<1>c. state' \in ItemTypes BY <1>a DEF SourceTypeOK
<1>1. CASE MainSourceThrows
  BY <1>0, <1>b, <1>c, <1>1 DEF MainSourceThrows, Ended, sourceVars, loopVars, streamVars, outputVars, LoopTypeOK
<1>2. CASE AskSource
  BY <1>0, <1>b, <1>c, <1>2 DEF AskSource, Ended, NextItemType, sourceVars, loopVars, streamVars, outputVars, LoopTypeOK
<1>3. CASE Transition
  <2>1. (items[pos].run \in Nat /\ items[pos].lumi \in Nat) \/ itemType = "Stop" \/ itemType = "File"
    <3>1. SUFFICES ASSUME itemType \in {"Run", "Lumi"}
                   PROVE  items[pos].run \in Nat /\ items[pos].lumi \in Nat
      BY <1>3 DEF Transition
    <3>2. SourceTypeOK /\ job \in Jobs /\ Upcoming # "Stop"
      BY <1>3, <3>1 DEF IInv, TypeOK, Announced, SourceTypeOK, Transition
    <3> QED BY <3>2, UpcomingType, JobFacts
  <2>2. {openRun', openLumi'} \subseteq Nat BY <1>0, <2>1, <1>3 DEF Transition, LoopTypeOK
  <2>3. main' \in {"next", "ended"} BY <1>3 DEF Transition, Ended
  <2>4. UNCHANGED <<itemType, nextItem, asyncStop, finished, streamVars, outputVars, shutdown, failures>>
    BY <1>3 DEF Transition
  <2> QED BY <1>0, <2>2, <2>3, <2>4 DEF LoopTypeOK, streamVars, outputVars
<1>4. CASE StartStreams
  <2>1. stream' = [s \in Streams |-> IF s \in {0} THEN "process" ELSE "loop"]
    BY <1>4 DEF StartStreams, StartTasks
  <2>2. nextItem' = "Event" /\ asyncStop' = FALSE /\ finished' = FALSE /\ main' = "wait"
        /\ UNCHANGED <<itemType, openRun, openLumi, source, caught, isSet, pointer,
                        outputVars, shutdown, failures>>
    BY <1>4 DEF StartStreams, StartTasks
  <2> QED BY <1>0, <2>1, <2>2 DEF LoopTypeOK, outputVars, ItemTypes
<1>5. CASE JoinStreams
  BY <1>0, <1>b, <1>c, <1>5 DEF JoinStreams, Ended, sourceVars, loopVars, streamVars, outputVars, LoopTypeOK
<1>6. ASSUME NEW s \in Streams,
             StreamStep(s) \/ StreamSourceThrows(s) \/ ProcessThrows(s)
      PROVE  LoopTypeOK'
  <2>1. CASE Loop(s)
    BY <1>0, <1>b, <1>c, <2>1 DEF Loop, sourceVars, loopVars, streamVars, outputVars, LoopTypeOK
  <2>2. CASE Enter(s)
    BY <1>0, <1>b, <1>c, <2>2 DEF Enter, EnterAs, NextItemType, sourceVars, loopVars, streamVars, outputVars, LoopTypeOK
  <2>3. CASE Read(s)
    BY <1>0, <1>b, <1>c, <2>3 DEF Read, ReadEvent, sourceVars, loopVars, streamVars, outputVars, LoopTypeOK
  <2>4. CASE Recheck(s)
    BY <1>0, <1>b, <1>c, <2>4 DEF Recheck, sourceVars, loopVars, streamVars, outputVars, LoopTypeOK
  <2>5. CASE Process(s)
    BY <1>0, <1>b, <1>c, <2>5 DEF Process, sourceVars, loopVars, streamVars, outputVars, LoopTypeOK
  <2>6. CASE Count(s)
    BY <1>0, <1>b, <1>c, <2>6 DEF Count, sourceVars, loopVars, streamVars, outputVars, LoopTypeOK
  <2>7. CASE Catch(s)
    BY <1>0, <1>b, <1>c, <2>7 DEF Catch, sourceVars, loopVars, streamVars, outputVars, LoopTypeOK
  <2>8. CASE Store(s)
    BY <1>0, <1>b, <1>c, <2>8 DEF Store, sourceVars, loopVars, streamVars, outputVars, LoopTypeOK
  <2>9. CASE StreamSourceThrows(s)
    BY <1>0, <1>b, <1>c, <2>9 DEF StreamSourceThrows, SourceThrowsIn, sourceVars, loopVars, streamVars, outputVars, LoopTypeOK
  <2>10. CASE ProcessThrows(s)
    BY <1>0, <1>b, <1>c, <2>10 DEF ProcessThrows, sourceVars, loopVars, streamVars, outputVars, LoopTypeOK
  <2> QED
    BY <1>6, <2>1, <2>2, <2>3, <2>4, <2>5, <2>6, <2>7, <2>8, <2>9, <2>10 DEF StreamStep
<1>7. CASE Signal
  BY <1>0, <1>b, <1>c, <1>7 DEF Signal, sourceVars, loopVars, streamVars, outputVars, LoopTypeOK
<1>8. CASE TimeIsUp
  BY <1>0, <1>b, <1>c, <1>8 DEF TimeIsUp, Rampdown, sourceVars, loopVars, streamVars, outputVars, LoopTypeOK
<1> QED
  BY <1>1, <1>2, <1>3, <1>4, <1>5, <1>6, <1>7, <1>8 DEF Next, MainStep

\* main, itemType and nextItem announce what the source gives next.
LEMMA AnnouncedStep ==
  ASSUME IInv, Next
  PROVE  Announced'
<1>0. LoopTypeOK /\ Announced /\ StreamsWait /\ SourceTypeOK /\ InStep
  BY DEF IInv, TypeOK, LoopTypeOK
<1>a. NoStream \notin Streams /\ 0 \in Streams BY StreamsFromZero DEF NoStream
<1>b. ASSUME UNCHANGED sourceVars
      PROVE  UNCHANGED <<state, Upcoming, CanReadEvent>>
  BY <1>b DEF sourceVars, Upcoming, CanReadEvent, eventLimitReached, items
<1>c. ASSUME Rampdown
      PROVE  UNCHANGED <<state, Upcoming, CanReadEvent>>
  BY <1>c DEF Rampdown, Upcoming, CanReadEvent, eventLimitReached, items
<1>d. ASSUME NextItemType
      PROVE  /\ state' = "Event" => CanReadEvent'
             /\ state' # "Event" => state' \in {"Stop", "File", "Run", "Lumi"}
             /\ state' # "Stop" => state' = Upcoming'
  BY <1>0, <1>d, AskKeepsStep
<1>1. CASE MainSourceThrows
  <2>1. main' = "ended" /\ main \in {"next", "event"} /\ UNCHANGED streamVars
    BY <1>1 DEF MainSourceThrows, Ended
  <2>2. \A s \in Streams : stream'[s] # "read"
    BY <1>0, <2>1 DEF StreamsWait, streamVars
  <2> QED BY <2>1, <2>2 DEF Announced
<1>2. CASE AskSource
  <2>1. NextItemType /\ main = "next" /\ itemType' = state' /\ UNCHANGED streamVars
    BY <1>2 DEF AskSource
  <2>2. \A s \in Streams : stream[s] # "read" /\ stream'[s] # "read"
    BY <1>0, <2>1 DEF StreamsWait, streamVars
  <2>3. main' \in {"ended", IF state' = "Event" THEN "event" ELSE "transition"}
    BY <1>2 DEF AskSource, Ended
  <2> QED BY <1>d, <2>1, <2>2, <2>3 DEF Announced
<1>3. CASE Transition
  <2>1. main' \in {"next", "ended"} /\ main = "transition" /\ UNCHANGED streamVars
    BY <1>3 DEF Transition, Ended
  <2>2. \A s \in Streams : stream[s] # "read" /\ stream'[s] # "read"
    BY <1>0, <2>1 DEF StreamsWait, streamVars
  <2> QED BY <2>1, <2>2 DEF Announced
<1>4. CASE StartStreams
  <2>1. main' = "wait" /\ nextItem' = "Event" /\ finished' = FALSE
    BY <1>4 DEF StartStreams, StartTasks
  <2>2. \A s \in Streams : stream'[s] # "read" BY <1>4 DEF StartStreams, StartTasks
  <2> QED BY <2>1, <2>2 DEF Announced
<1>5. CASE JoinStreams
  <2>1. main = "wait" /\ UNCHANGED <<sourceVars, streamVars, nextItem, finished>>
        /\ \A s \in Streams : stream[s] = "done"
    BY <1>5 DEF JoinStreams
  <2>2. \A s \in Streams : stream'[s] # "read" BY <2>1 DEF streamVars
  <2>3. CASE main' = "ended" BY <2>2, <2>3 DEF Announced
  <2>4. CASE main' # "ended"
    <3>1. itemType' = nextItem /\ main' = IF nextItem = "Event" THEN "next" ELSE "transition"
      BY <1>5, <2>4 DEF JoinStreams, Ended
    <3> QED BY <1>0, <1>b, <2>1, <2>2, <3>1 DEF Announced
  <2> QED BY <2>3, <2>4
<1>6. ASSUME NEW s \in Streams,
             StreamStep(s) \/ StreamSourceThrows(s) \/ ProcessThrows(s)
      PROVE  Announced'
  <2>1. CASE Loop(s)
    <3>1. UNCHANGED <<sourceVars, loopVars>>
          /\ \A t \in Streams : stream'[t] = "read" => stream[t] = "read" /\ source' = source
      BY <1>0, <1>a, <2>1 DEF Loop, LoopTypeOK, Announced
    <3> QED BY <1>0, <1>b, <3>1 DEF Announced, loopVars
  <2>2. CASE Enter(s)
    <3>1. CASE finished
      <4>1. UNCHANGED sourceVars /\ UNCHANGED <<main, itemType, nextItem, finished, source>>
        BY <2>2, <3>1 DEF Enter, EnterAs, sourceVars
      <4>2. \A t \in Streams : stream'[t] = "read" => stream[t] = "read"
        BY <1>0, <2>2, <3>1 DEF Enter, EnterAs, LoopTypeOK
      <4> QED BY <1>0, <1>b, <4>1, <4>2 DEF Announced
    <3>2. CASE ~finished
      <4>1. NextItemType /\ source = NoStream /\ UNCHANGED <<main, itemType>> /\ main = "wait"
        BY <1>0, <2>2, <3>2 DEF Enter, EnterAs, StreamsWait, LoopTypeOK
      <4>2. \A t \in Streams : stream[t] # "read"
        BY <1>0, <1>a, <4>1 DEF Announced
      <4>3. CASE state' # "Event"
        <5>1. nextItem' = state' /\ finished' = TRUE /\ \A t \in Streams : stream'[t] # "read"
          BY <1>0, <2>2, <3>2, <4>2, <4>3 DEF Enter, EnterAs, LoopTypeOK
        <5> QED BY <1>d, <4>1, <4>3, <5>1 DEF Announced
      <4>4. CASE state' = "Event"
        <5>1. UNCHANGED <<nextItem, finished>>
              /\ \A t \in Streams : stream'[t] = "read" => t = s /\ source' = s
          BY <1>0, <2>2, <3>2, <4>2, <4>4 DEF Enter, EnterAs, LoopTypeOK
        <5> QED BY <1>0, <1>d, <3>2, <4>1, <4>4, <5>1 DEF Announced
      <4> QED BY <4>3, <4>4
    <3> QED BY <3>1, <3>2
  <2>3. CASE Read(s)
    <3>1. source = s /\ main = "wait" /\ UNCHANGED loopVars /\ ~finished
      BY <1>0, <2>3 DEF Read, Announced, StreamsWait
    <3>2. \A t \in Streams : stream'[t] # "read"
      BY <1>0, <1>a, <3>1, <2>3 DEF Read, Announced, LoopTypeOK
    <3> QED BY <1>0, <3>1, <3>2 DEF Announced, loopVars
  <2>4. CASE Recheck(s)
    <3>1. UNCHANGED <<sourceVars, loopVars>>
          /\ \A t \in Streams : stream'[t] = "read" => stream[t] = "read" /\ source' = source
      BY <1>0, <1>a, <2>4 DEF Recheck, LoopTypeOK, Announced
    <3> QED BY <1>0, <1>b, <3>1 DEF Announced, loopVars
  <2>5. CASE Process(s)
    <3>1. UNCHANGED <<sourceVars, loopVars>>
          /\ \A t \in Streams : stream'[t] = "read" => stream[t] = "read" /\ source' = source
      BY <1>0, <1>a, <2>5 DEF Process, LoopTypeOK, Announced
    <3> QED BY <1>0, <1>b, <3>1 DEF Announced, loopVars
  <2>6. CASE Count(s)
    <3>1. UNCHANGED <<sourceVars, loopVars>>
          /\ \A t \in Streams : stream'[t] = "read" => stream[t] = "read" /\ source' = source
      BY <1>0, <1>a, <2>6 DEF Count, LoopTypeOK, Announced
    <3> QED BY <1>0, <1>b, <3>1 DEF Announced, loopVars
  <2>7. CASE Catch(s)
    <3>1. UNCHANGED <<sourceVars, loopVars>>
          /\ \A t \in Streams : stream'[t] = "read" => stream[t] = "read" /\ source' = source
      BY <1>0, <1>a, <2>7 DEF Catch, LoopTypeOK, Announced
    <3> QED BY <1>0, <1>b, <3>1 DEF Announced, loopVars
  <2>8. CASE Store(s)
    <3>1. UNCHANGED <<sourceVars, loopVars>>
          /\ \A t \in Streams : stream'[t] = "read" => stream[t] = "read" /\ source' = source
      BY <1>0, <1>a, <2>8 DEF Store, LoopTypeOK, Announced
    <3> QED BY <1>0, <1>b, <3>1 DEF Announced, loopVars
  <2>9. CASE StreamSourceThrows(s)
    <3>1. UNCHANGED <<sourceVars, loopVars>>
          /\ \A t \in Streams : stream'[t] = "read" => stream[t] = "read" /\ source' = source
      BY <1>0, <1>a, <2>9 DEF StreamSourceThrows, SourceThrowsIn, LoopTypeOK, Announced
    <3> QED BY <1>0, <1>b, <3>1 DEF Announced, loopVars
  <2>10. CASE ProcessThrows(s)
    <3>1. UNCHANGED <<sourceVars, loopVars>>
          /\ \A t \in Streams : stream'[t] = "read" => stream[t] = "read" /\ source' = source
      BY <1>0, <1>a, <2>10 DEF ProcessThrows, LoopTypeOK, Announced
    <3> QED BY <1>0, <1>b, <3>1 DEF Announced, loopVars
  <2> QED
    BY <1>6, <2>1, <2>2, <2>3, <2>4, <2>5, <2>6, <2>7, <2>8, <2>9, <2>10 DEF StreamStep
<1>7. CASE Signal
  BY <1>0, <1>a, <1>b, <1>c, <1>7 DEF Signal, sourceVars, loopVars, streamVars, outputVars, Announced
<1>8. CASE TimeIsUp
  BY <1>0, <1>a, <1>b, <1>c, <1>8 DEF TimeIsUp, Rampdown, sourceVars, loopVars, streamVars, outputVars, Announced
<1> QED
  BY <1>1, <1>2, <1>3, <1>4, <1>5, <1>6, <1>7, <1>8 DEF Next, MainStep

\* No stream is at work but under the main thread's wait.
LEMMA StreamsWaitStep ==
  ASSUME IInv, Next
  PROVE  StreamsWait'
<1>0. LoopTypeOK /\ StreamsWait /\ Announced BY DEF IInv, TypeOK, LoopTypeOK
<1>a. NoStream \notin Streams /\ 0 \in Streams BY StreamsFromZero DEF NoStream
<1>b. \A s \in Streams : stream[s] = "read" => source = s BY <1>0 DEF Announced
<1>1. CASE MainSourceThrows
  BY <1>0, <1>a, <1>b, <1>1 DEF MainSourceThrows, Ended, sourceVars, loopVars, streamVars, outputVars, StreamsWait, LoopTypeOK
<1>2. CASE AskSource
  <2>1. main = "next" /\ UNCHANGED streamVars BY <1>2 DEF AskSource
  <2> QED BY <1>0, <2>1 DEF StreamsWait, streamVars
<1>3. CASE Transition
  <2>1. main = "transition" /\ UNCHANGED streamVars BY <1>3 DEF Transition
  <2> QED BY <1>0, <2>1 DEF StreamsWait, streamVars
<1>4. CASE StartStreams
  <2>1. main = "event" /\ main' = "wait" /\ UNCHANGED source
    BY <1>4 DEF StartStreams, StartTasks
  <2>2. source = NoStream BY <1>0, <2>1 DEF StreamsWait, LoopTypeOK
  <2> QED BY <2>1, <2>2 DEF StreamsWait
<1>5. CASE JoinStreams
  <2>1. (\A s \in Streams : stream[s] = "done") /\ UNCHANGED streamVars BY <1>5 DEF JoinStreams
  <2> QED BY <1>0, <2>1 DEF StreamsWait, streamVars
<1>6. ASSUME NEW s \in Streams,
             StreamStep(s) \/ StreamSourceThrows(s) \/ ProcessThrows(s)
      PROVE  StreamsWait'
  <2>1. CASE Loop(s)
    BY <1>0, <1>a, <1>b, <2>1 DEF Loop, sourceVars, loopVars, streamVars, outputVars, StreamsWait, LoopTypeOK
  <2>2. CASE Enter(s)
    BY <1>0, <1>a, <1>b, <2>2 DEF Enter, EnterAs, NextItemType, sourceVars, loopVars, streamVars, outputVars, StreamsWait, LoopTypeOK
  <2>3. CASE Read(s)
    BY <1>0, <1>a, <1>b, <2>3 DEF Read, ReadEvent, sourceVars, loopVars, streamVars, outputVars, StreamsWait, LoopTypeOK
  <2>4. CASE Recheck(s)
    BY <1>0, <1>a, <1>b, <2>4 DEF Recheck, sourceVars, loopVars, streamVars, outputVars, StreamsWait, LoopTypeOK
  <2>5. CASE Process(s)
    BY <1>0, <1>a, <1>b, <2>5 DEF Process, sourceVars, loopVars, streamVars, outputVars, StreamsWait, LoopTypeOK
  <2>6. CASE Count(s)
    BY <1>0, <1>a, <1>b, <2>6 DEF Count, sourceVars, loopVars, streamVars, outputVars, StreamsWait, LoopTypeOK
  <2>7. CASE Catch(s)
    BY <1>0, <1>a, <1>b, <2>7 DEF Catch, sourceVars, loopVars, streamVars, outputVars, StreamsWait, LoopTypeOK
  <2>8. CASE Store(s)
    BY <1>0, <1>a, <1>b, <2>8 DEF Store, sourceVars, loopVars, streamVars, outputVars, StreamsWait, LoopTypeOK
  <2>9. CASE StreamSourceThrows(s)
    BY <1>0, <1>a, <1>b, <2>9 DEF StreamSourceThrows, SourceThrowsIn, sourceVars, loopVars, streamVars, outputVars, StreamsWait, LoopTypeOK
  <2>10. CASE ProcessThrows(s)
    BY <1>0, <1>a, <1>b, <2>10 DEF ProcessThrows, sourceVars, loopVars, streamVars, outputVars, StreamsWait, LoopTypeOK
  <2> QED
    BY <1>6, <2>1, <2>2, <2>3, <2>4, <2>5, <2>6, <2>7, <2>8, <2>9, <2>10 DEF StreamStep
<1>7. CASE Signal
  BY <1>0, <1>a, <1>b, <1>7 DEF Signal, sourceVars, loopVars, streamVars, outputVars, StreamsWait, LoopTypeOK
<1>8. CASE TimeIsUp
  BY <1>0, <1>a, <1>b, <1>8 DEF TimeIsUp, Rampdown, sourceVars, loopVars, streamVars, outputVars, StreamsWait, LoopTypeOK
<1> QED
  BY <1>1, <1>2, <1>3, <1>4, <1>5, <1>6, <1>7, <1>8 DEF Next, MainStep

\* The exceptions that the streams handle, the flag and the pointer.
LEMMA DeferredStep ==
  ASSUME IInv, Next
  PROVE  Deferred'
<1>0. LoopTypeOK /\ StreamsWait /\ Deferred BY DEF IInv, TypeOK, LoopTypeOK
<1>a. MaxFailures \in Nat /\ 0 \in Streams BY StreamsFromZero, BoundsAreCounts
<1>b. \A s \in Streams : caught[s] \in Nat /\ failures \in Nat BY <1>0, <1>a DEF LoopTypeOK
<1>1. CASE MainSourceThrows
  <2>1. main \in {"next", "event", "transition"} /\ UNCHANGED streamVars BY <1>1 DEF MainSourceThrows
  <2>2. \A s \in Streams : stream[s] \in {"idle", "done"} /\ caught[s] = 0
    BY <1>0, <2>1 DEF StreamsWait, Deferred
  <2> QED BY <1>0, <2>1, <2>2 DEF Deferred, streamVars
<1>2. CASE AskSource
  <2>1. main \in {"next", "event", "transition"} /\ UNCHANGED streamVars BY <1>2 DEF AskSource
  <2>2. \A s \in Streams : stream[s] \in {"idle", "done"} /\ caught[s] = 0
    BY <1>0, <2>1 DEF StreamsWait, Deferred
  <2> QED BY <1>0, <2>1, <2>2 DEF Deferred, streamVars
<1>3. CASE Transition
  <2>1. main \in {"next", "event", "transition"} /\ UNCHANGED streamVars BY <1>3 DEF Transition
  <2>2. \A s \in Streams : stream[s] \in {"idle", "done"} /\ caught[s] = 0
    BY <1>0, <2>1 DEF StreamsWait, Deferred
  <2> QED BY <1>0, <2>1, <2>2 DEF Deferred, streamVars
<1>4. CASE StartStreams
  <2>1. main = "event" /\ main' = "wait" /\ UNCHANGED <<caught, isSet, pointer>>
        /\ \A s \in Streams : stream'[s] \notin {"caught", "store"}
    BY <1>4 DEF StartStreams, StartTasks
  <2>2. \A s \in Streams : stream[s] \in {"idle", "done"} /\ caught[s] = 0
    BY <1>0, <2>1 DEF StreamsWait, Deferred
  <2> QED BY <1>0, <2>1, <2>2 DEF Deferred
<1>5. CASE JoinStreams
  <2>1. UNCHANGED streamVars /\ (isSet => main' = "ended")
    BY <1>5 DEF JoinStreams, Ended
  <2>2. \A s \in Streams : stream[s] = "done" BY <1>5 DEF JoinStreams
  <2> QED BY <1>0, <2>1, <2>2 DEF Deferred, streamVars
<1>6. ASSUME NEW s \in Streams,
             StreamStep(s) \/ StreamSourceThrows(s) \/ ProcessThrows(s)
      PROVE  Deferred'
  <2>1. CASE Loop(s)
    BY <1>0, <1>a, <1>b, <2>1 DEF Loop, sourceVars, loopVars, streamVars, outputVars, Deferred, LoopTypeOK, StreamsWait
  <2>2. CASE Enter(s)
    BY <1>0, <1>a, <1>b, <2>2 DEF Enter, EnterAs, NextItemType, sourceVars, loopVars, streamVars, outputVars, Deferred, LoopTypeOK, StreamsWait
  <2>3. CASE Read(s)
    BY <1>0, <1>a, <1>b, <2>3 DEF Read, ReadEvent, sourceVars, loopVars, streamVars, outputVars, Deferred, LoopTypeOK, StreamsWait
  <2>4. CASE Recheck(s)
    BY <1>0, <1>a, <1>b, <2>4 DEF Recheck, sourceVars, loopVars, streamVars, outputVars, Deferred, LoopTypeOK, StreamsWait
  <2>5. CASE Process(s)
    BY <1>0, <1>a, <1>b, <2>5 DEF Process, sourceVars, loopVars, streamVars, outputVars, Deferred, LoopTypeOK, StreamsWait
  <2>6. CASE Count(s)
    BY <1>0, <1>a, <1>b, <2>6 DEF Count, sourceVars, loopVars, streamVars, outputVars, Deferred, LoopTypeOK, StreamsWait
  <2>7. CASE Catch(s)
    BY <1>0, <1>a, <1>b, <2>7 DEF Catch, sourceVars, loopVars, streamVars, outputVars, Deferred, LoopTypeOK, StreamsWait
  <2>8. CASE Store(s)
    BY <1>0, <1>a, <1>b, <2>8 DEF Store, sourceVars, loopVars, streamVars, outputVars, Deferred, LoopTypeOK, StreamsWait
  <2>9. CASE StreamSourceThrows(s)
    BY <1>0, <1>a, <1>b, <2>9 DEF StreamSourceThrows, SourceThrowsIn, sourceVars, loopVars, streamVars, outputVars, Deferred, LoopTypeOK, StreamsWait
  <2>10. CASE ProcessThrows(s)
    BY <1>0, <1>a, <1>b, <2>10 DEF ProcessThrows, sourceVars, loopVars, streamVars, outputVars, Deferred, LoopTypeOK, StreamsWait
  <2> QED
    BY <1>6, <2>1, <2>2, <2>3, <2>4, <2>5, <2>6, <2>7, <2>8, <2>9, <2>10 DEF StreamStep
<1>7. CASE Signal
  BY <1>0, <1>a, <1>b, <1>7 DEF Signal, sourceVars, loopVars, streamVars, outputVars, Deferred, LoopTypeOK, StreamsWait
<1>8. CASE TimeIsUp
  BY <1>0, <1>a, <1>b, <1>8 DEF TimeIsUp, Rampdown, sourceVars, loopVars, streamVars, outputVars, Deferred, LoopTypeOK, StreamsWait
<1> QED
  BY <1>1, <1>2, <1>3, <1>4, <1>5, <1>6, <1>7, <1>8 DEF Next, MainStep

\* The positions of the events in hand and of those written.
HeldTypeOK ==
  /\ event \in [Streams -> 0 .. Len(items)]
  /\ written \subseteq 1 .. Len(items)

LEMMA EventsHeldStep ==
  ASSUME IInv, Next
  PROVE  EventsHeld' /\ HeldTypeOK'
<1>0. LoopTypeOK /\ HeldTypeOK /\ StreamsWait /\ EventsHeld /\ Announced /\ SourceTypeOK
  BY DEF IInv, TypeOK, LoopTypeOK, HeldTypeOK
<1>a. /\ Len(items) \in Nat /\ items' = items /\ pos \in 1 .. Len(items) + 1
      /\ pos' \in 1 .. Len(items) + 1 /\ 0 \in Streams
  BY <1>0, SourceStep, JobFacts, StreamsFromZero DEF SourceTypeOK
<1>b. pos' \in {pos, pos + 1}
  BY SourceMoves DEF sourceVars, NextItemType, Rampdown, ReadsNext, ReadFile, ReadRun, ReadLumi, ReadEvent
<1>c. written \subseteq 1 .. pos' - 1 /\ written \subseteq 1 .. Len(items')
      /\ \A s \in Streams : stream[s] \in Busy => event[s] \in 1 .. pos' - 1
  BY <1>0, <1>a, <1>b DEF EventsHeld, HeldTypeOK
<1>d. ASSUME UNCHANGED <<event, written>>,
             \A s \in Streams : stream'[s] \in Busy => stream[s] \in Busy,
             \A s \in Streams : stream'[s] \in {"recheck", "process"} => stream[s] \in {"recheck", "process"}
      PROVE  EventsHeld' /\ HeldTypeOK'
  BY <1>0, <1>a, <1>c, <1>d DEF EventsHeld, HeldTypeOK
<1>1. CASE MainSourceThrows
  BY <1>d, <1>1 DEF MainSourceThrows, streamVars, outputVars
<1>2. CASE AskSource
  BY <1>d, <1>2 DEF AskSource, streamVars, outputVars
<1>3. CASE Transition
  BY <1>d, <1>3 DEF Transition, streamVars, outputVars
<1>4. CASE StartStreams
  <2>1. /\ UNCHANGED written /\ pos' = pos + 1
        /\ event' = [s \in Streams |-> IF s \in {0} THEN pos ELSE event[s]]
        /\ stream' = [s \in Streams |-> IF s \in {0} THEN "process" ELSE "loop"]
    BY <1>4 DEF StartStreams, StartTasks, outputVars, ReadEvent
  <2>2. pos \in 1 .. Len(items) BY <1>a, <2>1
  <2>3. \A s \in Streams : stream'[s] \in Busy => s = 0 /\ event'[s] = pos
    BY <2>1 DEF Busy
  <2>4. pos \notin written /\ pos \in 1 .. pos' - 1 BY <1>0, <1>a, <2>1 DEF EventsHeld
  <2>5. EventsHeld' BY <1>c, <2>1, <2>3, <2>4 DEF EventsHeld, Busy
  <2>6. event' \in [Streams -> 0 .. Len(items')] BY <1>0, <1>a, <2>1, <2>2 DEF HeldTypeOK
  <2> QED BY <1>c, <2>1, <2>5, <2>6 DEF HeldTypeOK
<1>5. CASE JoinStreams
  BY <1>d, <1>5 DEF JoinStreams, streamVars, outputVars
<1>6. ASSUME NEW s \in Streams,
             StreamStep(s) \/ StreamSourceThrows(s) \/ ProcessThrows(s)
      PROVE  EventsHeld' /\ HeldTypeOK'
  <2>1. CASE Loop(s)
    BY <1>0, <1>d, <2>1 DEF Loop, LoopTypeOK, Busy, outputVars
  <2>2. CASE Enter(s)
    BY <1>0, <1>d, <2>2 DEF Enter, EnterAs, NextItemType, LoopTypeOK, Busy, outputVars
  <2>3. CASE Read(s)
    <3>1. /\ UNCHANGED written /\ pos' = pos + 1
          /\ event' = [event EXCEPT ![s] = pos]
          /\ stream' = [stream EXCEPT ![s] = "recheck"]
      BY <2>3 DEF Read, outputVars, ReadEvent
    <3>2. pos \in 1 .. Len(items) /\ pos \notin written /\ pos \in 1 .. pos' - 1
      BY <1>0, <1>a, <3>1 DEF EventsHeld
    <3>3. event'[s] = pos /\ \A t \in Streams \ {s} : event'[t] = event[t] /\ stream'[t] = stream[t]
      BY <1>0, <3>1 DEF HeldTypeOK, LoopTypeOK
    <3>4. \A t \in Streams : stream[t] \in Busy => event[t] # pos
      BY <1>0, <1>a DEF EventsHeld
    <3>5. event' \in [Streams -> 0 .. Len(items')] BY <1>0, <1>a, <3>1, <3>2 DEF HeldTypeOK
    <3>6. EventsHeld' BY <1>0, <1>c, <3>1, <3>2, <3>3, <3>4 DEF EventsHeld, Busy
    <3> QED BY <1>c, <3>1, <3>5, <3>6 DEF HeldTypeOK
  <2>4. CASE Recheck(s)
    BY <1>0, <1>d, <2>4 DEF Recheck, LoopTypeOK, Busy, outputVars
  <2>5. CASE Process(s)
    <3>1. /\ stream[s] = "process" /\ written' = written \cup {event[s]}
          /\ stream'[s] \in {"count", "loop"}
          /\ \A t \in Streams \ {s} : stream'[t] = stream[t] /\ event'[t] = event[t]
          /\ event'[s] = event[s] \/ stream'[s] = "loop"
          /\ event'[s] \in {event[s], 0} /\ event' \in [Streams -> 0 .. Len(items')]
      <4>1. event \in [Streams -> 0 .. Len(items')] /\ 0 \in 0 .. Len(items')
        BY <1>0, <1>a DEF HeldTypeOK
      <4>2. CASE outLeft > 0
        BY <1>0, <4>1, <4>2, <2>5 DEF Process, LoopTypeOK
      <4>3. CASE ~(outLeft > 0)
        BY <1>0, <4>1, <4>3, <2>5 DEF Process, LoopTypeOK
      <4> QED BY <4>2, <4>3
    <3>2. event[s] \in 1 .. pos - 1 /\ event[s] \in 1 .. pos' - 1 /\ event[s] \in 1 .. Len(items')
      BY <1>0, <1>a, <1>c, <3>1 DEF EventsHeld, Busy
    <3>3. \A t \in Streams \ {s} : stream[t] \in Busy => event[t] # event[s]
      BY <1>0, <3>1 DEF EventsHeld, Busy
    <3>4. EventsHeld' BY <1>0, <1>c, <3>1, <3>2, <3>3 DEF EventsHeld, Busy
    <3> QED BY <1>c, <3>1, <3>2, <3>4 DEF HeldTypeOK
  <2>6. CASE Count(s)
    <3>1. /\ UNCHANGED written /\ stream'[s] = "loop"
          /\ \A t \in Streams \ {s} : stream'[t] = stream[t] /\ event'[t] = event[t]
          /\ event' \in [Streams -> 0 .. Len(items')]
      BY <1>0, <1>a, <2>6 DEF Count, LoopTypeOK, HeldTypeOK
    <3>2. EventsHeld' BY <1>0, <1>c, <3>1 DEF EventsHeld, Busy
    <3> QED BY <1>c, <3>1, <3>2 DEF HeldTypeOK
  <2>7. CASE Catch(s)
    BY <1>0, <1>d, <2>7 DEF Catch, LoopTypeOK, Busy, outputVars
  <2>8. CASE Store(s)
    BY <1>0, <1>d, <2>8 DEF Store, LoopTypeOK, Busy, outputVars
  <2>9. CASE StreamSourceThrows(s)
    BY <1>0, <1>d, <2>9 DEF StreamSourceThrows, SourceThrowsIn, LoopTypeOK, Busy, outputVars
  <2>10. CASE ProcessThrows(s)
    BY <1>0, <1>d, <2>10 DEF ProcessThrows, LoopTypeOK, Busy, outputVars
  <2> QED
    BY <1>6, <2>1, <2>2, <2>3, <2>4, <2>5, <2>6, <2>7, <2>8, <2>9, <2>10 DEF StreamStep
<1>7. CASE Signal
  BY <1>d, <1>7 DEF Signal, sourceVars, loopVars, streamVars, outputVars, streamVars, outputVars
<1>8. CASE TimeIsUp
  BY <1>d, <1>8 DEF TimeIsUp, Rampdown, sourceVars, loopVars, streamVars, outputVars, streamVars, outputVars
<1> QED
  BY <1>1, <1>2, <1>3, <1>4, <1>5, <1>6, <1>7, <1>8 DEF Next, MainStep

\* Once the loop has ended no stream moves, and it ends with what was caught.
LEMMA ExceptionsReportedStep ==
  ASSUME IInv, Next
  PROVE  ExceptionsReported'
<1>0. StreamsWait /\ Deferred /\ ExceptionsReported BY DEF IInv
<1>1. CASE main # "ended" /\ main' = "ended"
  <2>1. CASE main = "wait"
    <3>1. JoinStreams
      <4>1. \A s \in Streams : StreamStep(s) \/ StreamSourceThrows(s) \/ ProcessThrows(s) => main' = main
        BY DEF StreamStep, Loop, Enter, EnterAs, Read, Recheck, Process, Count, Catch, Store,
               StreamSourceThrows, SourceThrowsIn, ProcessThrows, loopVars
      <4>2. ~AskSource /\ ~Transition /\ ~StartStreams /\ ~MainSourceThrows
        BY <2>1 DEF AskSource, Transition, StartStreams, StartTasks, MainSourceThrows
      <4>3. Signal \/ TimeIsUp => main' = main BY DEF Signal, TimeIsUp, loopVars
      <4> QED BY <1>1, <2>1, <4>1, <4>2, <4>3 DEF Next, MainStep
    <3>2. (\A s \in Streams : stream[s] = "done") /\ UNCHANGED streamVars
      BY <3>1 DEF JoinStreams
    <3>3. CASE isSet
      <4>1. outcome' = Thrown(pointer) BY <3>1, <3>3 DEF JoinStreams, Ended
      <4>2. \E s \in Streams : caught[s] # 0 /\ caught[s] = pointer
        BY <1>0, <3>2, <3>3 DEF Deferred
      <4> QED BY <3>2, <4>1, <4>2 DEF ExceptionsReported, Thrown, streamVars
    <3>4. CASE ~isSet
      <4>1. \A s \in Streams : caught[s] = 0 BY <1>0, <3>2, <3>4 DEF Deferred
      <4> QED BY <3>2, <4>1 DEF ExceptionsReported, streamVars
    <3> QED BY <3>3, <3>4
  <2>2. CASE main # "wait"
    <3>1. \A s \in Streams : caught[s] = 0 /\ stream[s] \in {"idle", "done"}
      BY <1>0, <1>1, <2>2 DEF Deferred, StreamsWait
    <3>2. caught' = caught
      <4>1. \A s \in Streams : ~(StreamStep(s) \/ StreamSourceThrows(s) \/ ProcessThrows(s))
        BY <3>1 DEF StreamStep, Loop, Enter, EnterAs, Read, Recheck, Process, Count, Catch, Store,
               StreamSourceThrows, SourceThrowsIn, ProcessThrows
      <4> QED BY <4>1 DEF Next, MainStep, AskSource, Transition, StartStreams, StartTasks,
               JoinStreams, MainSourceThrows, Signal, TimeIsUp, streamVars
    <3> QED BY <3>1, <3>2 DEF ExceptionsReported
  <2> QED BY <2>1, <2>2
<1>2. CASE main = "ended"
  <2>1. \A s \in Streams : stream[s] \in {"idle", "done"} BY <1>0, <1>2 DEF StreamsWait
  <2>2. \A s \in Streams : ~(StreamStep(s) \/ StreamSourceThrows(s) \/ ProcessThrows(s))
    BY <2>1 DEF StreamStep, Loop, Enter, EnterAs, Read, Recheck, Process, Count, Catch, Store,
           StreamSourceThrows, SourceThrowsIn, ProcessThrows
  <2>3. ~AskSource /\ ~Transition /\ ~StartStreams /\ ~MainSourceThrows /\ ~JoinStreams
    BY <1>2 DEF AskSource, Transition, StartStreams, StartTasks, MainSourceThrows, JoinStreams
  <2>4. UNCHANGED <<main, outcome, caught>>
    BY <2>2, <2>3 DEF Next, MainStep, Signal, TimeIsUp, loopVars, streamVars
  <2> QED BY <1>0, <2>4 DEF ExceptionsReported
<1>3. CASE main' # "ended" BY <1>3 DEF ExceptionsReported
<1> QED BY <1>1, <1>2, <1>3

-----------------------------------------------------------------------------

LEMMA Initially == Init => IInv
<1> SUFFICES ASSUME Init PROVE IInv OBVIOUS
<1>1. /\ job \in Jobs /\ pos = 1 /\ state = "Invalid" /\ elapsed = FALSE
      /\ remainingEvents = job.maxEvents /\ remainingLumis = job.maxLumis /\ outLeft = job.outMax
  BY DEF Init, InitSource
<1>2. Len(items) \in Nat /\ Len(items) > 0 /\ items[1].type = "File"
  BY <1>1, JobFacts DEF ItemsInOrder
<1>3. {job.maxEvents, job.maxLumis, job.outMax} \subseteq Limits BY <1>1, JobsAreInputs
<1>4. SourceTypeOK
  <2>1. pos \in 1 .. Len(items) + 1 BY <1>1, <1>2
  <2>2. {remainingEvents, remainingLumis} \subseteq Limits BY <1>1, <1>3
  <2> QED BY <1>1, <2>1, <2>2 DEF SourceTypeOK, ItemTypes
<1>5. InStep BY <1>1, <1>2, LevelOf DEF InStep, DeepestAfter
<1>6. MaxFailures \in Nat /\ outLeft \in Int /\ NoStream = -1
  BY <1>1, <1>3, BoundsAreCounts DEF Limits, NoStream
<1>7. TypeOK
  <2>1. event \in [Streams -> 0 .. Len(items)] /\ caught \in [Streams -> 0 .. MaxFailures]
    BY <1>2, <1>6 DEF Init
  <2>2. written \subseteq 1 .. Len(items) BY DEF Init
  <2>3. main = "next" /\ itemType = "Invalid" /\ nextItem = "Event" /\ source = NoStream
        /\ stream = [s \in Streams |-> "idle"] /\ openRun = 0 /\ openLumi = 0 /\ pointer = 0
        /\ failures = 0 /\ asyncStop = FALSE /\ shutdown = FALSE /\ finished = FALSE /\ isSet = FALSE
    BY DEF Init
  <2>4. stream \in [Streams -> {"idle", "loop", "lock", "read", "recheck", "process", "count",
                                "caught", "store", "done"}]
    BY <2>3
  <2>5. {openRun, openLumi, pointer, failures} \subseteq Nat BY <2>3
  <2>6. {itemType, nextItem} \subseteq ItemTypes BY <2>3 DEF ItemTypes
  <2>7. {asyncStop, shutdown, finished, isSet} \subseteq BOOLEAN BY <2>3
  <2>8. source \in Streams \cup {NoStream} BY <2>3
  <2>9. main \in {"next", "event", "transition", "wait", "ended"} BY <2>3
  <2> QED BY <1>4, <1>6, <2>1, <2>2, <2>4, <2>5, <2>6, <2>7, <2>8, <2>9 DEF TypeOK
<1>8. Announced /\ StreamsWait /\ Deferred BY DEF Init, Announced, StreamsWait, Deferred, NoStream
<1>9. EventsHeld /\ ExceptionsReported BY DEF Init, EventsHeld, ExceptionsReported, Busy
<1> QED BY <1>5, <1>7, <1>8, <1>9 DEF IInv

LEMMA Inductive == IInv /\ [Next]_vars => IInv'
<1>1. ASSUME IInv, Next PROVE IInv'
  <2>1. TypeOK'
    BY <1>1, SourceStep, LoopTypeStep, EventsHeldStep DEF TypeOK, LoopTypeOK, HeldTypeOK
  <2> QED BY <1>1, <2>1, SourceStep, AnnouncedStep, StreamsWaitStep, DeferredStep,
             EventsHeldStep, ExceptionsReportedStep DEF IInv
<1>2. ASSUME IInv, UNCHANGED vars PROVE IInv'
  <2>1. UNCHANGED <<sourceVars, loopVars, streamVars, outputVars, shutdown, failures>>
    BY <1>2 DEF vars
  <2>2. UNCHANGED <<items, Upcoming, CanReadEvent>>
    BY <2>1 DEF sourceVars, items, Upcoming, CanReadEvent, eventLimitReached
  <2>3. SourceTypeOK' /\ InStep'
    BY <1>2, <2>1, <2>2 DEF IInv, TypeOK, SourceTypeOK, InStep, sourceVars
  <2>4. TypeOK'
    BY <1>2, <2>1, <2>2, <2>3 DEF IInv, TypeOK, loopVars, streamVars, outputVars
  <2>5. Announced' /\ StreamsWait'
    BY <1>2, <2>1, <2>2 DEF IInv, Announced, StreamsWait, loopVars, streamVars, sourceVars
  <2>6. Deferred' /\ ExceptionsReported'
    BY <1>2, <2>1 DEF IInv, Deferred, ExceptionsReported, loopVars, streamVars
  <2>7. EventsHeld'
    BY <1>2, <2>1 DEF IInv, EventsHeld, streamVars, outputVars, sourceVars
  <2> QED BY <2>3, <2>4, <2>5, <2>6, <2>7 DEF IInv
<1> QED BY <1>1, <1>2

LEMMA Invariant == Spec => []IInv
BY Initially, Inductive, PTL DEF Spec

\* A read finds what it was promised, whatever the streams and the main thread
\* did since nextItemType announced it: readAndProcessEvent and
\* readNextEventForStream never reach the asserts of InputSource::readEvent.
THEOREM ReadsFindItems == Spec => []ReadFindsItem
<1>1. IInv => ReadFindsItem
  BY DEF IInv, Announced, ReadFindsItem
<1> QED BY <1>1, Invariant, PTL

\* No event is processed twice by the tasks of processEventsForStreamAsync.
THEOREM ProcessedOnce == Spec => []EventsProcessedOnce
<1>1. IInv => EventsProcessedOnce
  BY DEF IInv, EventsHeld, EventsProcessedOnce, Busy
<1> QED BY <1>1, Invariant, PTL

\* runToCompletion throws what a stream caught, and not a null pointer.
THEOREM Reported == Spec => []ExceptionsReported
<1>1. IInv => ExceptionsReported BY DEF IInv
<1> QED BY <1>1, Invariant, PTL

\* A change of run or of luminosity block is a barrier for the streams.
THEOREM Barriers == Spec => TransitionsAreBarriers
<1>1. IInv /\ [Next]_vars =>
        [<<openRun, openLumi>>' # <<openRun, openLumi>> =>
           \A s \in Streams : stream[s] \in {"idle", "done"}]_vars
  <2>1. SUFFICES ASSUME IInv, Next, <<openRun, openLumi>>' # <<openRun, openLumi>>
                 PROVE  \A s \in Streams : stream[s] \in {"idle", "done"}
    OBVIOUS
  <2>2. CASE main # "wait" BY <2>1, <2>2 DEF IInv, StreamsWait
  <2>3. CASE main = "wait"
    <3>1. \A s \in Streams :
            StreamStep(s) \/ StreamSourceThrows(s) \/ ProcessThrows(s) => UNCHANGED <<openRun, openLumi>>
      BY DEF StreamStep, Loop, Enter, EnterAs, Read, Recheck, Process, Count, Catch, Store,
             StreamSourceThrows, SourceThrowsIn, ProcessThrows, loopVars
    <3>2. ~AskSource /\ ~Transition /\ ~StartStreams /\ ~MainSourceThrows
      BY <2>3 DEF AskSource, Transition, StartStreams, StartTasks, MainSourceThrows
    <3>3. Signal \/ TimeIsUp => UNCHANGED <<openRun, openLumi>> BY DEF Signal, TimeIsUp, loopVars
    <3>4. JoinStreams BY <2>1, <3>1, <3>2, <3>3 DEF Next, MainStep
    <3> QED BY <3>4 DEF JoinStreams
  <2> QED BY <2>2, <2>3
<1> QED BY <1>1, Invariant, PTL DEF Spec, TransitionsAreBarriers

-----------------------------------------------------------------------------
(* What is written at the end: a second invariant, on top of the first *)

\* The limits count the entries read.
Counted ==
  /\ job.maxEvents >= 0 =>
       /\ remainingEvents \in Nat
       /\ Cardinality(EntriesUpTo("Event", pos - 1)) = job.maxEvents - remainingEvents
  /\ job.maxLumis >= 0 =>
       /\ remainingLumis \in Nat
       /\ Cardinality(EntriesUpTo("Lumi", pos - 1)) = job.maxLumis - remainingLumis
  /\ job.maxEvents = -1 => remainingEvents = -1
  /\ job.maxLumis = -1 => remainingLumis = -1

\* Why the source says Stop, and that it announces no block beyond the limit;
\* nothing is decided before the loop ends.
NothingLeft ==
  \/ pos > Len(items)
  \/ remainingEvents = 0
  \/ (remainingLumis = 0 \/ elapsed) /\ items[pos].type # "Event"
Announces(type) ==
  \/ main = "transition" /\ itemType = type
  \/ main = "wait" /\ finished /\ nextItem = type
StopsForAReason ==
  /\ main # "ended" => outcome = Running
  /\ Announces("Stop") => NothingLeft
  /\ Announces("Lumi") => remainingLumis # 0

\* An event that was read is in the output or in the hands of a stream, and a
\* stream that is done with one still in hand met an exception.
EventsKept ==
  /\ \A i \in written : items[i].type = "Event"
  /\ \A s \in Streams : event[s] # 0 => items[event[s]].type = "Event"
  /\ \A i \in EntriesUpTo("Event", pos - 1) : i \in written \/ \E s \in Streams : event[s] = i
  /\ \A s \in Streams : stream[s] \in {"idle", "loop", "lock", "read"} => event[s] = 0
  /\ \A s \in Streams : stream[s] = "done" /\ event[s] # 0 => isSet
  /\ \A s \in Streams : stream[s] = "count" => event[s] \in written

\* The output module counts what it wrote but for the events in its hands.
InCount == {event[s] : s \in {t \in Streams : stream[t] = "count"}}
OutputCounted ==
  /\ job.outMax >= 0 => Cardinality(written \ InCount) >= job.outMax - outLeft
  /\ job.outMax = -1 => outLeft = -1 /\ \A s \in Streams : stream[s] # "count"

LInv == Counted /\ StopsForAReason /\ EventsKept /\ OutputCounted /\ NothingLost

\* How many entries of a type there are up to a position.
LEMMA CountEntries ==
  ASSUME NEW type, NEW i \in Int
  PROVE  /\ IsFiniteSet(EntriesUpTo(type, i)) /\ Cardinality(EntriesUpTo(type, i)) \in Nat
         /\ \A k \in Int : k <= i =>
              /\ EntriesUpTo(type, k) \subseteq EntriesUpTo(type, i)
              /\ Cardinality(EntriesUpTo(type, k)) <= Cardinality(EntriesUpTo(type, i))
              /\ IsFiniteSet(EntriesUpTo(type, k))
              /\ \A j \in EntriesUpTo(type, i) : j > k =>
                   Cardinality(EntriesUpTo(type, k)) < Cardinality(EntriesUpTo(type, i))
<1>1. IsFiniteSet(1 .. i) BY FS_Interval
<1>2. EntriesUpTo(type, i) \in SUBSET (1 .. i) BY DEF EntriesUpTo
<1>3. IsFiniteSet(EntriesUpTo(type, i)) BY <1>1, <1>2, FS_Subset
<1>4. Cardinality(EntriesUpTo(type, i)) \in Nat BY <1>3, FS_CardinalityType
<1>5. ASSUME NEW k \in Int, k <= i
      PROVE  /\ EntriesUpTo(type, k) \subseteq EntriesUpTo(type, i)
             /\ Cardinality(EntriesUpTo(type, k)) <= Cardinality(EntriesUpTo(type, i))
             /\ IsFiniteSet(EntriesUpTo(type, k))
             /\ \A j \in EntriesUpTo(type, i) : j > k =>
                  Cardinality(EntriesUpTo(type, k)) < Cardinality(EntriesUpTo(type, i))
  <2>1. EntriesUpTo(type, k) \in SUBSET EntriesUpTo(type, i) BY <1>5 DEF EntriesUpTo
  <2>2. /\ IsFiniteSet(EntriesUpTo(type, k))
        /\ Cardinality(EntriesUpTo(type, k)) <= Cardinality(EntriesUpTo(type, i))
        /\ Cardinality(EntriesUpTo(type, i)) = Cardinality(EntriesUpTo(type, k)) =>
             EntriesUpTo(type, i) = EntriesUpTo(type, k)
    BY <2>1, <1>3, FS_Subset
  <2>3. Cardinality(EntriesUpTo(type, k)) \in Nat BY <2>2, FS_CardinalityType
  <2>4. \A j \in EntriesUpTo(type, k) : ~(j > k) BY DEF EntriesUpTo
  <2> QED BY <1>4, <2>1, <2>2, <2>3, <2>4
<1> QED BY <1>3, <1>4, <1>5

LEMMA NextEntry ==
  ASSUME NEW type, NEW i \in Nat, i >= 1
  PROVE  /\ items[i].type # type => EntriesUpTo(type, i) = EntriesUpTo(type, i - 1)
         /\ items[i].type = type =>
              /\ EntriesUpTo(type, i) = EntriesUpTo(type, i - 1) \cup {i}
              /\ Cardinality(EntriesUpTo(type, i)) = Cardinality(EntriesUpTo(type, i - 1)) + 1
<1>1. items[i].type # type => EntriesUpTo(type, i) = EntriesUpTo(type, i - 1)
  BY DEF EntriesUpTo
<1>2. items[i].type = type => EntriesUpTo(type, i) = EntriesUpTo(type, i - 1) \cup {i}
  BY DEF EntriesUpTo
<1>3. i \notin EntriesUpTo(type, i - 1) BY DEF EntriesUpTo
<1>4. IsFiniteSet(EntriesUpTo(type, i - 1)) BY CountEntries
<1>5. Cardinality(EntriesUpTo(type, i - 1) \cup {i}) = Cardinality(EntriesUpTo(type, i - 1)) + 1
  BY <1>3, <1>4, FS_AddElement
<1> QED BY <1>1, <1>2, <1>5

\* Of any numbers there is a smallest one.
LEMMA SmallestOf ==
  ASSUME NEW S \in SUBSET Nat, S # {}
  PROVE  \E x \in S : \A y \in S : ~(y < x)
<1>1. IsWellFoundedOn(OpToRel(<, Nat), Nat)
  BY NatLessThanWellFounded, Zenon
<1>2. PICK x \in S : \A y \in S : ~(<<y, x>> \in OpToRel(<, Nat))
  BY <1>1, WFMin, Zenon
<1> QED BY <1>2 DEF OpToRel

\* Between an entry that is no event and a later event there is an entry of a
\* luminosity block.
LEMMA EventsFollowABlock ==
  ASSUME job \in Jobs, NEW p \in 1 .. Len(items), NEW i \in 1 .. Len(items), p <= i,
         items[p].type # "Event", items[i].type = "Event"
  PROVE  \E l \in p .. i : items[l].type = "Lumi"
<1> DEFINE Later == {j \in p .. i : items[j].type = "Event"}
<1>1. Len(items) \in Nat /\ ItemsInOrder(items) BY JobFacts
<1>2. Later \in SUBSET Nat /\ i \in Later BY <1>1
<1>3. PICK x \in Later : \A y \in Later : ~(y < x) BY <1>2, SmallestOf
<1>4. x \in p .. i /\ items[x].type = "Event" /\ x # p BY <1>3
<1>5. x \in 2 .. Len(items) /\ x - 1 \in p .. i BY <1>1, <1>4
<1>6. items[x - 1].type \in {"Lumi", "Event"} BY <1>1, <1>4, <1>5 DEF ItemsInOrder
<1>7. x - 1 \notin Later BY <1>3, <1>5
<1>8. items[x - 1].type # "Event" BY <1>5, <1>7
<1> QED BY <1>5, <1>6, <1>8

\* What the source answers, and why.
LEMMA AnswerHasAReason ==
  ASSUME SourceTypeOK, InStep
  PROVE  /\ NextItem = "Stop" => NothingLeft
         /\ NextItem = "Lumi" => remainingLumis # 0
<1>1. pos \in Nat /\ Len(items) \in Nat BY JobFacts DEF SourceTypeOK
<1>2. ASSUME NextItem = "Stop", pos <= Len(items), remainingEvents # 0
      PROVE  (remainingLumis = 0 \/ elapsed) /\ items[pos].type # "Event"
  <2>1. Upcoming = items[pos].type BY <1>2 DEF Upcoming
  <2>2. items[pos].type \in ReadTypes BY <1>1, <1>2, JobFacts DEF SourceTypeOK
  <2>3. Promoted(state, Upcoming) # "Stop"
    BY <2>1, <2>2 DEF Promoted, Levels, DeepestAfter, ReadTypes
  <2>4. lumiLimitReached /\ (state \in {"Invalid", "File", "Run"} \/ Upcoming # "Event")
    BY <1>2, <2>1, <2>2, <2>3 DEF NextItem, eventLimitReached, ReadTypes
  <2>5. state \in {"Invalid", "File", "Run"} => items[pos].type # "Event"
    BY <1>2, LevelOf DEF InStep, DeepestAfter
  <2> QED BY <2>1, <2>4, <2>5 DEF lumiLimitReached
<1>3. NextItem = "Lumi" => remainingLumis # 0
  <2>1. NextItem = "Lumi" => Upcoming = "Lumi" BY NextItemIsUpcoming
  <2> QED BY <2>1 DEF NextItem, lumiLimitReached
<1> QED BY <1>1, <1>2, <1>3 DEF NothingLeft

\* As SourceMoves, with what each read finds.
LEMMA SourceReads ==
  ASSUME IInv, LInv, Next
  PROVE  \/ UNCHANGED sourceVars
         \/ NextItemType
         \/ Rampdown
         \/ ReadFile /\ Upcoming = "File"
         \/ ReadRun /\ Upcoming = "Run"
         \/ ReadLumi /\ Upcoming = "Lumi" /\ remainingLumis # 0
         \/ ReadEvent /\ Upcoming = "Event" /\ remainingEvents # 0
<1>0. Announced /\ StopsForAReason BY DEF IInv, LInv
<1>1. CASE AskSource BY <1>1 DEF AskSource
<1>2. CASE Transition
  BY <1>0, <1>2 DEF Transition, Announced, StopsForAReason, Announces
<1>3. CASE StartStreams
  BY <1>0, <1>3 DEF StartStreams, StartTasks, Announced, CanReadEvent, eventLimitReached
<1>4. ASSUME NEW s \in Streams, Enter(s)
      PROVE  UNCHANGED sourceVars \/ NextItemType
  BY <1>4 DEF Enter, EnterAs, sourceVars
<1>5. ASSUME NEW s \in Streams, Read(s)
      PROVE  ReadEvent /\ Upcoming = "Event" /\ remainingEvents # 0
  BY <1>0, <1>5 DEF Read, Announced, CanReadEvent, eventLimitReached
<1>6. CASE TimeIsUp BY <1>6 DEF TimeIsUp
<1>7. ASSUME NEW s \in Streams,
             \/ Loop(s) \/ Recheck(s) \/ Process(s) \/ Count(s) \/ Catch(s) \/ Store(s)
             \/ StreamSourceThrows(s) \/ ProcessThrows(s)
      PROVE  UNCHANGED sourceVars
  BY <1>7 DEF Loop, Recheck, Process, Count, Catch, Store, StreamSourceThrows, SourceThrowsIn,
              ProcessThrows
<1>8. JoinStreams \/ MainSourceThrows \/ Signal => UNCHANGED sourceVars
  BY DEF JoinStreams, MainSourceThrows, Signal
<1> QED BY <1>1, <1>2, <1>3, <1>4, <1>5, <1>6, <1>7, <1>8 DEF Next, MainStep, StreamStep

LEMMA CountedStep ==
  ASSUME IInv, LInv, Next
  PROVE  Counted'
<1>0. Counted /\ SourceTypeOK BY DEF LInv, IInv, TypeOK
<1>1. items' = items /\ job' = job /\ pos \in Nat \ {0} /\ Len(items) \in Nat
      /\ {job.maxEvents, job.maxLumis} \subseteq Limits
  <2>1. job' = job
    BY SourceReads DEF sourceVars, NextItemType, Rampdown, ReadFile, ReadRun, ReadLumi, ReadEvent
  <2>2. {job.maxEvents, job.maxLumis} \subseteq Limits BY <1>0, JobsAreInputs DEF SourceTypeOK
  <2> QED BY <1>0, <2>1, <2>2, JobFacts DEF items, SourceTypeOK
<1>2. \A type : Cardinality(EntriesUpTo(type, pos - 1)) \in Nat BY <1>1, CountEntries
<1>3. ASSUME UNCHANGED <<pos, remainingEvents, remainingLumis>>
      PROVE  Counted'
  <2>1. \A type : EntriesUpTo(type, pos - 1)' = EntriesUpTo(type, pos - 1)
    BY <1>1, <1>3 DEF EntriesUpTo
  <2> QED BY <1>0, <1>1, <1>3, <2>1 DEF Counted
<1>4. ASSUME pos' = pos + 1, Upcoming # "Stop",
             remainingEvents' = IF Upcoming = "Event" THEN Less(remainingEvents) ELSE remainingEvents,
             remainingLumis' = IF Upcoming = "Lumi" THEN Less(remainingLumis) ELSE remainingLumis,
             Upcoming = "Event" => remainingEvents # 0,
             Upcoming = "Lumi" => remainingLumis # 0
      PROVE  Counted'
  <2>1. items[pos].type = Upcoming BY <1>0, <1>4, UpcomingType
  <2>2. /\ EntriesUpTo("Event", pos - 1)' = EntriesUpTo("Event", pos)
        /\ EntriesUpTo("Lumi", pos - 1)' = EntriesUpTo("Lumi", pos)
    BY <1>1, <1>4 DEF EntriesUpTo
  <2>3. /\ Cardinality(EntriesUpTo("Event", pos - 1))' =
             IF Upcoming = "Event" THEN Cardinality(EntriesUpTo("Event", pos - 1)) + 1
             ELSE Cardinality(EntriesUpTo("Event", pos - 1))
        /\ Cardinality(EntriesUpTo("Lumi", pos - 1))' =
             IF Upcoming = "Lumi" THEN Cardinality(EntriesUpTo("Lumi", pos - 1)) + 1
             ELSE Cardinality(EntriesUpTo("Lumi", pos - 1))
    BY <1>1, <2>1, <2>2, NextEntry
  <2>a. /\ job.maxEvents = -1 \/ job.maxEvents \in Nat
        /\ job.maxLumis = -1 \/ job.maxLumis \in Nat
    BY <1>1 DEF Limits
  <2>b. /\ Cardinality(EntriesUpTo("Event", pos - 1)) \in Nat
        /\ Cardinality(EntriesUpTo("Lumi", pos - 1)) \in Nat
    BY <1>2
  <2>4. /\ job.maxEvents >= 0 =>
             /\ remainingEvents' \in Nat
             /\ Cardinality(EntriesUpTo("Event", pos - 1))' = job.maxEvents - remainingEvents'
        /\ job.maxEvents = -1 => remainingEvents' = -1
    BY <1>0, <1>4, <2>3, <2>a, <2>b DEF Counted, Less
  <2>5. /\ job.maxLumis >= 0 =>
             /\ remainingLumis' \in Nat
             /\ Cardinality(EntriesUpTo("Lumi", pos - 1))' = job.maxLumis - remainingLumis'
        /\ job.maxLumis = -1 => remainingLumis' = -1
    BY <1>0, <1>4, <2>3, <2>a, <2>b DEF Counted, Less
  <2> QED BY <1>1, <2>4, <2>5 DEF Counted
<1> QED
  BY <1>3, <1>4, SourceReads DEF sourceVars, NextItemType, Rampdown, ReadFile, ReadRun, ReadLumi, ReadEvent

LEMMA StopsForAReasonStep ==
  ASSUME IInv, LInv, Next
  PROVE  StopsForAReason'
<1>0. StopsForAReason /\ Announced /\ StreamsWait /\ SourceTypeOK /\ InStep /\ LoopTypeOK
  BY DEF LInv, IInv, TypeOK, LoopTypeOK
<1>a. items' = items BY SourceStep
<1>b. ASSUME UNCHANGED <<pos, remainingEvents, remainingLumis>>, elapsed => elapsed'
      PROVE  (NothingLeft => NothingLeft') /\ remainingLumis' = remainingLumis
  BY <1>a, <1>b DEF NothingLeft
<1>c. ASSUME NextItemType
      PROVE  /\ state' = "Stop" => NothingLeft'
             /\ state' = "Lumi" => remainingLumis' # 0
  BY <1>0, <1>b, <1>c, AnswerHasAReason DEF NextItemType
<1>d. ASSUME UNCHANGED <<main, itemType, finished, nextItem, outcome>>,
             UNCHANGED <<pos, remainingEvents, remainingLumis>>, elapsed => elapsed'
      PROVE  StopsForAReason'
  BY <1>0, <1>b, <1>d DEF StopsForAReason, Announces
<1>1. CASE MainSourceThrows
  BY <1>1 DEF MainSourceThrows, Ended, StopsForAReason, Announces
<1>2. CASE AskSource
  BY <1>0, <1>c, <1>2 DEF AskSource, Ended, StopsForAReason, Announces
<1>3. CASE Transition
  BY <1>0, <1>3 DEF Transition, Ended, StopsForAReason, Announces
<1>4. CASE StartStreams
  BY <1>0, <1>4 DEF StartStreams, StartTasks, StopsForAReason, Announces
<1>5. CASE JoinStreams
  <2>1. main = "wait" /\ UNCHANGED <<sourceVars, nextItem, finished>> BY <1>5 DEF JoinStreams
  <2>2. CASE main' = "ended" BY <2>2 DEF StopsForAReason, Announces
  <2>3. CASE main' # "ended"
    <3>1. itemType' = nextItem /\ outcome' = outcome
          /\ main' = IF nextItem = "Event" THEN "next" ELSE "transition"
      BY <1>5, <2>3 DEF JoinStreams, Ended
    <3>2. nextItem # "Event" => finished BY <1>0, <2>1 DEF Announced
    <3> QED BY <1>0, <1>b, <2>1, <3>1, <3>2 DEF StopsForAReason, Announces, sourceVars
  <2> QED BY <2>2, <2>3
<1>6. ASSUME NEW s \in Streams, Enter(s)
      PROVE  StopsForAReason'
  <2>1. CASE finished BY <1>6, <1>d, <2>1 DEF Enter, EnterAs, sourceVars
  <2>2. CASE ~finished
    <3>1. NextItemType /\ UNCHANGED <<main, itemType, outcome>> /\ main = "wait"
          /\ (state' # "Event" => nextItem' = state')
          /\ (state' = "Event" => UNCHANGED finished)
      BY <1>0, <1>6, <2>2 DEF Enter, EnterAs, StreamsWait
    <3> QED BY <1>0, <1>c, <2>2, <3>1 DEF StopsForAReason, Announces
  <2> QED BY <2>1, <2>2
<1>7. ASSUME NEW s \in Streams, Read(s)
      PROVE  StopsForAReason'
  <2>1. main = "wait" /\ ~finished /\ UNCHANGED loopVars
    BY <1>0, <1>7 DEF Read, Announced, StreamsWait
  <2> QED BY <1>0, <2>1 DEF loopVars, StopsForAReason, Announces
<1>8. ASSUME NEW s \in Streams,
             \/ Loop(s) \/ Recheck(s) \/ Process(s) \/ Count(s) \/ Catch(s) \/ Store(s)
             \/ StreamSourceThrows(s) \/ ProcessThrows(s)
      PROVE  StopsForAReason'
  <2>1. UNCHANGED <<sourceVars, loopVars>>
    BY <1>8 DEF Loop, Recheck, Process, Count, Catch, Store, StreamSourceThrows, SourceThrowsIn,
                ProcessThrows
  <2> QED BY <1>d, <2>1 DEF sourceVars, loopVars
<1>9. CASE Signal BY <1>d, <1>9 DEF Signal, sourceVars, loopVars
<1>10. CASE TimeIsUp BY <1>d, <1>10 DEF TimeIsUp, Rampdown, loopVars
<1> QED
  BY <1>1, <1>2, <1>3, <1>4, <1>5, <1>6, <1>7, <1>8, <1>9, <1>10 DEF Next, MainStep, StreamStep

\* No exception is deferred but while the main thread waits or when it has ended.
LEMMA NothingDeferredBetween ==
  ASSUME IInv, main \notin {"wait", "ended"}
  PROVE  ~isSet
BY DEF IInv, Deferred, StreamsWait

\* Nothing is in hand when every stream is done or idle and met no exception.
LEMMA NothingInHand ==
  ASSUME LInv, ~isSet, \A s \in Streams : stream[s] \in {"idle", "done"}
  PROVE  /\ \A s \in Streams : event[s] = 0
         /\ EntriesUpTo("Event", pos - 1) \subseteq written \cup {0}
<1>1. EventsKept BY DEF LInv
<1>2. \A s \in Streams : event[s] = 0 BY <1>1 DEF EventsKept
<1>3. \A i \in EntriesUpTo("Event", pos - 1) : i \in written \/ i = 0
  BY <1>1, <1>2 DEF EventsKept
<1> QED BY <1>2, <1>3

LEMMA EventsKeptStep ==
  ASSUME IInv, LInv, Next
  PROVE  EventsKept'
<1>0. EventsKept /\ LoopTypeOK /\ HeldTypeOK /\ StreamsWait /\ Deferred /\ Announced
      /\ EventsHeld /\ SourceTypeOK
  BY DEF LInv, IInv, TypeOK, LoopTypeOK, HeldTypeOK
<1>a. items' = items /\ pos \in Nat \ {0} /\ Len(items) \in Nat
  BY <1>0, SourceStep, JobFacts DEF SourceTypeOK
<1>b. ASSUME UNCHANGED pos \/ (pos' = pos + 1 /\ items[pos].type # "Event")
      PROVE  EntriesUpTo("Event", pos - 1)' = EntriesUpTo("Event", pos - 1)
  <2>1. CASE pos' = pos BY <1>a, <2>1 DEF EntriesUpTo
  <2>2. CASE pos' = pos + 1 /\ items[pos].type # "Event"
    <3>1. EntriesUpTo("Event", pos - 1)' = EntriesUpTo("Event", pos) BY <1>a, <2>2 DEF EntriesUpTo
    <3>2. pos \in Nat /\ pos >= 1 BY <1>a
    <3>3. EntriesUpTo("Event", pos) = EntriesUpTo("Event", pos - 1) BY <2>2, <3>2, NextEntry
    <3> QED BY <3>1, <3>3
  <2> QED BY <1>b, <2>1, <2>2
<1>c. ASSUME UNCHANGED <<event, written>>,
             UNCHANGED pos \/ (pos' = pos + 1 /\ items[pos].type # "Event"),
             isSet => isSet',
             \A s \in Streams : stream'[s] \in {"idle", "loop", "lock", "read"} =>
                stream[s] \in {"idle", "loop", "lock", "read"} \/ event[s] = 0,
             \A s \in Streams : stream'[s] = "done" =>
                stream[s] \in {"idle", "loop", "lock", "read", "done"} \/ isSet',
             \A s \in Streams : stream'[s] = "count" => stream[s] = "count"
      PROVE  EventsKept'
  <2>1. EntriesUpTo("Event", pos - 1)' = EntriesUpTo("Event", pos - 1) BY <1>b, <1>c
  <2>2. /\ \A i \in written' : items'[i].type = "Event"
        /\ \A s \in Streams : event'[s] # 0 => items'[event'[s]].type = "Event"
        /\ \A i \in EntriesUpTo("Event", pos - 1)' : i \in written' \/ \E s \in Streams : event'[s] = i
    BY <1>0, <1>a, <1>c, <2>1 DEF EventsKept
  <2>3. /\ \A s \in Streams : stream'[s] \in {"idle", "loop", "lock", "read"} => event'[s] = 0
        /\ \A s \in Streams : stream'[s] = "done" /\ event'[s] # 0 => isSet'
        /\ \A s \in Streams : stream'[s] = "count" => event'[s] \in written'
    BY <1>0, <1>c DEF EventsKept
  <2> QED BY <2>2, <2>3 DEF EventsKept
<1>1. CASE MainSourceThrows
  BY <1>c, <1>1 DEF MainSourceThrows, streamVars, outputVars, sourceVars
<1>2. CASE AskSource
  BY <1>c, <1>2 DEF AskSource, NextItemType, streamVars, outputVars
<1>3. CASE Transition
  <2>1. UNCHANGED pos \/ (pos' = pos + 1 /\ items[pos].type # "Event")
    <3>1. itemType = "Stop" => UNCHANGED pos BY <1>3 DEF Transition, sourceVars
    <3>2. itemType # "Stop" => pos' = pos + 1
      BY <1>3 DEF Transition, ReadFile, ReadRun, ReadLumi
    <3>3. itemType # "Stop" => Upcoming \in {"File", "Run", "Lumi"}
      BY <1>0, <1>3 DEF Transition, Announced
    <3> QED BY <1>0, <3>1, <3>2, <3>3, UpcomingType
  <2> QED BY <1>c, <1>3, <2>1 DEF Transition, streamVars, outputVars
<1>4. CASE StartStreams
  <2>1. /\ UNCHANGED written /\ pos' = pos + 1 /\ main = "event"
        /\ event' = [s \in Streams |-> IF s \in {0} THEN pos ELSE event[s]]
        /\ stream' = [s \in Streams |-> IF s \in {0} THEN "process" ELSE "loop"]
    BY <1>4 DEF StartStreams, StartTasks, outputVars, ReadEvent
  <2>2. items[pos].type = "Event"
    BY <1>0, <2>1, UpcomingType DEF Announced, CanReadEvent
  <2>3. ~isSet /\ \A s \in Streams : stream[s] \in {"idle", "done"}
    BY <1>0, <2>1, NothingDeferredBetween DEF StreamsWait
  <2>4. \A s \in Streams : event[s] = 0 BY <2>3, NothingInHand
  <2>5. EntriesUpTo("Event", pos - 1)' = EntriesUpTo("Event", pos - 1) \cup {pos}
    <3>1. EntriesUpTo("Event", pos - 1)' = EntriesUpTo("Event", pos) BY <1>a, <2>1 DEF EntriesUpTo
    <3> QED BY <1>a, <2>2, <3>1, NextEntry
  <2>6. 0 \in Streams BY StreamsFromZero
  <2>7. event'[0] = pos /\ \A s \in Streams : event'[s] \in {0, pos} /\ (event'[s] = pos => s = 0)
    BY <1>a, <2>1, <2>4, <2>6
  <2>8. \A i \in EntriesUpTo("Event", pos - 1) : i \in written
    <3>1. \A i \in EntriesUpTo("Event", pos - 1) : i # 0 BY DEF EntriesUpTo
    <3> QED BY <2>3, <3>1, NothingInHand
  <2>9. \A s \in Streams : (stream'[s] = "process" /\ s = 0) \/ (stream'[s] = "loop" /\ s # 0)
    BY <2>1
  <2> QED BY <1>0, <1>a, <2>1, <2>2, <2>5, <2>6, <2>7, <2>8, <2>9 DEF EventsKept
<1>5. CASE JoinStreams
  BY <1>c, <1>5 DEF JoinStreams, streamVars, outputVars, sourceVars
<1>6. ASSUME NEW s \in Streams,
             \/ Loop(s) \/ Enter(s) \/ Recheck(s) \/ Catch(s) \/ Store(s)
             \/ StreamSourceThrows(s) \/ ProcessThrows(s)
      PROVE  EventsKept'
  <2>1. CASE Loop(s)
    <3>1. /\ UNCHANGED <<event, written, pos, isSet>> /\ stream[s] = "loop"
          /\ \A t \in Streams \ {s} : stream'[t] = stream[t]
          /\ stream'[s] \in {"done", "lock"}
      BY <1>0, <2>1 DEF Loop, LoopTypeOK, outputVars, sourceVars
    <3> QED BY <1>c, <3>1
  <2>2. CASE Enter(s)
    <3>1. UNCHANGED <<event, written, pos, isSet>> /\ stream[s] = "lock"
      BY <2>2 DEF Enter, EnterAs, NextItemType, sourceVars, outputVars
    <3>2. /\ \A t \in Streams \ {s} : stream'[t] = stream[t]
          /\ stream'[s] \in {"done", "read"}
      <4>1. \E at \in {"done", "read"} : stream' = [stream EXCEPT ![s] = at]
        BY <2>2 DEF Enter, EnterAs
      <4> QED BY <1>0, <4>1 DEF LoopTypeOK
    <3> QED BY <1>c, <3>1, <3>2
  <2>3. CASE Recheck(s) BY <1>0, <1>c, <2>3 DEF Recheck, LoopTypeOK, outputVars, sourceVars
  <2>4. CASE Catch(s) BY <1>0, <1>c, <2>4 DEF Catch, LoopTypeOK, outputVars, sourceVars
  <2>5. CASE Store(s)
    BY <1>0, <1>c, <2>5 DEF Store, LoopTypeOK, outputVars, sourceVars, Deferred
  <2>6. CASE StreamSourceThrows(s)
    BY <1>0, <1>c, <2>6 DEF StreamSourceThrows, SourceThrowsIn, LoopTypeOK, outputVars, sourceVars
  <2>7. CASE ProcessThrows(s)
    BY <1>0, <1>c, <2>7 DEF ProcessThrows, LoopTypeOK, outputVars, sourceVars
  <2> QED BY <1>6, <2>1, <2>2, <2>3, <2>4, <2>5, <2>6, <2>7
<1>7. ASSUME NEW s \in Streams, Read(s)
      PROVE  EventsKept'
  <2>1. /\ UNCHANGED <<written, isSet>> /\ pos' = pos + 1 /\ stream[s] = "read"
        /\ event'[s] = pos /\ stream'[s] = "recheck"
        /\ \A t \in Streams \ {s} : event'[t] = event[t] /\ stream'[t] = stream[t]
    BY <1>0, <1>7 DEF Read, outputVars, ReadEvent, HeldTypeOK, LoopTypeOK
  <2>2. items[pos].type = "Event"
    BY <1>0, <2>1, UpcomingType DEF Announced, CanReadEvent
  <2>3. event[s] = 0 BY <1>0, <2>1 DEF EventsKept
  <2>4. EntriesUpTo("Event", pos - 1)' = EntriesUpTo("Event", pos - 1) \cup {pos}
    <3>1. EntriesUpTo("Event", pos - 1)' = EntriesUpTo("Event", pos) BY <1>a, <2>1 DEF EntriesUpTo
    <3> QED BY <1>a, <2>2, <3>1, NextEntry
  <2>5. \A i \in EntriesUpTo("Event", pos - 1) : i # 0 BY DEF EntriesUpTo
  <2>6. \A i \in EntriesUpTo("Event", pos - 1)' : i \in written' \/ \E t \in Streams : event'[t] = i
    BY <1>0, <2>1, <2>3, <2>4, <2>5 DEF EventsKept
  <2> QED BY <1>0, <1>a, <2>1, <2>2, <2>6 DEF EventsKept
<1>8. ASSUME NEW s \in Streams, Process(s) \/ Count(s)
      PROVE  EventsKept'
  <2>1. /\ UNCHANGED <<isSet, pos>> /\ stream[s] \in {"process", "count"}
        /\ stream'[s] \in {"count", "loop"}
        /\ \A t \in Streams \ {s} : event'[t] = event[t] /\ stream'[t] = stream[t]
        /\ stream'[s] = "loop" => event'[s] = 0
        /\ stream'[s] = "count" => event'[s] = event[s] /\ event[s] \in written'
        /\ written \subseteq written' /\ written' \subseteq written \cup {event[s]}
    <3>1. CASE Process(s) /\ outLeft > 0
      BY <1>0, <3>1 DEF Process, LoopTypeOK, HeldTypeOK, sourceVars
    <3>2. CASE Process(s) /\ ~(outLeft > 0)
      BY <1>0, <3>2 DEF Process, LoopTypeOK, HeldTypeOK, sourceVars
    <3>3. CASE Count(s)
      BY <1>0, <3>3 DEF Count, LoopTypeOK, HeldTypeOK, sourceVars
    <3> QED BY <1>8, <3>1, <3>2, <3>3
  <2>2. event[s] \in written'
    <3>1. CASE Process(s) BY <3>1 DEF Process
    <3>2. CASE Count(s) BY <1>0, <2>1, <3>2 DEF Count, EventsKept
    <3> QED BY <1>8, <3>1, <3>2
  <2>3. event[s] \in Nat \ {0} /\ items[event[s]].type = "Event"
    <3>1. event[s] \in 1 .. pos - 1 BY <1>0, <2>1 DEF EventsHeld, Busy
    <3> QED BY <1>0, <3>1 DEF EventsKept
  <2>4. EntriesUpTo("Event", pos - 1)' = EntriesUpTo("Event", pos - 1) BY <1>b, <2>1
  <2>5. /\ \A i \in written' : items'[i].type = "Event"
        /\ \A t \in Streams : event'[t] # 0 => items'[event'[t]].type = "Event"
    BY <1>0, <1>a, <2>1, <2>3 DEF EventsKept
  <2>6. \A i \in EntriesUpTo("Event", pos - 1)' : i \in written' \/ \E t \in Streams : event'[t] = i
    BY <1>0, <2>1, <2>2, <2>4 DEF EventsKept
  <2>7. /\ \A t \in Streams : stream'[t] \in {"idle", "loop", "lock", "read"} => event'[t] = 0
        /\ \A t \in Streams : stream'[t] = "done" /\ event'[t] # 0 => isSet'
        /\ \A t \in Streams : stream'[t] = "count" => event'[t] \in written'
    BY <1>0, <2>1 DEF EventsKept
  <2> QED BY <2>5, <2>6, <2>7 DEF EventsKept
<1>9. CASE Signal
  BY <1>c, <1>9 DEF Signal, sourceVars, streamVars, outputVars
<1>10. CASE TimeIsUp
  BY <1>c, <1>10 DEF TimeIsUp, Rampdown, streamVars, outputVars
<1> QED
  BY <1>1, <1>2, <1>3, <1>4, <1>5, <1>6, <1>7, <1>8, <1>9, <1>10 DEF Next, MainStep, StreamStep

LEMMA OutputCountedStep ==
  ASSUME IInv, LInv, Next
  PROVE  OutputCounted'
<1>0. OutputCounted /\ EventsKept /\ LoopTypeOK /\ HeldTypeOK /\ StreamsWait /\ EventsHeld
      /\ SourceTypeOK
  BY DEF LInv, IInv, TypeOK, LoopTypeOK, HeldTypeOK
<1>a. job' = job /\ Len(items) \in Nat /\ pos \in Nat /\ job.outMax \in Limits
  <2>1. job' = job
    BY SourceReads DEF sourceVars, NextItemType, Rampdown, ReadFile, ReadRun, ReadLumi, ReadEvent
  <2> QED BY <1>0, <2>1, JobFacts, JobsAreInputs DEF SourceTypeOK
<1>b. IsFiniteSet(written)
  <2>1. IsFiniteSet(1 .. Len(items)) BY <1>a, FS_Interval
  <2> QED BY <1>0, <2>1, FS_Subset DEF HeldTypeOK
<1>c. IsFiniteSet(written \ InCount) /\ Cardinality(written \ InCount) \in Nat
  BY <1>b, FS_Subset, FS_CardinalityType
<1>d. ASSUME UNCHANGED <<outLeft, written>>,
             \A t \in Streams : stream'[t] = "count" <=> stream[t] = "count",
             \A t \in Streams : stream[t] = "count" => event'[t] = event[t]
      PROVE  OutputCounted'
  <2>1. InCount' = InCount BY <1>d DEF InCount
  <2> QED BY <1>0, <1>a, <1>d, <2>1 DEF OutputCounted
<1>1. CASE MainSourceThrows
  BY <1>d, <1>1 DEF MainSourceThrows, streamVars, outputVars
<1>2. CASE AskSource
  BY <1>d, <1>2 DEF AskSource, streamVars, outputVars
<1>3. CASE Transition
  BY <1>d, <1>3 DEF Transition, streamVars, outputVars
<1>4. CASE StartStreams
  <2>1. \A s \in Streams : stream[s] # "count" /\ stream'[s] # "count"
    BY <1>0, <1>4 DEF StartStreams, StartTasks, StreamsWait
  <2> QED BY <1>d, <1>4, <2>1 DEF StartStreams, StartTasks, outputVars
<1>5. CASE JoinStreams
  BY <1>d, <1>5 DEF JoinStreams, streamVars, outputVars
<1>6. ASSUME NEW s \in Streams,
             \/ Loop(s) \/ Enter(s) \/ Read(s) \/ Recheck(s) \/ Catch(s) \/ Store(s)
             \/ StreamSourceThrows(s) \/ ProcessThrows(s)
      PROVE  OutputCounted'
  <2>1. CASE Loop(s) BY <1>0, <1>d, <2>1 DEF Loop, LoopTypeOK, outputVars
  <2>2. CASE Enter(s) BY <1>0, <1>d, <2>2 DEF Enter, EnterAs, LoopTypeOK, outputVars
  <2>3. CASE Read(s) BY <1>0, <1>d, <2>3 DEF Read, LoopTypeOK, outputVars, HeldTypeOK
  <2>4. CASE Recheck(s) BY <1>0, <1>d, <2>4 DEF Recheck, LoopTypeOK, outputVars
  <2>5. CASE Catch(s) BY <1>0, <1>d, <2>5 DEF Catch, LoopTypeOK, outputVars
  <2>6. CASE Store(s) BY <1>0, <1>d, <2>6 DEF Store, LoopTypeOK, outputVars
  <2>7. CASE StreamSourceThrows(s)
    BY <1>0, <1>d, <2>7 DEF StreamSourceThrows, SourceThrowsIn, LoopTypeOK, outputVars
  <2>8. CASE ProcessThrows(s) BY <1>0, <1>d, <2>8 DEF ProcessThrows, LoopTypeOK, outputVars
  <2> QED BY <1>6, <2>1, <2>2, <2>3, <2>4, <2>5, <2>6, <2>7, <2>8
<1>7. ASSUME NEW s \in Streams, Process(s), outLeft > 0
      PROVE  OutputCounted'
  <2>1. /\ stream[s] = "process" /\ written' = written \cup {event[s]} /\ UNCHANGED <<event, outLeft>>
        /\ stream'[s] = "count" /\ \A t \in Streams \ {s} : stream'[t] = stream[t]
    BY <1>0, <1>7 DEF Process, LoopTypeOK
  <2>2. event[s] \notin written BY <1>0, <2>1 DEF EventsHeld
  <2>3. InCount' = InCount \cup {event[s]} BY <2>1 DEF InCount
  <2>4. written' \ InCount' = written \ InCount BY <2>1, <2>2, <2>3
  <2>5. job.outMax # -1 BY <1>0, <1>7 DEF OutputCounted
  <2> QED BY <1>0, <1>a, <2>1, <2>4, <2>5 DEF OutputCounted
<1>8. ASSUME NEW s \in Streams, Process(s), ~(outLeft > 0)
      PROVE  OutputCounted'
  <2>1. /\ stream[s] = "process" /\ written' = written \cup {event[s]} /\ UNCHANGED outLeft
        /\ stream'[s] = "loop"
        /\ \A t \in Streams \ {s} : stream'[t] = stream[t] /\ event'[t] = event[t]
    BY <1>0, <1>8 DEF Process, LoopTypeOK, HeldTypeOK
  <2>2. InCount' = InCount BY <2>1 DEF InCount
  <2>3. IsFiniteSet(written') BY <1>b, <2>1, FS_AddElement
  <2>4. IsFiniteSet(written' \ InCount') BY <2>3, FS_Subset
  <2>5. written \ InCount \in SUBSET (written' \ InCount') BY <2>1, <2>2
  <2>6. Cardinality(written \ InCount) <= Cardinality(written' \ InCount')
    BY <2>4, <2>5, FS_Subset
  <2>7. Cardinality(written' \ InCount') \in Nat BY <2>4, FS_CardinalityType
  <2>8. \A t \in Streams : stream'[t] = "count" => stream[t] = "count" BY <2>1
  <2> QED BY <1>0, <1>a, <1>c, <2>1, <2>6, <2>7, <2>8 DEF OutputCounted, LoopTypeOK, Limits
<1>9. ASSUME NEW s \in Streams, Count(s)
      PROVE  OutputCounted'
  <2>1. /\ stream[s] = "count" /\ UNCHANGED written /\ outLeft' = outLeft - 1
        /\ stream'[s] = "loop"
        /\ \A t \in Streams \ {s} : stream'[t] = stream[t] /\ event'[t] = event[t]
    BY <1>0, <1>9 DEF Count, LoopTypeOK, HeldTypeOK
  <2>2. \A t \in Streams \ {s} : stream[t] = "count" => event[t] # event[s]
    BY <1>0, <2>1 DEF EventsHeld, Busy
  <2>3. InCount' = InCount \ {event[s]} /\ event[s] \in InCount
    BY <2>1, <2>2 DEF InCount
  <2>4. event[s] \in written BY <1>0, <2>1 DEF EventsKept
  <2>5. written' \ InCount' = (written \ InCount) \cup {event[s]} BY <2>1, <2>3, <2>4
  <2>6. event[s] \notin written \ InCount BY <2>3
  <2>7. Cardinality(written' \ InCount') = Cardinality(written \ InCount) + 1
    BY <1>c, <2>5, <2>6, FS_AddElement
  <2>8. job.outMax # -1 BY <1>0, <2>1 DEF OutputCounted
  <2> QED BY <1>0, <1>a, <1>c, <2>1, <2>7, <2>8 DEF OutputCounted, LoopTypeOK, Limits
<1>10. CASE Signal
  BY <1>d, <1>10 DEF Signal, streamVars, outputVars
<1>11. CASE TimeIsUp
  BY <1>d, <1>11 DEF TimeIsUp, streamVars, outputVars
<1> QED
  BY <1>1, <1>2, <1>3, <1>4, <1>5, <1>6, <1>7, <1>8, <1>9, <1>10, <1>11
     DEF Next, MainStep, StreamStep

\* What is written was read, and the limits let nothing else be read.
LEMMA OnlyTheWanted == IInv /\ Counted /\ EventsKept => written \subseteq Wanted
<1> SUFFICES ASSUME IInv, Counted, EventsKept, NEW i \in written
             PROVE  i \in Wanted
  OBVIOUS
<1>1. i \in 1 .. pos - 1 /\ pos \in 1 .. Len(items) + 1 /\ Len(items) \in Nat
  BY JobFacts DEF IInv, TypeOK, SourceTypeOK, EventsHeld
<1>2. items[i].type = "Event" BY DEF EventsKept
<1>3. i \in EntriesUpTo("Event", Len(items)) BY <1>1, <1>2 DEF EntriesUpTo
<1>4. {job.maxEvents, job.maxLumis} \subseteq Limits
  BY JobsAreInputs DEF IInv, TypeOK, SourceTypeOK
<1>5. \A type : /\ Cardinality(EntriesUpTo(type, i)) <= Cardinality(EntriesUpTo(type, pos - 1))
                /\ Cardinality(EntriesUpTo(type, i)) \in Nat
                /\ Cardinality(EntriesUpTo(type, pos - 1)) \in Nat
  BY <1>1, CountEntries
<1>6. job.maxEvents >= 0 => Cardinality(EntriesUpTo("Event", i)) <= job.maxEvents
  BY <1>4, <1>5 DEF Counted, Limits
<1>7. job.maxLumis >= 0 => Cardinality(EntriesUpTo("Lumi", i)) <= job.maxLumis
  BY <1>4, <1>5 DEF Counted, Limits
<1> QED BY <1>3, <1>6, <1>7 DEF Wanted

\* When nothing is left and nothing is in hand, what was wanted is written.
LEMMA AllTheWanted ==
  ASSUME IInv, LInv, NothingLeft, EntriesUpTo("Event", pos - 1) \subseteq written \cup {0}
  PROVE  \/ written = Wanted
         \/ elapsed /\ \A i \in written : i + 1 \in Wanted => i + 1 \in written
<1>0. Counted /\ EventsKept /\ SourceTypeOK /\ EventsHeld BY DEF LInv, IInv, TypeOK
<1>1. pos \in 1 .. Len(items) + 1 /\ Len(items) \in Nat /\ job \in Jobs
      /\ {job.maxEvents, job.maxLumis} \subseteq Limits
  BY <1>0, JobFacts, JobsAreInputs DEF SourceTypeOK
<1>2. ASSUME NEW i \in Wanted, i \notin written
      PROVE  i \in pos .. Len(items) /\ items[i].type = "Event"
  <2>1. i \in 1 .. Len(items) /\ items[i].type = "Event" BY DEF Wanted, EntriesUpTo
  <2>2. i < pos => i \in EntriesUpTo("Event", pos - 1) BY <1>1, <2>1 DEF EntriesUpTo
  <2> QED BY <1>1, <1>2, <2>1, <2>2
<1>3. written \subseteq Wanted BY <1>0, OnlyTheWanted
<1>4. CASE pos > Len(items)
  <2>1. \A i : i \notin pos .. Len(items) BY <1>1, <1>4
  <2>2. Wanted \subseteq written BY <1>2, <2>1
  <2> QED BY <1>3, <2>2
<1>5. CASE remainingEvents = 0
  <2>1. job.maxEvents >= 0 /\ Cardinality(EntriesUpTo("Event", pos - 1)) = job.maxEvents
    BY <1>0, <1>1, <1>5 DEF Counted, Limits
  <2>2. ASSUME NEW i \in Wanted, i \notin written PROVE FALSE
    <3>1. i \in EntriesUpTo("Event", i) /\ i > pos - 1 /\ i \in Int /\ pos - 1 \in Int
      BY <1>1, <1>2, <2>2 DEF EntriesUpTo
    <3>2. Cardinality(EntriesUpTo("Event", pos - 1)) < Cardinality(EntriesUpTo("Event", i))
      BY <3>1, CountEntries
    <3>3. Cardinality(EntriesUpTo("Event", i)) <= job.maxEvents BY <2>1 DEF Wanted
    <3>4. Cardinality(EntriesUpTo("Event", i)) \in Nat BY <3>1, CountEntries
    <3> QED BY <1>1, <2>1, <3>2, <3>3, <3>4 DEF Limits
  <2> QED BY <1>3, <2>2
<1>6. CASE remainingLumis = 0 /\ pos <= Len(items) /\ items[pos].type # "Event"
  <2>1. job.maxLumis >= 0 /\ Cardinality(EntriesUpTo("Lumi", pos - 1)) = job.maxLumis
    BY <1>0, <1>1, <1>6 DEF Counted, Limits
  <2>2. ASSUME NEW i \in Wanted, i \notin written PROVE FALSE
    <3>1. i \in pos .. Len(items) /\ items[i].type = "Event" BY <1>2, <2>2
    <3>2. PICK l \in pos .. i : items[l].type = "Lumi"
      BY <1>1, <1>6, <3>1, EventsFollowABlock
    <3>3. l \in EntriesUpTo("Lumi", i) /\ l > pos - 1 /\ i \in Int /\ pos - 1 \in Int /\ pos - 1 <= i
      BY <1>1, <3>1, <3>2 DEF EntriesUpTo
    <3>4. Cardinality(EntriesUpTo("Lumi", pos - 1)) < Cardinality(EntriesUpTo("Lumi", i))
      BY <3>3, CountEntries
    <3>5. Cardinality(EntriesUpTo("Lumi", i)) <= job.maxLumis BY <2>1 DEF Wanted
    <3>6. Cardinality(EntriesUpTo("Lumi", i)) \in Nat BY <3>3, CountEntries
    <3> QED BY <1>1, <2>1, <3>4, <3>5, <3>6 DEF Limits
  <2> QED BY <1>3, <2>2
<1>7. CASE elapsed /\ pos <= Len(items) /\ items[pos].type # "Event"
  <2>1. ASSUME NEW i \in written, i + 1 \in Wanted, i + 1 \notin written PROVE FALSE
    <3>1. i \in 1 .. pos - 1 BY <1>0 DEF EventsHeld
    <3>2. i + 1 \in pos .. Len(items) /\ items[i + 1].type = "Event" BY <1>2, <2>1
    <3>3. i + 1 = pos BY <1>1, <3>1, <3>2
    <3> QED BY <1>7, <3>2, <3>3
  <2> QED BY <1>7, <2>1
<1> QED BY <1>1, <1>4, <1>5, <1>6, <1>7 DEF NothingLeft

LEMMA NothingLostStep ==
  ASSUME IInv, LInv, Next, IInv', Counted', EventsKept'
  PROVE  NothingLost'
<1>0. NothingLost /\ StopsForAReason /\ StreamsWait /\ OutputCounted /\ LoopTypeOK /\ SourceTypeOK
  BY DEF LInv, IInv, TypeOK, LoopTypeOK
<1>1. (written \subseteq Wanted)' BY OnlyTheWanted, PTL
<1>2. job' = job /\ items' = items /\ Wanted' = Wanted
  <2>1. job' = job
    BY SourceReads DEF sourceVars, NextItemType, Rampdown, ReadFile, ReadRun, ReadLumi, ReadEvent
  <2> QED BY <2>1 DEF items, Wanted, EntriesUpTo
<1>3. SUFFICES ASSUME outcome' = Returned("epSuccess")
               PROVE  \/ written' = Wanted
                      \/ job.outMax >= 0 /\ Cardinality(written') >= job.outMax
                      \/ elapsed' /\ \A i \in written' : i + 1 \in Wanted => i + 1 \in written'
  BY <1>1, <1>2 DEF NothingLost
<1>4. CASE main = "ended"
  <2>1. \A s \in Streams : stream[s] \in {"idle", "done"} BY <1>0, <1>4 DEF StreamsWait
  <2>2. \A s \in Streams : ~(StreamStep(s) \/ StreamSourceThrows(s) \/ ProcessThrows(s))
    BY <2>1 DEF StreamStep, Loop, Enter, EnterAs, Read, Recheck, Process, Count, Catch, Store,
           StreamSourceThrows, SourceThrowsIn, ProcessThrows
  <2>3. ~AskSource /\ ~Transition /\ ~StartStreams /\ ~MainSourceThrows /\ ~JoinStreams
    BY <1>4 DEF AskSource, Transition, StartStreams, StartTasks, MainSourceThrows, JoinStreams
  <2>4. UNCHANGED <<outcome, written>> /\ (elapsed => elapsed')
    BY <2>2, <2>3 DEF Next, MainStep, Signal, TimeIsUp, Rampdown, loopVars, outputVars, sourceVars
  <2> QED BY <1>0, <1>3, <2>4 DEF NothingLost
<1>5. CASE main # "ended"
  <2>0. outcome = Running BY <1>0, <1>5 DEF StopsForAReason
  <2>1. outcome' # outcome BY <1>3, <2>0 DEF Running, Returned
  <2>2. \A s \in Streams : ~(StreamStep(s) \/ StreamSourceThrows(s) \/ ProcessThrows(s))
    BY <2>1 DEF StreamStep, Loop, Enter, EnterAs, Read, Recheck, Process, Count, Catch, Store,
           StreamSourceThrows, SourceThrowsIn, ProcessThrows, loopVars
  <2>3. ~AskSource /\ ~StartStreams /\ ~MainSourceThrows /\ ~Signal /\ ~TimeIsUp
    BY <1>3, <2>1 DEF AskSource, StartStreams, StartTasks, MainSourceThrows, Ended, Signal, TimeIsUp,
           loopVars, Returned, Thrown
  <2>4. CASE Transition
    <3>1. main = "transition" /\ itemType = "Stop" /\ UNCHANGED <<written, elapsed>>
      BY <2>1, <2>4 DEF Transition, outputVars, sourceVars
    <3>2. NothingLeft BY <1>0, <3>1 DEF StopsForAReason, Announces
    <3>3. ~isSet /\ \A s \in Streams : stream[s] \in {"idle", "done"}
      BY <1>0, <3>1, NothingDeferredBetween DEF StreamsWait
    <3>4. EntriesUpTo("Event", pos - 1) \subseteq written \cup {0} BY <3>3, NothingInHand
    <3> QED BY <3>1, <3>2, <3>4, AllTheWanted
  <2>5. CASE JoinStreams
    <3>1. outLeft = 0 /\ UNCHANGED written
      BY <1>3, <2>1, <2>5 DEF JoinStreams, Ended, shouldWeStop, Returned, Thrown, outputVars
    <3>2. job.outMax \in Limits /\ Len(items) \in Nat
      BY <1>0, JobFacts, JobsAreInputs DEF SourceTypeOK
    <3>3. job.outMax >= 0 /\ Cardinality(written \ InCount) >= job.outMax
      BY <1>0, <3>1, <3>2 DEF OutputCounted, Limits
    <3>4. IsFiniteSet(written)
      <4>1. IsFiniteSet(1 .. Len(items)) BY <3>2, FS_Interval
      <4> QED BY <4>1, FS_Subset DEF IInv, TypeOK
    <3>5. /\ Cardinality(written \ InCount) <= Cardinality(written)
          /\ Cardinality(written \ InCount) \in Nat /\ Cardinality(written) \in Nat
      BY <3>4, FS_Subset, FS_CardinalityType
    <3> QED BY <3>1, <3>2, <3>3, <3>5 DEF Limits
  <2> QED BY <2>2, <2>3, <2>4, <2>5 DEF Next, MainStep
<1> QED BY <1>4, <1>5

LEMMA LInitially == Init => LInv
<1> SUFFICES ASSUME Init PROVE LInv OBVIOUS
<1>1. /\ job \in Jobs /\ pos = 1 /\ elapsed = FALSE /\ written = {}
      /\ remainingEvents = job.maxEvents /\ remainingLumis = job.maxLumis /\ outLeft = job.outMax
      /\ main = "next" /\ outcome = Running
  BY DEF Init, InitSource
<1>2. {job.maxEvents, job.maxLumis, job.outMax} \subseteq Limits BY <1>1, JobsAreInputs
<1>3. \A type : EntriesUpTo(type, pos - 1) = {} BY <1>1 DEF EntriesUpTo
<1>4. Cardinality({}) = 0 BY FS_EmptySet
<1>5. Counted BY <1>1, <1>2, <1>3, <1>4 DEF Counted, Limits
<1>6. StopsForAReason BY <1>1 DEF StopsForAReason, Announces
<1>7. EventsKept BY <1>3 DEF Init, EventsKept
<1>8. OutputCounted
  <2>1. written \ InCount = {} /\ \A s \in Streams : stream[s] # "count"
    BY <1>1 DEF Init
  <2> QED BY <1>1, <1>2, <1>4, <2>1 DEF OutputCounted, Limits
<1>9. NothingLost BY <1>1 DEF NothingLost, Running, Returned
<1> QED BY <1>5, <1>6, <1>7, <1>8, <1>9 DEF LInv

LEMMA LInductive == IInv /\ LInv /\ [Next]_vars => LInv'
<1>1. ASSUME IInv, LInv, Next PROVE LInv'
  <2>1. IInv' BY <1>1, Inductive
  <2>2. Counted' /\ EventsKept' BY <1>1, CountedStep, EventsKeptStep
  <2>3. NothingLost' BY <1>1, <2>1, <2>2, NothingLostStep
  <2> QED BY <1>1, <2>2, <2>3, StopsForAReasonStep, OutputCountedStep DEF LInv
<1>2. ASSUME LInv, UNCHANGED vars PROVE LInv'
  <2>1. UNCHANGED <<sourceVars, loopVars, streamVars, outputVars>> BY <1>2 DEF vars
  <2>2. UNCHANGED <<job, items, pos>> BY <2>1 DEF sourceVars, items
  <2>3. /\ \A type, i : EntriesUpTo(type, i)' = EntriesUpTo(type, i)
        /\ EntriesUpTo("Event", pos - 1)' = EntriesUpTo("Event", pos - 1)
        /\ EntriesUpTo("Lumi", pos - 1)' = EntriesUpTo("Lumi", pos - 1)
    BY <2>2 DEF EntriesUpTo
  <2>4. Counted' BY <1>2, <2>1, <2>2, <2>3 DEF LInv, Counted, sourceVars
  <2>5. StopsForAReason'
    BY <1>2, <2>1, <2>2 DEF LInv, StopsForAReason, Announces, NothingLeft, sourceVars, loopVars
  <2>6. EventsKept' BY <1>2, <2>1, <2>2, <2>3 DEF LInv, EventsKept, streamVars, outputVars
  <2>7. OutputCounted'
    BY <1>2, <2>1, <2>2 DEF LInv, OutputCounted, InCount, streamVars, outputVars
  <2>8. Wanted' = Wanted BY <2>2, <2>3 DEF Wanted, EntriesUpTo
  <2>9. NothingLost'
    BY <1>2, <2>1, <2>2, <2>8 DEF LInv, NothingLost, sourceVars, loopVars, outputVars
  <2> QED BY <2>4, <2>5, <2>6, <2>7, <2>9 DEF LInv
<1> QED BY <1>1, <1>2

\* Nothing is lost and nothing is processed beyond the limits: what a job that
\* ends with success has written is what maxEvents, maxLuminosityBlocks, the
\* limit of the output module and the time leave, for every input, limit and
\* number of streams.
THEOREM NothingIsLost == Spec => []NothingLost
<1>1. LInv => NothingLost BY DEF LInv
<1> QED BY <1>1, LInitially, LInductive, Invariant, PTL DEF Spec

-----------------------------------------------------------------------------
(* The signal *)

\* The event read since the signal was the last one: nobody is about to read.
SignalSeen ==
  /\ readsAfterSignal \in {0, 1}
  /\ ~shutdown => readsAfterSignal = 0
  /\ readsAfterSignal = 1 => main # "event" /\ source = NoStream

\* Whoever reads an event had the mutex or is the main thread between its test
\* of the flag and the read; afterwards nobody is.
LEMMA OnlyTheCommittedRead ==
  ASSUME IInv, Next, pos' # pos, items[pos].type = "Event"
  PROVE  main = "event" \/ source # NoStream
<1>0. Announced /\ StreamsWait /\ SourceTypeOK BY DEF IInv, TypeOK
<1>1. CASE \E s \in Streams : stream[s] = "read"
  <2>1. NoStream \notin Streams BY StreamsFromZero DEF NoStream
  <2> QED BY <1>0, <1>1, <2>1 DEF Announced
<1>2. CASE StartStreams BY <1>2 DEF StartStreams, StartTasks
<1>3. CASE Transition
  <2>1. itemType \in {"File", "Run", "Lumi"} /\ Upcoming = itemType
    BY <1>0, <1>3 DEF Transition, Announced, sourceVars
  <2> QED BY <1>0, <2>1, UpcomingType
<1>4. CASE UNCHANGED pos BY <1>4
<1>5. ASSUME NEW s \in Streams, StreamStep(s) \/ StreamSourceThrows(s) \/ ProcessThrows(s)
      PROVE  stream[s] = "read" \/ UNCHANGED pos
  BY <1>5 DEF StreamStep, Loop, Enter, EnterAs, Read, Recheck, Process, Count, Catch, Store,
         StreamSourceThrows, SourceThrowsIn, ProcessThrows, NextItemType, sourceVars
<1>6. AskSource \/ JoinStreams \/ MainSourceThrows \/ Signal \/ TimeIsUp => UNCHANGED pos
  BY DEF AskSource, JoinStreams, MainSourceThrows, Signal, TimeIsUp, Rampdown, NextItemType, sourceVars
<1> QED BY <1>1, <1>2, <1>3, <1>4, <1>5, <1>6 DEF Next, MainStep

LEMMA NobodyReadsNext ==
  ASSUME IInv, Next, shutdown
  PROVE  /\ main' = "event" => main = "event" /\ UNCHANGED pos
         /\ source' # NoStream => source' = source /\ UNCHANGED pos
         /\ shutdown'
<1>0. Announced /\ StreamsWait /\ LoopTypeOK BY DEF IInv, TypeOK, LoopTypeOK
<1>1. CASE AskSource
  BY <1>1 DEF AskSource, Ended, NextItemType, streamVars
<1>2. CASE Transition
  BY <1>0, <1>2 DEF Transition, Ended, StreamsWait, LoopTypeOK, streamVars
<1>3. CASE StartStreams
  BY <1>0, <1>3 DEF StartStreams, StartTasks, StreamsWait, LoopTypeOK
<1>4. CASE JoinStreams BY <1>4 DEF JoinStreams, Ended, streamVars, sourceVars
<1>5. ASSUME NEW s \in Streams, StreamStep(s) \/ StreamSourceThrows(s) \/ ProcessThrows(s)
      PROVE  /\ main' = main /\ shutdown' = shutdown
             /\ source' # NoStream => source' = source /\ UNCHANGED pos
             /\ stream[s] # "read" => UNCHANGED pos
  <2>1. CASE Enter(s) BY <1>5, <2>1 DEF Enter, EnterAs, NextItemType, sourceVars
  <2>2. CASE Read(s) BY <1>5, <2>2 DEF Read, loopVars
  <2>3. CASE ~Enter(s) /\ ~Read(s)
    BY <1>5, <2>3 DEF StreamStep, Loop, Recheck, Process, Count, Catch, Store,
           StreamSourceThrows, SourceThrowsIn, ProcessThrows, sourceVars, loopVars
  <2> QED BY <2>1, <2>2, <2>3
<1>6. \A s \in Streams : stream[s] = "read" => main = "wait" BY <1>0 DEF StreamsWait
<1>7. CASE MainSourceThrows \/ Signal \/ TimeIsUp
  BY <1>7 DEF MainSourceThrows, Ended, Signal, TimeIsUp, Rampdown, sourceVars, loopVars, streamVars
<1> QED BY <1>1, <1>2, <1>3, <1>4, <1>5, <1>6, <1>7 DEF Next, MainStep

LEMMA SignalSeenStep ==
  ASSUME IInv, SignalSeen, CountNext
  PROVE  SignalSeen'
<1>1. Next BY DEF CountNext
<1>2. CASE ~shutdown
  BY <1>2 DEF SignalSeen, CountNext
<1>3. CASE shutdown /\ pos' # pos /\ items[pos].type = "Event"
  <2>1. readsAfterSignal = 0 BY <1>1, <1>3, OnlyTheCommittedRead DEF SignalSeen
  <2>2. readsAfterSignal' = 1 BY <1>3, <2>1 DEF CountNext
  <2> QED BY <1>1, <1>3, <2>2, NobodyReadsNext DEF SignalSeen
<1>4. CASE shutdown /\ ~(pos' # pos /\ items[pos].type = "Event")
  <2>1. readsAfterSignal' = readsAfterSignal BY <1>4 DEF CountNext
  <2> QED BY <1>1, <1>4, <2>1, NobodyReadsNext DEF SignalSeen
<1> QED BY <1>2, <1>3, <1>4

\* After the stop signal at most one event is read: checkForAsyncStopRequest is
\* asked between nextItemType and every read.
THEOREM SignalStops == CountSpec => []SignalStopsReading
<1>1. CountInit => IInv /\ SignalSeen
  BY Initially DEF CountInit, Init, SignalSeen
<1>2. IInv /\ SignalSeen /\ [CountNext]_countVars => IInv' /\ SignalSeen'
  <2>1. ASSUME IInv, SignalSeen, CountNext PROVE IInv' /\ SignalSeen'
    BY <2>1, Inductive, SignalSeenStep DEF CountNext
  <2>2. ASSUME IInv, SignalSeen, UNCHANGED countVars PROVE IInv' /\ SignalSeen'
    <3>1. UNCHANGED vars /\ UNCHANGED readsAfterSignal BY <2>2 DEF countVars
    <3>2. UNCHANGED <<main, source, shutdown>> BY <3>1 DEF vars, loopVars, streamVars
    <3> QED BY <2>2, <3>1, <3>2, Inductive DEF SignalSeen
  <2> QED BY <2>1, <2>2
<1>3. SignalSeen => SignalStopsReading BY DEF SignalSeen, SignalStopsReading
<1> QED BY <1>1, <1>2, <1>3, PTL DEF CountSpec
==============================================================================
