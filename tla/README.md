# A TLA+ model of the CMS event-processing framework

The framework (`src/FWCore` and what it needs of `DataFormats`, `IOPool`, `IOMC`, `Utilities`) runs
the modules of a job over events that a source delivers in files, runs and luminosity blocks.
This directory holds TLA+ modules of its concurrent and stateful core, the TLC configurations
that check them on small instances, and TLAPS proofs.

    tlc -workers 2 -config SerialTaskQueuePauses.cfg SerialTaskQueuePauses
    tlapm SerialTaskQueueProofs.tla

`PROJECT.json` lists the runs, which lines of the source each definition stands for, the changed
definitions ("mutants") each property was tried against, the disagreements found and the hazards.

## 1. Inventory

### The parts and their state

| part | state | operations | hard behaviour |
|---|---|---|---|
| `SerialTaskQueue` (FWCore/Concurrency) | `m_tasks`, `m_taskChosen`, `m_pauseCount` | push, pushAndWait, pushAndGetNextTaskToRun, pause, resume, finishedTask | lock-free; a push can race with a task that ends |
| `WaitingTaskList` | linked list from `m_head`, `m_waiting`, the exception, a cache of nodes | add, doneWaiting, announce, reset | lock-free; a list that is emptied while it is extended; reuse of nodes |
| `SharedResourcesRegistry`, `-Acquirer`, legacy and `one::` modules | uses per resource, mutexes, locking order per module | register, create, lock, unlock, temporaryUnlock, change of a module | deadlock; registration in any order; legacy modules exclude all others |
| `InputSource` | `state_`, the events, blocks and time that remain | nextItemType, the reads | limits at 0, 1, -1; a clock |
| ROOT input: `RootPrimaryFileSequence`, `RootFile`, `IndexIntoFile`, `EventSkipperByID`, `DuplicateChecker` | the open file, the iterator of its index, the events seen | next item, skipEvents, goToEvent, rewind by one | records of a block that are apart, empty or out of order, both directions |
| `EventProcessor`, the event loop | `nextTransitionMutex_`, the flags the streams share, the deferred exception | runToCompletion, readAndProcessEvent, processEventsForStreamAsync | streams race for the source; exceptions, signals and limits at any moment |
| `statemachine::Machine` (EPStates), `PrincipalCache` | the nested states and their members; the run and block held | reactions to File, Run, Lumi, Event, Stop, Restart; exit functions; destructors | hundreds of orders of items; exceptions from every call, also while cleaning up |
| output modules | `remainingEvents_` | doEvent, limitReached | counted by several streams |
| `Schedule`, `StreamSchedule`, `Path`, `Worker`, `EarlyDeleteHelper` | cached result of each worker per event, state of each path, readers left per product | processOneEvent, doWork, prefetch, moduleRan, pathFinished, checkForCorrectness | exceptions mapped to actions and seen again by other paths; products given up early |
| event selection | the lists of bits per process, the menu they were made for | initPathNames, acceptEvent | menus that change between events |
| `EventSetup` | interval of validity and cached data per record | eventSetupForInstance, get, resetProxies | stale data at the edge of an interval, records that depend on others |
| forked children (`EventProcessor::forkProcess`) | next index of the parent; chunk, limit and place of each child | ask, answer, skip, watch, wait, kill | the death of any process at any moment |
| message logger | the waiting messages, the turn | log, drain, shut up | threads share a queue without a lock |
| `ReusableObjectHolder` | the free objects, the count of outstanding ones | makeOrGet, add, return | lock-free pool |
| `GlobalSchedule`, `SubProcess`, `EDLooper` | as the above, per job | begin and end transitions, endOfLoop | repetition of a job |
| parameter sets, provenance, data formats, output and streamer files, plug-ins, FWLite, storage, Python configuration | data | conversions, look-ups | algorithms and I/O rather than interaction |

### How they interact

`EventProcessor::runToCompletion` asks the source for the type of the next item and hands it to the
state machine as an event. The states call back into the EventProcessor through `IEventProcessor`: open
and close files, read, begin, end, write and delete runs and blocks, read and process events. The last
of these starts one TBB task per stream; from then on the streams themselves ask the source for events,
one at a time under `nextTransitionMutex_`, until they meet something else. They leave it in
`nextItemTypeFromProcessingEvents_` for the main thread, which goes on when all of them are done.
Each stream runs the paths of its `StreamSchedule`; a worker calls its module, which for legacy and
`one::` modules first takes the module's mutex and then the mutexes of the resources it declared. A
module that asks for the product of an unscheduled module runs that module at once, on the same thread,
after giving back its resources. At the beginning and end of each run and block the `EventSetup` brings its
records up to date. A forked job runs this whole machinery in each child; the children's sources ask the parent for
chunks of events over sockets. `SerialTaskQueue` and `WaitingTaskList` are the primitives for tasks that
share a resource or wait for one.

### What makes each part correct

* Queue: one task at a time, in the order of the pushes; each task once; whatever left the queue ends;
  who waits gets control back; a pause keeps tasks from starting.
* Waiting list: no task before its signal, each exactly once, with the exception if there is one; no
  node used before its time or after; an `add` that meets a `doneWaiting` is not lost.
* Shared resources: conflicting modules exclude each other, no ring of threads waits, for every order of construction.
* Source and loop: the read that follows an answer finds what was announced; each event within the limits
  is processed once, in its own run and block, and a job that reports success lost none; exceptions are
  reported; a signal stops the job; the job ends.
* ROOT input: each selected run, block and event once, inside its own block, in the order asked for; a looper gets
  the event it asked for.
* State machine and cache: begin, end, write and delete come in order and once (a run that could not be saved is
  saved once more), files are open when needed, whatever
  a call throws the rest is cleaned up, no legal input reaches the error state, the cache holds what is named.
* Stream schedule: the trigger bits say what the modules did; a product goes exactly when nobody can read
  it any more; a schedule that cannot be run is refused.
* Event selection: an event is written exactly if one of the criteria accepts it, whatever the menu.
* EventSetup: intervals are exact, data are those of the present instant, what a module holds lasts.
* Forked job: every event goes to one child, none beyond the limit, none is lost without a failure; all end.
* Scribe and pool: each message once and by one thread at a time; each object in one hand.

## 2. The modules

| module | models | checked through |
|---|---|---|
| `SerialExecution` | what the queue promises: tasks run one at a time in order | refined by `SerialTaskQueue` |
| `SerialTaskQueue` | `SerialTaskQueue.{h,cc}`, one action per atomic access | `SerialTaskQueuePauses` |
| `WaitingTaskList` | `WaitingTaskList.{h,cc}`, one action per shared access | `MCWaitingTaskList` |
| `SharedResources` | registry, acquirers, `doEvent` of legacy and `one::` modules, `changeModule` | `MCSharedResources` |
| `InputSource` | the source and its limits; a job's input is a sequence of items | extended by `EventLoop` |
| `EventLoop` | the loop, the streams, one output module, signals, exceptions | `MCEventLoop` |
| `EventLoopSignal` | the loop with a record of what was read when the stop signal came | extended by `MCEventLoop` |
| `TransitionOrder` | the order of transitions that modules and files rely on | refined by `EPStates` |
| `EPStates` | every state and reaction of the machine | `EPStatesWithCache` |
| `PrincipalCache`, `EPStatesWithCache` | the cache, and the machine together with it | itself |
| `StreamSchedule` | a stream's paths, workers, exceptions, prefetching, early deletion | `MCStreamSchedule` |
| `ScheduleCheck` | `Schedule::checkForCorrectness` with boost's depth-first search | `MCParts`, itself |
| `EventSelector` | criteria, lists of bits, changing menus | `MCParts` |
| `EventSetup` | intervals, dependent records, proxies, transients, a looper | `MCEventSetup` |
| `IndexIntoFile`, `RootInput` | the index and its iterator; the sequence of files above it | `MCParts` |
| `MessageLoggerScribe` | the scribe's queue and turn | `MCParts` |
| `ReusableObjectHolder` | the pool, one action per atomic access | `MCParts` |
| `Forking` | parent and children | `MCParts` |
| `SerialTaskQueueProofs`, `WaitingTaskListProofs`, `SharedResourcesProofs`, `EventLoopProofs`, `EPStatesProofs`, `StreamScheduleProofs`, `EventSetupProofs` | theorems about the module they are named after | TLAPS |
| `PartsProofs` | theorems about `ReusableObjectHolder`, `MessageLoggerScribe`, `EventSelector`, `ScheduleCheck` and `Forking` | TLAPS |

**SerialTaskQueue.** `pc[t]` is where a thread is in `pickNextTask`; `task[t]` the task whose `execute` it is
inside, so that a pick on behalf of a finishing task (whose result TBB runs next on the same thread) differs
from one of a push or a resume (whose result is spawned). The second half of the
condition `0 == m_pauseCount and not m_taskChosen.test_and_set()` is an action of its own: pauses and clears
come in between. TBB is represented by the set of spawned tasks and by `Execute`, which any idle thread
may do, a thread in `pushAndWait` too.

**WaitingTaskList.** The nodes have identities (a cell of one of the arrays, or a node from `new`), so that
use after the end of a node can be seen. `MayReset` is the owner's duty, as the header states it.

**SharedResources.** A configuration gives each module the names it declares and the unscheduled modules it
asks. Construction is a sequence of `RegisterSharedResource`, in every order of the modules. A thread has
a stack of `doEvent` frames, since an unscheduled module runs within its caller. Recursive mutexes are held
by threads: `BlockedBy` says who waits for whom. Unlocking is one step, as it never waits. `mutex[r]` counts the mutexes the
registry has made for a name, so that one that was replaced differs from its successor. An exchanged module registers again all it
declares; the others keep their acquirers.

**InputSource.** Three of the item types of the source are promoted by `nextItemType` so that a file comes
before runs, and so on; `Promoted` is that rule. `lumiLimitReached` reads the clock, which `Rampdown` moves.
The contents of events and the format of the index are left out.

**EventLoop.** A stream's task goes through "loop" (shouldWeStop and the flag of an exception), "lock" (all
that happens up to the read, under the mutex), "read", "recheck", "process", "count" (the decrement of the
output module), or by "caught" and "store" out of it. `openRun` and `openLumi` stand for the state machine:
what it does with a continued run or block is `OnlyRunsSinceFile`, what else it does is in `EPStates`.

**EPStates.** A reaction is a list of calls to the EventProcessor. The list is what the code would do from
there on: destructors and `exit` of the states that are left, the transition action, the constructors of
those entered. `CallReturns` makes one call and updates the members the code updates with it. `Throws` ends the
list and starts the unwinding: `Destroy` runs the destructors from the innermost state out, each with its own
list of calls, where another exception only ends that list. `runException_` says whether the destructor of
`HandleRuns` does anything: readRun, beginRun and endRun set it for as long as they last, and `finalizeRun` sets it
("flagRun") but has it cleared again by its own `endRun`. The variables `file`, `outputs`, `run`, `lumi` and
`abandoned` are what the calls have done so far, and the refinement mapping to `TransitionOrder`.
`EPStatesWithCache` adds the run and block of the source's last items and the cache: what is read carries the
source's numbers, what is ended or deleted those the machine keeps, and a call the cache refuses throws (`Refused`).

**StreamSchedule.** `stack` holds the workers inside `doWork`, innermost last, each with what it still has to
prefetch; `worker` the cached state of each per event. `ret` is what a `doWork` just returned, and the path (or the
worker that prefetched) takes it in a step of its own. An exception is known by the action its category has. The result
of a filter on an end path is ignored but for those `@filters_on_endpaths` allows. The construction of the readers'
lists (`initializeEarlyDelete`) is the first step; `phase` = "aborted" is a failed assert.

**ScheduleCheck.** The graph's edges, the colours and the trail of boost's search, and the detector's own stack; the
order in which a vertex's out-edges are looked at is that of the code's containers. `Runnable` is the reference.

**EventSelector.** A criterion is the set of names its text matches with its modifiers, not its text. A menu is a
list of names; each event of the earlier process may come with another one.

**EventSetup.** An instant is a number; a source is a table of intervals. The finders are operators; records that depend on
records are asked by a recursive function over the records (`Asked`). The code goes through the records in the order of their keys, and a
record that needs another interval asks those it depends on first, whatever that order; so each record is asked for itself and again for each
of those, which changes nothing but transient data at the end of a block (`Synced`). A step-by-step form in four orders of the keys was compared
with this one by TLC and has the same states. The content of a product is the set of source intervals it was made from,
so that stale data can be told from fresh.

**IndexIntoFile, RootInput.** A file is a list of records as an output module adds them; sorting, the iterator's moves in
both directions and `findPosition` are operators over its index, the sequence of files, skipping and duplicates
actions over them. `Items`, `Unique` and `InOrder` are the reference: what the parameters select, by its definition.

**MessageLoggerScribe, ReusableObjectHolder.** One action per access to the concurrent queue, the flag or the counter.

**Forking.** The parent's thread that answers requests, its main thread with its two waits, and the children with
the part of the source that skips; sockets and pipes hold what was written and not read. `Fail` and `ParentDies` may come at any moment.
A child that was told to stop ends with `errors::CaughtSignal`, so that its parent counts it as failed (`EndedBadly`).

## 3. The runs

| run | bounds | shows |
|---|---|---|
| SerialTaskQueue | 3 threads, 2 tasks, 1 pause at a time | exclusion, order, termination of chosen tasks and waits |
| WaitingTaskList | 3 threads, 3 tasks, 1 cached node, 2 rounds | each task once and in time, no dangling node |
| SharedResources | 3 threads, 5 jobs of up to 5 modules, 4 names, 1 exchange | exclusion, no deadlock |
| EventLoop | 3 streams, 12 inputs, 2 exceptions, 1 signal | no event lost or doubled, barriers, exceptions, end of the job |
| EPStates | 2 runs, 2 blocks, 12 configurations, any number of items | order of the calls, nothing left open, the cache holds what is used, loops end |
| StreamSchedule | 40 configurations of 7 modules and 3 products, 2 events | trigger bits, early deletion, the asserts |
| EventSetup | 4 records, 2 runs, 30 sets of tables, 1 extra loop | exact intervals, current data, transients |
| Parts | six parts that share nothing: 3 modules on up to 2 paths of up to 3; two criteria and 3 menus; one file with a move or two small files; scribe with 3 threads, 4 messages, 1 exception; pool with 3 users and 5 objects; forked jobs with 2 children and 2 failures | the properties of each |
| SerialTaskQueueStranded, EventLoopOutputLimit, StreamScheduleFirstPut, ScheduleCheckMissedCycle | as small as shows it | a disagreement each, see below |

Why the bounds are enough to be of interest: the queue's critical race takes a thread that found nothing, one that
pushed, and a third; a waiting list with one cached node and three tasks uses both kinds of nodes and
grows its cache at the reset, and three threads let an add, another add and an announce overlap; two
users of the same two names, a callee, a legacy module and a single user give every branch of the
registry; three streams let one hold the source, one throw and one work; the inputs have a split
block, empty runs, a run that continues over files and blocks without events; the machine is checked over
all sequences of items, as the model has no bound on their number. Two events show what a stream forgets between
events; the paths put each reader before, after and without its producer, on paths of both kinds. Two runs of
four instants give every way intervals of two sources can overlap at an edge. The small files have empty blocks,
a block in two records and events out of order. Two children with two failures lose a child, both, or a child and the parent;
the chunk sizes divide the input or not, and the limit falls inside a chunk.

The action constraint of `MCWaitingTaskList` only fixes names: tasks enter in one order of their names, and a call is made by
one of the idle threads. `MCParts` starts in one of its parts, and the others stay as they are.

`CHECK_DEADLOCK FALSE` stands where the system may stop: a queue without work, a list after its last round, a job
that has ended. `MCSharedResources`, `MCStreamSchedule` and `MCEventSetup` check deadlock: there another event, or another
block, may always come or the model says where it ends.

**Fairness.** Threads inside a lock-free call, a stream's task, a call of the machine, the destructors and the processes of a
forked job are run by the operating system or by the program itself: weak fairness. Spawned tasks are taken up by idle
threads that keep turning up: strong fairness of `Execute`, since each idle thread may first do something
else. A client never has to call, a module never has to throw, a process never has to fail, a signal never has to come. The mutex
`nextTransitionMutex_` needs no more than weak fairness for `JobEnds`: a stream that
never gets it leaves it to one that reads on, and the inputs are finite. `ForkFairness` gives each child its steps and the
parent's thread the handling of each child's descriptors, which `select` reports as long as they are ready.

**What is assumed of the environment.** `resume` answers a `pause`; a task is pushed once and is added to one list
once; `reset` as its header asks; the source delivers what an index can hold (`ItemsInOrder`), or, in
`EPStates`, anything `nextItemType` can answer (`NextItems`); a ROOT file can be opened and has a run; some own source
of a record that depends on others always has an interval (`OwnSourcesAnswer`), and
no record depends on itself; unscheduled modules do not consume one another's products in a circle (`CallsEnd`), which
`Schedule::checkForCorrectness` refuses except where disagreement 4 says; the descriptors of a forked job can be made, and there are few enough for `select`.

### Disagreements between the code and what it says

With a run each:

1. *SerialTaskQueueStranded.* A thread finds the queue empty and clears the flag; another pushed meanwhile and failed
   to get the flag; the first looks again, but a third thread, just as late, took the flag to find
   the queue empty as well. Nobody looks after the last clear (line 81), so a task may stay until the next push.
2. *EventLoopOutputLimit.* The test and the decrement of `remainingEvents_` are outside the mutex: 1 becomes -1,
   which stands for no limit.
3. *StreamScheduleFirstPut.* When the paths that read a product end before its producer runs on a later path, the product is
   marked deleted, and its first put is refused as a second one.
4. *ScheduleCheckMissedCycle.* The check looks at one cycle per back edge; a cycle closed by a forward edge escapes it.

Met while modelling or proving, without a run of their own:

* Locking order is computed from counts that an exchange of a module changes (Schedule.cc:978): the new acquirer is sorted by the
  new counts, the others by the old ones, while SharedResourcesRegistry.cc:92 says "Consistent sorting avoids deadlocks". One exchange
  adds one to each count the new acquirer is sorted by, and keeps the order (`NoRingOfThreads`); two are enough for opposite
  orders, and so is one of a module that declares both the legacy resource and others. TLC finds the ring with `MaxChanges = 2` and two modules
  that use the resources 1 and 2, a third user of 1 and a third of 2.
* A thread that had tested the pause count starts a task after `pause()` has returned;
  `PauseOvertakenOnlyByLatePicks` says how far this goes: once per thread that was past the test. `isPaused()`
  returns the opposite of its comment (SerialTaskQueue.h:75-78).
* `announce` reads `m_fromCache` of a node after it spawned its task (WaitingTaskList.cc:168); a reset
  caused by that task may have freed the node. `MayReset` waits for the announce to be over.
* Entries of a block count, not blocks (InputSource.cc:316); the assert of `readFile` reads the clock again (line 269).
* Streams that are past the test of the limit each write one more event than an output module may.
* The early deletion asks for the kept products before `selectProducts` has chosen them, and compares branch names with and
  without the final period (StreamSchedule.cc:263-268).
* A cached exception on an end path is raised before the `try` that would apply the actions (Worker.h:467).
* After an exception of a destination `m_messageBeingSent` stays true: messages wait until the scribe ends.
* When one of the sources of a record lapses the interval may still begin where it did, and the record keeps its data and its cache
  identifier (EventSetupRecordProvider.cc:215, against EventSetupRecord.h:165). Some of the tables of `MCEventSetup` lapse in this way (`Lapsing`); what
  `DataAreCurrent` and `HeldDataLast` promise there is that the parts of the data from all other sources are current
  (`Lasting`). A dependent record whose own source
  begins late is bounded by the others alone (DependentRecordIntervalFinder.cc:91-131): `OwnSourcesAnswer` excludes it.
* `finalizeRun` sets `runException_`, but its `endRun` clears it (EPStates.cc:243), so `writeRun` and `deleteRunFromCache` throw with the flag
  down. When that happens at the transition to the next item, the destructor of `HandleRuns` writes and drops the run a second time; if a
  sub-process threw after the cache had dropped the run, the cache refuses that second `writeRun`, and the destructor swallows the
  exception. `TransitionOrder` has this as `FailToSave`, `WriteAgain` and `DeleteAgain`, `CacheHoldsWhatIsUsed` as its one exception.
  No comment, document or test says what should happen there. `writeLumi` has no such gap, as the flag of blocks stays set.
* A record that others depend on may be asked twice for one instant; at the end of a block the second time already drops
  what was got transiently, although EventSetupRecordProvider.cc:191-193 waits for "the first event of a new run".
* A forked job with `continueAfterChildFailure` whose children have all failed returns as if it had ended well, with events that
  nobody was given; `EventsSharedOut` allows for it.
* An empty file between others makes a backward `skipEvents` loop for ever; going back from before the first selected
  event ends the job; `wasFirstEventJustRead` and `wasLastEventJustRead` ignore the event skipper;
  `firstEventEntryThisLumi` lowers its count once per record (IndexIntoFile.cc:1249-1253).
* A criterion with the short form `&noex` is refused as if it had the modifier twice (EventSelector.cc:149 looks at the other position).

## 4. The proofs

Each theorem holds for every value of the constants that satisfies the named assumptions of the module. The
invariants were checked by TLC on the instances above before they were proved.

**SerialTaskQueueProofs**: `TypeCorrect`, `Exclusion`, `Placement`, `Refinement`, for any sets of threads and tasks and any bound
on pauses. `MutualExclusion` is not inductive: a thread that passes `test_and_set` must find nobody else there, so the flag
itself has to be tied to the threads between a successful test and the clear, and to a spawned task that carries
the flag through TBB. That is `FlagHeld`; with `TypeOK`, `OnePlace` and `RunHasTask` (who runs has a task) it
makes `IInv`. `TaskStep` sorts the steps into those that push, pick, end, or do none of it; it serves both
`PlaceStep` and `Refinement`, whose four cases are the abstract `Submit`, `Begin`, `End` and a stutter.
`PausesHold` (PauseOvertakenOnlyByLatePicks) is about the history variables of `SerialTaskQueuePauses`: whoever picks after a pause was past the test of
the count when it came (`PastTheTest`), so a pick takes one thread from those that may still do so (`LateStep`, `ChosenByLate`).

**WaitingTaskListProofs**: `ReleasedOnceAndInTime` (NotBeforeDone), `ExceptionForAll` (ExceptionReachesAll), `NodesExist`
(NoDanglingNode), for any threads, finite set of tasks, size of the cache and number of rounds. None of the three is inductive:
that a task is let go once rests on there being one way to its node. So the pointers to nodes that wait (the head, a thread's
`node` or `following`, `m_next` of another such node) are tracked: each points to a node that waits (`PointersWait`), and no two to
the same. `TaskInv` and `NodeInv` tie tasks to nodes, `RoundInv` says how signal, exception and walk follow one another.

**SharedResourcesProofs**: `ModulesExclude` (ResourceExclusion) and `MutexesStay` (MutexesAlive), for any job, threads and number of exchanges.
`Counts` says what the registry's counts tell of the modules that registered without counting them: a resource is in the map exactly if
some module declares it, and its count exceeds one if two do, or one and a legacy module. So two modules in conflict
both take a resource (`MustTake`, `CommonMutex`), and with the same mutex, as a resource that has one gets no other. `StackInv` says
that no two threads hold the same mutex and that a module at work holds all of its acquirer. `CanBeSorted` proves that the
order `createAcquirer` chooses exists, by counting what comes before each name. `NoRingOfThreads` (NoDeadlock) has no hypothesis about the job or
the number of exchanges. It says, of every state, that no ring of threads waits where the acquirers in use are sorted alike (`SortedAlike`) and
unscheduled modules do not need one another in a circle (`NeedsAreAcyclic`): among threads that all wait for one another, one
would wait for a last resource, or for a module that needs no other. It also says that the acquirers are sorted alike until the first exchange, and
after one exchange unless a module declares the legacy resource with others (`CountedOnce`). So it tells where the rings are that
the disagreements describe: only where an exchange has left two acquirers in use with opposite orders.

**PartsProofs**, the pool: `HolderSafe` (ObjectsHaveOneUser), for any finite set of users. A user that found the queue empty will make an object whatever
comes back meanwhile, so `RoomForMade` counts those users with the objects; `OneUser` and `NoneLost` give each object one place, and
`RightCount` says what `m_outstandingObjects` counts.

**EventLoopProofs**: `ReadsFindItems`, `ProcessedOnce`, `Reported`, `Barriers`, for any number of streams, ordered inputs, limits,
exceptions and signals. The invariant says that what the main thread and the streams were told is what lies under the iterator
(`InStep`, `Announced`), that streams work only while the main thread waits and that the mutex has one holder (`StreamsWait`),
that the deferred exception is stored before the last stream is done (`Deferred`), and that no event is in two streams (`EventsHeld`).

`NothingIsLost` (NothingLost) compares what was written with the whole input, so it has a second invariant: the limits left are the first ones less
the entries read (`Counted`), each event read is written or in the hand of a stream or of a job that fails (`EventsKept`), the output module's
count goes down apart from that (`OutputCounted`), and a source that says it is at its end has a reason (`StopsForAReason`): its input, a limit or the
time. The first event that was left out then lies behind a block that was left out (`EventsFollowABlock`), which only a limit does. An earlier form of the
property counted distinct blocks, while the source counts entries of blocks: the attempt to prove it, and then TLC with an input that has a split block,
showed it false, and it now says entries. `SignalStops` (SignalStopsReading) holds as streams look at the signal before each read under
the mutex: only the stream that was past the look reads once more (`OnlyTheCommittedRead`, `NobodyReadsNext`).

**EPStatesProofs**: `ItemsAreExpected` (NeverUnexpected), for any run and block numbers and items, whatever throws; the same of the machine
with its cache (`ItemsAreExpectedWithCache`), which takes only steps of the machine alone (`MachineWithCache`). `LeafFollowsSource` says which
item each state can have behind it, so that no state sees what it has no reaction to; `EndingLoopGoesOn` that EndingLoop
never waits for the source: it has `endOfLoop` to call or posted the event that takes it out.

`MachineImplementsOrder` (CallsInOrder) is the refinement of `TransitionOrder`, `TerminatedIsClean` (NothingLeftOpen) that a machine that has terminated
left nothing open. The abstract order has the second saving of a run after a failed one (`FailToSave`, `WriteAgain`,
`DeleteAgain`), and no other call about anything abandoned. The machine plans a list of calls and then makes them one at
a time, while the abstract order looks at each
call alone; so the invariant `PlanInv` ties what is done to what is planned. Every list is in one order of the calls (`Rank`, `CallsSorted`), so
a list is known by the set of its calls (`Todo`), and a call that returns is the least of them. `RunPlan`, `LumiPlan` and `FilePlan` say how far the run, the
block and the files are, given the calls left; `DepthPlan` and `ExitPlan` what the nested states are responsible for and what exit() has done already, so that
the destructor does not do it again; `LeafPlan` where the list leads; `Failures` what a call that threw leaves behind. One lemma per call
(`EndRunReturns` and so on) shows that its return keeps the plan, one per reaction and for the destructors that the new list fits what is open
(`Resting`, what the machine has open between two items). TLC checked the invariant on all 287,172 states of the run.

`CacheAgreesWithMachine` (CacheHoldsWhatIsUsed) adds what the cache holds (`CacheHolds`) and where the source is (`SourceFollowed`): what a
planned call will read is what the state took from the item, so each call names the run and block the cache has, but for the second `writeRun` of a run
the cache has let go of.

**StreamScheduleProofs**: for any configurations with finitely many modules and products, and any number of events.
  `PlaceInv` and `StackInv` say where the stream is:
a path calls a worker only while none is called, and the workers on the stack are all undecided and different, as a circle of calls would be one of unscheduled
modules that consume one another (`FramesDiffer`, from `CallsEnd`). `DeleteInv` says what the counts of the early deletion count: a reader is gone
(`IsGone`) when it has run or all its places lie in paths that ended early; a product's count is the number of readers left, a reader's the number of its
places still open. From it follow `ReadersFindProducts` (NoReadAfterDelete), as a module on the stack is not gone; `DeletedInTime`
(DeletedWhenLastReaderIsDone); and that no count falls below zero (`NoAssertFails`, AssertionsHold). `BitsFollowModules`
(TriggerBitsFollowModules) rests on `BitsInv`: the bit of a path that is over is that of the first module
that decides it, or of all (`BitRight`), and stays so, because a worker that has decided does not change within the event (`BitsStay`).

**PartsProofs**, the scribe: `ScribeKeepsMessages` (MessagesKept), for any threads and messages. The turn has one owner
(`OneOwner`), each message one place (`Hands`, `Places`), and nothing is dropped without an exception or the message that shuts
the scribe up, nor waits when the job is over (`Lossless`).

**PartsProofs**, event selection: `SelectionIsByCriteria` (AcceptedByACriterion), for any criteria and menus. `Decision` proves that the lists of
bits decide as the criteria do one by one, `AllAccepted` that three criteria for `*` accept whatever happened; `SelectorInv` says for
which menu the lists of each process were made when an event is decided.

**PartsProofs**, forked children: `SharedOut` (EventsSharedOut), for any finite number of children, input, limit, chunk size and number of failures.
The invariant ties the place of each child to the chunks it was given (`InChunk`), the chunks to the next index of the parent
(`Shares`), the counts to both (`Counts`), and says why each process came to its end (`Ends`): an event that a returned job has not
processed lies below the place of any child with a regular end, so it was sent, and to a child that failed.

**PartsProofs**, the check of the schedule: `RefusalIsJustified` (RefusedForACycle), for any number of modules, paths
  and modules on a path. A depth-first search that
meets a grey vertex has met a cycle if the grey vertices are those of the trail and each edge of the trail leaves the vertex the one
before it entered (`TrailIsGray`), and the detector's own stack is the trail (`StackIsTrail`), with all its edges in the graph
(`LookedAtAreEdges`). What it reports is the part of the stack behind the grey vertex, and closes (`TrailCloses`, `EndsInCycle`). That each job with a
circle is refused does not hold (disagreement 4).

**EventSetupProofs**: `EventSetupTypes`; `IntervalsExact` (IntervalsAreExact), `DataCurrent` (DataAreCurrent), `HeldLast` (HeldDataLast), `TransientsAreDropped`
(TransientsDropped), for any finite set of records, any sources, tables, dependencies without a circle, numbers of runs in any order and loops. Of the first
three the only hypothesis is `OwnSourcesAnswer`, which TLC evaluates for the instance (`SourcesAssumption`). `Flags`
says what the flags of a record mean between two steps. `LeastRecord` stands for induction along the dependencies: of
records for which something fails there is one that depends on none of them; with it `AskedIs` shows that the recursion of `Asked` has a
value. `IntervalOfIntervals` proves that narrowing the narrowed intervals of the records depended on gives the interval of all the answers below, `FoundIsExact`
that the finders do that, and `AnswersLast` why a record need not ask while its interval holds: none of the answers below it can have changed. `MadeIsContent`
shows that, whatever is cached, what is made is what the sources below say (`Content`), and `AnswersGoOn` that what a source
that goes on has in it stays while the interval begins at the same instant, the only thing the code looks at. Both are about the lasting part of the
data, as of a source that has lapsed the data may be old, which the disagreements say.

`MutualExclusion`, `OnePlace`, `RunsSerially`, `PauseOvertakenOnlyByLatePicks`; `NotBeforeDone`, `ExceptionReachesAll`, `NoDanglingNode`; `ReadFindsItem`,
`EventsProcessedOnce`, `ExceptionsReported`, `TransitionsAreBarriers`, `NothingLost`, `SignalStopsReading`;
`MessagesKept`; `ObjectsHaveOneUser`; `EventsSharedOut`;
`AcceptedByACriterion`; `NeverUnexpected`, `CallsInOrder`, `NothingLeftOpen`, `CacheHoldsWhatIsUsed`; `ResourceExclusion`, `NoDeadlock`;
`TriggerBitsFollowModules`, `NoReadAfterDelete`, `AssertionsHold`, `DeletedWhenLastReaderIsDone`; `RefusedForACycle`;
`IntervalsAreExact`, `DataAreCurrent`, `HeldDataLast`, `TransientsDropped` are thus both
checked and proved. Type correctness is part of each invariant; `TypeCorrect` states it for the queue, `EventSetupTypes` for the EventSetup.
`MutexesAlive` is proved only.

Only model-checked: the liveness properties (the prover knows no fairness); `IndexIntoFile` and `RootInput`, whose
operators are recursive, so that no theorem can be stated of them.

## 5. Plan

Done: the queue, the waiting list, shared resources, source and event loop, the state machine with the cache, the stream schedule
with early deletion, the check of the schedule, event selection, the EventSetup, the index and ROOT input, forked
children, scribe and pool; the proofs above.

Left, in this order:

1. `EPStates` with empty and unopenable files of `RootInput` below it; begin and end transitions of `GlobalSchedule`
   and of the paths, with the modules' `beginStream` to `endStream`.
2. `SubProcess` as a second consumer of the transitions; the looper's controller inside an event.
3. Random-number replay, the registry of parameter sets, process histories and their reduction.

## 6. Not modelled

See the components of `PROJECT.json` for the list with reasons. The repository is large, and most of it has no behaviour
over time that a model could tell apart: file formats and storage (pure I/O), plug-ins
(the dynamic linker), parameter sets, data formats and provenance (values), FWLite (one thread), the Python configuration
(before the job), command-line tools and test modules. The models cover the part where threads, processes, exceptions and the order of calls matter.

Within what is modelled: sub-processes in the event loop, `IsSynchronize` and skipping in `InputSource` (skipping is in `RootInput`
and `Forking`), the acquirer of a delayed reader, the text of messages; in `RootInput` empty and unopenable
files, changes of run numbers, secondary files, `checkEachRealDataFile`, ranges of events without a block,
`firstEventEntryThisRun` and the saved states of a source; in `EventSetup` intervals that are in time for one source and in runs for another
(DependentRecordIntervalFinder.cc:136-212), producers shared by sub-processes, `es_prefer`, one producer callback for several records; in `StreamSchedule`
timers, summaries and run and block transitions; in `Forking` a chunk size of 0, failures of the set-up, `too_many_fds` and
errors on descriptors.
