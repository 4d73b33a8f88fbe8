---------------------------- MODULE StreamSchedule ----------------------------
(***************************************************************************)
(* How one stream processes its events (FWCore/Framework/src):             *)
(* StreamSchedule runs the trigger paths and then the end paths, a Path     *)
(* its workers in order, a Worker its module once per event, after the      *)
(* products the module consumes were prefetched, which runs the             *)
(* unscheduled producers.  An exception is known by the action configured   *)
(* for its category.  EarlyDeleteHelper gives a product up when its last    *)
(* reader ran or cannot be reached any more.                                *)
(***************************************************************************)
EXTENDS Integers, Sequences, FiniteSets, SequencesExt

CONSTANTS
  Modules, Products,
  producer,       \* [Products -> Modules]
  Configurations, \* see ConfigurationsAreWellFormed
  MaxEvents       \* bound on the events of a behaviour

Actions == {"SkipEvent", "Rethrow", "IgnoreCompletely", "FailPath"}

\* A place in a path is a module with how its result counts: as it is, negated ('!') or
\* not at all ('-').
Places == [m : Modules, filterAction : {"Normal", "Veto", "Ignore"}]

ConfigurationShape(c) ==
  /\ c.trig_paths \in Seq(Seq(Places)) /\ c.end_paths \in Seq(Seq(Places))
  /\ c.consumes \in [Modules -> Seq(Products)]         \* prefetched, in this order
  /\ c.mightGet \in [Modules -> SUBSET Products]       \* the modules' mightGet parameter
  /\ c.kept \in [Modules -> SUBSET Products]           \* chosen by an output module's rules
  /\ c.filters \subseteq Modules /\ c.filters_on_endpaths \subseteq c.filters
  /\ c.outputs \subseteq Modules
  /\ c.selectEvents \in [c.outputs -> SUBSET (1..Len(c.trig_paths))] \* {}: all events
  /\ c.canDeleteEarly \subseteq Products

ASSUME ConfigurationsAreWellFormed ==
  /\ IsFiniteSet(Modules) /\ IsFiniteSet(Products)
  /\ producer \in [Products -> Modules] /\ MaxEvents \in Nat
  /\ \A c \in Configurations : ConfigurationShape(c)

VARIABLES
  config,
  phase,       \* "construct", "select", "idle", "trig", "end", "stopped", "aborted"
  endpathsAreActive,
  place,       \* [path, at]: the path being run and the workers of it that were called
  stack,       \* the workers inside doWork, innermost last: [m, todo (still to prefetch)]
  ret,         \* what a doWork just returned: "none", "true", "false" or an action
  worker,      \* Worker::state_, and for state Exception the action of the cached exception
  results,     \* HLTGlobalStatus: of each trigger path its state and the deciding index
  status,      \* of each product its ProductStatus
  deletable,   \* the products with an early-delete counter
  keptProducts,\* what OutputModule::keptProducts returns
  count,       \* BranchToCount
  pathsLeft,   \* EarlyDeleteHelper::pathsLeftToComplete_ of each module
  events,      \* events begun
  ran, stopped, put \* of this event: modules whose doEvent was called, paths that ended early
                    \* without an exception, products put so far
delVars == <<deletable, keptProducts>>
ghosts == <<ran, stopped, put>>
vars == <<config, phase, endpathsAreActive, place, stack, ret, worker, results, status,
          delVars, count, pathsLeft, events, ghosts>>

Scheduled(c) ==
  {p.m : p \in UNION {ToSet(s) : s \in ToSet(c.trig_paths) \cup ToSet(c.end_paths)}}
\* Modules on no path are run for the products they make, if they can make any.
Unscheduled(c) == Modules \ (Scheduled(c) \cup c.outputs)
\* Schedule::checkForCorrectness refuses modules that consume one another's products in a circle,
\* as calls of them would never end.
ASSUME CallsEnd ==
  \A c \in Configurations : \A ms \in (SUBSET Unscheduled(c)) \ {{}} :
    \E m \in ms : \A b \in ToSet(c.consumes[m]) : producer[b] \notin ms

Readers(b) == {m \in Modules : b \in config.mightGet[m]}
Deletes(m) == config.mightGet[m] \cap deletable

\* fillWorkers: the result of a filter on an end path is ignored, unless it is allowed there.
filterActionOf(c, p, isEndPath) ==
  IF isEndPath /\ p.m \in c.filters \ c.filters_on_endpaths THEN "Ignore" ELSE p.filterAction

PathsOf(c, ph) == IF ph = "trig" THEN c.trig_paths ELSE c.end_paths
Paths(ph) == PathsOf(config, ph)
ThePath == Paths(phase)[place.path]
\* Paths without modules are not built.
NextPath(ph, p) ==
  LET s == Paths(ph)
  IN  CHOOSE q \in (p + 1)..(Len(s) + 1) :
        /\ q \in DOMAIN s => s[q] # <<>>
        /\ \A r \in (p + 1)..(q - 1) : s[r] = <<>>
InPath == phase \in {"trig", "end"} /\ place.path \in DOMAIN Paths(phase)

\* The places of a module in the paths of some kinds.
PlacesIn(c, phs, m) ==
  UNION {UNION {{<<ph, p, i>> : i \in {j \in DOMAIN PathsOf(c, ph)[p] : PathsOf(c, ph)[p][j].m = m}} :
                  p \in DOMAIN PathsOf(c, ph)} : ph \in phs}

\* Mutant: the end paths are not told about the helpers.
nPathsOnTriggerPaths(c, m) == Cardinality(PlacesIn(c, {"trig"}, m))

nPathsOn(c, m) == Cardinality(PlacesIn(c, {"trig", "end"}, m))

\* Mutant: the helpers are not reset.
ResetCountsOnly(c, del) ==
  /\ count' = [b \in Products |->
       IF b \in del THEN Cardinality({m \in Modules : b \in c.mightGet[m]}) ELSE 0]
  /\ UNCHANGED pathsLeft

ResetCounts(c, del) ==
  /\ count' = [b \in Products |->
       IF b \in del THEN Cardinality({m \in Modules : b \in c.mightGet[m]}) ELSE 0]
  /\ pathsLeft' = [m \in Modules |->
       IF c.mightGet[m] \cap del # {} THEN nPathsOn(c, m) ELSE 0]

Init ==
  /\ config \in Configurations /\ phase = "construct" /\ endpathsAreActive = TRUE
  /\ place = [path |-> 0, at |-> 0] /\ stack = <<>> /\ ret = "none"
  /\ worker = [m \in Modules |-> "Ready"]
  /\ results = [p \in DOMAIN config.trig_paths |-> [state |-> "Ready", index |-> 0]]
  /\ status = [b \in Products |-> "default"]
  /\ deletable = {} /\ keptProducts = [m \in Modules |-> {}]
  /\ count = [b \in Products |-> 0] /\ pathsLeft = [m \in Modules |-> 0]
  /\ events = 0 /\ ran = {} /\ stopped = {} /\ put = {}

-----------------------------------------------------------------------------
(* Construction *)

\* The names of canDeleteEarly have no final period, those of BranchDescription have one.
Listed(b) == <<b>>
branchName(b) == <<b, ".">>

\* The products that are not kept by an output module and that some module might get.
InitializeEarlyDelete ==
  /\ phase = "construct" /\ phase' = "select"
  /\ deletable' = {b \in config.canDeleteEarly :
       /\ Readers(b) # {}
       /\ \A o \in config.outputs : \A k \in keptProducts[o] : branchName(k) # Listed(b)}
  /\ ResetCounts(config, deletable')
  /\ UNCHANGED <<config, endpathsAreActive, place, stack, ret, worker, results, status,
                 keptProducts, events, ghosts>>

SelectProducts ==
  /\ phase = "select" /\ phase' = "idle"
  /\ keptProducts' = [m \in Modules |-> IF m \in config.outputs THEN config.kept[m] ELSE {}]
  /\ UNCHANGED <<config, endpathsAreActive, place, stack, ret, worker, results, status,
                 deletable, count, pathsLeft, events, ghosts>>

-----------------------------------------------------------------------------
(* Early deletion *)

\* moduleRan by each of a set of modules; the assertion on the counts, and the deletions.
ModulesRan(ms) ==
  LET users(b) == {m \in ms : b \in Deletes(m)}
      after(b) == count[b] - Cardinality(users(b))
  IN  [ok      |-> \A b \in Products : after(b) >= 0,
       count   |-> [b \in Products |-> after(b)],
       deleted |-> {b \in Products : users(b) # {} /\ after(b) = 0}]

Give(helpers, newStatus, next) ==
  LET after == ModulesRan(helpers)
  IN  /\ count' = after.count
      /\ status' = [b \in Products |-> IF b \in after.deleted THEN "deleted" ELSE newStatus[b]]
      /\ phase' = IF after.ok THEN next ELSE "aborted"

-----------------------------------------------------------------------------
(* Worker::doWork *)

isEndPath == phase = "end"

\* What the catch of doWork makes of an exception: in an end path some are ignored.
ActionFor(e, scheduled) ==
  IF isEndPath /\ ((e = "SkipEvent" /\ scheduled) \/ e = "FailPath")
  THEN "IgnoreCompletely" ELSE e

\* The worker of the innermost frame ends by an exception.
Catch(m, e) ==
  LET action == ActionFor(e, Len(stack) = 1)
      ignored == action = "IgnoreCompletely"
  IN  /\ worker' = [worker EXCEPT ![m] = IF ignored THEN "Pass" ELSE action]
      /\ ret' = IF ignored THEN "true" ELSE action
      /\ stack' = Front(stack)

accepted(paths) == paths = {} \/ \E p \in paths : results[p].state = "Pass"
prePrefetchSelection(m) == m \in config.outputs => accepted(config.selectEvents[m])

itemsToGetFromEvent(m) ==
  IF m \in config.outputs THEN SetToSeq(keptProducts[m]) ELSE config.consumes[m]

\* doWork of m: a state other than Ready is the answer, a cached exception before any
\* handling; an output module that does not want the event passes.
DoWork(m) ==
  IF worker[m] # "Ready"
  THEN /\ ret' = CASE worker[m] = "Pass" -> "true" [] worker[m] = "Fail" -> "false"
                   [] OTHER -> worker[m]
       /\ UNCHANGED <<worker, stack>>
  ELSE IF prePrefetchSelection(m)
  THEN /\ stack' = Append(stack, [m |-> m, todo |-> itemsToGetFromEvent(m)])
       /\ UNCHANGED <<ret, worker>>
  ELSE /\ ret' = "true" /\ worker' = [worker EXCEPT ![m] = "Pass"]
       /\ UNCHANGED stack

\* The next item of the innermost worker: a deleted product is an exception, a product of an
\* unscheduled module that was not asked for yet is a call of that module.
Prefetch ==
  /\ stack # <<>> /\ ret = "none" /\ Last(stack).todo # <<>>
  /\ LET m == Last(stack).m
         b == Head(Last(stack).todo)
         rest == Append(Front(stack), [m |-> m, todo |-> Tail(Last(stack).todo)])
     IN  CASE status[b] = "deleted" -> Catch(m, "Rethrow")
           [] status[b] = "default" /\ producer[b] \in Unscheduled(config) -> DoWork(producer[b])
           [] OTHER -> stack' = rest /\ UNCHANGED <<ret, worker>>
  /\ UNCHANGED <<config, phase, endpathsAreActive, place, results, status, delVars, count,
                 pathsLeft, events, ghosts>>

\* The unscheduled module returned to the resolver: without a product its status is failed.
PrefetchReturned ==
  /\ stack # <<>> /\ ret # "none"
  /\ LET m == Last(stack).m
         b == Head(Last(stack).todo)
     IN  /\ status' = IF status[b] = "default" THEN [status EXCEPT ![b] = "failed"] ELSE status
         /\ IF ret \in {"true", "false"}
            THEN /\ stack' = Append(Front(stack), [m |-> m, todo |-> Tail(Last(stack).todo)])
                 /\ ret' = "none" /\ UNCHANGED worker
            ELSE Catch(m, ret)
  /\ UNCHANGED <<config, phase, endpathsAreActive, place, results, delVars, count,
                 pathsLeft, events, ghosts>>

Outcomes(m) == {"true"} \cup Actions \cup (IF m \in config.filters THEN {"false"} ELSE {})

\* implDo: the module runs and puts its products, which fails if one is not in its first
\* status; in any case its early-delete helper is told.
ImplDo(outcome) ==
  /\ stack # <<>> /\ ret = "none" /\ Last(stack).todo = <<>>
  /\ LET m == Last(stack).m
         mine == {b \in Products : producer[b] = m}
         refused == \E b \in mine : status[b] # "default"
         good == outcome \in {"true", "false"}
         puts == IF good /\ ~refused THEN mine ELSE {}
     IN  /\ outcome \in Outcomes(m)
         /\ IF good /\ ~refused
            THEN /\ worker' = [worker EXCEPT ![m] = IF outcome = "true" THEN "Pass" ELSE "Fail"]
                 /\ ret' = outcome /\ stack' = Front(stack)
            ELSE Catch(m, IF good THEN "Rethrow" ELSE outcome)
         /\ Give({m}, [b \in Products |-> IF b \in puts THEN "set" ELSE status[b]], phase)
         /\ pathsLeft' = [pathsLeft EXCEPT ![m] = 0]
         /\ ran' = ran \cup {m} /\ put' = put \cup puts
  /\ UNCHANGED <<config, endpathsAreActive, place, results, delVars, events, stopped>>

-----------------------------------------------------------------------------
(* Path::processOneOccurrence *)

\* The next worker of the path.
RunWorker ==
  /\ InPath /\ stack = <<>> /\ ret = "none"
  /\ place' = [place EXCEPT !.at = @ + 1]
  /\ DoWork(ThePath[place.at + 1].m)
  /\ UNCHANGED <<config, phase, endpathsAreActive, results, status, delVars, count, pathsLeft,
                 events, ghosts>>

\* Mutant: only a negation is looked at.
PathGoesOnUnlessIgnored(value) ==
  LET a == filterActionOf(config, ThePath[place.at], isEndPath)
  IN  IF a = "Veto" THEN value = "false" ELSE value = "true"

\* WorkerInPath::runWorker
PathGoesOn(value) ==
  LET a == filterActionOf(config, ThePath[place.at], isEndPath)
  IN  CASE a = "Veto" -> value = "false" [] a = "Ignore" -> TRUE [] OTHER -> value = "true"

recordStatus(state) ==
  results' = IF isEndPath THEN results
             ELSE [results EXCEPT ![place.path] = [state |-> state, index |-> place.at - 1]]

\* handleEarlyFinish: the helpers of the path's modules, one call for each place.
PlacesOf(m) == Cardinality({i \in DOMAIN ThePath : ThePath[i].m = m})
\* Mutant: without the test that paths are left.
UnreachableAgain == {m \in Modules : PlacesOf(m) > 0 /\ PlacesOf(m) >= pathsLeft[m]}
Unreachable == {m \in Modules : pathsLeft[m] > 0 /\ PlacesOf(m) >= pathsLeft[m]}
Lowered == [m \in Modules |-> IF PlacesOf(m) >= pathsLeft[m] THEN 0 ELSE pathsLeft[m] - PlacesOf(m)]

\* The worker just called returned, and the path continues, ends or, by an exception whose
\* action is FailPath, fails.
WorkerReturned ==
  /\ InPath /\ stack = <<>> /\ ret \in {"true", "false", "FailPath"}
  /\ ret' = "none"
  /\ LET should_continue == ret # "FailPath" /\ PathGoesOn(ret)
         last == place.at = Len(ThePath)
     IN  /\ IF should_continue /\ ~last
            THEN UNCHANGED <<place, results>>
            ELSE /\ recordStatus(IF should_continue THEN "Pass" ELSE "Fail")
                 /\ place' = [path |-> NextPath(phase, place.path), at |-> 0]
         /\ IF should_continue
            THEN UNCHANGED <<phase, status, count, pathsLeft, stopped>>
            ELSE /\ Give(Unreachable, status, phase) /\ pathsLeft' = Lowered
                 /\ stopped' = stopped \cup {<<phase, place.path>>}
  /\ UNCHANGED <<config, endpathsAreActive, stack, worker, delVars, events, ran, put>>

-----------------------------------------------------------------------------
(* StreamSchedule::processOneEvent *)

EnableEndPaths ==
  /\ phase = "idle" /\ events < MaxEvents /\ endpathsAreActive' = ~endpathsAreActive
  /\ UNCHANGED <<config, phase, place, stack, ret, worker, results, status, delVars, count,
                 pathsLeft, events, ghosts>>

StartEvent ==
  /\ phase = "idle" /\ events < MaxEvents /\ events' = events + 1
  /\ phase' = "trig" /\ place' = [path |-> NextPath("trig", 0), at |-> 0]
  /\ worker' = [m \in Modules |-> "Ready"]
  /\ results' = [p \in DOMAIN results |->
       [state |-> IF config.trig_paths[p] = <<>> THEN "Pass" ELSE "Ready", index |-> 0]]
  /\ status' = [b \in Products |-> "default"]
  /\ ran' = {} /\ stopped' = {} /\ put' = {}
  /\ UNCHANGED <<config, endpathsAreActive, stack, ret, delVars, count, pathsLeft>>

EndEvent ==
  /\ phase' = "idle" /\ place' = [path |-> 0, at |-> 0]
  /\ ResetCounts(config, deletable)

\* The trigger paths are over, the TriggerResults are inserted, and the end paths follow.
AfterTriggerPaths ==
  IF endpathsAreActive
  THEN /\ phase' = "end" /\ place' = [path |-> NextPath("end", 0), at |-> 0]
       /\ UNCHANGED <<count, pathsLeft>>
  ELSE EndEvent

TriggerPathsEnd ==
  /\ phase = "trig" /\ ~InPath
  /\ AfterTriggerPaths
  /\ UNCHANGED <<config, endpathsAreActive, stack, ret, worker, results, status, delVars,
                 events, ghosts>>

EndPathsEnd ==
  /\ phase = "end" /\ ~InPath /\ EndEvent
  /\ UNCHANGED <<config, endpathsAreActive, stack, ret, worker, results, status, delVars,
                 events, ghosts>>

\* An exception leaves a path (the path notes it): out of the trigger paths SkipEvent only
\* skips the rest of them and two actions cannot occur, anything else ends the job.
PathThrows ==
  /\ InPath /\ stack = <<>> /\ ret \notin {"none", "true", "false", "FailPath"}
  /\ ret' = "none" /\ recordStatus("Exception")
  /\ IF phase = "trig" /\ ret = "SkipEvent"
     THEN AfterTriggerPaths
     ELSE /\ phase' = IF phase = "trig" /\ ret = "IgnoreCompletely" THEN "aborted" ELSE "stopped"
          /\ UNCHANGED <<place, count, pathsLeft>>
  /\ UNCHANGED <<config, endpathsAreActive, stack, worker, status, delVars, events, ghosts>>

Done ==
  /\ phase \in {"stopped", "aborted"} \/ (phase = "idle" /\ events = MaxEvents)
  /\ UNCHANGED vars

Next ==
  \/ InitializeEarlyDelete \/ SelectProducts \/ EnableEndPaths \/ StartEvent
  \/ RunWorker \/ Prefetch \/ PrefetchReturned
  \/ \E outcome \in Actions \cup {"true", "false"} : ImplDo(outcome)
  \/ WorkerReturned \/ PathThrows \/ TriggerPathsEnd \/ EndPathsEnd
  \/ Done

Spec == Init /\ [][Next]_vars

-----------------------------------------------------------------------------
(* Properties *)

\* Types of the variables.
Frames == [m : Modules, todo : Seq(Products)]
TypeOK ==
  /\ config \in Configurations /\ endpathsAreActive \in BOOLEAN /\ events \in 0..MaxEvents
  /\ phase \in {"construct", "select", "idle", "trig", "end", "stopped", "aborted"}
  /\ place \in [path : Nat, at : Nat]
  /\ stack \in Seq(Frames)
  /\ ret \in {"none", "true", "false"} \cup Actions
  /\ worker \in [Modules -> {"Ready", "Pass", "Fail"} \cup Actions]
  /\ results \in [DOMAIN config.trig_paths ->
                 [state : {"Ready", "Pass", "Fail", "Exception"}, index : Nat]]
  /\ status \in [Products -> {"default", "set", "failed", "deleted"}]
  /\ deletable \subseteq Products /\ keptProducts \in [Modules -> SUBSET Products]
  /\ count \in [Products -> Nat] /\ pathsLeft \in [Modules -> Nat]
  /\ ran \subseteq Modules /\ stopped \subseteq {"trig", "end"} \X Nat /\ put \subseteq Products

\* What a path's status should be, from the results of its modules alone: the first module
\* that stops the path decides.
Decides(p, i) ==
  LET w == worker[config.trig_paths[p][i].m]
      a == config.trig_paths[p][i].filterAction
  IN  w \in Actions \/ (w = "Fail" /\ a = "Normal") \/ (w = "Pass" /\ a = "Veto")
ExpectedStatus(p) ==
  LET path == config.trig_paths[p]
      stops == {i \in DOMAIN path : Decides(p, i)}
      first == Min(stops)
  IN  IF path = <<>> THEN [state |-> "Pass", index |-> 0]
      ELSE IF stops = {} THEN [state |-> "Pass", index |-> Len(path) - 1]
      ELSE [state |-> IF worker[path[first].m] \in Actions \ {"FailPath"}
                      THEN "Exception" ELSE "Fail",
            index |-> first - 1]

\* When the output modules read the trigger bits, the bit of each path and the index of the
\* module that decided it follow from what the modules answered, wherever they ran first;
\* paths after one that skipped the event are marked as not run.
TriggerBitsFollowModules ==
  phase = "end" =>
    LET thrown == {p \in DOMAIN results : results[p].state = "Exception"}
    IN  \A p \in DOMAIN results :
          \/ results[p] = ExpectedStatus(p)
          \/ (\E q \in thrown : p > q) /\ results[p] = [state |-> "Ready", index |-> 0]

\* No product is deleted while a module that declared to read it has been started but has
\* not run: it may be waiting for a module that is called for another of its products.
NoReadAfterDelete ==
  \A k \in DOMAIN stack : \A b \in config.mightGet[stack[k].m] : status[b] # "deleted"

\* The asserts of moduleRan (a count is positive) and of processOneEvent (an exception that
\* leaves the trigger paths is neither to be ignored nor a failure of a path) never fail.
AssertionsHold == phase # "aborted"

\* Between two paths a product with a counter is gone exactly if each of its readers ran or
\* sits only in paths that ended before it, so nothing is held longer than needed.
OutOfReach(m) ==
  /\ m \in Scheduled(config)
  /\ \A ph \in {"trig", "end"} : \A p \in DOMAIN Paths(ph) :
       (\E i \in DOMAIN Paths(ph)[p] : Paths(ph)[p][i].m = m) => <<ph, p>> \in stopped
DeletedWhenLastReaderIsDone ==
  phase \in {"trig", "end"} /\ place.at = 0 =>
    \A b \in deletable :
      (status[b] = "deleted") <=> (\A m \in Readers(b) : m \in ran \/ OutOfReach(m))

\* ProducedProductResolver::putProduct_ refuses a product as "more than one product on
\* branch": that should happen only to a second one.
OnlySecondPutsFail ==
  stack # <<>> /\ ret = "none" /\ Last(stack).todo = <<>> =>
    \A b \in Products : producer[b] = Last(stack).m /\ status[b] # "default" => b \in put
=============================================================================
