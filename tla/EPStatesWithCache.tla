-------------------------- MODULE EPStatesWithCache --------------------------
(***************************************************************************)
(* The state machine of EPStates and the cache of principals its calls     *)
(* fill, look into and empty (EventProcessor::readRun and so on).  What is  *)
(* read comes from the source with the numbers of its last run and block    *)
(* items, the other calls name the run and block that the machine keeps.    *)
(***************************************************************************)
EXTENDS EPStates, PrincipalCache

VARIABLES sourceRun, sourceLumi \* the run and block of the source's last items

sourceVars == <<sourceRun, sourceLumi>>
allVars == <<vars, cacheVars, sourceVars>>

InitAll == Init /\ InitCache /\ sourceRun = 0 /\ sourceLumi = 0

\* Whether the cache lets the call through
Accepts(call) ==
  CASE call = "readRun" -> CanInsertRun
    [] call = "readAndMergeRun" -> HoldsRun(sourceRun)
    [] call = "readLuminosityBlock" -> CanInsertLumi(sourceRun)
    [] call = "readAndMergeLumi" -> HoldsLumi(sourceRun, sourceLumi)
    [] call = "readAndProcessEvent" -> HoldsLumi(sourceRun, sourceLumi)
    [] call \in {"beginRun", "endRun", "writeRun", "deleteRunFromCache"} -> HoldsRun(currentRun)
    [] call \in {"beginLumi", "endLumi", "writeLumi", "deleteLumiFromCache"} ->
         HoldsLumi(currentRun, currentLumi)
    [] OTHER -> TRUE

\* Mutant: the block stays in the cache.
CacheStepKeepingLumi(call) ==
  CASE call = "readRun" -> InsertRun(sourceRun)
    [] call = "readLuminosityBlock" -> InsertLumi(sourceRun, sourceLumi)
    [] call = "deleteRunFromCache" -> DeleteRun(currentRun)
    [] OTHER -> UNCHANGED cacheVars

CacheStep(call) ==
  CASE call = "readRun" -> InsertRun(sourceRun)
    [] call = "readLuminosityBlock" -> InsertLumi(sourceRun, sourceLumi)
    [] call = "deleteRunFromCache" -> DeleteRun(currentRun)
    [] call = "deleteLumiFromCache" -> DeleteLumi(currentRun, currentLumi)
    [] OTHER -> UNCHANGED cacheVars

ReturnsWithCache ==
  CallReturns /\ Accepts(Head(calls)) /\ CacheStep(Head(calls)) /\ UNCHANGED sourceVars

\* What is read is inserted last; a delete may throw in a sub-process after it was done.
ThrowsWithCache ==
  /\ CallThrows
  /\ \/ UNCHANGED cacheVars
     \/ Head(calls) \in {"deleteRunFromCache", "deleteLumiFromCache"} /\ CacheStep(Head(calls))
  /\ UNCHANGED sourceVars

NextAll ==
  \/ \E r \in RunNumbers : OnRun(r) /\ sourceRun' = r /\ UNCHANGED <<sourceLumi, cacheVars>>
  \/ \E l \in LumiNumbers : OnLumi(l) /\ sourceLumi' = l /\ UNCHANGED <<sourceRun, cacheVars>>
  \/ (OnFile \/ OnEvent \/ OnStop \/ OnRestart \/ SourceThrows \/ Destructor)
       /\ UNCHANGED <<cacheVars, sourceVars>>
  \/ ReturnsWithCache \/ ThrowsWithCache

\* A call that the cache refuses throws a LogicError.
Refused ==
  calls # <<>> /\ ~Accepts(Head(calls)) /\ CallThrows /\ UNCHANGED <<cacheVars, sourceVars>>
MachineMoves ==
  ReturnsWithCache \/ Refused \/ (Destructor /\ UNCHANGED <<cacheVars, sourceVars>>)
PostedMoves == PostedEvent /\ UNCHANGED <<cacheVars, sourceVars>>
FairSpecAll ==
  InitAll /\ [][NextAll]_allVars /\ WF_allVars(MachineMoves) /\ WF_allVars(PostedMoves)

\* The machine deals with the run and block that the cache holds: no call is refused with a
\* LogicError ("Contact a Framework Developer"), nor do the assertions of processEvent fail,
\* whatever the items of the source and whatever threw.  The one exception is the second
\* writing of a run by the destructor of HandleRuns, when dropping it threw in a sub-process
\* after the cache had let go of it.
CacheHoldsWhatIsUsed ==
  calls # <<>> /\ ~Accepts(Head(calls)) =>
    Head(calls) = "writeRun" /\ run = "unsaved" /\ ~runPrincipal /\ unwinding
=============================================================================
