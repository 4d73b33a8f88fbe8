----------------------------- MODULE EventSetup -----------------------------
(***************************************************************************)
(* The EventSetup: records of conditions data, each with an interval of    *)
(* validity (IOV), looked up again at the beginning and at the end of      *)
(* every run and luminosity block                                          *)
(* (EventSetupProvider::eventSetupForInstance).  The interval of a record  *)
(* comes from its sources (EventSetupRecordIntervalFinder), intersected    *)
(* when there are several (IntersectingIOVRecordIntervalFinder), and from  *)
(* the records it depends on (DependentRecordIntervalFinder).  Data are    *)
(* made when first asked for and stay cached (DataProxy) until the record  *)
(* moves to another interval, a looper resets it, the option               *)
(* forceEventSetupCacheClearOnNewRun clears it, or, for data asked for     *)
(* only through ESTransientHandle, until the luminosity block has ended.   *)
(*                                                                         *)
(* An instant (IOVSyncValue) is a number; 0 is invalidIOVSyncValue, which  *)
(* is smaller than every other.  All values here are run/lumi/event        *)
(* values: the mixing of time-only and run-only intervals                  *)
(* (DependentRecordIntervalFinder.cc:136-212) is left out.  A record has   *)
(* one product; its content is the set of source intervals it was made     *)
(* from.                                                                   *)
(***************************************************************************)
EXTENDS Naturals, FiniteSets, FiniteSetsExt

CONSTANTS
    Records,        \* the records of the job
    Sources,        \* the plug-ins that know intervals of records
    Configurations, \* what a job may have: the tables of its sources, and more
    MaxRuns,        \* bound: runs that the sources' intervals cover
    MaxLoops        \* bound: times a looper changes data

ASSUME BoundsAssumption == MaxRuns \in Nat \ {0} /\ MaxLoops \in Nat /\ IsFiniteSet(Records)

VARIABLES
    job,    \* the configuration, never changed after the beginning
    record, \* the EventSetupRecordProvider of every record
    now,    \* syncValue_, 0 before the first
    loop,   \* iCounter_ of the looper, which changes the data of job.modifying
    held    \* what a module that called get through an ESHandle holds on to

vars == <<job, record, now, loop, held>>

(* A run is four instants: it begins, its block begins, the block ends, it *)
(* ends.  The event number of the first two is 0.                          *)
Instants == 1 .. 4 * MaxRuns
BeginsRun(t) == t % 4 = 1
EndsRun(t) == t % 4 = 0
IsBegin(t) == t % 4 \in {1, 2}

(* Runs come in the order of the files, in any order, and may have no      *)
(* block.                                                                  *)
Follows(t) == IF t = 0 \/ EndsRun(t) THEN {u \in Instants : BeginsRun(u)}
              ELSE {t + 1} \cup (IF BeginsRun(t) THEN {t + 3} ELSE {})

---------------------------------------------------------------------------
(* Intervals.  The end of one may be unknown: 0. *)

Invalid == <<0, 0>>
Always == <<1, 4 * MaxRuns>>
ValidFor(i, t) == i[1] <= t /\ t <= i[2]
OpenEnded(i) == <<i[1], 0>>

Holds(i, t) == i[1] <= t /\ (i[2] = 0 \/ t <= i[2])

(* A job: a source has intervals, of which one at most holds at an instant; *)
(* no record depends on itself, directly or not, as each record class names *)
(* classes it depends on (DependentRecordImplementation).                   *)
Tables == {T \in SUBSET {i \in Instants \X (Instants \cup {0}) : i[2] = 0 \/ i[1] <= i[2]} :
             \A i, j \in T : (\E t \in Instants : Holds(i, t) /\ Holds(j, t)) => i = j}

ASSUME ConfigurationsAssumption ==
    \A c \in Configurations :
        /\ c.table \in [Sources -> Tables]
        /\ c.sources \in [Records -> SUBSET Sources]
        /\ c.dependsOn \in [Records -> SUBSET Records]
        /\ c.forceClear \in BOOLEAN /\ c.modifying \subseteq Records
        /\ \E depth \in [Records -> 0 .. Cardinality(Records)] :
              \A r \in Records : \A d \in c.dependsOn[r] : depth[d] < depth[r]

(* findIntervalFor of source f, a plug-in: the interval of its table that  *)
(* holds t.  The finders keep their last answer (intervals_) and give it   *)
(* again while it holds; the intervals of a table are disjoint, so that it *)
(* is the answer a source would give.                                      *)
SourceInterval(f, t) ==
    LET holding == {i \in job.table[f] : Holds(i, t)}
    IN IF holding = {} THEN Invalid ELSE CHOOSE i \in holding : TRUE

(* The instants that all of the intervals hold: 0 is smaller than any.     *)
Narrowed(intervals) == <<Max({i[1] : i \in intervals}), Min({i[2] : i \in intervals})>>

(* IntersectingIOVRecordIntervalFinder::setIntervalFor *)
Intersection(answers) ==
    LET valid == answers \ {Invalid}
        narrowed == Narrowed(valid \cup {Always})
        unknownEnding == \E i \in answers : i[2] = 0
    IN IF valid = {} THEN Invalid ELSE IF unknownEnding THEN OpenEnded(narrowed) ELSE narrowed

(* What the sources of record r say at t: their intersection if there are  *)
(* several (usePreferred), which is the answer of the only one otherwise.  *)
FromSources(r, t) == Intersection({SourceInterval(f, t) : f \in job.sources[r]})

(* Slip: closed although a record depended on has no interval.             *)
DependentIntervalClosed(own, provided) ==
    LET valid == ({own} \cup provided) \ {Invalid}
    IN IF valid = {} THEN Invalid ELSE Narrowed(valid)

(* DependentRecordIntervalFinder::setIntervalFor: own is the interval of   *)
(* the alternate finder, provided those of the records depended on.        *)
DependentInterval(own, provided) ==
    LET valid == ({own} \cup provided) \ {Invalid}
        narrowed == Narrowed(valid \cup {Always})
    IN IF valid = {} THEN Invalid ELSE IF Invalid \in provided THEN OpenEnded(narrowed) ELSE narrowed

---------------------------------------------------------------------------
(* One record *)

None == {<<>>}
NewRecord == [interval |-> Invalid, lastSyncWasBeginOfRun |-> TRUE, present |-> FALSE, data |-> None,
              nonTransient |-> FALSE, transientAccess |-> FALSE, unchanged |-> TRUE]

(* DataProxy::invalidate, with EventSetupRecord::cacheReset: the cache     *)
(* identifier is no longer the one a module has seen.                      *)
Reset(p) == [p EXCEPT !.data = None, !.nonTransient = FALSE,
                      !.transientAccess = FALSE, !.unchanged = FALSE]

(* Slips: data asked for through an ESHandle too are dropped; or none.     *)
ResetTransientsOfAll(p) ==
    IF ~p.transientAccess THEN p ELSE [p EXCEPT !.transientAccess = FALSE, !.data = None]
ResetTransientsFlagOnly(p) == [p EXCEPT !.transientAccess = FALSE]

(* EventSetupRecordProvider::resetTransients, DataProxy::resetIfTransient   *)
ResetTransients(p) ==
    IF ~p.transientAccess THEN p
    ELSE [p EXCEPT !.transientAccess = FALSE, !.data = IF p.nonTransient THEN @ ELSE None]

(* newInterval and cacheReset if the first instant of the interval found   *)
(* is another one.                                                         *)
Moved(p, interval) ==
    LET q == [p EXCEPT !.interval = interval]
    IN IF interval[1] # 0 /\ interval[1] # p.interval[1] THEN Reset(q) ELSE q

(* setValidityIntervalFor of r, provided being the intervals that the      *)
(* records it depends on have when they have been asked.                   *)
SetValidityIntervalFor(before, r, t, provided) ==
    LET begun == IF before.lastSyncWasBeginOfRun THEN before ELSE ResetTransients(before)
        p == [begun EXCEPT !.lastSyncWasBeginOfRun = IsBegin(t)]
        own == FromSources(r, t)
    IN IF ValidFor(p.interval, t) THEN p
       ELSE Moved(p, IF job.dependsOn[r] = {} THEN own ELSE DependentInterval(own, provided))

(* All records asked.  One that needs another interval asks those it       *)
(* depends on first, whatever the order of the keys.                       *)
Asked(start, t) ==
    LET asked[r \in Records] ==
            SetValidityIntervalFor(start[r], r, t, {asked[d].interval : d \in job.dependsOn[r]})
    IN asked

(* So a record is asked for itself and again by each of those.  It answers *)
(* the same, but its transient data may go the second time; after that, to *)
(* be asked once more for this instant changes nothing.                    *)
Synced(start, t) ==
    LET asked == Asked(start, t)
        askedAgain == UNION {job.dependsOn[r] : r \in {s \in Records : ~ValidFor(start[s].interval, t)}}
    IN [r \in Records |->
            IF r \notin askedAgain THEN asked[r]
            ELSE SetValidityIntervalFor(asked[r], r, t, {asked[d].interval : d \in job.dependsOn[r]})]

---------------------------------------------------------------------------
(* The content of data: what the producer of r makes now from the answers  *)
(* of its sources and from the data of the records it depends on, which it *)
(* gets (made now if they are not cached).                                 *)

(* What is reached from r by steps of next.                                *)
Reached(next, r) ==
    {s \in Records : \A closed \in SUBSET Records :
        (r \in closed /\ \A x \in closed : next[x] \subseteq closed) => s \in closed}

Generation(r) == IF r \in job.modifying THEN loop ELSE 0

Own(r) == {<<f, SourceInterval(f, now)[1], Generation(r)>> :
              f \in {g \in job.sources[r] : SourceInterval(g, now) # Invalid}}

(* The records whose data are made, or found, when that of r is got.       *)
Touched(r, cache) ==
    Reached([s \in Records |-> IF cache[s] # None THEN {}
                               ELSE {d \in job.dependsOn[s] : record[d].present}], r)

Made(r, cache) == UNION {IF cache[s] # None THEN cache[s] ELSE Own(s) : s \in Touched(r, cache)}

Fresh(r) == Made(r, [s \in Records |-> None])

---------------------------------------------------------------------------
NotHeld == [r \in Records |-> None]

Init ==
    /\ job \in Configurations
    /\ record = [r \in Records |-> NewRecord]
    /\ now = 0
    /\ loop = 0
    /\ held = NotHeld

Watching(all) == [r \in Records |-> IF all[r].unchanged THEN held[r] ELSE None]

(* EventProcessor::beginRun, beginLumi, endLumi, endRun up to              *)
(* eventSetupForInstance, which adds every valid record.                   *)
EventSetupForInstance(t) ==
    LET start == IF job.forceClear /\ BeginsRun(t)
                 THEN [r \in Records |-> Reset(record[r])] ELSE record
        synced == Synced(start, t)
    IN /\ t \in Follows(now)
       /\ now' = t
       /\ record' = [r \in Records |-> [synced[r] EXCEPT !.present = synced[r].interval[1] # 0,
                                                       !.unchanged = TRUE]]
       /\ held' = Watching(synced)
       /\ UNCHANGED <<job, loop>>

(* A module gets the product of r through an ESHandle or an                *)
(* ESTransientHandle; the producer gets what it needs through ESHandles.   *)
(* The module remembers non-transient data with the cache identifier.      *)
Get(r, transiently) ==
    LET cache == [s \in Records |-> record[s].data]
        got == Touched(r, cache)
    IN /\ now # 0
       /\ record[r].present
       /\ record' = [s \in Records |->
            IF s \notin got THEN record[s]
            ELSE [record[s] EXCEPT !.data = Made(s, cache),
                                   !.nonTransient = @ \/ s # r \/ ~transiently,
                                   !.transientAccess = @ \/ (s = r /\ transiently)]]
       /\ held' = IF transiently THEN held ELSE [held EXCEPT ![r] = Made(r, cache)]
       /\ UNCHANGED <<job, now, loop>>

(* The records that decide about r: itself and all it depends on.          *)
Below(r) == Reached(job.dependsOn, r)

(* Slip: only the records that depend on r directly.                       *)
DependentsDirect(r) == {s \in Records : s = r \/ r \in job.dependsOn[s]}

(* r and all records that depend on it, directly or not (findDependents).  *)
Dependents(r) == {s \in Records : r \in Below(s)}

(* EDLooperBase::prepareForNextLoop: what the looper changed is dropped.   *)
PrepareForNextLoop ==
    LET reset == UNION {Dependents(r) : r \in job.modifying}
        after == [r \in Records |-> IF r \in reset THEN Reset(record[r]) ELSE record[r]]
    IN /\ now # 0 /\ EndsRun(now)
       /\ job.modifying # {}
       /\ loop < MaxLoops
       /\ loop' = loop + 1
       /\ record' = [r \in Records |-> [after[r] EXCEPT !.unchanged = TRUE]]
       /\ held' = Watching(after)
       /\ UNCHANGED <<job, now>>

Next ==
    \/ \E t \in Instants : EventSetupForInstance(t)
    \/ \E r \in Records, transiently \in BOOLEAN : Get(r, transiently)
    \/ PrepareForNextLoop

Spec == Init /\ [][Next]_vars

---------------------------------------------------------------------------
Intervals == (Instants \X (Instants \cup {0})) \cup {Invalid}
Data == (SUBSET (Sources \X Instants \X (0 .. MaxLoops))) \cup {None}
RecordState == [interval : Intervals, lastSyncWasBeginOfRun : BOOLEAN, present : BOOLEAN, data : Data,
                nonTransient : BOOLEAN, transientAccess : BOOLEAN, unchanged : BOOLEAN]

TypeOK ==
    /\ job \in Configurations
    /\ now \in {0} \cup Instants
    /\ loop \in 0 .. MaxLoops
    /\ record \in [Records -> RecordState]
    /\ held \in [Records -> Data]

Answering(c, f, t) == \E i \in c.table[f] : Holds(i, t)

(* What is assumed of the sources: one of a record that has sources though *)
(* it depends on other records always has an interval.                     *)
OwnSourcesAnswer ==
    \A c \in Configurations, r \in Records :
        (c.dependsOn[r] # {} /\ c.sources[r] # {})
            => \A t \in Instants : \E f \in c.sources[r] : Answering(c, f, t)

(* The answers that decide the interval of r: those of the sources of all  *)
(* records below; a record without any is one without an answer.           *)
OwnAnswers(r, t) == IF job.sources[r] = {} /\ job.dependsOn[r] = {} THEN {Invalid}
                    ELSE {SourceInterval(f, t) : f \in job.sources[r]}
Answers(r, t) == UNION {OwnAnswers(s, t) : s \in Below(r)}

(* The interval of a record is that of the answers its sources, and those  *)
(* of the records it depends on, give at this instant: the latest first    *)
(* instant, and the earliest last one, unknown if one is unknown or        *)
(* missing.  None is out of date although a record asks again only when    *)
(* its own interval is over (setIntervalFor of the two finders,            *)
(* EventSetupRecordProvider::setValidityIntervalFor).                      *)
IntervalOf(answers) ==
    LET valid == answers \ {Invalid}
    IN IF valid = {} THEN Invalid
       ELSE <<Max({i[1] : i \in valid}),
              IF \E i \in answers : i[2] = 0 THEN 0 ELSE Min({i[2] : i \in valid})>>
IntervalsAreExact ==
    now # 0 => \A r \in Records : record[r].interval = IntervalOf(Answers(r, now))

(* A source lapses if it has no interval after one.  The interval of a     *)
(* record may then begin where it did, and the record keeps what it made   *)
(* of that source (EventSetupRecordProvider.cc:215).  Of data these are    *)
(* the parts that come from sources that never lapse.                      *)
GoesOn(f) == \A i \in job.table[f], u \in Instants : i[1] <= u => Answering(job, f, u)
Lasting(data) == {d \in data : GoesOn(d[1])}

(* What a module can get of sources that go on is what a producer run at   *)
(* this instant would make, even where other sources have lapsed: never    *)
(* that of an interval that is over, nor of a record depended on that has  *)
(* moved, nor that from before the looper changed it.  (newInterval,       *)
(* resetProxies, and the order in which the records are brought up to      *)
(* date.)                                                                  *)
DataAreCurrent ==
    \A r \in Records : (record[r].present /\ record[r].data # None)
        => Lasting(record[r].data) = Lasting(Fresh(r))

(* As long as cacheIdentifier() is the one a module has seen when it got   *)
(* data through an ESHandle, the data it holds on to exist and are, but    *)
(* for sources that have lapsed, those of this instant ("If you are caching data from the Record, you should   *)
(* also keep this number", EventSetupRecord.h:165; ESWatcher).             *)
HeldDataLast ==
    \A r \in Records : (record[r].present /\ held[r] # None)
        => (Lasting(held[r]) = Lasting(Fresh(r)) /\ record[r].data = held[r])

(* Data asked for only through ESTransientHandle are not kept from one     *)
(* luminosity block to the next, and those got when a run begins are not   *)
(* made again for the block that begins after it                           *)
(* (lastSyncWasBeginOfRun_).                                               *)
TransientsDropped ==
    [][now' # now => \A r \in Records :
        /\ (~IsBegin(now) /\ IsBegin(now') /\ now # 0 /\ record[r].data # None
              /\ ~record[r].nonTransient)
             => record'[r].data = None
        /\ (IsBegin(now) /\ IsBegin(now') /\ record'[r].interval = record[r].interval)
             => record'[r].data = record[r].data]_vars
=============================================================================
