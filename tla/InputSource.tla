----------------------------- MODULE InputSource -----------------------------
(***************************************************************************)
(* edm::InputSource (FWCore/Framework): what comes next from the input,     *)
(* under the limits on events and luminosity blocks.  The input itself is a *)
(* sequence of items, as the file sequence of IOPool/Input delivers them:   *)
(* a file, then the entries of its index (runs, luminosity blocks, events). *)
(* An item is [type, run, lumi]; what an event holds is abstracted away.    *)
(***************************************************************************)
EXTENDS Integers, Sequences

CONSTANT Jobs \* the jobs tried: [items, maxEvents, maxLumis, timed, outMax], -1 for no limit

ItemTypes == {"Invalid", "Stop", "File", "Run", "Lumi", "Event"}

\* An index lists every run before its luminosity blocks and every block
\* before its events, and each file starts with its own runs.
ItemsInOrder(entries) ==
  /\ entries[1].type = "File"
  /\ \A i \in 2 .. Len(entries) :
        LET before == entries[i-1] now == entries[i] IN
        /\ now.type = "Run"   => before.type \in {"File", "Run", "Lumi", "Event"}
        /\ now.type = "Lumi"  => /\ before.type \in {"Run", "Lumi", "Event"}
                                 /\ before.run = now.run
        /\ now.type = "Event" => /\ before.type \in {"Lumi", "Event"}
                                 /\ before.run = now.run
                                 /\ before.lumi = now.lumi

Limits == Nat \cup {-1}
ASSUME JobsAreInputs ==
  \A j \in Jobs : /\ j.items \in Seq([type : ItemTypes, run : Nat, lumi : Nat]) \ {<<>>}
                  /\ \A i \in DOMAIN j.items : j.items[i].type \in {"File", "Run", "Lumi", "Event"}
                  /\ ItemsInOrder(j.items)
                  /\ {j.maxEvents, j.maxLumis, j.outMax} \subseteq Limits
                  /\ j.timed \in BOOLEAN

VARIABLES job,             \* the job: its input, maxEvents_ and maxLumis_ of the source
          pos,             \* the index iterator: the next item not read yet
          state,           \* state_
          remainingEvents, \* remainingEvents_
          remainingLumis,  \* remainingLumis_
          elapsed          \* maxSecondsUntilRampdown_ is set (job.timed) and over

sourceVars == <<job, pos, state, remainingEvents, remainingLumis, elapsed>>

InitSource ==
  /\ job \in Jobs
  /\ pos = 1
  /\ state = "Invalid"
  /\ remainingEvents = job.maxEvents
  /\ remainingLumis = job.maxLumis
  /\ elapsed = FALSE

items == job.items

\* getNextItemType of the source: the type of the entry under the iterator
Upcoming == IF pos <= Len(items) THEN items[pos].type ELSE "Stop"

eventLimitReached == remainingEvents = 0
lumiLimitReached  == remainingLumis = 0 \/ elapsed
limitReached      == eventLimitReached \/ lumiLimitReached

\* The promotion that puts a file before the first run, a run before the first
\* luminosity block and so on: no item lies deeper than its predecessor allows.
Levels == <<"File", "Run", "Lumi", "Event">>
Level(type) == CHOOSE i \in 1 .. 4 : Levels[i] = type
DeepestAfter(old) ==
  CASE old = "Invalid" -> 1 [] old = "File" -> 2 [] old = "Run" -> 3 [] OTHER -> 4
Promoted(old, new) ==
  IF Level(new) < DeepestAfter(old) THEN new ELSE Levels[DeepestAfter(old)]

\* nextItemType: once the limit of luminosity blocks is reached only the events
\* of the open block are left.
NextItemIgnoringLumis ==
  IF eventLimitReached \/ Upcoming = "Stop" THEN "Stop" ELSE Promoted(state, Upcoming)
NextItem ==
  IF \/ eventLimitReached
     \/ Upcoming = "Stop"
     \/ lumiLimitReached /\ (state \in {"Invalid", "File", "Run"} \/ Upcoming # "Event")
  THEN "Stop"
  ELSE Promoted(state, Upcoming)

\* The clock: lumiLimitReached reads it every time it is asked.
Rampdown ==
  /\ job.timed /\ ~elapsed
  /\ elapsed' = TRUE
  /\ UNCHANGED <<job, pos, state, remainingEvents, remainingLumis>>

NextItemType ==
  /\ state' = NextItem
  /\ UNCHANGED <<job, elapsed, pos, remainingEvents, remainingLumis>>

Less(n) == IF n > 0 THEN n - 1 ELSE n

ReadFile ==
  /\ pos' = pos + 1
  /\ UNCHANGED <<job, elapsed, state, remainingEvents, remainingLumis>>

ReadRun ==
  /\ pos' = pos + 1
  /\ UNCHANGED <<job, elapsed, state, remainingEvents, remainingLumis>>

\* readLuminosityBlock and readAndMergeLumi: both count against the limit
ReadLumi ==
  /\ pos' = pos + 1
  /\ remainingLumis' = Less(remainingLumis)
  /\ UNCHANGED <<job, elapsed, state, remainingEvents>>

ReadEvent ==
  /\ pos' = pos + 1
  /\ remainingEvents' = Less(remainingEvents)
  /\ UNCHANGED <<job, elapsed, state, remainingLumis>>

\* The asserts of InputSource::readEvent and of RootFile::readEvent.
CanReadEvent == state = "Event" /\ ~eventLimitReached /\ Upcoming = "Event"

SourceTypeOK ==
  /\ job \in Jobs
  /\ pos \in 1 .. Len(items) + 1
  /\ state \in ItemTypes
  /\ {remainingEvents, remainingLumis} \subseteq Limits
  /\ elapsed \in BOOLEAN
=============================================================================
