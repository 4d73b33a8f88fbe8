----------------------------- MODULE IndexIntoFile -----------------------------
(* The index of a ROOT file and the iterator over it.  The index has one     *)
(* entry per run and block record of the file, each block with its range of  *)
(* event entries; a run or block may have several records (files are         *)
(* merged), and all of them come together when the file is read.  The        *)
(* iterator goes through runs, blocks and events in the order of their first *)
(* appearance or of their numbers, and moves over events either way.         *)
(*                                                                           *)
(* A run here is a process history with a run number.  Indices are those of  *)
(* the code plus one, so that 0 is invalidIndex; indexToEvent counts from 0  *)
(* as it does there.                                                         *)
EXTENDS Integers, SequencesExt

FirstOf(S) == IF S = {} THEN 0 ELSE Min(S)
LastOf(S) == IF S = {} THEN 0 ELSE Max(S)

Before(s, t) == \E k \in DOMAIN s : s[k] < t[k] /\ \A j \in 1 .. k - 1 : s[j] = t[j]

\* The elements of a set in the order of their keys (TLC keeps the value of a concatenation).
Sorted(S, key(_)) ==
    LET keyed == {<<key(x), x>> : x \in S}
    IN  <<>> \o [k \in 1 .. Cardinality(S) |->
                   (CHOOSE p \in keyed : Cardinality({q \in keyed : Before(q[1], p[1])}) = k - 1)[2]]

-----------------------------------------------------------------------------
(* The index.  `records` is what an output module added, in order: records   *)
(* of blocks (lumi # 0, with the numbers of their events) and of runs.       *)

EventsBefore(records, i) == Cardinality(UNION {{k} \X DOMAIN records[k].events : k \in 1 .. i - 1})

\* addEntry: the records of each kind and the events are numbered as they come.
Entries(records) ==
    <<>> \o [i \in DOMAIN records |->
        [run |-> records[i].run, lumi |-> records[i].lumi,
         entry |-> Cardinality({j \in 1 .. i : (records[j].lumi = 0) = (records[i].lumi = 0)}),
         events |-> <<>> \o [k \in DOMAIN records[i].events |->
                                [entry |-> EventsBefore(records, i) + k, event |-> records[i].events[k]]]]]

\* runToFirstEntry and lumiToFirstEntry.
FirstEntry(entries, run, lumi) ==
    FirstOf({entries[i].entry : i \in {j \in DOMAIN entries : entries[j].run = run /\ entries[j].lumi = lumi}})

\* sortVector_Run_Or_Lumi_Entries: runs by their first record, in a run the records of the run,
\* then the blocks by their first record.
FirstAppearance(entries) ==
    LET key(e) == <<FirstEntry(entries, e.run, 0),
                    IF e.lumi = 0 THEN 0 ELSE FirstEntry(entries, e.run, e.lumi), e.entry>>
    IN  Sorted(ToSet(entries), key)

\* fillRunOrLumiIndexes, fillEventEntries and sortEventEntries: the records by run and block
\* number; every record of a block has all events of the block, by their numbers.
Numerical(entries) ==
    LET records == Sorted(ToSet(entries), LAMBDA e : <<e.run, e.lumi, e.entry>>)
        events(e) == UNION {ToSet(d.events) :
                            d \in {c \in ToSet(entries) : c.run = e.run /\ c.lumi = e.lumi}}
    IN  <<>> \o [i \in DOMAIN records |->
           [records[i] EXCEPT !.events = Sorted(events(records[i]), LAMBDA e : <<e.event, e.entry>>)]]

\* What an iterator of either order goes through.
View(entries, sorted) ==
    [sorted |-> sorted, list |-> IF sorted THEN Numerical(entries) ELSE FirstAppearance(entries)]

Indices(f) == DOMAIN f.list
Kind(f, i) == IF i \notin Indices(f) THEN "end" ELSE IF f.list[i].lumi = 0 THEN "run" ELSE "lumi"
SameRun(f, i, j) == {i, j} \subseteq Indices(f) /\ f.list[i].run = f.list[j].run
SameLumi(f, i, j) == {i, j} \subseteq Indices(f) /\ f.list[i].lumi = f.list[j].lumi
HasEvents(f, i) == f.list[i].events # <<>>

\* The records around i that belong to its block: those after it and those before it.
RestOfLumi(f, i) == {j \in Indices(f) : j > i /\ \A k \in i .. j : SameLumi(f, i, k) /\ Kind(f, k) = "lumi"}
StartOfLumi(f, i) == {j \in Indices(f) : j < i /\ \A k \in j .. i : SameLumi(f, i, k) /\ Kind(f, k) = "lumi"}

-----------------------------------------------------------------------------
(* The iterator: the next item's type, the first record of the run, that of  *)
(* the block, the record the events come from, the next event and the number *)
(* of events of that record.                                                 *)

NoPosition == [type |-> "end", run |-> 0, lumi |-> 0, range |-> 0, event |-> 0, n |-> 0]

\* The events of record i, from the first or from the last; 0 is a block without events.
AtFirstEvent(f, it, i) ==
    [it EXCEPT !.range = i, !.event = 0, !.n = IF i = 0 THEN 0 ELSE Len(f.list[i].events)]
AtLastEvent(f, it, i) ==
    [it EXCEPT !.range = i, !.event = Len(f.list[i].events) - 1, !.n = Len(f.list[i].events)]

\* initializeLumi_: the first record of the block that has events.
InitializeLumi(f, it, i) ==
    [AtFirstEvent(f, it, FirstOf({j \in {i} \cup (IF f.sorted THEN {} ELSE RestOfLumi(f, i)) : HasEvents(f, j)}))
     EXCEPT !.lumi = i]

\* initializeRun: the first block of the run.
InitializeRun(f, it, i) ==
    LET blocks == {j \in Indices(f) : j > i /\ Kind(f, j) = "lumi"
                                      /\ \A k \in i .. j : SameRun(f, i, k)}
        cleared == [NoPosition EXCEPT !.type = "run", !.run = i]
    IN  IF blocks = {} THEN cleared ELSE InitializeLumi(f, cleared, Min(blocks))

\* Mutant: only the record that follows is looked at.
NextEventRangeAdjacent(f, it) ==
    IF f.sorted \/ it.range = 0 THEN 0
    ELSE FirstOf({j \in RestOfLumi(f, it.range) : HasEvents(f, j) /\ j = it.range + 1})

\* nextEventRange and previousEventRange: another record of the block that has events, 0 if there
\* is none.  Sorted, one record holds all of them.
NextEventRange(f, it) ==
    IF f.sorted \/ it.range = 0 THEN 0
    ELSE FirstOf({j \in RestOfLumi(f, it.range) : HasEvents(f, j)})
PreviousEventRange(f, it) ==
    IF f.sorted \/ it.range = 0 THEN 0
    ELSE LastOf({j \in StartOfLumi(f, it.range) : HasEvents(f, j)})

\* skipLumiInRun: the next block of the run, 0 if there is none.
NextLumiInRun(f, it) ==
    IF it.lumi = 0 THEN 0
    ELSE FirstOf({j \in Indices(f) : j > it.lumi /\ ~SameLumi(f, it.lumi, j)
                                     /\ \A k \in it.lumi .. j : Kind(f, k) = "lumi"})

Begin(f) == IF f.list = <<>> THEN NoPosition ELSE InitializeRun(f, NoPosition, 1)

\* operator++.
Next(f, it) ==
    LET after == Kind(f, it.lumi + 1)
        item == IF after = "lumi" THEN [InitializeLumi(f, it, it.lumi + 1) EXCEPT !.type = "lumi"]
                ELSE IF after = "run" THEN InitializeRun(f, it, it.lumi + 1)
                ELSE NoPosition
        range == NextEventRange(f, it)
    IN  CASE it.type = "event" ->
               IF it.event + 1 < it.n THEN [it EXCEPT !.event = @ + 1]
               ELSE IF range # 0 THEN AtFirstEvent(f, it, range)
               ELSE item
          [] it.type = "lumi" ->
               IF after = "lumi" /\ SameLumi(f, it.lumi, it.lumi + 1) THEN [it EXCEPT !.lumi = @ + 1]
               ELSE IF it.event < it.n THEN [it EXCEPT !.type = "event"]
               ELSE item
          [] it.type = "run" ->
               CASE Kind(f, it.run + 1) = "run" /\ SameRun(f, it.run, it.run + 1) -> [it EXCEPT !.run = @ + 1]
                 [] Kind(f, it.run + 1) = "run" /\ ~SameRun(f, it.run, it.run + 1) -> InitializeRun(f, it, it.run + 1)
                 [] Kind(f, it.run + 1) = "lumi" -> [it EXCEPT !.type = "lumi"]
                 [] OTHER -> NoPosition
          [] OTHER -> it

AdvanceToNextRun(f, it) ==
    LET runs == {j \in Indices(f) : j > it.run /\ Kind(f, j) = "run" /\ ~SameRun(f, it.run, j)}
    IN  IF it.type = "end" \/ runs = {} THEN NoPosition ELSE InitializeRun(f, it, Min(runs))

\* To the block of the run the iterator is at, or to what comes after the block it is in.
AdvanceToNextLumiOrRun(f, it) ==
    LET lastOfRun == LastOf({j \in Indices(f) : j >= it.run /\
                               \A k \in it.run .. j : Kind(f, k) = "run" /\ SameRun(f, it.run, k)})
        here == [it EXCEPT !.run = lastOfRun]
        start == IF it.lumi = 0 THEN lastOfRun ELSE it.lumi
        ahead == {j \in Indices(f) : j > start /\
                    IF Kind(f, j) = "run" THEN ~SameRun(f, lastOfRun, j)
                    ELSE it.lumi # 0 /\ ~SameLumi(f, it.lumi, j)}
    IN  IF it.type = "end" THEN it
        ELSE IF it.type = "run" /\ it.lumi # 0 THEN [here EXCEPT !.type = "lumi"]
        ELSE IF ahead = {} THEN NoPosition
        ELSE IF Kind(f, Min(ahead)) = "run" THEN InitializeRun(f, it, Min(ahead))
        ELSE [InitializeLumi(f, here, Min(ahead)) EXCEPT !.type = "lumi"]

\* run(), lumi() and entry() of the next item; peekAheadAtLumi and peekAheadAtEvent look past the
\* run and block records that come before the next event.
RunOf(f, it) == IF it.type = "end" THEN 0 ELSE f.list[it.run].run
PeekAheadAtLumi(f, it) == IF it.lumi = 0 THEN 0 ELSE f.list[it.lumi].lumi
LumiOf(f, it) == IF it.type \in {"end", "run"} THEN 0 ELSE PeekAheadAtLumi(f, it)
PeekAheadAtEvent(f, it) ==
    IF it.lumi = 0 \/ it.event >= it.n THEN [entry |-> 0, event |-> 0]
    ELSE f.list[it.range].events[it.event + 1]

-----------------------------------------------------------------------------
(* Moves over events. *)

\* To the next event of any block, looking from block to block; the item the iterator is at does
\* not change as long as it stays in the run.
RECURSIVE ToEvents(_, _)
ToEvents(f, it) ==
    IF it.event < it.n \/ it.type = "end" THEN it
    ELSE LET i == NextLumiInRun(f, it)
         IN  ToEvents(f, IF i = 0 THEN AdvanceToNextRun(f, it) ELSE InitializeLumi(f, it, i))

\* skipEventForward, once ToEvents found an event (or the end).
SkipEventForward(f, it) ==
    LET range == NextEventRange(f, it)
        i == NextLumiInRun(f, it)
    IN  IF it.type = "end" THEN it
        ELSE IF it.event + 1 < it.n THEN [it EXCEPT !.event = @ + 1]
        ELSE IF range # 0 THEN AtFirstEvent(f, it, range)
        ELSE IF it.type = "event" THEN Next(f, it)
        ELSE IF i # 0 THEN InitializeLumi(f, it, i)
        ELSE AdvanceToNextRun(f, it)

\* Mutant: the block of the run is not entered again.
PreviousLumiNotEntered(f, it) ==
    LET here == IF it.lumi # 0 THEN FirstOf({it.lumi} \cup StartOfLumi(f, it.lumi)) - 1
                ELSE IF it.run # 0 THEN it.run ELSE Len(f.list)
        found == LastOf({j \in 2 .. here : Kind(f, j) = "lumi" /\ HasEvents(f, j)})
        first == FirstOf({found} \cup StartOfLumi(f, found))
        back == [AtLastEvent(f, it, IF f.sorted THEN first ELSE found) EXCEPT !.lumi = first]
    IN  IF found = 0 THEN NoPosition
        ELSE IF it.type # "end" /\ SameRun(f, first, it.run) THEN back
        ELSE [back EXCEPT !.type = "run",
                          !.run = Min({j \in Indices(f) : Kind(f, j) = "run" /\ SameRun(f, j, first)})]

\* previousLumiWithEvents: the last record before this block that has events (its first record if
\* sorted).  The run is entered again unless the iterator was in it.
PreviousLumiWithEvents(f, it) ==
    LET here == IF it.lumi # 0 THEN FirstOf({it.lumi} \cup StartOfLumi(f, it.lumi)) - 1
                ELSE IF it.run # 0 THEN it.run ELSE Len(f.list)
        found == LastOf({j \in 2 .. here : Kind(f, j) = "lumi" /\ HasEvents(f, j)})
        first == FirstOf({found} \cup StartOfLumi(f, found))
        back == [AtLastEvent(f, it, IF f.sorted THEN first ELSE found) EXCEPT !.lumi = first]
    IN  IF found = 0 THEN NoPosition
        ELSE IF it.type # "end" /\ SameRun(f, first, it.run)
        THEN [back EXCEPT !.type = IF @ = "event" THEN "lumi" ELSE @]
        ELSE [back EXCEPT !.type = "run",
                          !.run = Min({j \in Indices(f) : Kind(f, j) = "run" /\ SameRun(f, j, first)})]

\* skipEventBackward: <<the iterator, whether there was an event>>.
SkipEventBackward(f, it) ==
    LET range == PreviousEventRange(f, it)
        previous == PreviousLumiWithEvents(f, it)
    IN  IF it.event > 0 THEN <<[it EXCEPT !.event = @ - 1], TRUE>>
        ELSE IF range # 0 THEN <<AtLastEvent(f, it, range), TRUE>>
        ELSE IF previous.type # "end" THEN <<previous, TRUE>>
        ELSE <<Begin(f), FALSE>>

-----------------------------------------------------------------------------
(* findPosition of an event; lumi 0 is any block of the run. *)

\* In numerical order by binary search, blocks in order.
FindSorted(f, run, lumi, event) ==
    LET lumis == {i \in Indices(f) :
                    /\ f.list[i].run = run /\ f.list[i].lumi # 0 /\ lumi \in {0, f.list[i].lumi}
                    /\ StartOfLumi(f, i) = {}
                    /\ \E e \in ToSet(f.list[i].events) : e.event = event}
        i == Min(lumis)
        k == Min({j \in DOMAIN f.list[i].events : f.list[i].events[j].event = event})
    IN  IF lumis = {} THEN NoPosition
        ELSE [type |-> "run", run |-> Min({j \in Indices(f) : f.list[j].run = run}), lumi |-> i,
              range |-> i, event |-> k - 1, n |-> Len(f.list[i].events)]

\* In the order of first appearance by looking at one event after the other.
RECURSIVE FindLinear(_, _, _, _, _)
FindLinear(f, it, run, lumi, event) ==
    LET range == NextEventRange(f, it)
        i == NextLumiInRun(f, it)
        nextLumi == IF i # 0 THEN InitializeLumi(f, it, i) ELSE AdvanceToNextRun(f, it)
    IN  IF it.type = "end" THEN it
        ELSE IF RunOf(f, it) # run THEN FindLinear(f, AdvanceToNextRun(f, it), run, lumi, event)
        ELSE IF lumi \notin {0, PeekAheadAtLumi(f, it)} THEN FindLinear(f, nextLumi, run, lumi, event)
        ELSE IF PeekAheadAtEvent(f, it).event = event THEN it
        ELSE FindLinear(f, IF it.event + 1 < it.n THEN [it EXCEPT !.event = @ + 1]
                           ELSE IF range # 0 THEN AtFirstEvent(f, it, range) ELSE nextLumi,
                        run, lumi, event)

FindPosition(f, run, lumi, event) ==
    IF f.sorted THEN FindSorted(f, run, lumi, event) ELSE FindLinear(f, Begin(f), run, lumi, event)
=============================================================================
