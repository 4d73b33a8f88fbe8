------------------------------- MODULE RootInput -------------------------------
(* PoolSource's primary sequence of ROOT files, as the event loop and a      *)
(* looper use it: the next item, file after file (RootPrimaryFileSequence,   *)
(* RootFile); what EventSkipperByID and DuplicateChecker leave out; and,     *)
(* after an event, the moves of a looper to the event before it and to a     *)
(* given event.                                                              *)
(*                                                                           *)
(* A file has at least one run, and can be opened.                           *)
EXTENDS IndexIntoFile

CONSTANTS Jobs,    \* the configurations with their files, see Configured
          MaxMoves \* most moves of the looper

VARIABLES job,
          source,     \* the file sequence and its open file, see OpenFile
          item,       \* the last item delivered, with its file and its entry there
          inside,     \* the run and the block entered before it in the file
          move,       \* the move before the item, and the event it was made from
          moves,      \* the number of moves
          delivered   \* the items, as long as there was no move

inputVars == <<job, source, item, inside, move, moves, delivered>>

\* A job: its files (as records of an output module), noEventSort, skipEvents, what
\* EventSkipperByID takes out, the processing mode and whether duplicates are looked for.
Everything == [firstRun |-> 1, firstLumi |-> 0, firstEvent |-> 1, lumisToSkip |-> {},
               lumisToProcess |-> {}, eventsToSkip |-> {}, eventsToProcess |-> {}]
Configured(fs) == [files |-> fs, noEventSort |-> TRUE, skipEvents |-> 0, select |-> Everything,
                   mode |-> "RunsLumisAndEvents", check |-> "checkAllFilesOpened"]

\* The events of a file: <<run, block, number, entry>>.
EventsOf(i) ==
    LET es == Entries(job.files[i])
    IN  UNION {{<<es[j].run, es[j].lumi, e.event, e.entry>> : e \in ToSet(es[j].events)} : j \in DOMAIN es}

-----------------------------------------------------------------------------
(* EventSkipperByID. *)

skipIt(run, lumi, event) ==
    LET s == job.select
    IN  \/ run < s.firstRun
        \/ /\ lumi # 0
           /\ \/ run = s.firstRun /\ lumi < s.firstLumi
              \/ run = s.firstRun /\ s.firstLumi \in {0, lumi} /\ event # 0 /\ event < s.firstEvent
              \/ <<run, lumi>> \in s.lumisToSkip
              \/ s.lumisToProcess # {} /\ <<run, lumi>> \notin s.lumisToProcess
              \/ event # 0 /\ <<run, lumi, event>> \in s.eventsToSkip
              \/ event # 0 /\ s.eventsToProcess # {} /\ <<run, lumi, event>> \notin s.eventsToProcess

skippingLumis == job.select.lumisToSkip # {} \/ job.select.lumisToProcess # {}

\* The item at the iterator: a run, block or event to be left out, or a run without a block to be read.
skipThisEntry(f, it) ==
    LET run == RunOf(f, it)
    IN  /\ it.type # "end"
        /\ \/ skipIt(run, LumiOf(f, it), 0)
           \/ it.type = "event" /\ skipIt(run, LumiOf(f, it), PeekAheadAtEvent(f, it).event)
           \/ /\ it.type = "run" /\ skippingLumis
              /\ \A i \in Indices(f) : Kind(f, i) = "lumi" /\ f.list[i].run = run
                                         => skipIt(run, f.list[i].lumi, 0)

-----------------------------------------------------------------------------
(* DuplicateChecker. *)

EventKeys(i) == {<<e[1], e[2], e[3]>> : e \in EventsOf(i)}
containsDuplicateEvents(i) == Cardinality(EventKeys(i)) < Cardinality(EventsOf(i))

checkDisabled(c) == c.disabled \/ job.check = "noDuplicateCheck"

\* inputFileOpened: the events of file i that are in an earlier file of those with an index.
inputFileOpened(c, i, indexes) ==
    LET previous == IF job.check = "checkAllFilesOpened"
                    THEN EventKeys(i) \cap UNION {EventKeys(j) : j \in {k \in indexes : k < i}}
                    ELSE {}
    IN  IF checkDisabled(c) THEN c
        ELSE [c EXCEPT !.seen = previous, !.none = previous = {} /\ ~containsDuplicateEvents(i)]

disable == [seen |-> {}, disabled |-> TRUE, none |-> FALSE]

\* isDuplicateAndCheckActive: <<the checker, whether the event was there before>>.
isDuplicate(c, key) ==
    IF c.none \/ checkDisabled(c) THEN <<c, FALSE>>
    ELSE <<[c EXCEPT !.seen = @ \cup {key}], key \in c.seen>>

-----------------------------------------------------------------------------
(* The file sequence. *)

Sequence0 ==
    [open |-> 0,           \* the file that is open
     noMore |-> FALSE,     \* fileIter_ is behind the last file
     firstFile |-> TRUE,   \* firstFile_: the first readFile_ does not go to the next file
     index |-> View(<<>>, FALSE), \* indexIntoFile_, as its iterators go through it
     iter |-> NoPosition,  \* indexIntoFileIter_
     checker |-> [seen |-> {}, disabled |-> FALSE, none |-> FALSE],
     kept |-> {},          \* the files indexesIntoFiles has an index of
     goingTo |-> FALSE]    \* usingGoToEvent_

\* initFile: the index of the file that is closed is given up when nothing will ask for it.
OpenFile(q, i) ==
    LET delete == ~q.goingTo /\ (job.check # "checkAllFilesOpened" \/ checkDisabled(q.checker))
        kept == IF delete THEN q.kept \ {q.open} ELSE q.kept
        index == View(Entries(job.files[i]), ~job.noEventSort)
        closed == [q.checker EXCEPT !.seen = {}, !.none = FALSE]
    IN  [q EXCEPT !.open = i, !.kept = kept \cup {i}, !.index = index, !.iter = Begin(index),
                  !.checker = IF EventsOf(i) = {} THEN closed ELSE inputFileOpened(closed, i, kept)]

AtLastFile(q) == q.open = Len(job.files)
NextFile(q) == IF AtLastFile(q) THEN [q EXCEPT !.noMore = TRUE] ELSE OpenFile(q, q.open + 1)

\* Mutant: the file is opened at its beginning.
PreviousFileAtBegin(q) ==
    IF q.open = 1 THEN [q EXCEPT !.noMore = TRUE] ELSE OpenFile(q, q.open - 1)

\* previousFile: to behind the last entry of the file before.
PreviousFile(q) ==
    IF q.open = 1 THEN [q EXCEPT !.noMore = TRUE]
    ELSE [OpenFile(q, q.open - 1) EXCEPT !.iter = NoPosition]

\* RootFile::getNextItemType: past the items left out.
RECURSIVE GetNextItem(_)
GetNextItem(q) ==
    LET it == q.iter
        e == PeekAheadAtEvent(q.index, it)
        check == isDuplicate(q.checker, <<RunOf(q.index, it), LumiOf(q.index, it), e.event>>)
        to(next) == GetNextItem([q EXCEPT !.iter = next])
    IN  IF skipThisEntry(q.index, it)
        THEN to(CASE it.type = "run" -> AdvanceToNextRun(q.index, it)
                  [] it.type = "lumi" -> AdvanceToNextLumiOrRun(q.index, it)
                  [] OTHER -> Next(q.index, it))
        ELSE IF it.type \in {"end", "run"} THEN q
        ELSE IF job.mode = "Runs" THEN to(AdvanceToNextRun(q.index, it))
        ELSE IF it.type = "lumi" THEN q
        ELSE IF job.mode = "RunsAndLumis" THEN to(AdvanceToNextLumiOrRun(q.index, it))
        ELSE IF check[2] THEN GetNextItem([q EXCEPT !.iter = Next(q.index, it), !.checker = check[1]])
        ELSE [q EXCEPT !.checker = check[1]]

\* RootFile::skipEvents and RootPrimaryFileSequence::skipEvents: an event left out is not counted.
RECURSIVE SkipForward(_, _)
SkipForward(q, n) ==
    LET it == ToEvents(q.index, q.iter)
        e == PeekAheadAtEvent(q.index, it)
        run == RunOf(q.index, it)
        lumi == PeekAheadAtLumi(q.index, it)
        check == isDuplicate(q.checker, <<run, lumi, e.event>>)
        out == skipIt(run, lumi, e.event)
        further == [q EXCEPT !.iter = SkipEventForward(q.index, it),
                             !.checker = IF out THEN @ ELSE check[1]]
    IN  IF q.noMore THEN q
        ELSE IF n = 0 THEN IF q.iter.type = "end" THEN NextFile(q) ELSE q
        ELSE IF it.type = "end" THEN SkipForward(NextFile(q), n)
        ELSE SkipForward(further, IF out \/ check[2] THEN n ELSE n - 1)

RECURSIVE SkipBackward(_, _)
SkipBackward(q, n) ==
    LET back == SkipEventBackward(q.index, q.iter)
        e == PeekAheadAtEvent(q.index, back[1])
        there == [q EXCEPT !.iter = back[1], !.checker = disable]
    IN  IF q.noMore \/ n = 0 THEN q
        ELSE IF ~back[2] THEN SkipBackward(PreviousFile(there), n)
        ELSE SkipBackward(there, IF skipIt(RunOf(q.index, back[1]), PeekAheadAtLumi(q.index, back[1]), e.event)
                                 THEN n ELSE n - 1)

\* RootFile::goToEvent: the iterator moves only if the event is there.
Found(q, id) == FindPosition(q.index, id[1], id[2], id[3])
GoToInFile(q, id) ==
    [q EXCEPT !.checker = disable, !.iter = IF Found(q, id).type = "end" THEN @ ELSE Found(q, id)]

containsItem(i, id) == \E e \in EventsOf(i) : e[1] = id[1] /\ id[2] \in {0, e[2]} /\ e[3] = id[3]

\* The files not opened before are opened one after the other.
RECURSIVE Search(_, _)
Search(q, id) ==
    LET closed == DOMAIN job.files \ q.kept
    IN  IF closed = {} THEN q
        ELSE LET there == OpenFile(q, Min(closed))
             IN  IF containsItem(there.open, id) THEN GoToInFile(there, id) ELSE Search(there, id)

\* RootPrimaryFileSequence::goToEvent: in the open file, in a file opened before, in the others; if
\* it is nowhere the source is at the file and the position it was at.
GoToEvent(q, id) ==
    LET here == GoToInFile([q EXCEPT !.goingTo = TRUE], id)
        before == {i \in q.kept : containsItem(i, id)}
        searched == Search(here, id)
    IN  IF Found(q, id).type # "end" \/ Len(job.files) = 1 THEN here
        ELSE IF before # {} THEN GoToInFile(OpenFile(here, Min(before)), id)
        ELSE IF searched.open = q.open \/ containsItem(searched.open, id) THEN searched
        ELSE [OpenFile(searched, q.open) EXCEPT !.iter = q.iter]

-----------------------------------------------------------------------------
(* The job. *)

Item(q, type) ==
    [type |-> type, file |-> q.open,
     entry |-> CASE type = "event" -> PeekAheadAtEvent(q.index, q.iter).entry
                 [] type = "lumi" -> q.index.list[q.iter.lumi].entry
                 [] type = "run" -> q.index.list[q.iter.run].entry
                 [] OTHER -> 0]

InputInit ==
    /\ job \in Jobs
    /\ source = Sequence0
    /\ item = [type |-> "none", file |-> 0, entry |-> 0]
    /\ inside = <<0, 0>>
    /\ move = [to |-> "next", id |-> <<0, 0, 0>>, from |-> item]
    /\ moves = 0
    /\ delivered = <<>>

\* The constructor of RootPrimaryFileSequence opens the first file and skips the first events.
Construct ==
    /\ source = Sequence0
    /\ source' = LET opened == OpenFile(Sequence0, 1)
                 IN  IF job.skipEvents = 0 THEN opened ELSE SkipForward(opened, job.skipEvents)
    /\ UNCHANGED <<job, item, inside, move, moves, delivered>>

Deliver(q, type) ==
    /\ item' = Item(q, type)
    /\ move' = IF item.type = "event" THEN [move EXCEPT !.to = "next", !.from = item] ELSE move
    /\ delivered' = IF moves = 0 THEN Append(delivered, Item(q, type)) ELSE delivered

\* getNextItemType and the reading of the item: a run, block or event of the open file.
ReadItem ==
    /\ source # Sequence0 /\ item.type # "stop" /\ ~source.noMore /\ ~source.firstFile
    /\ LET q == GetNextItem(source)
           type == q.iter.type
       IN
        /\ type # "end"
        /\ source' = [q EXCEPT !.iter = Next(q.index, @)]
        /\ Deliver(q, type)
        /\ inside' = CASE type = "run" -> <<RunOf(q.index, q.iter), 0>>
                       [] type = "lumi" -> <<inside[1], LumiOf(q.index, q.iter)>>
                       [] OTHER -> inside
        /\ UNCHANGED <<job, moves>>

\* readFile_.
ReadFile ==
    LET q == GetNextItem(source)
    IN  /\ source # Sequence0 /\ item.type # "stop" /\ ~source.noMore
        /\ source.firstFile \/ (q.iter.type = "end" /\ ~AtLastFile(q))
        /\ source' = IF source.firstFile THEN [source EXCEPT !.firstFile = FALSE] ELSE NextFile(q)
        /\ Deliver([source EXCEPT !.open = source'.open], "file")
        /\ inside' = <<0, 0>>
        /\ UNCHANGED <<job, moves>>

Stop ==
    LET q == GetNextItem(source)
    IN  /\ source # Sequence0 /\ item.type # "stop"
        /\ source.noMore \/ (~source.firstFile /\ q.iter.type = "end" /\ AtLastFile(q))
        /\ source' = IF source.noMore THEN source ELSE q
        /\ Deliver(source, "stop")
        /\ UNCHANGED <<job, inside, moves>>

\* A looper's move, after an event: skipEvents(-2) or goToEvent.
ToPreviousEvent ==
    /\ item.type = "event" /\ moves < MaxMoves
    /\ source' = SkipBackward(source, 2)
    /\ move' = [move EXCEPT !.to = "back", !.from = item]
    /\ item' = [item EXCEPT !.type = "moved"]
    /\ moves' = moves + 1
    /\ UNCHANGED <<job, inside, delivered>>

\* An event that is nowhere leaves the source where it was.
ToEvent(id) ==
    /\ item.type = "event" /\ moves < MaxMoves
    /\ source' = GoToEvent(source, id)
    /\ move' = [to |-> IF \E i \in DOMAIN job.files : containsItem(i, id) THEN "event" ELSE "next",
                 id |-> id, from |-> item]
    /\ item' = [item EXCEPT !.type = "moved"]
    /\ moves' = moves + 1
    /\ UNCHANGED <<job, inside, delivered>>

Wanted == UNION {EventKeys(i) : i \in DOMAIN job.files}

InputNext ==
    \/ Construct \/ ReadItem \/ ReadFile \/ Stop
    \/ ToPreviousEvent
    \/ \E e \in Wanted, anyLumi \in BOOLEAN : ToEvent(IF anyLumi THEN <<e[1], 0, e[3]>> ELSE e)
    \/ ToEvent(<<1, 1, 99>>)

InputSpec == InputInit /\ [][InputNext]_inputVars

-----------------------------------------------------------------------------
(* Properties. *)

\* The items of file i with what puts them in order: runs and blocks by their first record or by
\* their numbers, in a block its records and then its events.
Keyed(i) ==
    LET es == Entries(job.files[i])
        run(e) == IF job.noEventSort THEN FirstEntry(es, e.run, 0) ELSE e.run
        lumi(e) == IF e.lumi = 0 THEN 0
                   ELSE IF job.noEventSort THEN FirstEntry(es, e.run, e.lumi) ELSE e.lumi
    IN  UNION {{[type |-> IF e.lumi = 0 THEN "run" ELSE "lumi", file |-> i, entry |-> e.entry,
                 run |-> e.run, lumi |-> e.lumi, event |-> 0,
                 key |-> <<i, run(e), lumi(e), 0, 0, e.entry>>]}
               \cup {[type |-> "event", file |-> i, entry |-> d.entry,
                      run |-> e.run, lumi |-> e.lumi, event |-> d.event,
                      key |-> <<i, run(e), lumi(e), 1, IF job.noEventSort THEN 0 ELSE d.event, d.entry>>] :
                     d \in ToSet(e.events)} : e \in ToSet(es)}

Earlier(x, y) == Before(x.key, y.key)
SameID(x, y) == x.run = y.run /\ x.lumi = y.lumi /\ x.event = y.event

\* Those the parameters select.
Selected(x) ==
    /\ ~skipIt(x.run, x.lumi, x.event)
    /\ (x.type = "run" /\ skippingLumis) =>
         \E y \in Keyed(x.file) : y.type = "lumi" /\ y.run = x.run /\ ~skipIt(y.run, y.lumi, 0)
    /\ x.type = "lumi" => job.mode # "Runs"
    /\ x.type = "event" => job.mode = "RunsLumisAndEvents"

Items == {x \in UNION {Keyed(i) : i \in DOMAIN job.files} : Selected(x)}

\* With the check for duplicates the first event of each number stays.
Unique(S) ==
    {x \in S : x.type = "event" =>
        CASE job.check = "checkAllFilesOpened" -> ~\E y \in S : SameID(x, y) /\ Earlier(y, x)
          [] job.check = "checkEachFile" -> ~\E y \in S : SameID(x, y) /\ Earlier(y, x) /\ y.file = x.file
          [] OTHER -> TRUE}

InOrder(S) ==
    LET s == Sorted(S, LAMBDA x : x.key)
    IN  [k \in DOMAIN s |-> [type |-> s[k].type, file |-> s[k].file, entry |-> s[k].entry]]

\* As long as a looper does not move, a job reads every selected item once and in order, files one
\* after the other; an event that came before is left out.
DeliversTheSelection ==
    moves = 0 /\ job.skipEvents = 0 =>
      LET s == InOrder(Unique(Items))
          read == SelectSeq(delivered, LAMBDA x : x.type \in {"run", "lumi", "event"})
      IN  IsPrefix(read, s) /\ (item.type = "stop" => read = s)

\* An event is read inside its own run and block, also after a move.
InsideRunAndLumi ==
    item.type = "event" => \E x \in Items : x.type = "event" /\ x.file = item.file /\ x.entry = item.entry
                                            /\ inside = <<x.run, x.lumi>>

\* A looper gets the event it asked for: after a step back the selected event before the one it
\* left, after goToEvent that event (with any block: one of them) unless the parameters leave it
\* out; the job stops only if there is none.  Without moves skipEvents counts what would have been read.
NextEventIsRight ==
    LET events == {x \in IF moves = 0 THEN Unique(Items) ELSE Items : x.type = "event"}
        at(i) == CHOOSE x \in events : x.file = i.file /\ x.entry = i.entry
        after(S) == {x \in S : move.from.type = "event" => Earlier(at(move.from), x)}
        asked == {x \in UNION {Keyed(i) : i \in DOMAIN job.files} :
                    x.type = "event" /\ x.run = move.id[1] /\ move.id[2] \in {0, x.lumi} /\ x.event = move.id[3]}
        skipped == IF move.from.type = "none" THEN job.skipEvents ELSE 0
    IN  CASE item.type = "event" /\ move.to = "next" ->
               Cardinality({x \in after(events) : Earlier(x, at(item))}) = skipped /\ at(item) \in after(events)
          [] item.type = "event" /\ move.to = "back" ->
               Earlier(at(item), at(move.from))
               /\ ~\E x \in events : Earlier(at(item), x) /\ Earlier(x, at(move.from))
          [] item.type = "event" /\ move.to = "event" -> asked \subseteq events => at(item) \in asked
          [] item.type = "stop" /\ move.to = "next" -> Cardinality(after(events)) <= skipped
          [] item.type = "stop" /\ move.to = "back" -> ~\E x \in events : Earlier(x, at(move.from))
          [] item.type = "stop" /\ move.to = "event" -> ~(asked \subseteq events)
          [] OTHER -> TRUE
=============================================================================
