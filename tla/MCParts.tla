-------------------------------- MODULE MCParts --------------------------------
(* Six parts that share nothing, on small inputs: the check of the schedule, *)
(* the selection of events, the reading of ROOT files, the two lock-free     *)
(* helpers of the services, and the forked children.  A behaviour runs one   *)
(* part while the others stay where they are.                                *)
EXTENDS ScheduleCheck, EventSelector, RootInput, MessageLoggerScribe, ReusableObjectHolder, Forking, TLC

VARIABLE part
helperVars == <<scribeVars, holderVars>>
partVars == <<part, checkVars, selectorVars, inputVars, helperVars, forkVars>>

-----------------------------------------------------------------------------
(* Criteria: two for the earlier process, one of each, or those that make    *)
(* accept_all; each with a name, a pattern for two names, or `*`.            *)
MCMenus == {<<"a", "b", "c">>, <<"c", "a", "b">>, <<"b", "c", "d">>}
MCPaths == <<"a", "b">>

Texts == {[names |-> {"a"}, glob |-> FALSE, star |-> FALSE],
          [names |-> {"b"}, glob |-> FALSE, star |-> FALSE],
          [names |-> {"a", "b"}, glob |-> TRUE, star |-> FALSE],
          [names |-> {}, glob |-> TRUE, star |-> TRUE]}
Forms == {[neg |-> n, noex |-> x, exc |-> FALSE] : n, x \in BOOLEAN}
           \cup {[neg |-> n, noex |-> FALSE, exc |-> TRUE] : n \in BOOLEAN}
Of(p) == {f @@ t @@ [process |-> p] : f \in Forms, t \in Texts}
Stars(p) == {c \in Of(p) : c.star /\ ~c.noex /\ ~(c.neg /\ c.exc)}
MCSelectEvents ==
  {{c, d} : c, d \in Of("before")} \cup {{c, d} : c \in Of("before"), d \in {e \in Of("now") : e.star}}
  \cup {{}, Stars("now"), Stars("before"), Stars("now") \cup Stars("before")}

-----------------------------------------------------------------------------
(* Files: a list of records of blocks, each followed by that of its run; a   *)
(* block can come twice, be empty, and have its events out of order.         *)
Rec(l, es) == [run |-> 0, lumi |-> l, events |-> es]
Block(r, ls) == Append([k \in DOMAIN ls |-> [ls[k] EXCEPT !.run = r]], [run |-> r, lumi |-> 0, events |-> <<>>])

Recs == {Rec(l, es) : l \in {1, 2}, es \in {<<>>, <<2, 1>>}}
Blocks == {Block(r, ls) : r \in {1, 2}, ls \in {<<>>} \cup {<<a>> : a \in Recs} \cup {<<a, b>> : a, b \in Recs}}

\* A file in two parts, of one run or two, at most one of them with two blocks.
Moved == {[Configured(<<a \o b>>) EXCEPT !.noEventSort = s, !.check = "noDuplicateCheck"] :
            s \in BOOLEAN, a, b \in Blocks}
MovedJobs == {j \in Moved : LET n == Len(j.files[1]) IN n <= 4 \/ (n = 5 /\ j.files[1][1].lumi # 0
                                                                 /\ j.files[1][4].lumi # 0)}

\* Two files with a run and its blocks each.
Ones == {Block(1, ls) : ls \in {<<>>, <<Rec(1, <<1>>)>>, <<Rec(1, <<2, 1>>), Rec(2, <<1>>)>>,
                                <<Rec(2, <<>>)>>, <<Rec(1, <<1>>), Rec(1, <<3, 1>>)>>}}
          \cup {Block(2, <<Rec(1, <<1>>)>>)}
Selections == {Everything,
               [Everything EXCEPT !.firstLumi = 2], [Everything EXCEPT !.firstEvent = 2],
               [Everything EXCEPT !.lumisToProcess = {<<1, 2>>}],
               [Everything EXCEPT !.eventsToSkip = {<<1, 1, 1>>}], [Everything EXCEPT !.firstRun = 2]}
Two == {[files |-> <<f, g>>, noEventSort |-> s, skipEvents |-> n, select |-> x,
         mode |-> "RunsLumisAndEvents", check |-> c] :
            f, g \in Ones, s \in BOOLEAN, n \in {0, 2}, x \in Selections,
            c \in {"checkAllFilesOpened", "checkEachFile", "noDuplicateCheck"}}
Modes == {[j EXCEPT !.mode = m] :
            j \in {k \in Two : k.skipEvents = 0 /\ k.check = "noDuplicateCheck" /\ k.noEventSort},
            m \in {"Runs", "RunsAndLumis"}}
OneRun == Configured(<<Block(1, <<>>)>>)
MCJobs == {OneRun} \cup Two \cup Modes \cup MovedJobs

-----------------------------------------------------------------------------
(* Forked jobs: chunks that divide the input or not, a limit inside a chunk. *)
Forked(n, m, k, g) == [events |-> n, maxEvents |-> m, chunk |-> k, goOn |-> g]
MCForkJobs == {Forked(3, -1, 2, FALSE), Forked(3, 2, 1, TRUE)}

\* A job whose children have ended.
ForkOver == /\ main = "returned" /\ forkJob = Forked(1, -1, 2, FALSE)
            /\ child = [c \in Children |-> [Child EXCEPT !.pc = "exited"]]
            /\ requests = {} /\ bytes = {} /\ answers = [c \in Children |-> -1]
            /\ sender = [pc |-> "ended", next |-> 2, pipes |-> {}, sockets |-> Children]
            /\ numDone = Children /\ childFailed = FALSE /\ asked = "no"
            /\ times = [e \in {0} |-> 1]
            /\ given = [c \in Children |-> IF c = 0 THEN {0, 1} ELSE {}]

-----------------------------------------------------------------------------
NoPaths == paths = <<>> /\ consumes = {}

PartsInit ==
    /\ part \in {"schedule", "selector", "input", "scribe", "holder", "forking"}
    /\ ScribeInit /\ HolderInit
    /\ IF part = "forking" THEN ForkInit ELSE ForkOver
    /\ \/ /\ part = "schedule" /\ criteria = {} /\ job = OneRun
          /\ SelectorInit /\ InputInit /\ CheckInit
       \/ /\ part = "selector" /\ NoPaths /\ job = OneRun
          /\ CheckInit /\ InputInit /\ SelectorInit
       \/ /\ part = "input" /\ NoPaths /\ criteria = {}
          /\ CheckInit /\ SelectorInit /\ InputInit
       \/ /\ part \in {"scribe", "holder", "forking"} /\ NoPaths /\ criteria = {} /\ job = OneRun
          /\ CheckInit /\ SelectorInit /\ InputInit

PartsNext ==
    \/ part = "schedule" /\ CheckNext /\ UNCHANGED <<part, selectorVars, inputVars, helperVars, forkVars>>
    \/ part = "selector" /\ SelectorNext /\ UNCHANGED <<part, checkVars, inputVars, helperVars, forkVars>>
    \/ part = "input" /\ InputNext /\ UNCHANGED <<part, checkVars, selectorVars, helperVars, forkVars>>
    \/ part = "scribe" /\ ScribeNext
         /\ UNCHANGED <<part, checkVars, selectorVars, inputVars, holderVars, forkVars>>
    \/ part = "holder" /\ HolderNext
         /\ UNCHANGED <<part, checkVars, selectorVars, inputVars, scribeVars, forkVars>>
    \/ part = "forking" /\ ForkNext
         /\ UNCHANGED <<part, checkVars, selectorVars, inputVars, helperVars>>

PartsSpec == PartsInit /\ [][PartsNext]_partVars /\ ForkFairness
=============================================================================
