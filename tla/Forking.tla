-------------------------------- MODULE Forking --------------------------------
(* A job in forked children (EventProcessor::forkProcess): a thread of the   *)
(* parent hands out chunks of consecutive events to the children that ask    *)
(* for work over a socket (MessageSenderToSource, MessageReceiverForSource), *)
(* and the parent's main thread waits for the children to end.  A child can  *)
(* fail at any moment, the parent can die or be asked to stop.               *)
(*                                                                           *)
(* Descriptors are handled one at a time, in any order; the system calls of  *)
(* the set-up succeed; the number of descriptors is within that of select.   *)
EXTENDS Integers, FiniteSets

CONSTANTS Children,   \* the forked processes
          ForkJobs,   \* the inputs and the parameters, see ForkJob
          MaxFailures \* most failures, the death of the parent among them

\* The events of the source, maxEvents (-1: all), maxSequentialEventsPerChild and
\* continueAfterChildFailure.
ForkJob == [events : Nat, maxEvents : Nat \cup {-1}, chunk : Nat \ {0}, goOn : BOOLEAN]
ASSUME ForkJobsAreValid == ForkJobs \subseteq ForkJob /\ IsFiniteSet(Children) /\ Children # {}

VARIABLES forkJob,
          child,     \* the state of each child, see Child
          requests,  \* the children whose request is in their socket
          answers,   \* the start of the chunk in each child's socket, or -1
          bytes,     \* the children that have written to their watchdog pipe
          sender,    \* the parent's thread: next index, the pipes and sockets it watches
          main,      \* where the parent's main thread is
          numDone,   \* num_children_done: here the children that were waited for
          childFailed, \* child_failed
          asked,     \* a signal to stop: "no", "pending" or "seen" (shutdown_flag)
          times,     \* how often each event was processed
          given      \* the indices sent to each child

forkVars == <<forkJob, child, requests, answers, bytes, sender, main, numDone, childFailed, asked,
              times, given>>

\* m_startIndex, m_numberOfConsecutiveIndices, numberOfEventsBeforeBigSkip_, remainingEvents_ and
\* the next event of the source; stop is the child's own shutdown_flag.
Child == [pc |-> "ask", start |-> 0, count |-> 0, left |-> 0, remaining |-> forkJob.maxEvents,
          next |-> 0, stop |-> FALSE]

\* The exit code is errors::CaughtSignal for a child that was told to stop (cmsRun.cpp), which
\* counts as a failure, like any other but 0.
EndedBadly(c) == child[c].pc \in {"stopped", "failed"}
HasEnded(c) == child[c].pc = "exited" \/ EndedBadly(c)
ParentIsGone == main \in {"returned", "thrown", "dead"}

ForkInit ==
    /\ forkJob \in ForkJobs
    /\ child = [c \in Children |-> Child]
    /\ requests = {} /\ bytes = {}
    /\ answers = [c \in Children |-> -1]
    /\ sender = [pc |-> "none", next |-> 0, pipes |-> Children, sockets |-> Children]
    /\ main = "forked"
    /\ numDone = {} /\ childFailed = FALSE /\ asked = "no"
    /\ times = [e \in 0 .. forkJob.events - 1 |-> 0]
    /\ given = [c \in Children |-> {}]

-----------------------------------------------------------------------------
(* A child. *)

parentVars == <<forkJob, sender, main, numDone, childFailed, asked, given>>

\* receive: the request fails if nobody holds the other end of the socket.
Ask(c) ==
    /\ child[c].pc = "ask"
    /\ requests' = IF ParentIsGone THEN requests ELSE requests \cup {c}
    /\ child' = [child EXCEPT ![c].pc = IF ParentIsGone THEN "failed" ELSE "wait"]
    /\ UNCHANGED <<parentVars, answers, bytes, times>>

\* After a second without an answer it writes to its pipe, which tells whether the parent lives.
Timeout(c) ==
    /\ child[c].pc = "wait" /\ answers[c] = -1
    /\ bytes' = IF ParentIsGone THEN bytes ELSE bytes \cup {c}
    /\ child' = IF ParentIsGone THEN [child EXCEPT ![c].pc = "failed"] ELSE child
    /\ UNCHANGED <<parentVars, requests, answers, times>>

\* decreaseRemainingEventsBy.
Decreased(remaining, skipped) ==
    IF remaining = -1 THEN -1 ELSE IF skipped < remaining THEN remaining - skipped ELSE 0

\* The source skips what went to others: in rewind for the first chunk, else in skipForForking.
Continue(c, skip) ==
    /\ child[c].pc = "wait" /\ answers[c] # -1
    /\ child' = [child EXCEPT ![c].pc = "loop", ![c].start = answers[c], ![c].count = forkJob.chunk,
                              ![c].left = forkJob.chunk, ![c].next = @ + skip,
                              ![c].remaining = Decreased(@, skip)]
    /\ answers' = [answers EXCEPT ![c] = -1]
    /\ UNCHANGED <<parentVars, requests, bytes, times>>

\* Mutant: the chunk before is skipped again.
ReceiveSkippingFromStart(c) == Continue(c, answers[c] - child[c].start)
Receive(c) == Continue(c, answers[c] - child[c].start - child[c].count)

\* A round of runToCompletion: skipForForking, nextItemType, checkForAsyncStopRequest, an event.
Process(c) ==
    /\ child[c].pc = "loop" /\ child[c].remaining # 0 /\ child[c].left # 0
    /\ child[c].next < forkJob.events /\ ~child[c].stop
    /\ times' = [times EXCEPT ![child[c].next] = @ + 1]
    /\ child' = [child EXCEPT ![c].next = @ + 1, ![c].left = @ - 1,
                              ![c].remaining = IF @ > 0 THEN @ - 1 ELSE @]
    /\ UNCHANGED <<parentVars, requests, answers, bytes>>

NeedsWork(c) ==
    /\ child[c].pc = "loop" /\ child[c].remaining # 0 /\ child[c].left = 0
    /\ child' = [child EXCEPT ![c].pc = "ask"]
    /\ UNCHANGED <<parentVars, requests, answers, bytes, times>>

\* The end of runToCompletion: epSignal if the child was told to stop.
Exit(c) ==
    /\ child[c].pc = "loop"
    /\ child[c].remaining = 0 \/ (child[c].left # 0 /\ (child[c].next >= forkJob.events \/ child[c].stop))
    /\ child' = [child EXCEPT ![c].pc = IF child[c].stop THEN "stopped" ELSE "exited"]
    /\ UNCHANGED <<parentVars, requests, answers, bytes, times>>

ChildStep(c) == Ask(c) \/ Timeout(c) \/ Receive(c) \/ Process(c) \/ NeedsWork(c) \/ Exit(c)

Failures == Cardinality({c \in Children : child[c].pc = "failed"}) + (IF main = "dead" THEN 1 ELSE 0)

\* An exception or a signal ends the child.
Fail(c) ==
    /\ ~HasEnded(c) /\ Failures < MaxFailures
    /\ child' = [child EXCEPT ![c].pc = "failed"]
    /\ UNCHANGED <<parentVars, requests, answers, bytes, times>>

-----------------------------------------------------------------------------
(* The parent's thread that hands out work. *)

childVars == <<forkJob, child, times>>
mainVars  == <<main, numDone, childFailed, asked>>
Chunk == sender.next .. sender.next + forkJob.chunk - 1
SenderRuns == sender.pc = "running" /\ main # "dead"

\* The next index moves on only if the chunk could be sent; a socket without its child is closed.
Answer(c, next) ==
    /\ SenderRuns /\ c \in requests \cap sender.sockets
    /\ requests' = requests \ {c}
    /\ sender' = [sender EXCEPT !.next = next,
                                !.sockets = IF HasEnded(c) THEN @ \ {c} ELSE @]
    /\ answers' = IF HasEnded(c) THEN answers ELSE [answers EXCEPT ![c] = sender.next]
    /\ given' = IF HasEnded(c) THEN given ELSE [given EXCEPT ![c] = @ \cup Chunk]
    /\ UNCHANGED <<childVars, mainVars, bytes>>

\* Mutant: the chunk counts as sent.
SendChunkAlwaysCounted(c) == Answer(c, sender.next + forkJob.chunk)
SendChunk(c) == Answer(c, IF HasEnded(c) THEN sender.next ELSE sender.next + forkJob.chunk)

\* A byte in a pipe is read and ignored, the end of a pipe is a child that has ended.
ReadPipe(c) ==
    /\ SenderRuns /\ c \in sender.pipes /\ (c \in bytes \/ HasEnded(c))
    /\ bytes' = bytes \ {c}
    /\ sender' = IF c \in bytes THEN sender ELSE [sender EXCEPT !.pipes = @ \ {c}]
    /\ UNCHANGED <<childVars, mainVars, requests, answers, given>>

SenderEnds ==
    /\ SenderRuns /\ sender.pipes = {}
    /\ sender' = [sender EXCEPT !.pc = "ended"]
    /\ UNCHANGED <<childVars, mainVars, requests, answers, bytes, given>>

SenderStep == (\E c \in Children : SendChunk(c) \/ ReadPipe(c)) \/ SenderEnds

-----------------------------------------------------------------------------
(* The parent's main thread. *)

talkVars == <<requests, answers, bytes, times, given, forkJob>>

Zombies == {c \in Children : HasEnded(c)} \ numDone
Pending == Zombies # {} \/ asked = "pending"

\* ep_sigchld, and the handler that sets shutdown_flag; goOn: possiblyContinueAfterForkChildFailure.
HandleSignals(goOn) ==
    /\ Pending
    /\ numDone' = numDone \cup Zombies
    /\ childFailed' = (~goOn /\ (childFailed \/ \E c \in Zombies : EndedBadly(c)))
    /\ asked' = IF asked = "pending" THEN "seen" ELSE asked

\* Mutant: the signals are never blocked.
SignalArrivesAnytime ==
    /\ ~ParentIsGone
    /\ HandleSignals(FALSE)
    /\ UNCHANGED <<talkVars, child, sender, main>>

\* The signals are blocked but in sigsuspend, and while the main thread is between the two loops.
SignalArrives ==
    /\ main \in {"forked", "checking", "killed", "join"}
    /\ HandleSignals(FALSE)
    /\ UNCHANGED <<talkVars, child, sender, main>>

StartSender ==
    /\ main = "forked"
    /\ main' = "waiting"
    /\ sender' = [sender EXCEPT !.pc = "running"]
    /\ childFailed' = (childFailed /\ ~forkJob.goOn)
    /\ UNCHANGED <<talkVars, child, numDone, asked>>

Goto(from, to) == main = from /\ main' = to /\ UNCHANGED <<talkVars, child, sender, numDone, childFailed, asked>>

MustWait == asked # "seen" /\ (~childFailed \/ forkJob.goOn) /\ numDone # Children
TestChildren == Goto("waiting", IF MustWait THEN "suspended" ELSE "checking")

Suspend(from, to, goOn) ==
    /\ main = from /\ main' = to
    /\ HandleSignals(goOn)
    /\ UNCHANGED <<talkVars, child, sender>>

\* SIGUSR2 to every child, if they are to stop.
Kill ==
    /\ main = "checking"
    /\ LET mustStop == asked = "seen" \/ (childFailed /\ numDone # Children)
       IN  /\ main' = IF mustStop THEN "killed" ELSE "join"
           /\ child' = [c \in Children |-> [child[c] EXCEPT !.stop = @ \/ (mustStop /\ ~HasEnded(c))]]
    /\ UNCHANGED <<talkVars, sender, numDone, childFailed, asked>>

TestStopped == Goto("killed", "stopping")
               \/ Goto("stopping", IF numDone # Children THEN "suspended again" ELSE "join")

Join == sender.pc = "ended" /\ Goto("join", IF childFailed /\ ~forkJob.goOn THEN "thrown" ELSE "returned")

MainStep ==
    \/ StartSender \/ TestChildren \/ Suspend("suspended", "waiting", forkJob.goOn)
    \/ Kill \/ TestStopped \/ Suspend("suspended again", "stopping", FALSE) \/ Join

\* Someone asks the job to stop.
AskToStop ==
    /\ ~ParentIsGone /\ asked = "no"
    /\ asked' = "pending"
    /\ UNCHANGED <<talkVars, child, sender, main, numDone, childFailed>>

ParentDies ==
    /\ ~ParentIsGone /\ Failures < MaxFailures
    /\ main' = "dead"
    /\ UNCHANGED <<talkVars, child, sender, numDone, childFailed, asked>>

ForkNext ==
    \/ \E c \in Children : ChildStep(c) \/ Fail(c)
    \/ SenderStep \/ MainStep \/ SignalArrives \/ AskToStop \/ ParentDies

\* Every process and thread is run by the system; no failure or signal has to come.
ForkFairness ==
    /\ \A c \in Children : WF_forkVars(ChildStep(c)) /\ WF_forkVars(SendChunk(c)) /\ WF_forkVars(ReadPipe(c))
    /\ WF_forkVars(SenderEnds) /\ WF_forkVars(MainStep)
ForkSpec == ForkInit /\ [][ForkNext]_forkVars /\ ForkFairness

-----------------------------------------------------------------------------
(* Properties. *)

EventLimit == IF forkJob.maxEvents = -1 THEN forkJob.events ELSE forkJob.maxEvents

\* No event goes to two children or beyond maxEvents, which counts for all of them together.  When
\* forkProcess returns without having been asked to stop, every event was processed, but for those
\* sent to a child that failed, or if no child is left; and without continueAfterChildFailure none
\* has failed.
EventsSharedOut ==
    /\ \A e \in DOMAIN times : times[e] <= (IF e < EventLimit THEN 1 ELSE 0)
    /\ main = "returned" /\ asked # "seen" =>
         \A e \in DOMAIN times : e < EventLimit /\ times[e] = 0 =>
             /\ forkJob.goOn
             /\ \/ \E c \in Children : child[c].pc = "failed" /\ e \in given[c]
                \/ \A c \in Children : child[c].pc = "failed"

\* The parent and all children come to their end, also after the death of any of them.
ForkedJobEnds == <>(ParentIsGone /\ \A c \in Children : HasEnded(c))
=============================================================================
