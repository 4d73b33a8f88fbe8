--------------------------- MODULE EventLoopSignal ---------------------------
(***************************************************************************)
(* EventLoop with a history variable: how many events the threads have read *)
(* from the source since edm::shutdown_flag was set.                        *)
(***************************************************************************)
EXTENDS EventLoop

VARIABLE readsAfterSignal

CountInit == Init /\ readsAfterSignal = 0
CountNext ==
  /\ Next
  /\ readsAfterSignal' =
       IF shutdown /\ pos' # pos /\ items[pos].type = "Event"
       THEN readsAfterSignal + 1 ELSE readsAfterSignal
countVars == <<vars, readsAfterSignal>>

CountSpec == CountInit /\ [][CountNext]_countVars
FairCountSpec ==
  CountSpec /\ WF_vars(MainStep) /\ \A s \in Streams : WF_vars(StreamStep(s))

\* Once the job is told to stop, at most one more event is read, by whichever
\* thread had already passed its test of the flag: checkForAsyncStopRequest is
\* between nextItemType and the read in the main loop and in every stream.
SignalStopsReading == readsAfterSignal <= 1
=============================================================================
