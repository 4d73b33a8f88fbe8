-------------------------- MODULE SerialExecution --------------------------
(***************************************************************************)
(* What edm::SerialTaskQueue promises its clients, without saying how: the *)
(* actions handed to one queue run one at a time, in the order in which    *)
(* they were handed over, and each of them at most once.                   *)
(***************************************************************************)
EXTENDS Naturals, Sequences

CONSTANTS Tasks, NoTask

VARIABLES
    waiting,    \* actions handed over and not begun, oldest first
    active,     \* the one action that may be running, or NoTask
    ended       \* actions that ran to their end

absVars == <<waiting, active, ended>>

AbsInit ==
    /\ waiting = <<>>
    /\ active = NoTask
    /\ ended = {}

Known(x) ==
    \/ \E i \in 1..Len(waiting) : waiting[i] = x
    \/ x = active
    \/ x \in ended

Submit(x) ==
    /\ ~Known(x)
    /\ waiting' = Append(waiting, x)
    /\ UNCHANGED <<active, ended>>

Begin ==
    /\ active = NoTask
    /\ waiting # <<>>
    /\ active' = Head(waiting)
    /\ waiting' = Tail(waiting)
    /\ UNCHANGED ended

End ==
    /\ active # NoTask
    /\ ended' = ended \union {active}
    /\ active' = NoTask
    /\ UNCHANGED waiting

AbsNext == (\E x \in Tasks : Submit(x)) \/ Begin \/ End

AbsSpec == AbsInit /\ [][AbsNext]_absVars
=============================================================================
