------------------------- MODULE MessageLoggerScribe -------------------------
(***************************************************************************)
(* ThreadSafeLogMessageLoggerScribe: threads hand messages to runCommand;  *)
(* the one that wins m_messageBeingSent sends its own and the waiting      *)
(* ones, the others leave theirs in m_waitingMessages.  Sending may throw; *)
(* after more than MaxExceptions cms::Exceptions (25 in the code), or one  *)
(* of another type, messages are thrown away (purge_mode).                 *)
(***************************************************************************)
EXTENDS Naturals, Sequences, FiniteSets, SequencesExt

CONSTANTS
    Threads,
    MaxExceptions, \* cms::Exceptions before the scribe gives up
    MaxMessages    \* bound: messages of all threads

ASSUME ScribeAssumption == MaxExceptions \in Nat /\ MaxMessages \in Nat

VARIABLES
    step,              \* where each thread is in log
    hand,              \* the message each thread has in hand, 0 for none
    m_messageBeingSent,
    m_waitingMessages,
    purge_mode,
    active,
    count,             \* exceptions so far
    logged,            \* messages so far, numbered from 1
    sent,              \* what admin_p->log has taken, in order
    dropped,           \* messages lost to an exception, purge mode or SHUT_UP
    over               \* the destructor has run

scribeVars == <<step, hand, m_messageBeingSent, m_waitingMessages, purge_mode, active,
                count, logged, sent, dropped, over>>

ScribeInit ==
    /\ step = [t \in Threads |-> "idle"]
    /\ hand = [t \in Threads |-> 0]
    /\ m_messageBeingSent = FALSE
    /\ m_waitingMessages = <<>>
    /\ purge_mode = FALSE
    /\ active = TRUE
    /\ count = 0
    /\ logged = 0
    /\ sent = <<>>
    /\ dropped = {}
    /\ over = FALSE

(* LOG_A_MESSAGE, up to the compare_exchange of log. *)
LogAMessage(t) ==
    /\ step[t] = "idle" /\ ~over
    /\ logged < MaxMessages
    /\ logged' = logged + 1
    /\ IF active /\ ~purge_mode
       THEN /\ hand' = [hand EXCEPT ![t] = logged']
            /\ step' = [step EXCEPT ![t] = IF m_messageBeingSent THEN "pushing" ELSE "sending"]
            /\ m_messageBeingSent' = TRUE
            /\ UNCHANGED dropped
       ELSE /\ dropped' = dropped \cup {logged'}
            /\ UNCHANGED <<hand, step, m_messageBeingSent>>
    /\ UNCHANGED <<m_waitingMessages, purge_mode, active, count, sent, over>>

Push(t) ==
    /\ step[t] = "pushing"
    /\ m_waitingMessages' = Append(m_waitingMessages, hand[t])
    /\ hand' = [hand EXCEPT ![t] = 0]
    /\ step' = [step EXCEPT ![t] = "idle"]
    /\ UNCHANGED <<m_messageBeingSent, purge_mode, active, count, logged, sent, dropped, over>>

(* admin_p->log of the message in hand *)
Send(t) ==
    /\ step[t] = "sending"
    /\ sent' = Append(sent, hand[t])
    /\ hand' = [hand EXCEPT ![t] = 0]
    /\ step' = [step EXCEPT ![t] = "popping"]
    /\ UNCHANGED <<m_messageBeingSent, m_waitingMessages, purge_mode, active, count, logged,
                   dropped, over>>

(* admin_p->log throws: the message is deleted, the catch clauses of       *)
(* runCommand count the exception or give up, and nobody gives the turn    *)
(* up.                                                                     *)
Throw(t, isCmsException) ==
    /\ step[t] = "sending"
    /\ dropped' = dropped \cup {hand[t]}
    /\ hand' = [hand EXCEPT ![t] = 0]
    /\ step' = [step EXCEPT ![t] = "idle"]
    /\ count' = IF isCmsException THEN count + 1 ELSE count
    /\ purge_mode' = (purge_mode \/ ~isCmsException \/ count' > MaxExceptions)
    /\ UNCHANGED <<m_messageBeingSent, m_waitingMessages, active, logged, sent, over>>

(* Slip: the turn is given up before the last waiting messages are taken.  *)
PopAfterRelease(t) ==
    /\ step[t] = "popping"
    /\ IF ~purge_mode /\ m_waitingMessages # <<>>
       THEN /\ hand' = [hand EXCEPT ![t] = Head(m_waitingMessages)]
            /\ m_waitingMessages' = Tail(m_waitingMessages)
            /\ step' = [step EXCEPT ![t] = "sending"]
            /\ m_messageBeingSent' = FALSE
       ELSE /\ step' = [step EXCEPT ![t] = "idle"]
            /\ m_messageBeingSent' = FALSE
            /\ UNCHANGED <<hand, m_waitingMessages>>
    /\ UNCHANGED <<purge_mode, active, count, logged, sent, dropped, over>>

(* while(not purge_mode and m_waitingMessages.try_pop(errorobj_p)) *)
Pop(t) ==
    /\ step[t] = "popping"
    /\ IF ~purge_mode /\ m_waitingMessages # <<>>
       THEN /\ hand' = [hand EXCEPT ![t] = Head(m_waitingMessages)]
            /\ m_waitingMessages' = Tail(m_waitingMessages)
            /\ step' = [step EXCEPT ![t] = "sending"]
       ELSE /\ step' = [step EXCEPT ![t] = "releasing"]
            /\ UNCHANGED <<hand, m_waitingMessages>>
    /\ UNCHANGED <<m_messageBeingSent, purge_mode, active, count, logged, sent, dropped, over>>

Release(t) ==
    /\ step[t] = "releasing"
    /\ m_messageBeingSent' = FALSE
    /\ step' = [step EXCEPT ![t] = "idle"]
    /\ UNCHANGED <<hand, m_waitingMessages, purge_mode, active, count, logged, sent, dropped, over>>

ShutUp ==
    /\ active /\ ~over
    /\ active' = FALSE
    /\ UNCHANGED <<step, hand, m_messageBeingSent, m_waitingMessages, purge_mode, count, logged,
                   sent, dropped, over>>

(* ~ThreadSafeLogMessageLoggerScribe, when no thread logs any more: the    *)
(* waiting messages are sent, unless there is purge_mode, and deleted.     *)
Destruct ==
    /\ ~over
    /\ \A t \in Threads : step[t] = "idle"
    /\ over' = TRUE
    /\ m_waitingMessages' = <<>>
    /\ sent' = IF purge_mode THEN sent ELSE sent \o m_waitingMessages
    /\ dropped' = IF purge_mode THEN dropped \cup Range(m_waitingMessages) ELSE dropped
    /\ UNCHANGED <<step, hand, m_messageBeingSent, purge_mode, active, count, logged>>

ScribeNext ==
    \/ \E t \in Threads : LogAMessage(t) \/ Push(t) \/ Send(t) \/ Pop(t) \/ Release(t)
    \/ \E t \in Threads, isCmsException \in BOOLEAN : Throw(t, isCmsException)
    \/ ShutUp \/ Destruct

ScribeSpec == ScribeInit /\ [][ScribeNext]_scribeVars

---------------------------------------------------------------------------
(* The destinations are used by one thread at a time, and a message is     *)
(* sent once or dropped, waiting or in one hand; one that waits while      *)
(* nobody sends, pushed when the owner of the turn had already looked for  *)
(* the last time or left behind by an exception, is still sent when the    *)
(* job ends (log, and the destructor).                                     *)
MessagesKept ==
    /\ Cardinality({t \in Threads : step[t] \in {"sending", "popping"}}) <= 1
    /\ IsInjective(sent \o m_waitingMessages)
    /\ LET held == {hand[t] : t \in Threads} \ {0}
           parts == <<Range(sent), Range(m_waitingMessages), dropped, held>>
       IN /\ UNION Range(parts) = 1 .. logged
          /\ \A i, j \in DOMAIN parts : i # j => parts[i] \cap parts[j] = {}
    /\ (over /\ active /\ count = 0 /\ ~purge_mode) => Range(sent) = 1 .. logged
=============================================================================
