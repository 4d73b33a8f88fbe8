----------------------------- MODULE EventSelector -----------------------------
(* The choice of the events an output module writes: the criteria of         *)
(* SelectEvents, each about the paths of one process, are turned into lists  *)
(* of bits (EventSelector), one selector per process and stream              *)
(* (TriggerResultsBasedEventSelector).  The selector of the current process  *)
(* is filled when it is made, that of an earlier process with the first      *)
(* event and again when an event comes with other paths.                     *)
EXTENDS Integers, Sequences, FiniteSets

CONSTANTS SelectEvents, \* the values of the parameter: sets of criteria
          TrigPaths,    \* the names of the paths of the current process
          Menus         \* the lists of path names the earlier process may have had

(* A criterion is a record: a process, the set of names its text matches, and  *)
(* whether it is a pattern (`*` itself: star), negated, with &noexception    *)
(* or for exceptions.                                                        *)
Processes == {"now", "before"}
Criterion == [process : Processes, names : SUBSET STRING, glob : BOOLEAN, star : BOOLEAN,
              neg : BOOLEAN, noex : BOOLEAN, exc : BOOLEAN]

ASSUME SelectorAssumption ==
    /\ \A cs \in SelectEvents : cs \subseteq Criterion
    /\ \A names \in Menus \cup {TrigPaths} : names \in Seq(STRING) /\ names # <<>>

VARIABLES criteria, \* its SelectEvents
          menu,     \* the paths of each process that ran for the present event
          lists,    \* the lists of bits of the selector of each process
          psetID,   \* the paths the selector of the earlier process was filled for
          state     \* "made", "event" or "stopped" by a configuration exception

selectorVars == <<criteria, menu, lists, psetID, state>>

CriteriaOf(p) == {c \in criteria : c.process = p}

\* The criteria of a process that name all of its paths in every state.
IsStar(c, neg, exc) == c.star /\ c.neg = neg /\ c.exc = exc /\ ~c.noex
accept_all(p) ==
    /\ \E c \in CriteriaOf(p) : IsStar(c, FALSE, FALSE)
    /\ \E c \in CriteriaOf(p) : IsStar(c, TRUE, FALSE)
    /\ \E c \in CriteriaOf(p) : IsStar(c, FALSE, TRUE)

Matches(c, names) == {i \in DOMAIN names : c.star \/ names[i] \in c.names}

\* Criteria that cannot be used with these paths: initPathNames throws.
Unusable(c, names) ==
    \/ c.neg /\ c.exc
    \/ c.noex /\ c.exc
    \/ Matches(c, names) = {} /\ (~c.glob \/ c.neg)

Empty == [absolute_acceptors |-> {}, conditional_acceptors |-> {}, exception_acceptors |-> {},
          all_must_fail |-> {}, all_must_fail_noex |-> {}]

\* Mutant: the lists of the criteria that want several paths to fail are not cleared.
ClearedButMustFail(l) == [Empty EXCEPT !.all_must_fail = l.all_must_fail]

Cleared(l) == Empty

\* A negated criterion for one path accepts like the others; one for several needs all of them.
Fill(l, cs, names) ==
    LET bits(neg, noex) ==
          {<<i, ~neg>> : i \in UNION {Matches(c, names) :
              c \in {d \in cs : d.neg = neg /\ d.noex = noex /\ ~d.exc
                                /\ (neg => Cardinality(Matches(d, names)) = 1)}}}
        together(noex) ==
          {Matches(c, names) :
              c \in {d \in cs : d.neg /\ d.noex = noex /\ Cardinality(Matches(d, names)) > 1}}
    IN  [absolute_acceptors    |-> l.absolute_acceptors \cup bits(FALSE, FALSE) \cup bits(TRUE, FALSE),
         conditional_acceptors |-> l.conditional_acceptors \cup bits(FALSE, TRUE) \cup bits(TRUE, TRUE),
         exception_acceptors   |-> l.exception_acceptors
                                     \cup UNION {Matches(c, names) : c \in {d \in cs : d.exc}},
         all_must_fail         |-> l.all_must_fail \cup together(FALSE),
         all_must_fail_noex    |-> l.all_must_fail_noex \cup together(TRUE)]

initPathNames(l, cs, names) == Fill(Cleared(l), cs, names)

-----------------------------------------------------------------------------
(* The decision, for the states the paths of a process ended in. *)

acceptOneBit(bits, tr) == \E b \in bits : tr[b[1]] = (IF b[2] THEN "Pass" ELSE "Fail")
containsExceptions(tr) == \E i \in DOMAIN tr : tr[i] = "Exception"
acceptAllBits(positions, tr) == \A i \in positions : tr[i] = "Fail"

selectionDecision(l, tr) ==
    \/ acceptOneBit(l.absolute_acceptors, tr)
    \/ acceptOneBit(l.conditional_acceptors, tr) /\ ~containsExceptions(tr)
    \/ \E i \in l.exception_acceptors : tr[i] = "Exception"
    \/ \E m \in l.all_must_fail : acceptAllBits(m, tr)
    \/ \E m \in l.all_must_fail_noex : acceptAllBits(m, tr) /\ ~containsExceptions(tr)

\* One selector that accepts is enough; without criteria every event is wanted.
wantEvent(tr) ==
    \/ criteria = {}
    \/ \E p \in Processes :
          CriteriaOf(p) # {} /\ (accept_all(p) \/ selectionDecision(lists[p], tr[p]))

-----------------------------------------------------------------------------
(* The states of a selector. *)

\* configureEventSelector: the paths of the current process are known.
SelectorInit ==
    /\ criteria \in SelectEvents
    /\ menu = [p \in Processes |-> IF p = "now" THEN TrigPaths ELSE <<>>]
    /\ lists = [p \in Processes |->
                  IF p = "now" /\ ~accept_all(p)
                  THEN initPathNames(Empty, CriteriaOf(p), menu[p]) ELSE Empty]
    /\ psetID = <<>>
    /\ state = IF ~accept_all("now") /\ \E c \in CriteriaOf("now") : Unusable(c, menu["now"])
               THEN "stopped" ELSE "made"

\* acceptEvent, first half: an event whose earlier process had the paths `names`.  Paths of old
\* files have no parameter set (~known): the selector is filled for each of these events.
StartEvent(names, known) ==
    /\ state # "stopped"
    /\ menu' = [menu EXCEPT !["before"] = names]
    /\ IF CriteriaOf("before") # {} /\ ~accept_all("before") /\ psetID # names
       THEN /\ lists' = [lists EXCEPT !["before"] =
                            initPathNames(@, CriteriaOf("before"), names)]
            /\ IF \E c \in CriteriaOf("before") : Unusable(c, names)
               THEN state' = "stopped" /\ UNCHANGED psetID
               ELSE state' = "event" /\ psetID' = IF known THEN names ELSE <<>>
       ELSE state' = "event" /\ UNCHANGED <<lists, psetID>>
    /\ UNCHANGED criteria

SelectorNext == \E names \in Menus, known \in BOOLEAN : StartEvent(names, known)

SelectorSpec == SelectorInit /\ [][SelectorNext]_selectorVars

-----------------------------------------------------------------------------
(* Properties. *)

\* What a criterion says of the paths it matches, by their names.
Satisfied(c, names, tr) ==
    LET m == Matches(c, names)
    IN  /\ IF c.neg THEN \A i \in m : tr[i] = "Fail"
           ELSE \E i \in m : tr[i] = (IF c.exc THEN "Exception" ELSE "Pass")
        /\ c.noex => ~containsExceptions(tr)

Outcomes(names) == [DOMAIN names -> {"Pass", "Fail", "Exception"}]

\* "If the event is accepted on the basis of any criterion, it is accepted; otherwise it is
\* rejected": the decision on each event, whatever menus the events before it had, is that of the
\* criteria read one by one.
AcceptedByACriterion ==
    state = "event" =>
      \A now \in Outcomes(menu["now"]), before \in Outcomes(menu["before"]) :
         LET tr == [p \in Processes |-> IF p = "now" THEN now ELSE before]
         IN  wantEvent(tr) <=> \/ criteria = {}
                               \/ \E c \in criteria : Satisfied(c, menu[c.process], tr[c.process])
=============================================================================
