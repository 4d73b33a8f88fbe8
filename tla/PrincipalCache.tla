---------------------------- MODULE PrincipalCache ----------------------------
(***************************************************************************)
(* PrincipalCache (FWCore/Framework/src/PrincipalCache.cc): the one run and *)
(* the one luminosity block that are being processed.  Every operation      *)
(* names the run and block it is about and throws a LogicError when that is *)
(* not what the cache holds.  A run stands for its number and its reduced   *)
(* process history.                                                         *)
(***************************************************************************)
VARIABLES runPrincipal, lumiPrincipal, \* whether the cache holds one
          run_, lumi_                  \* the last run and block inserted

cacheVars == <<runPrincipal, lumiPrincipal, run_, lumi_>>

InitCache == runPrincipal = FALSE /\ lumiPrincipal = FALSE /\ run_ = 0 /\ lumi_ = 0

\* runPrincipal(run) and lumiPrincipal(run, lumi), which merge and delete also test
HoldsRun(r) == runPrincipal /\ r = run_
HoldsLumi(r, l) == lumiPrincipal /\ r = run_ /\ l = lumi_

CanInsertRun == ~runPrincipal
\* A block goes into the run that is in the cache.
CanInsertLumi(r) == ~lumiPrincipal /\ runPrincipal /\ r = run_

InsertRun(r) ==
  /\ CanInsertRun
  /\ runPrincipal' = TRUE /\ run_' = r /\ UNCHANGED <<lumiPrincipal, lumi_>>

InsertLumi(r, l) ==
  /\ CanInsertLumi(r)
  /\ lumiPrincipal' = TRUE /\ lumi_' = l /\ UNCHANGED <<runPrincipal, run_>>

DeleteRun(r) ==
  /\ HoldsRun(r)
  /\ runPrincipal' = FALSE /\ UNCHANGED <<lumiPrincipal, run_, lumi_>>

DeleteLumi(r, l) ==
  /\ HoldsLumi(r, l)
  /\ lumiPrincipal' = FALSE /\ UNCHANGED <<runPrincipal, run_, lumi_>>
=============================================================================
