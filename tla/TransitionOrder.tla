--------------------------- MODULE TransitionOrder ---------------------------
(***************************************************************************)
(* What modules, sources and output modules rely on: the order in which the *)
(* framework begins, ends and writes runs and luminosity blocks, opens and  *)
(* closes files, when any of these calls may throw.  A thing whose call     *)
(* threw is abandoned: it is not used again, and what encloses it is still  *)
(* brought to its end.  Only a run that could not be saved is written and   *)
(* dropped a second time.                                                   *)
(***************************************************************************)
EXTENDS FiniteSets

Things == {"file", "outputs", "run", "lumi"}

VARIABLES file,      \* the input file is closed, open
          outputs,   \* the output files are closed, open
          run,       \* the current run is none, read, begun, ended, written, or, when
                     \* saving it failed, unsaved and then rewritten
          lumi,      \* the current luminosity block is none, read, begun, ended, written
          abandoned  \* the things of which a call threw

vars == <<file, outputs, run, lumi, abandoned>>

Init == /\ file = "closed" /\ outputs = "closed" /\ run = "none" /\ lumi = "none"
        /\ abandoned = {}

Usable(x) == x \notin abandoned

OpenFile == file = "closed" /\ file' = "open" /\ UNCHANGED <<outputs, run, lumi, abandoned>>
CloseFile == file = "open" /\ file' = "closed" /\ UNCHANGED <<outputs, run, lumi, abandoned>>

OpenOutputs ==
  /\ outputs = "closed" /\ file = "open" /\ run = "none"
  /\ outputs' = "open" /\ UNCHANGED <<file, run, lumi, abandoned>>
\* Everything that belongs in an output file is written by then.
CloseOutputs ==
  /\ outputs = "open" /\ (run = "none" \/ ~Usable("run"))
  /\ outputs' = "closed" /\ UNCHANGED <<file, run, lumi, abandoned>>

MoveRun(from, to) ==
  /\ Usable("run") /\ run \in from /\ run' = to
  /\ UNCHANGED <<file, outputs, lumi, abandoned>>
ReadRun  == file = "open" /\ outputs = "open" /\ lumi = "none" /\ MoveRun({"none"}, "read")
BeginRun == MoveRun({"read"}, "begun")
\* A run ends and is written after all its luminosity blocks.
EndRun   == (lumi = "none" \/ ~Usable("lumi")) /\ MoveRun({"begun"}, "ended")
WriteRun == (lumi = "none" \/ ~Usable("lumi")) /\ outputs = "open" /\ MoveRun({"read", "ended"}, "written")
DeleteRun == MoveRun({"written"}, "none")

\* Writing or dropping the run threw; it is tried again before the outputs close.
FailToSave ==
  /\ run \in {"ended", "written"} /\ run' = "unsaved"
  /\ abandoned' = abandoned \cup {"run"}
  /\ UNCHANGED <<file, outputs, lumi>>
SaveAgain(from, to) ==
  /\ run = from /\ run' = to
  /\ outputs = "open" /\ (lumi = "none" \/ ~Usable("lumi"))
  /\ UNCHANGED <<file, outputs, lumi, abandoned>>
WriteAgain  == SaveAgain("unsaved", "rewritten")
DeleteAgain == SaveAgain("rewritten", "none")

MoveLumi(from, to) ==
  /\ Usable("lumi") /\ Usable("run") /\ lumi \in from /\ lumi' = to
  /\ UNCHANGED <<file, outputs, run, abandoned>>
ReadLumi   == run \in {"read", "begun"} /\ MoveLumi({"none"}, "read")
BeginLumi  == run = "begun" /\ MoveLumi({"read"}, "begun")
EndLumi    == run = "begun" /\ MoveLumi({"begun"}, "ended")
WriteLumi  == outputs = "open" /\ MoveLumi({"read", "ended"}, "written")
DeleteLumi == MoveLumi({"written"}, "none")

Abandon(x) ==
  /\ abandoned' = abandoned \cup {x}
  /\ UNCHANGED <<file, outputs, run, lumi>>

Next ==
  \/ OpenFile \/ CloseFile \/ OpenOutputs \/ CloseOutputs
  \/ ReadRun \/ BeginRun \/ EndRun \/ WriteRun \/ DeleteRun
  \/ FailToSave \/ WriteAgain \/ DeleteAgain
  \/ ReadLumi \/ BeginLumi \/ EndLumi \/ WriteLumi \/ DeleteLumi
  \/ \E x \in Things : Abandon(x)

Spec == Init /\ [][Next]_vars
=============================================================================
