--------------------------- MODULE MCOrchestrator ---------------------------
(* Orchestrator on two stages, the second of them not deterministic.     *)
EXTENDS Orchestrator

CONSTANTS p1, p2, p3, d1, d2

MCProcs == {p1, p2, p3}

MCDirs == {d1, d2}

MCFlaky == {2}

(* One of the three HALTED states stands for them all: run treats them     *)
(* alike.                                                                  *)
MCOutcome == {"passed", "untyped", Boundary, "HALTED_GATE"}

MCNone == {}

MCReruns == {"rerun"}

(* Reruns of one source may overlap anywhere but between the test of the   *)
(* target and its mkdir.  Invocations and directories are alike, so p1 may *)
(* be taken to come first and to be given d1; p3 comes to rerun what p2,   *)
(* at work, dead or done, is rerunning.                                    *)
InTurn ==
  /\ Unraced'
  /\ target'[p1] \in {NoDir, d1}
  /\ pc'[p2] # "idle" => pc'[p1] # "idle"
  /\ pc'[p3] # "idle" =>
       /\ source'[p2] # NoDir
       /\ source'[p3] = source'[p2] /\ target'[p3] = target'[p2]
=============================================================================
