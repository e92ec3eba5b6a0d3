------------------------------- MODULE RunDir -------------------------------
(***************************************************************************)
(* What one run directory holds on disk, and the operations of the run     *)
(* manifest on it (src/burhan/core/manifest.py), as operators on values.   *)
(*                                                                         *)
(* Stages are the positions 1..NStages of the tuple PIPELINE, whose order  *)
(* is fixed in the code.  Data is reduced to what the properties tell      *)
(* apart: a stage's artifacts are one value, the time of sealing is        *)
(* whether there is one, and a hash is the value hashed (SHA-256 without   *)
(* collisions).                                                            *)
(***************************************************************************)
EXTENDS Integers, Sequences, FiniteSets

CONSTANT NStages          \* the number of stages of PIPELINE, 13 in the code

ASSUME NStagesAssumption == NStages \in Nat \ {0}

PIPELINE == 1..NStages

Halted == {"HALTED_INTEGRITY", "HALTED_VERIFICATION", "HALTED_GATE"}

Boundary == "COMPLETED_TO_BOUNDARY"

TERMINAL_STATES == {"COMPLETED", Boundary} \cup Halted

Verdict == {"PASSED", "FAILED", "SKIPPED_BOUNDARY"}

Event == {"stage_complete", "halt", "advisory_issued"}

-----------------------------------------------------------------------------
(* The files under the run directory other than manifest.json:             *)
(*   prov    PROVENANCE.jsonl, the orchestrator's own entries              *)
(*   art     what each stage wrote, "none" before it ran; "varied" is a    *)
(*           result that differs from the one computed before, "foreign"   *)
(*           one that no stage writes                                      *)
(*   marker  the run state named in PARTIAL_NON_FINAL.txt, or "none"       *)
(*   report  run_report.json and RUN_REPORT.md, one value: they are        *)
(*           written together from the same arguments                      *)
(*   halt    whether there is a halt_report.json in the run directory      *)

Entry == [seq : Nat, stage : PIPELINE, event : Event]

Report == [state : {"none"} \cup TERMINAL_STATES, completed : Nat,
           failed : 0..NStages]

OtherFiles ==
  [prov : Seq(Entry),
   art : [PIPELINE -> {"none", "computed", "varied", "foreign"}],
   marker : {"none"} \cup TERMINAL_STATES,
   report : Report,
   halt : BOOLEAN]

NoReport == [state |-> "none", completed |-> 0, failed |-> 0]

NoFiles ==
  [prov |-> <<>>, art |-> [k \in PIPELINE |-> "none"], marker |-> "none",
   report |-> NoReport, halt |-> FALSE]

WithHaltReport(fs) == [fs EXCEPT !.halt = TRUE]

WithEntry(fs, e) == [fs EXCEPT !.prov = Append(@, e)]

WithArtifacts(fs, k, c) == [fs EXCEPT !.art[k] = c]

WithMarker(fs, st) == [fs EXCEPT !.marker = st]

WithReport(fs, r) == [fs EXCEPT !.report = r]

(* manifest.json: its run state ("absent" while there is no such file), the *)
(* stage records, whether it has a time of sealing, the stored root of the  *)
(* hash tree (<<>> while there is no seal), and whether the bytes on disk   *)
(* are the canonical serialization of the content.                          *)

StageRecord == [stage : PIPELINE, state : Verdict]

ManifestWith(roots) ==
  [state : {"absent", "PENDING"} \cup TERMINAL_STATES,
   stages : Seq(StageRecord), stamped : BOOLEAN, root : roots,
   canonical : BOOLEAN]

Forged == <<"forged">>

HashTree == ManifestWith({<<>>}) \X OtherFiles

ManifestFile == ManifestWith({<<>>, Forged} \cup HashTree)

NoManifest ==
  [state |-> "absent", stages |-> <<>>, stamped |-> FALSE, root |-> <<>>,
   canonical |-> TRUE]

NewManifest == [NoManifest EXCEPT !.state = "PENDING"]

WithStage(m, k, v) ==
  [m EXCEPT !.stages = Append(@, [stage |-> k, state |-> v])]

IsSealed(m) == m.root # <<>>

-----------------------------------------------------------------------------
(* The hash tree has a leaf for every file and, for the manifest, one of    *)
(* its content without the stored root.                                     *)

RootOfFilesAlone(m, fs) == <<NoManifest, fs>>          \* a mutated form

HashTreeRoot(m, fs) == <<[m EXCEPT !.root = <<>>], fs>>

SealManifest(m, fs, st) ==
  LET closed == [m EXCEPT !.state = st, !.stamped = TRUE]
  IN  [closed EXCEPT !.root = HashTreeRoot(closed, fs)]

(* verify_seal: a manifest is there, its bytes are canonical, it is sealed, *)
(* and the recomputed root is the stored one.                               *)

VerifySeal(m, fs) ==
  /\ m.state # "absent"
  /\ m.canonical
  /\ IsSealed(m)
  /\ m.root = HashTreeRoot(m, fs)
=============================================================================
