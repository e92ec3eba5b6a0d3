---------------------------- MODULE StudyPipeline ----------------------------
(***************************************************************************)
(* One run of the thirteen stages over one run directory: every step of a  *)
(* stage's execute (module StagePrograms) is a step here, so that the run  *)
(* can die, an R worker can fail or never answer, and somebody can write   *)
(* into the compliance journal, between any two of them.                   *)
(***************************************************************************)
EXTENDS StagePrograms

CONSTANTS
  Studies,       \* the studies that may be run
  ForgedRows,    \* the rows somebody may write into the journal by hand
  MaxForged      \* how many of them

ASSUME StudyAssumption ==
  /\ Studies \subseteq Study
  /\ ForgedRows \subseteq JournalRow
  /\ MaxForged \in Nat

VARIABLES
  study,         \* the study of this run
  stage,         \* the stage of the pipeline being executed, 14 at the end
  todo,          \* what is left of its program
  worker,        \* whether an R worker is running
  outcome,       \* "running", the terminal state, or "crashed"
  why,           \* what ended the run
  artifacts,     \* the artifacts in the run directory
  recorded,      \* the artifact_written entries, as <<stage, artifact>>
  calls,         \* the ids of the R worker calls made
  store,         \* the ids in the results store
  journal,       \* the compliance journal on disk
  tracker,       \* the rows the open Compliance object has in memory
  decisions,     \* the sequence numbers in the decision log
  nextSeq,       \* nextSeq[h]: the next number of the DecisionLog object h
  checklist,     \* METHOD_COMPLIANCE_CHECKLIST.md: step -> status, or <<>>
  forged         \* history: how many rows were written by hand

control  == <<study, stage, todo, worker>>
ending   == <<outcome, why>>
written  == <<artifacts, recorded, calls, store>>
tracked  == <<journal, tracker, checklist>>
logged   == <<decisions, nextSeq>>
vars     == <<control, ending, written, tracked, logged, forged>>

Handles == {1, 2}

Reasons == {"none", "finished", "computation", "worker", "timeout",
  "verdict or method", "artifact missing", "call repeated", "row repeated",
  "journal not replayable", "step not markable", "steps unrecorded",
  "log with a gap"}

Init ==
  /\ study \in Studies
  /\ stage = 1 /\ todo = Program(1, study) /\ worker = "none"
  /\ outcome = "running" /\ why = "none"
  /\ artifacts = {} /\ recorded = <<>> /\ calls = {} /\ store = <<>>
  /\ journal = <<>> /\ tracker = <<>> /\ checklist = <<>>
  /\ decisions = <<>> /\ nextSeq = [h \in Handles |-> 1]
  /\ forged = 0

-----------------------------------------------------------------------------
(* The run is about to do a step of this kind; what is it about?           *)
Running == outcome = "running"

Doing(op) ==
  /\ Running /\ worker = "none"
  /\ todo # <<>>
  /\ Head(todo).op = op

This == Head(todo).what

Proceed == todo' = Tail(todo) /\ UNCHANGED <<study, stage, worker, ending>>

HaltWith(state, reason) ==
  /\ outcome' = state /\ why' = reason
  /\ worker' = "none" /\ UNCHANGED <<study, stage, todo>>

HaltUntyped(reason) == HaltWith("HALTED", reason)       \* a mutated form

Halt(reason) == HaltWith("HALTED_INTEGRITY", reason)

(* A stage reloads what an earlier one wrote; a missing file is a halt.    *)
ReadArtifact ==
  /\ Doing("read")
  /\ IF This \in artifacts THEN Proceed ELSE Halt("artifact missing")
  /\ UNCHANGED <<written, tracked, logged, forged>>

(* Node calls and computations that may end in a typed halt.               *)
ComputeSomething ==
  /\ Doing("compute")
  /\ Proceed \/ Halt("computation")
  /\ UNCHANGED <<written, tracked, logged, forged>>

(* write_artifact, and the checklist that is written without it.           *)
WriteFile ==
  /\ Doing("file")
  /\ artifacts' = artifacts \cup {This}
  /\ checklist' = IF This = "checklist" THEN Checklist(tracker) ELSE checklist
  /\ Proceed
  /\ UNCHANGED <<recorded, calls, store, journal, tracker, logged, forged>>

RecordWritten ==
  /\ Doing("record")
  /\ recorded' = Append(recorded, <<stage, This>>)
  /\ Proceed
  /\ UNCHANGED <<artifacts, calls, store, tracked, logged, forged>>

(* RWorker.call: the call files of an id are written once.                 *)
SpawnWorker ==
  /\ Doing("call")
  /\ IF This \in calls
       THEN Halt("call repeated") /\ UNCHANGED calls
       ELSE /\ calls' = calls \cup {This}
            /\ worker' = "running"
            /\ UNCHANGED <<study, stage, todo, ending>>
  /\ UNCHANGED <<artifacts, recorded, store, tracked, logged, forged>>

WorkerAnswers ==
  /\ Running /\ worker = "running"
  /\ worker' = "none" /\ todo' = Tail(todo)
  /\ UNCHANGED <<study, stage, ending, written, tracked, logged, forged>>

(* A nonzero exit, no output, or an output outside the envelope.           *)
WorkerFails ==
  /\ Running /\ worker = "running"
  /\ Halt("worker")
  /\ UNCHANGED <<written, tracked, logged, forged>>

WorkerTimesOutNever ==                                  \* a mutated form
  /\ Running /\ worker = "timed out"
  /\ Halt("timeout")
  /\ UNCHANGED <<written, tracked, logged, forged>>

WorkerTimesOut ==
  /\ Running /\ worker = "running"
  /\ Halt("timeout")
  /\ UNCHANGED <<written, tracked, logged, forged>>

(* ResultsStore.write refuses an id it has.                                *)
WriteRow ==
  /\ Doing("row")
  /\ IF Has(store, This)
       THEN Halt("row repeated") /\ UNCHANGED store
       ELSE store' = Append(store, This) /\ Proceed
  /\ UNCHANGED <<artifacts, recorded, calls, tracked, logged, forged>>

(* A new Compliance object replays the journal.                            *)
OpenJournal ==
  /\ Doing("journal")
  /\ IF Replayable(journal, store)
       THEN tracker' = journal /\ Proceed
       ELSE Halt("journal not replayable") /\ UNCHANGED tracker
  /\ UNCHANGED <<journal, checklist, written, logged, forged>>

(* Compliance.mark asks its memory, and appends to memory and disk.        *)
MarkStep ==
  /\ Doing("mark")
  /\ IF Markable(tracker, store, This.step, This.status)
       THEN /\ tracker' = Append(tracker, This)
            /\ journal' = Append(journal, This)
            /\ Proceed
       ELSE Halt("step not markable") /\ UNCHANGED <<tracker, journal>>
  /\ UNCHANGED <<checklist, written, logged, forged>>

RenderChecklist ==
  /\ Doing("render")
  /\ IF Renderable(tracker) THEN Proceed ELSE Halt("steps unrecorded")
  /\ UNCHANGED <<written, tracked, logged, forged>>

(* A new DecisionLog object replays the log and halts on a gap.            *)
GapFree(log) == \A i \in DOMAIN log : log[i] = i

OpenDecisionLog ==
  /\ Doing("log")
  /\ IF GapFree(decisions)
       THEN nextSeq' = [nextSeq EXCEPT ![This] = Len(decisions) + 1] /\ Proceed
       ELSE Halt("log with a gap") /\ UNCHANGED nextSeq
  /\ UNCHANGED <<written, tracked, decisions, forged>>

AppendDecision ==
  /\ Doing("decide")
  /\ decisions' = Append(decisions, nextSeq[This])
  /\ nextSeq' = [nextSeq EXCEPT ![This] = @ + 1]
  /\ Proceed
  /\ UNCHANGED <<written, tracked, forged>>

(* A rejected contract, an advisory, a method the contract has no data for.*)
StopRun ==
  /\ Doing("stop")
  /\ HaltWith(This, "verdict or method")
  /\ UNCHANGED <<written, tracked, logged, forged>>

(* execute returns; after the last stage the run is completed.             *)
StageReturns ==
  /\ Running /\ todo = <<>>
  /\ stage' = stage + 1
  /\ IF stage = Len(Pipeline)
       THEN outcome' = "COMPLETED" /\ why' = "finished" /\ UNCHANGED todo
       ELSE todo' = Program(stage + 1, study) /\ UNCHANGED ending
  /\ UNCHANGED <<study, worker, written, tracked, logged, forged>>

-----------------------------------------------------------------------------
Crash ==
  /\ Running
  /\ outcome' = "crashed" /\ worker' = "none"
  /\ UNCHANGED <<study, stage, todo, why, written, tracked, logged, forged>>

(* Somebody writes a row into the journal on disk.                         *)
ForgeRow ==
  /\ Running /\ forged < MaxForged
  /\ \E r \in ForgedRows : journal' = Append(journal, r)
  /\ forged' = forged + 1
  /\ UNCHANGED <<control, ending, written, tracker, checklist, logged>>

(* What the program does on its own; a worker's answer is not among it.    *)
RunStep ==
  \/ ReadArtifact \/ ComputeSomething \/ WriteFile \/ RecordWritten
  \/ SpawnWorker \/ WorkerTimesOut
  \/ WriteRow \/ OpenJournal \/ MarkStep \/ RenderChecklist
  \/ OpenDecisionLog \/ AppendDecision \/ StopRun \/ StageReturns

Next == RunStep \/ WorkerAnswers \/ WorkerFails \/ Crash \/ ForgeRow

Spec == Init /\ [][Next]_vars

(* The pipeline is sequential code, and the timeout of an R worker is kept *)
(* by the interpreter: neither waits for anybody.                          *)
FairSpec == Spec /\ WF_vars(RunStep)
-----------------------------------------------------------------------------
(* The types of the variables: a run ends in a terminal state of the       *)
(* manifest, and journal and checklist are made of playbook steps.         *)
TypeOK ==
  /\ study \in Studies
  /\ stage \in 1..(Len(Pipeline) + 1)
  /\ worker \in {"none", "running"}
  /\ outcome \in {"running", "COMPLETED", "COMPLETED_TO_BOUNDARY",
                  "HALTED_INTEGRITY", "HALTED_GATE", "crashed"}
  /\ why \in Reasons
  /\ artifacts \subseteq Artifacts
  /\ recorded \in Seq((DOMAIN Pipeline) \X Artifacts)
  /\ \A i \in DOMAIN journal : journal[i] \in JournalRow
  /\ \A i \in DOMAIN tracker : tracker[i] \in JournalRow
  /\ checklist \in {<<>>} \cup [Steps -> Status]
  /\ decisions \in Seq(Nat) /\ nextSeq \in [Handles -> Nat]
  /\ forged \in 0..MaxForged

(* No completed step without its statistics: whatever is written into the  *)
(* journal by hand, the rows the run goes on with, and the checklist it    *)
(* packages, claim completion only of steps whose outputs are all in the   *)
(* store; and a completed run has packaged a checklist of every step.  A   *)
(* step the checklist calls flagged was not performed: no statistic of it  *)
(* is in the store (the data-conditioned PB-12 and PB-14, the stubs).      *)
CompletedIsEvidenced ==
  /\ \A i \in DOMAIN tracker :
       tracker[i].status = "completed" => Evidenced(store, tracker[i].step)
  /\ checklist # <<>> =>
       \A n \in Steps :
         /\ checklist[n] = "completed" => Evidenced(store, n)
         /\ checklist[n] = "flagged" =>
              \A prefix \in Outputs[n] : ~Landed(store, prefix)
  /\ outcome = "COMPLETED" => checklist # <<>>

(* The stage each step of the playbook belongs to.                         *)
StageOf == <<4, 5, 5, 5, 6, 6, 6, 7, 7, 7, 7, 7, 7, 7, 8, 8, 9, 10, 10, 11, 13>>

(* Left alone, the journal has the steps of the playbook in its order: all *)
(* those of the stages that returned, none of the stages not begun.  A run *)
(* that halts or dies leaves evidence of exactly what it did.  The         *)
(* decision log is gap free, whatever was forged, though the measurement   *)
(* stage opens it twice.                                                   *)
JournalFollowsPlaybook ==
  /\ GapFree(decisions)
  /\ forged = 0 =>
       /\ \A i \in DOMAIN journal : journal[i].step = i
       /\ \A n \in Steps : /\ StageOf[n] < stage => n <= Len(journal)
                          /\ StageOf[n] > stage => n > Len(journal)

(* The studies two of whose rows have one id: a construct declared twice,  *)
(* two hypotheses about the same indirect or the same total effect, two    *)
(* pairs of constructs with one joined name.                               *)
Clashing(s) ==
  \/ \E i, j \in DOMAIN s.constructs : i # j /\ s.constructs[i] = s.constructs[j]
  \/ \E i, j \in DOMAIN s.indirect :
       /\ i # j
       /\ HasTotal(s, i) \/ s.indirect[i][2] = s.indirect[j][2]
       /\ s.indirect[i][1] = s.indirect[j][1] /\ s.indirect[i][3] = s.indirect[j][3]
  \/ LET ps == PairsOf(s.constructs)
     IN  \E i, j \in DOMAIN ps : i # j /\ ps[i][1] \o ps[i][2] = ps[j][1] \o ps[j][2]

(* Left alone, a run never trips over its own traces: no artifact it needs *)
(* is missing, no call id comes back, its journal and its decision log     *)
(* replay, every step is recorded at the end.  Only a study with clashing  *)
(* ids repeats a row, only one without a total effect, or with a single    *)
(* construct and so no discriminant validity, fails to evidence a step.    *)
HaltsAreNotSelfInflicted ==
  forged = 0 =>
    /\ why \notin {"artifact missing", "call repeated", "journal not replayable",
                   "steps unrecorded", "log with a gap"}
    /\ why = "row repeated" => Clashing(study)
    /\ why = "step not markable" =>
         \/ Len(study.constructs) < 2
         \/ ~\E i \in DOMAIN study.indirect : HasTotal(study, i)

(* Stages keep their declared contracts: they reload only what they        *)
(* declare to consume, what a returned stage declares to produce is there, *)
(* and every artifact is recorded once, by its producer, except for the    *)
(* checklist.                                                              *)
ArtifactsAccounted ==
  /\ Doing("read") => This \in Consumes[stage]
  /\ \A k \in DOMAIN Pipeline : k < stage => Produces[k] \subseteq artifacts
  /\ \A i \in DOMAIN recorded :
       recorded[i][2] \in Produces[recorded[i][1]] \cup {"advisory"}
  /\ todo = <<>> => \A a \in artifacts \ {"checklist"} :
                         Cardinality({i \in DOMAIN recorded : recorded[i][2] = a}) = 1

(* A run ends though an R worker may never answer.                         *)
EveryStudyEnds == <>(outcome # "running")

(* effects.py: "every row is writable through the append-only store as-is".*)
EffectsRowsAreWritable == ~(why = "row repeated" /\ Pipeline[stage] = "effects")

(* effects.py: a model without the direct edge "lands in Zhao's            *)
(* indirect-only / no-effect branch"; its run gets past PB-17.             *)
FullMediationIsClassified ==
  ~(why = "step not markable" /\ Pipeline[stage] = "effects")
=============================================================================
