---------------------------- MODULE Orchestrator ----------------------------
(***************************************************************************)
(* Orchestrator.run and Orchestrator.rerun (src/burhan/core/orchestrator   *)
(* .py) as concurrent invocations over run directories on one disk.        *)
(*                                                                         *)
(* Every write to the disk is a step of its own, so an invocation may be   *)
(* interleaved with another one, or die, between any two of them.  An      *)
(* invocation keeps in memory the manifest it last wrote, the next         *)
(* provenance sequence number and the list of executed stages.  A write    *)
(* that fails with an OSError outside of Stage.execute leaves run by an    *)
(* exception nobody catches: for the disk that is a crash.                 *)
(***************************************************************************)
EXTENDS RunDir

CONSTANTS
  Procs,       \* invocations of the command line
  Dirs,        \* run directories
  NoDir,       \* stands for "no source directory": a plain run
  Flaky,       \* stages whose result may differ between two executions
  Outcome,     \* how Stage.execute may end
  MaxEdits,    \* how many sealed directories are edited from outside
  Collisions   \* which launches, "run" or "rerun", may share a directory

(* Stage.execute returns, raises one of the four taxonomy halts (named by   *)
(* the run state each maps to), or raises something outside the taxonomy.   *)
Endings == {"passed", "untyped", Boundary} \cup Halted

ASSUME OrchestratorAssumption ==
  /\ NoDir \notin Dirs
  /\ Flaky \subseteq PIPELINE
  /\ "passed" \in Outcome /\ Outcome \subseteq Endings
  /\ MaxEdits \in Nat
  /\ Collisions \subseteq {"run", "rerun"}

RunStateUnwrapped(o) ==                                \* a mutated form
  IF o = "passed" THEN "COMPLETED" ELSE o

RunStateNoBoundary(o) ==                               \* a mutated form
  CASE o \in {"passed", Boundary} -> "COMPLETED"
    [] o = "untyped"              -> "HALTED_INTEGRITY"
    [] OTHER                      -> o

(* The terminal state of a run whose last stage ended in o.                *)
RunState(o) ==
  CASE o = "passed"  -> "COMPLETED"
    [] o = "untyped" -> "HALTED_INTEGRITY"
    [] OTHER         -> o

VARIABLES
  exists,      \* the directories that have been made
  manifest,    \* manifest[d]: what is in d/manifest.json
  files,       \* files[d]: the other files of d
  script,      \* script[k]: how stage k ends on this study's inputs
  pc,          \* pc[p]: the next step of invocation p
  target,      \* target[p]: the directory p writes
  source,      \* source[p]: the sealed directory p re-runs, or NoDir
  handle,      \* handle[p]: the manifest p holds in memory
  nextSeq,     \* nextSeq[p]: the next provenance sequence number of p
  stage,       \* stage[p]: the stage the loop of p is at
  executed,    \* executed[p]: how many stages p has completed
  outcome,     \* outcome[p]: how the last stage executed by p ended
  sealedAs,    \* history: manifest and files of d when it was sealed
  edited       \* history: the sealed directories edited from outside

disk  == <<exists, manifest, files>>
local == <<target, source, handle, nextSeq, stage, executed, outcome>>
ghost == <<sealedAs, edited>>
vars  == <<disk, script, pc, local, ghost>>

-----------------------------------------------------------------------------
Ended == {"returned", "raised", "crashed"}

Live(p) == pc[p] \notin {"idle"} \cup Ended

NeverSealed == [manifest |-> NoManifest, files |-> NoFiles]

(* What differs between studies is which deterministic stage, if any, does *)
(* not pass, and how it ends; the entry of a flaky stage is never read.    *)
Scripts ==
  {[k \in PIPELINE |-> "passed"]} \cup
  {[k \in PIPELINE |-> IF k = f THEN o ELSE "passed"] :
     f \in PIPELINE \ Flaky, o \in Outcome \ {"passed"}}

Init ==
  /\ exists = {}
  /\ manifest = [d \in Dirs |-> NoManifest]
  /\ files = [d \in Dirs |-> NoFiles]
  /\ script \in Scripts
  /\ pc = [p \in Procs |-> "idle"]
  /\ target = [p \in Procs |-> NoDir]
  /\ source = [p \in Procs |-> NoDir]
  /\ handle = [p \in Procs |-> NoManifest]
  /\ nextSeq = [p \in Procs |-> 0]
  /\ stage = [p \in Procs |-> 1]
  /\ executed = [p \in Procs |-> 0]
  /\ outcome = [p \in Procs |-> "passed"]
  /\ sealedAs = [d \in Dirs |-> NeverSealed]
  /\ edited = {}

Goto(p, l) == pc' = [pc EXCEPT ![p] = l]

(* No invocation that is still going has been given directory d.           *)
Unshared(d) == \A q \in Procs : Live(q) => target[q] # d

-----------------------------------------------------------------------------
(* Launching.                                                              *)

(* A run directory is named after the second of the launch: it is new      *)
(* unless two launches fall into the same second.                          *)
LaunchRun(p, d) ==
  /\ pc[p] = "idle"
  /\ "run" \in Collisions \/ (Unshared(d) /\ d \notin exists)
  /\ target' = [target EXCEPT ![p] = d]
  /\ Goto(p, "mkdir")
  /\ UNCHANGED <<disk, script, source, handle, nextSeq, stage, executed,
                 outcome, ghost>>

(* rerun of s into d: verify_seal of the source comes first.  The target   *)
(* is named after the source, so two reruns of one source share it.        *)
LaunchRerun(p, s, d) ==
  /\ pc[p] = "idle"
  /\ s # d
  /\ \A q \in Procs : Live(q) /\ target[q] = d =>
                      "rerun" \in Collisions /\ source[q] = s
  /\ target' = [target EXCEPT ![p] = d]
  /\ source' = [source EXCEPT ![p] = s]
  /\ Goto(p, IF VerifySeal(manifest[s], files[s]) THEN "exists" ELSE "raised")
  /\ UNCHANGED <<disk, script, handle, nextSeq, stage, executed, outcome,
                 ghost>>

CheckTargetSealed(p) ==                                \* a mutated form
  /\ pc[p] = "exists"
  /\ Goto(p, IF IsSealed(manifest[target[p]]) THEN "raised" ELSE "mkdir")
  /\ UNCHANGED <<disk, script, local, ghost>>

(* rerun refuses a target that exists.                                     *)
CheckTarget(p) ==
  /\ pc[p] = "exists"
  /\ Goto(p, IF target[p] \in exists THEN "raised" ELSE "mkdir")
  /\ UNCHANGED <<disk, script, local, ghost>>

-----------------------------------------------------------------------------
(* The registry check, Manifest.open, Provenance(...).                     *)

(* A registry that misses or adds a stage is refused before the first      *)
(* write.                                                                  *)
RefuseRegistry(p) ==
  /\ pc[p] = "mkdir"
  /\ Goto(p, "raised")
  /\ UNCHANGED <<disk, script, local, ghost>>

MakeDir(p) ==
  /\ pc[p] = "mkdir"
  /\ exists' = exists \cup {target[p]}
  /\ Goto(p, "open")
  /\ UNCHANGED <<manifest, files, script, local, ghost>>

(* The caller's manifest fields are refused; those of a rerun come from a  *)
(* manifest that has been accepted.                                        *)
RejectFields(p) ==
  /\ pc[p] = "open" /\ source[p] = NoDir
  /\ files' = [files EXCEPT ![target[p]] = WithHaltReport(@)]
  /\ Goto(p, "raised")
  /\ UNCHANGED <<exists, manifest, script, local, ghost>>

(* Nothing looks at a manifest.json that is already there.                 *)
OpenManifest(p) ==
  /\ pc[p] = "open"
  /\ handle' = [handle EXCEPT ![p] = NewManifest]
  /\ manifest' = [manifest EXCEPT ![target[p]] = NewManifest]
  /\ Goto(p, "logs")
  /\ UNCHANGED <<exists, files, script, target, source, nextSeq, stage,
                 executed, outcome, ghost>>

(* The appender replays the log it finds and halts on a gap.               *)
OpenProvenance(p) ==
  LET log     == files[target[p]].prov
      gapFree == \A i \in 1..Len(log) : log[i].seq = i
  IN  /\ pc[p] = "logs"
      /\ nextSeq' = [nextSeq EXCEPT ![p] = Len(log) + 1]
      /\ files' = IF gapFree THEN files
                  ELSE [files EXCEPT ![target[p]] = WithHaltReport(@)]
      /\ Goto(p, IF gapFree THEN "stage" ELSE "raised")
      /\ UNCHANGED <<exists, manifest, script, target, source, handle, stage,
                     executed, outcome, ghost>>

-----------------------------------------------------------------------------
(* The loop of run.                                                        *)

(* Stage.execute writes its artifacts and ends in some way: as the study's *)
(* script has it, or in any way when the stage is not deterministic.       *)
ExecuteStage(p) ==
  /\ pc[p] = "stage"
  /\ \E o \in Outcome, c \in {"computed", "varied"} :
       /\ stage[p] \notin Flaky => o = script[stage[p]] /\ c = "computed"
       /\ files' = [files EXCEPT ![target[p]] = WithArtifacts(@, stage[p], c)]
       /\ outcome' = [outcome EXCEPT ![p] = o]
       /\ Goto(p, CASE o = "passed"  -> "passed"
                    [] o = "untyped" -> "wrap"
                    [] OTHER         -> "failed")
  /\ UNCHANGED <<exists, manifest, script, target, source, handle, nextSeq,
                 stage, executed, ghost>>

(* Manifest.record_stage of invocation p: the manifest in memory, extended, *)
(* replaces the one on disk.                                               *)
RecordStage(p, k, v) ==
  /\ handle' = [handle EXCEPT ![p] = WithStage(@, k, v)]
  /\ manifest' = [manifest EXCEPT ![target[p]] = WithStage(handle[p], k, v)]

(* Provenance.append of invocation p.                                      *)
AppendEvent(p, e) ==
  /\ files' = [files EXCEPT ![target[p]] =
       WithEntry(@, [seq |-> nextSeq[p], stage |-> stage[p], event |-> e])]
  /\ nextSeq' = [nextSeq EXCEPT ![p] = @ + 1]

RecordPassedInMemory(p) ==                             \* a mutated form
  /\ pc[p] = "passed"
  /\ handle' = [handle EXCEPT ![p] = WithStage(@, stage[p], "PASSED")]
  /\ Goto(p, "complete")
  /\ UNCHANGED <<disk, script, target, source, nextSeq, stage, executed,
                 outcome, ghost>>

RecordPassed(p) ==
  /\ pc[p] = "passed"
  /\ RecordStage(p, stage[p], "PASSED")
  /\ Goto(p, "complete")
  /\ UNCHANGED <<exists, files, script, target, source, nextSeq, stage,
                 executed, outcome, ghost>>

AppendComplete(p) ==
  /\ pc[p] = "complete"
  /\ AppendEvent(p, "stage_complete")
  /\ executed' = [executed EXCEPT ![p] = @ + 1]
  /\ IF stage[p] = NStages
       THEN Goto(p, "report") /\ UNCHANGED stage
       ELSE Goto(p, "stage") /\ stage' = [stage EXCEPT ![p] = @ + 1]
  /\ UNCHANGED <<exists, manifest, script, target, source, handle, outcome,
                 ghost>>

-----------------------------------------------------------------------------
(* _terminate.                                                             *)

(* An exception outside the taxonomy is wrapped, and its report written.   *)
WrapUntyped(p) ==
  /\ pc[p] = "wrap"
  /\ files' = [files EXCEPT ![target[p]] = WithHaltReport(@)]
  /\ Goto(p, "failed")
  /\ UNCHANGED <<exists, manifest, script, local, ghost>>

RecordFailed(p) ==
  /\ pc[p] = "failed"
  /\ RecordStage(p, stage[p], "FAILED")
  /\ Goto(p, "halt")
  /\ UNCHANGED <<exists, files, script, target, source, nextSeq, stage,
                 executed, outcome, ghost>>

AppendHaltMarksAll(p) ==                               \* a mutated form
  LET state == RunState(outcome[p])
  IN  /\ pc[p] = "halt"
      /\ AppendEvent(p, IF state \in Halted THEN "halt" ELSE "advisory_issued")
      /\ Goto(p, "mark")
      /\ UNCHANGED <<exists, manifest, script, target, source, handle, stage,
                     executed, outcome, ghost>>

AppendHalt(p) ==
  LET state == RunState(outcome[p])
  IN  /\ pc[p] = "halt"
      /\ AppendEvent(p, IF state \in Halted THEN "halt" ELSE "advisory_issued")
      /\ Goto(p, IF state = Boundary THEN "skip" ELSE "mark")
      /\ UNCHANGED <<exists, manifest, script, target, source, handle, stage,
                     executed, outcome, ghost>>

(* The loop over the remaining stages: one more is recorded, or it ends.   *)
SkipStage(p) ==
  LET next == Len(handle[p].stages) + 1
  IN  /\ pc[p] = "skip" /\ next <= NStages
      /\ RecordStage(p, next, "SKIPPED_BOUNDARY")
      /\ UNCHANGED <<pc, exists, files, script, target, source, nextSeq,
                     stage, executed, outcome, ghost>>

SkippedAllPastEnd(p) ==                                \* a mutated form
  /\ pc[p] = "skip" /\ Len(handle[p].stages) > NStages
  /\ Goto(p, "report")
  /\ UNCHANGED <<disk, script, local, ghost>>

SkippedAll(p) ==
  /\ pc[p] = "skip" /\ Len(handle[p].stages) >= NStages
  /\ Goto(p, "report")
  /\ UNCHANGED <<disk, script, local, ghost>>

MarkNonFinal(p) ==
  /\ pc[p] = "mark"
  /\ files' = [files EXCEPT ![target[p]] = WithMarker(@, RunState(outcome[p]))]
  /\ Goto(p, "report")
  /\ UNCHANGED <<exists, manifest, script, local, ghost>>

-----------------------------------------------------------------------------
(* The end of run, and of rerun.                                           *)

ReportOf(p) ==
  [state     |-> RunState(outcome[p]),
   completed |-> executed[p],
   failed    |-> IF outcome[p] = "passed" THEN 0 ELSE stage[p]]

WriteReport(p) ==
  /\ pc[p] = "report"
  /\ files' = [files EXCEPT ![target[p]] = WithReport(@, ReportOf(p))]
  /\ Goto(p, "seal")
  /\ UNCHANGED <<exists, manifest, script, local, ghost>>

Seal(p) ==
  LET d      == target[p]
      sealed == SealManifest(handle[p], files[d], RunState(outcome[p]))
  IN  /\ pc[p] = "seal"
      /\ handle' = [handle EXCEPT ![p] = sealed]
      /\ manifest' = [manifest EXCEPT ![d] = sealed]
      /\ sealedAs' = [sealedAs EXCEPT ![d] =
                        [manifest |-> sealed, files |-> files[d]]]
      /\ Goto(p, IF source[p] = NoDir THEN "returned" ELSE "compare")
      /\ UNCHANGED <<exists, files, script, target, source, nextSeq, stage,
                     executed, outcome, edited>>

(* rerun compares every file but manifest.json; a difference is a          *)
(* VerificationHalt raised after the target has been sealed.               *)
CompareNames(p) ==                                     \* a mutated form
  /\ pc[p] = "compare"
  /\ Goto(p, IF DOMAIN files[source[p]] = DOMAIN files[target[p]]
               THEN "returned" ELSE "raised")
  /\ UNCHANGED <<disk, script, local, ghost>>

CompareReportsInTarget(p) ==                           \* a mutated form
  LET same == files[source[p]] = files[target[p]]
  IN  /\ pc[p] = "compare"
      /\ files' = IF same THEN files
                  ELSE [files EXCEPT ![target[p]] = WithHaltReport(@)]
      /\ Goto(p, IF same THEN "returned" ELSE "raised")
      /\ UNCHANGED <<exists, manifest, script, local, ghost>>

Compare(p) ==
  /\ pc[p] = "compare"
  /\ Goto(p, IF files[source[p]] = files[target[p]] THEN "returned" ELSE "raised")
  /\ UNCHANGED <<disk, script, local, ghost>>

-----------------------------------------------------------------------------
(* The environment: a process dies between two of its steps, or somebody   *)
(* edits a sealed directory without recomputing its hash tree.             *)

Crash(p) ==
  /\ Live(p)
  /\ Goto(p, "crashed")
  /\ UNCHANGED <<disk, script, local, ghost>>

ManifestEdits(m) ==
  {[m EXCEPT !.state = s] : s \in {"COMPLETED", Boundary} \ {m.state}} \cup
  {[m EXCEPT !.stages[i].state = "PASSED"] :
     i \in {j \in 1..Len(m.stages) : m.stages[j].state # "PASSED"}} \cup
  {[m EXCEPT !.stamped = FALSE], [m EXCEPT !.root = Forged],
   [m EXCEPT !.canonical = FALSE]}

FileEdits(fs) ==
  {WithArtifacts(fs, k, "foreign") : k \in PIPELINE} \cup
  {WithReport(fs, NoReport)}

EditFrom(d) ==
  /\ IsSealed(manifest[d]) /\ d \notin edited
  /\ Cardinality(edited) < MaxEdits
  /\ edited' = edited \cup {d}
  /\ UNCHANGED <<exists, script, pc, local, sealedAs>>

EditManifest(d) ==
  /\ EditFrom(d)
  /\ \E m \in ManifestEdits(manifest[d]) :
       manifest' = [manifest EXCEPT ![d] = m]
  /\ UNCHANGED files

EditFile(d) ==
  /\ EditFrom(d)
  /\ \E fs \in FileEdits(files[d]) : files' = [files EXCEPT ![d] = fs]
  /\ UNCHANGED manifest

-----------------------------------------------------------------------------
Run(p) ==
  \/ CheckTarget(p) \/ MakeDir(p) \/ OpenManifest(p) \/ OpenProvenance(p)
  \/ ExecuteStage(p) \/ RecordPassed(p) \/ AppendComplete(p)
  \/ WrapUntyped(p) \/ RecordFailed(p) \/ AppendHalt(p)
  \/ SkipStage(p) \/ SkippedAll(p) \/ MarkNonFinal(p)
  \/ WriteReport(p) \/ Seal(p) \/ Compare(p)

Launch(p) ==
  \E d \in Dirs :
    \/ LaunchRun(p, d)
    \/ \E s \in Dirs : LaunchRerun(p, s, d)

Next ==
  \/ \E p \in Procs :
       Launch(p) \/ RefuseRegistry(p) \/ RejectFields(p) \/ Run(p) \/ Crash(p)
  \/ \E d \in Dirs : EditManifest(d) \/ EditFile(d)

Spec == Init /\ [][Next]_vars

(* A process that has not died goes on: the loop is sequential code with   *)
(* no waiting.  Launches, refusals, crashes and edits need not happen.     *)
FairSpec == Spec /\ \A p \in Procs : WF_vars(Run(p))

-----------------------------------------------------------------------------
(* Properties.                                                             *)

(* The types of the variables.  In particular every run state written to   *)
(* the disk is one, and never the exception that led to it.                *)
FileState == [manifest : ManifestFile, files : OtherFiles]

TypeOK ==
  /\ exists \subseteq Dirs
  /\ manifest \in [Dirs -> ManifestFile]
  /\ files \in [Dirs -> OtherFiles]
  /\ script \in [PIPELINE -> Outcome]
  /\ pc \in [Procs -> {"idle", "exists", "mkdir", "open", "logs", "stage",
                       "passed", "complete", "wrap", "failed", "halt", "skip",
                       "mark", "report", "seal", "compare"} \cup Ended]
  /\ target \in [Procs -> Dirs \cup {NoDir}]
  /\ source \in [Procs -> Dirs \cup {NoDir}]
  /\ handle \in [Procs -> ManifestFile]
  /\ nextSeq \in [Procs -> Nat]
  /\ stage \in [Procs -> PIPELINE]
  /\ executed \in [Procs -> Nat]
  /\ outcome \in [Procs -> Outcome]
  /\ sealedAs \in [Dirs -> FileState]
  /\ edited \subseteq Dirs

(* Invocation p has opened, and so written, the manifest of its directory. *)
Opened(p) == handle[p].state # "absent"

(* No two invocations are between the test of a target and its mkdir with  *)
(* the same target.  Nothing in the program sees to this: the test is in   *)
(* rerun and the mkdir in Manifest.open.                                   *)
Unraced ==
  \A p, q \in Procs :
    p # q /\ pc[p] = "mkdir" /\ pc[q] = "mkdir" => target[p] # target[q]

(* "Run directories are written once": two invocations never open the      *)
(* manifest of the same directory, whether one is still going, has crashed *)
(* or has sealed it.  It holds as long as every state is Unraced.          *)
OneWriter ==
  \A p, q \in Procs :
    p # q /\ Opened(p) /\ Opened(q) => target[p] # target[q]

(* The first n stage records, and the first n provenance entries, of a run *)
(* that passed k stages and then, if k < NStages, ended in state s.        *)
Records(n, k) ==
  [i \in 1..n |->
     [stage |-> i,
      state |-> IF i <= k THEN "PASSED"
                ELSE IF i = k + 1 THEN "FAILED" ELSE "SKIPPED_BOUNDARY"]]

Entries(n, k, s) ==
  [i \in 1..n |->
     [seq |-> i, stage |-> i,
      event |-> IF i <= k THEN "stage_complete"
                ELSE IF s \in Halted THEN "halt" ELSE "advisory_issued"]]

(* manifest.json and the other files tell of the same run: k stages passed *)
(* and it ended in the manifest's state.                                   *)
Consistent(m, fs) ==
  \E k \in 0..NStages :
    LET ran == IF k = NStages THEN k ELSE k + 1
    IN  /\ (m.state = "COMPLETED") <=> (k = NStages)
        /\ m.stages = Records(IF m.state \in Halted THEN ran ELSE NStages, k)
        /\ fs.prov = Entries(ran, k, m.state)
        /\ fs.marker = IF m.state \in Halted THEN m.state ELSE "none"
        /\ fs.report = [state |-> m.state, completed |-> k,
                        failed |-> IF k = NStages THEN 0 ELSE k + 1]

(* Whatever verify_seal accepts is the account of one whole run: manifest  *)
(* stage records, provenance entries, non-final marker and run report tell *)
(* the same story, whatever crashed or was edited around it.               *)
VerifiedIsConsistent ==
  \A d \in Dirs :
    VerifySeal(manifest[d], files[d]) => Consistent(manifest[d], files[d])

(* verify_seal accepts a directory exactly when it was sealed and is still *)
(* as it was then: it accepts its own seals, and no later edit escapes it. *)
VerifyIsExact ==
  \A d \in Dirs :
    VerifySeal(manifest[d], files[d]) <=>
      /\ IsSealed(sealedAs[d].manifest)
      /\ sealedAs[d] = [manifest |-> manifest[d], files |-> files[d]]

(* What a crash leaves behind never claims a terminal state, and its two   *)
(* ledgers agree: every provenance entry has its stage record, and at most *)
(* one executed stage (the last) is recorded without its entry.            *)
LedgersInStep ==
  \A d \in Dirs : ~IsSealed(manifest[d]) =>
    LET recs == manifest[d].stages
        log  == files[d].prov
    IN  /\ manifest[d].state \in {"absent", "PENDING"}
        /\ Len(log) <= Len(recs)
        /\ \A i \in 1..Len(log) :
             /\ log[i].seq = i /\ log[i].stage = i /\ recs[i].stage = i
             /\ (log[i].event = "stage_complete") <=> (recs[i].state = "PASSED")
        /\ \A i \in 1..Len(recs) :
             i > Len(log) + 1 => recs[i].state = "SKIPPED_BOUNDARY"

(* A sealed directory never changes again, except by an edit from outside. *)
SealedIsForever ==
  [][\A d \in Dirs : IsSealed(manifest[d]) /\ d \notin edited' =>
       UNCHANGED <<manifest[d], files[d]>>]_vars

(* A rerun that returns has reproduced its source as it was sealed: every  *)
(* file, and, though manifest.json is left out of the comparison, the      *)
(* terminal state and the stage records too.  An edit of one of the two    *)
(* directories is noticed; the same edit made to both, after the source    *)
(* was verified and before the comparison, is not.                         *)
RerunReproduces ==
  \A p \in Procs :
    pc[p] = "returned" /\ source[p] # NoDir
      /\ ~({source[p], target[p]} \subseteq edited) =>
    LET was == sealedAs[source[p]]
        now == sealedAs[target[p]]
    IN  /\ now.files = was.files
        /\ now.manifest.state = was.manifest.state
        /\ now.manifest.stages = was.manifest.stages

(* Every run directory keeps the promise of RunSpec, up to edits.          *)
Recorded(d) == IF d \in edited THEN sealedAs[d].manifest ELSE manifest[d]

Promise == INSTANCE RunSpec WITH
  life   <- [d \in Dirs |-> Recorded(d).state],
  ledger <- [d \in Dirs |-> [i \in 1..Len(Recorded(d).stages) |->
                               Recorded(d).stages[i].state]]

ImplementsRunSpec == Promise!Spec

(* An invocation that does not die comes to its end.                       *)
EveryRunEnds == \A p \in Procs : Live(p) ~> pc[p] \in Ended
=============================================================================
