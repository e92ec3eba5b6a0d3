------------------------- MODULE OrchestratorProofs -------------------------
(***************************************************************************)
(* Theorems about Orchestrator, for any pipeline length, any invocations   *)
(* and directories, and any interleaving, crash and edit.                  *)
(***************************************************************************)
EXTENDS Orchestrator, TLAPS

-----------------------------------------------------------------------------
(* The operators of RunDir stay within their types.                        *)

LEMMA NewManifestType == NewManifest \in ManifestFile /\ NoManifest \in ManifestFile
<1>1. <<>> \in Seq(StageRecord)
  OBVIOUS
<1>2. QED
  BY <1>1 DEF NewManifest, NoManifest, ManifestFile, ManifestWith

LEMMA NoFilesType == NoFiles \in OtherFiles
<1>1. <<>> \in Seq(Entry)
  OBVIOUS
<1>2. NoReport \in Report
  BY NStagesAssumption DEF NoReport, Report
<1>3. QED
  BY <1>1, <1>2 DEF NoFiles, OtherFiles

LEMMA WithStageType ==
  ASSUME NEW m \in ManifestFile, NEW k \in PIPELINE, NEW v \in Verdict
  PROVE  WithStage(m, k, v) \in ManifestFile
<1>1. Append(m.stages, [stage |-> k, state |-> v]) \in Seq(StageRecord)
  BY DEF ManifestFile, ManifestWith, StageRecord
<1>2. QED
  BY <1>1 DEF WithStage, ManifestFile, ManifestWith

LEMMA HashTreeRootType ==
  ASSUME NEW m \in ManifestFile, NEW fs \in OtherFiles
  PROVE  HashTreeRoot(m, fs) \in HashTree
  BY DEF HashTreeRoot, HashTree, ManifestFile, ManifestWith

LEMMA SealManifestType ==
  ASSUME NEW m \in ManifestFile, NEW fs \in OtherFiles,
         NEW st \in TERMINAL_STATES
  PROVE  SealManifest(m, fs, st) \in ManifestFile
<1> DEFINE closed == [m EXCEPT !.state = st, !.stamped = TRUE]
<1>1. closed \in ManifestFile
  BY DEF ManifestFile, ManifestWith
<1>2. HashTreeRoot(closed, fs) \in HashTree
  BY <1>1, HashTreeRootType
<1> HIDE DEF closed
<1>3. [closed EXCEPT !.root = HashTreeRoot(closed, fs)] \in ManifestFile
  BY <1>1, <1>2 DEF ManifestFile, ManifestWith
<1>4. QED
  BY <1>3 DEF SealManifest, closed

LEMMA FileUpdateTypes ==
  ASSUME NEW fs \in OtherFiles
  PROVE  /\ WithHaltReport(fs) \in OtherFiles
         /\ \A e \in Entry : WithEntry(fs, e) \in OtherFiles
         /\ \A k \in PIPELINE, c \in {"none", "computed", "varied", "foreign"} :
              WithArtifacts(fs, k, c) \in OtherFiles
         /\ \A st \in TERMINAL_STATES : WithMarker(fs, st) \in OtherFiles
         /\ \A r \in Report : WithReport(fs, r) \in OtherFiles
<1>1. WithHaltReport(fs) \in OtherFiles
  BY DEF WithHaltReport, OtherFiles
<1>2. ASSUME NEW e \in Entry PROVE WithEntry(fs, e) \in OtherFiles
  <2>1. Append(fs.prov, e) \in Seq(Entry)
    BY DEF OtherFiles
  <2>2. QED
    BY <2>1 DEF WithEntry, OtherFiles
<1>3. ASSUME NEW k \in PIPELINE, NEW c \in {"none", "computed", "varied", "foreign"}
      PROVE  WithArtifacts(fs, k, c) \in OtherFiles
  BY DEF WithArtifacts, OtherFiles
<1>4. ASSUME NEW st \in TERMINAL_STATES PROVE WithMarker(fs, st) \in OtherFiles
  BY DEF WithMarker, OtherFiles
<1>5. ASSUME NEW r \in Report PROVE WithReport(fs, r) \in OtherFiles
  BY DEF WithReport, OtherFiles
<1>6. QED
  BY <1>1, <1>2, <1>3, <1>4, <1>5

LEMMA ManifestEditTypes ==
  ASSUME NEW m \in ManifestFile, NEW e \in ManifestEdits(m)
  PROVE  e \in ManifestFile
<1>1. ASSUME NEW s \in TERMINAL_STATES PROVE [m EXCEPT !.state = s] \in ManifestFile
  BY DEF ManifestFile, ManifestWith
<1>2. ASSUME NEW i \in 1..Len(m.stages)
      PROVE  [m EXCEPT !.stages[i].state = "PASSED"] \in ManifestFile
  <2> DEFINE r == [m.stages[i] EXCEPT !.state = "PASSED"]
             s == [m.stages EXCEPT ![i] = r]
  <2>1. m.stages \in Seq(StageRecord)
    BY DEF ManifestFile, ManifestWith
  <2>2. r \in StageRecord
    <3>1. m.stages[i] \in StageRecord
      BY <2>1
    <3>2. QED
      BY <3>1 DEF StageRecord, Verdict
  <2> HIDE DEF r
  <2>3. s \in Seq(StageRecord)
    BY <2>1, <2>2
  <2>4. [m EXCEPT !.stages[i].state = "PASSED"] = [m EXCEPT !.stages = s]
    BY DEF ManifestFile, ManifestWith, r
  <2> HIDE DEF s
  <2>5. [m EXCEPT !.stages = s] \in ManifestFile
    BY <2>3 DEF ManifestFile, ManifestWith
  <2>6. QED
    BY <2>4, <2>5
<1>3. [m EXCEPT !.stamped = FALSE] \in ManifestFile
  BY DEF ManifestFile, ManifestWith
<1>4. [m EXCEPT !.root = Forged] \in ManifestFile
  BY DEF ManifestFile, ManifestWith
<1>5. [m EXCEPT !.canonical = FALSE] \in ManifestFile
  BY DEF ManifestFile, ManifestWith
<1>6. QED
  BY <1>1, <1>2, <1>3, <1>4, <1>5 DEF ManifestEdits, TERMINAL_STATES, Boundary

LEMMA RunStateType == \A o \in Outcome : RunState(o) \in TERMINAL_STATES
  BY OrchestratorAssumption DEF Endings, RunState, TERMINAL_STATES, Halted, Boundary

LEMMA InitialTypes == NeverSealed \in FileState
  BY NewManifestType, NoFilesType DEF NeverSealed, FileState

-----------------------------------------------------------------------------
(* Type correctness.  It is inductive together with one fact: an           *)
(* invocation that has been launched has a directory of its own.           *)

Launched == \A p \in Procs : pc[p] # "idle" => target[p] \in Dirs

TypeInv == TypeOK /\ Launched

LEMMA TypeInvInit == Init => TypeInv
<1> SUFFICES ASSUME Init PROVE TypeInv
  OBVIOUS
<1>1. script \in [PIPELINE -> Outcome]
  BY OrchestratorAssumption DEF Init, Scripts
<1>2. 1 \in PIPELINE /\ "passed" \in Outcome
  BY NStagesAssumption, OrchestratorAssumption DEF PIPELINE
<1>3. QED
  BY <1>1, <1>2, NewManifestType, NoFilesType, InitialTypes
  DEF Init, TypeInv, TypeOK, Launched, Ended

LEMMA AppendEventType ==
  ASSUME TypeInv, NEW p \in Procs, NEW e \in Event, AppendEvent(p, e)
  PROVE  files' \in [Dirs -> OtherFiles] /\ nextSeq' \in [Procs -> Nat]
<1> DEFINE entry == [seq |-> nextSeq[p], stage |-> stage[p], event |-> e]
<1>1. entry \in Entry
  BY DEF Entry, TypeInv, TypeOK
<1>2. files' = [files EXCEPT ![target[p]] = WithEntry(@, entry)]
  BY DEF AppendEvent
<1> HIDE DEF entry
<1>3. files' \in [Dirs -> OtherFiles]
  BY <1>1, <1>2, FileUpdateTypes DEF TypeInv, TypeOK
<1>4. nextSeq' \in [Procs -> Nat]
  BY DEF AppendEvent, TypeInv, TypeOK
<1>5. QED
  BY <1>3, <1>4

LEMMA TypeInvNext == TypeInv /\ [Next]_vars => TypeInv'
<1> SUFFICES ASSUME TypeInv, [Next]_vars PROVE TypeInv'
  OBVIOUS
<1> USE DEF TypeInv, TypeOK, Launched, Ended, Goto, disk, local, ghost
<1>1. ASSUME NEW p \in Procs, NEW d \in Dirs, LaunchRun(p, d)
      PROVE  TypeInv'
  BY <1>1 DEF LaunchRun
<1>2. ASSUME NEW p \in Procs, NEW s \in Dirs, NEW d \in Dirs, LaunchRerun(p, s, d)
      PROVE  TypeInv'
  BY <1>2 DEF LaunchRerun
<1>3. ASSUME NEW p \in Procs, CheckTarget(p) PROVE TypeInv'
  BY <1>3 DEF CheckTarget
<1>4. ASSUME NEW p \in Procs, RefuseRegistry(p) PROVE TypeInv'
  BY <1>4 DEF RefuseRegistry
<1>5. ASSUME NEW p \in Procs, MakeDir(p) PROVE TypeInv'
  BY <1>5 DEF MakeDir
<1>6. ASSUME NEW p \in Procs, RejectFields(p) PROVE TypeInv'
  BY <1>6, FileUpdateTypes DEF RejectFields
<1>7. ASSUME NEW p \in Procs, OpenManifest(p) PROVE TypeInv'
  BY <1>7, NewManifestType DEF OpenManifest
<1>8. ASSUME NEW p \in Procs, OpenProvenance(p) PROVE TypeInv'
  <2>1. files[target[p]].prov \in Seq(Entry)
    BY <1>8 DEF OpenProvenance, OtherFiles
  <2>2. Len(files[target[p]].prov) + 1 \in Nat
    BY <2>1
  <2>3. files' \in [Dirs -> OtherFiles]
    BY <1>8, FileUpdateTypes DEF OpenProvenance
  <2>4. QED
    BY <1>8, <2>2, <2>3 DEF OpenProvenance
<1>9. ASSUME NEW p \in Procs, ExecuteStage(p) PROVE TypeInv'
  <2>1. PICK o \in Outcome, c \in {"computed", "varied"} :
          /\ files' = [files EXCEPT ![target[p]] = WithArtifacts(@, stage[p], c)]
          /\ outcome' = [outcome EXCEPT ![p] = o]
          /\ pc' = [pc EXCEPT ![p] = CASE o = "passed"  -> "passed"
                                     [] o = "untyped" -> "wrap"
                                     [] OTHER         -> "failed"]
    BY <1>9 DEF ExecuteStage
  <2>2. files' \in [Dirs -> OtherFiles]
    BY <2>1, FileUpdateTypes
  <2>3. QED
    BY <1>9, <2>1, <2>2 DEF ExecuteStage
<1>10. ASSUME NEW p \in Procs, RecordPassed(p) PROVE TypeInv'
  <2>1. WithStage(handle[p], stage[p], "PASSED") \in ManifestFile
    BY WithStageType DEF Verdict
  <2>2. QED
    BY <1>10, <2>1 DEF RecordPassed, RecordStage
<1>11. ASSUME NEW p \in Procs, AppendComplete(p) PROVE TypeInv'
  <2>1. files' \in [Dirs -> OtherFiles] /\ nextSeq' \in [Procs -> Nat]
    BY <1>11, AppendEventType DEF AppendComplete, Event
  <2>2. stage' \in [Procs -> PIPELINE]
    <3>1. CASE stage[p] = NStages
      BY <1>11, <3>1 DEF AppendComplete
    <3>2. CASE stage[p] # NStages
      <4>1. stage[p] + 1 \in PIPELINE
        BY <3>2, NStagesAssumption DEF PIPELINE
      <4>2. stage' = [stage EXCEPT ![p] = stage[p] + 1]
        BY <1>11, <3>2 DEF AppendComplete
      <4>3. QED
        BY <4>1, <4>2
    <3>3. QED
      BY <3>1, <3>2
  <2>3. pc' = [pc EXCEPT ![p] = IF stage[p] = NStages THEN "report" ELSE "stage"]
    BY <1>11 DEF AppendComplete
  <2>4. executed' = [executed EXCEPT ![p] = @ + 1]
    BY <1>11 DEF AppendComplete
  <2>5. pc[p] = "complete"
    BY <1>11 DEF AppendComplete
  <2>6. UNCHANGED <<exists, manifest, script, target, source, handle, outcome,
                    sealedAs, edited>>
    BY <1>11 DEF AppendComplete
  <2>7. QED
    BY <2>1, <2>2, <2>3, <2>4, <2>5, <2>6
<1>12. ASSUME NEW p \in Procs, WrapUntyped(p) PROVE TypeInv'
  BY <1>12, FileUpdateTypes DEF WrapUntyped
<1>13. ASSUME NEW p \in Procs, RecordFailed(p) PROVE TypeInv'
  <2>1. WithStage(handle[p], stage[p], "FAILED") \in ManifestFile
    BY WithStageType DEF Verdict
  <2>2. QED
    BY <1>13, <2>1 DEF RecordFailed, RecordStage
<1>14. ASSUME NEW p \in Procs, AppendHalt(p) PROVE TypeInv'
  <2> DEFINE e == IF RunState(outcome[p]) \in Halted THEN "halt"
                                                     ELSE "advisory_issued"
  <2>1. AppendEvent(p, e) /\ e \in Event
    BY <1>14 DEF AppendHalt, Event
  <2> HIDE DEF e
  <2>2. files' \in [Dirs -> OtherFiles] /\ nextSeq' \in [Procs -> Nat]
    BY <2>1, AppendEventType
  <2>3. QED
    BY <1>14, <2>2 DEF AppendHalt
<1>15. ASSUME NEW p \in Procs, SkipStage(p) PROVE TypeInv'
  <2>1. handle[p].stages \in Seq(StageRecord)
    BY DEF ManifestFile, ManifestWith
  <2>2. Len(handle[p].stages) + 1 \in PIPELINE
    BY <1>15, <2>1, NStagesAssumption DEF SkipStage, PIPELINE
  <2>3. QED
    BY <1>15, <2>2, WithStageType DEF SkipStage, RecordStage, Verdict
<1>16. ASSUME NEW p \in Procs, SkippedAll(p) PROVE TypeInv'
  BY <1>16 DEF SkippedAll
<1>17. ASSUME NEW p \in Procs, MarkNonFinal(p) PROVE TypeInv'
  BY <1>17, FileUpdateTypes, RunStateType DEF MarkNonFinal
<1>18. ASSUME NEW p \in Procs, WriteReport(p) PROVE TypeInv'
  <2>1. ReportOf(p) \in Report
    BY RunStateType, NStagesAssumption DEF ReportOf, Report, PIPELINE
  <2>2. QED
    BY <1>18, <2>1, FileUpdateTypes DEF WriteReport
<1>19. ASSUME NEW p \in Procs, Seal(p) PROVE TypeInv'
  <2> DEFINE sealed == SealManifest(handle[p], files[target[p]], RunState(outcome[p]))
  <2>1. target[p] \in Dirs
    BY <1>19 DEF Seal
  <2>2. sealed \in ManifestFile
    BY <2>1, SealManifestType, RunStateType
  <2>3. [manifest |-> sealed, files |-> files[target[p]]] \in FileState
    BY <2>1, <2>2 DEF FileState
  <2>4. /\ handle' = [handle EXCEPT ![p] = sealed]
        /\ manifest' = [manifest EXCEPT ![target[p]] = sealed]
        /\ sealedAs' = [sealedAs EXCEPT ![target[p]] =
                          [manifest |-> sealed, files |-> files[target[p]]]]
    BY <1>19 DEF Seal
  <2> HIDE DEF sealed
  <2>5. /\ handle' \in [Procs -> ManifestFile]
        /\ manifest' \in [Dirs -> ManifestFile]
        /\ sealedAs' \in [Dirs -> FileState]
    BY <2>2, <2>3, <2>4
  <2>6. QED
    BY <1>19, <2>5 DEF Seal
<1>20. ASSUME NEW p \in Procs, Compare(p) PROVE TypeInv'
  BY <1>20 DEF Compare
<1>21. ASSUME NEW p \in Procs, Crash(p) PROVE TypeInv'
  BY <1>21 DEF Crash, Live
<1>22. ASSUME NEW d \in Dirs, EditManifest(d) PROVE TypeInv'
  <2>1. PICK m \in ManifestEdits(manifest[d]) : manifest' = [manifest EXCEPT ![d] = m]
    BY <1>22 DEF EditManifest
  <2>2. m \in ManifestFile
    BY <2>1, ManifestEditTypes
  <2>3. QED
    BY <1>22, <2>1, <2>2 DEF EditManifest, EditFrom
<1>23. ASSUME NEW d \in Dirs, EditFile(d) PROVE TypeInv'
  <2>1. NoReport \in Report
    BY NStagesAssumption DEF NoReport, Report
  <2>2. \A fs \in FileEdits(files[d]) : fs \in OtherFiles
    <3>1. files[d] \in OtherFiles
      OBVIOUS
    <3>2. WithReport(files[d], NoReport) \in OtherFiles
      BY <2>1, <3>1, FileUpdateTypes
    <3>3. \A k \in PIPELINE : WithArtifacts(files[d], k, "foreign") \in OtherFiles
      BY <3>1, FileUpdateTypes
    <3>4. QED
      BY <3>2, <3>3 DEF FileEdits
  <2>3. QED
    BY <1>23, <2>2 DEF EditFile, EditFrom
<1>24. CASE UNCHANGED vars
  BY <1>24 DEF vars
<1>25. QED
  BY <1>1, <1>2, <1>3, <1>4, <1>5, <1>6, <1>7, <1>8, <1>9, <1>10, <1>11, <1>12,
     <1>13, <1>14, <1>15, <1>16, <1>17, <1>18, <1>19, <1>20, <1>21, <1>22,
     <1>23, <1>24
  DEF Next, Launch, Run

(* Every run state, verdict, sequence number and report ever written has   *)
(* its type: a halt reaches the disk as the run state it maps to.          *)
THEOREM TypeCorrect == Spec => []TypeOK
<1>1. TypeInv => TypeOK
  BY DEF TypeInv
<1>2. QED
  BY <1>1, TypeInvInit, TypeInvNext, PTL DEF Spec

-----------------------------------------------------------------------------
(* Run directories are written once.  Assumed: run ids, which name the     *)
(* second of the launch, are new; and in no state are two invocations      *)
(* between the test of one target and its mkdir (Unraced).  Reruns of one  *)
(* source may overlap everywhere else, live or after a death: what keeps   *)
(* the second out is that rerun refuses a target that exists.  What makes  *)
(* OneWriter inductive is who may be where: an invocation about to make    *)
(* its directory has found it missing, two about to open a manifest have   *)
(* each made a directory of their own, and one nobody had opened.          *)

Writing == {"logs", "stage", "passed", "complete", "wrap", "failed", "halt",
            "skip", "mark", "report", "seal"}

WriterInv ==
  /\ \A p, q \in Procs :
       p # q /\ pc[p] = "open" /\ pc[q] = "open" => target[p] # target[q]
  /\ \A p \in Procs : Opened(p) => target[p] \in exists
  /\ \A p \in Procs : pc[p] = "mkdir" => target[p] \notin exists
  /\ \A p \in Procs : pc[p] = "open" =>
       /\ target[p] \in exists
       /\ \A q \in Procs : Opened(q) => target[q] # target[p]
  /\ \A p \in Procs : pc[p] \in {"idle", "exists", "mkdir", "open"} => ~Opened(p)
  /\ \A p \in Procs : pc[p] \in Writing => Opened(p)
  /\ OneWriter

LEMMA WriterInvInit == Init => WriterInv
  BY DEF Init, WriterInv, OneWriter, Opened, NoManifest, Ended, Writing

(* Most actions give out no directory, make none and open none: an         *)
(* invocation goes on writing, or ends.                                    *)
InnerStep ==
  /\ UNCHANGED <<exists, target>>
  /\ \A q \in Procs : Opened(q)' <=> Opened(q)
  /\ \A q \in Procs : pc'[q] # pc[q] =>
       /\ Live(q)
       /\ pc'[q] \in Writing \cup {"compare"} \cup Ended
       /\ pc'[q] \in Writing => pc[q] \in Writing

LEMMA InnerStepWriterInv == TypeInv /\ WriterInv /\ InnerStep => WriterInv'
<1> SUFFICES ASSUME TypeInv, WriterInv, InnerStep PROVE WriterInv'
  OBVIOUS
<1>1. \A q \in Procs :
        pc'[q] \in {"idle", "exists", "mkdir", "open"} => pc'[q] = pc[q]
  BY DEF InnerStep, Ended, Writing
<1>2. \A q \in Procs : pc'[q] \in Writing => pc[q] \in Writing
  BY DEF InnerStep
<1>3. UNCHANGED <<exists, target>> /\ \A q \in Procs : Opened(q)' <=> Opened(q)
  BY DEF InnerStep
<1>4. QED
  BY <1>1, <1>2, <1>3 DEF WriterInv, OneWriter

(* A step of p that leaves its manifest alone, or extends it.              *)
LEMMA RecordKeepsOpened ==
  ASSUME TypeInv, NEW p \in Procs, NEW k, NEW v, RecordStage(p, k, v)
  PROVE  \A q \in Procs : Opened(q)' <=> Opened(q)
<1>1. handle' = [handle EXCEPT ![p] = WithStage(handle[p], k, v)]
  BY DEF RecordStage, TypeInv, TypeOK
<1>2. WithStage(handle[p], k, v).state = handle[p].state
  BY DEF TypeInv, TypeOK, WithStage, ManifestFile, ManifestWith
<1>3. QED
  BY <1>1, <1>2 DEF Opened, TypeInv, TypeOK

LEMMA SealKeepsOpened ==
  ASSUME TypeInv, NEW p \in Procs, Opened(p), Seal(p)
  PROVE  \A q \in Procs : Opened(q)' <=> Opened(q)
<1> DEFINE sealed == SealManifest(handle[p], files[target[p]], RunState(outcome[p]))
<1>1. handle' = [handle EXCEPT ![p] = sealed]
  BY DEF Seal
<1>2. RunState(outcome[p]) \in TERMINAL_STATES
  BY RunStateType DEF TypeInv, TypeOK
<1>3. sealed.state = RunState(outcome[p])
  BY DEF SealManifest, TypeInv, TypeOK, ManifestFile, ManifestWith
<1>4. sealed.state # "absent"
  BY <1>2, <1>3 DEF TERMINAL_STATES, Halted, Boundary
<1> HIDE DEF sealed
<1>5. QED
  BY <1>1, <1>4 DEF Opened, TypeInv, TypeOK

LEMMA WriterInvNext ==
  ASSUME "run" \notin Collisions
  PROVE  TypeInv /\ WriterInv /\ Unraced /\ [Next]_vars => WriterInv'
<1> SUFFICES ASSUME TypeInv, WriterInv, Unraced, [Next]_vars PROVE WriterInv'
  OBVIOUS
<1> USE DEF Goto, disk, local, ghost
<1>1. ASSUME NEW p \in Procs, NEW d \in Dirs, LaunchRun(p, d) PROVE WriterInv'
  <2>1. /\ pc[p] = "idle" /\ d \notin exists
        /\ pc' = [pc EXCEPT ![p] = "mkdir"] /\ target' = [target EXCEPT ![p] = d]
        /\ UNCHANGED <<exists, handle>>
    BY <1>1 DEF LaunchRun
  <2>2. QED
    BY <2>1 DEF WriterInv, OneWriter, Opened, Ended, Writing, TypeInv, TypeOK
<1>2. ASSUME NEW p \in Procs, NEW s \in Dirs, NEW d \in Dirs, LaunchRerun(p, s, d)
      PROVE  WriterInv'
  <2>1. /\ pc[p] = "idle"
        /\ target' = [target EXCEPT ![p] = d]
        /\ UNCHANGED <<exists, handle>>
    BY <1>2 DEF LaunchRerun
  <2>2. PICK l \in {"exists", "raised"} : pc' = [pc EXCEPT ![p] = l]
    BY <1>2 DEF LaunchRerun
  <2>3. QED
    BY <2>1, <2>2 DEF WriterInv, OneWriter, Opened, Ended, Writing, TypeInv, TypeOK
<1>3. ASSUME NEW p \in Procs, CheckTarget(p) PROVE WriterInv'
  <2>1. pc[p] = "exists" /\ UNCHANGED <<exists, handle, target>>
    BY <1>3 DEF CheckTarget
  <2>2. PICK l \in {"raised", "mkdir"} :
          pc' = [pc EXCEPT ![p] = l] /\ (l = "mkdir" => target[p] \notin exists)
    BY <1>3 DEF CheckTarget
  <2>3. QED
    BY <2>1, <2>2 DEF WriterInv, OneWriter, Opened, Ended, Writing, TypeInv, TypeOK
<1>4. ASSUME NEW p \in Procs, MakeDir(p) PROVE WriterInv'
  <2>1. /\ pc[p] = "mkdir" /\ exists' = exists \cup {target[p]}
        /\ pc' = [pc EXCEPT ![p] = "open"] /\ UNCHANGED <<handle, target>>
    BY <1>4 DEF MakeDir
  <2>2. \A q \in Procs : q # p /\ pc[q] = "mkdir" => target[q] # target[p]
    BY <2>1 DEF Unraced
  <2>3. QED
    BY <2>1, <2>2 DEF WriterInv, OneWriter, Opened, Ended, Writing, TypeInv, TypeOK
<1>5. ASSUME NEW p \in Procs, OpenManifest(p) PROVE WriterInv'
  <2>1. /\ pc[p] = "open" /\ handle' = [handle EXCEPT ![p] = NewManifest]
        /\ pc' = [pc EXCEPT ![p] = "logs"] /\ UNCHANGED <<exists, target>>
    BY <1>5 DEF OpenManifest
  <2>2. \A q \in Procs : Opened(q)' <=> (Opened(q) \/ q = p)
    BY <2>1 DEF Opened, NewManifest, NoManifest, TypeInv, TypeOK
  <2>3. QED
    BY <2>1, <2>2 DEF WriterInv, OneWriter, Ended, Writing, TypeInv, TypeOK
<1> USE DEF InnerStep, Live, Ended, Writing, TypeInv, TypeOK
<1>6. ASSUME NEW p \in Procs, RefuseRegistry(p) PROVE InnerStep
  BY <1>6 DEF RefuseRegistry, Opened
<1>7. ASSUME NEW p \in Procs, RejectFields(p) PROVE InnerStep
  BY <1>7 DEF RejectFields, Opened
<1>8. ASSUME NEW p \in Procs, OpenProvenance(p) PROVE InnerStep
  BY <1>8 DEF OpenProvenance, Opened
<1>9. ASSUME NEW p \in Procs, ExecuteStage(p) PROVE InnerStep
  BY <1>9 DEF ExecuteStage, Opened
<1>10. ASSUME NEW p \in Procs, RecordPassed(p) PROVE InnerStep
  <2>1. \A q \in Procs : Opened(q)' <=> Opened(q)
    BY <1>10, RecordKeepsOpened DEF RecordPassed
  <2>2. QED
    BY <1>10, <2>1 DEF RecordPassed
<1>11. ASSUME NEW p \in Procs, AppendComplete(p) PROVE InnerStep
  BY <1>11 DEF AppendComplete, Opened, AppendEvent
<1>12. ASSUME NEW p \in Procs, WrapUntyped(p) PROVE InnerStep
  BY <1>12 DEF WrapUntyped, Opened
<1>13. ASSUME NEW p \in Procs, RecordFailed(p) PROVE InnerStep
  <2>1. \A q \in Procs : Opened(q)' <=> Opened(q)
    BY <1>13, RecordKeepsOpened DEF RecordFailed
  <2>2. QED
    BY <1>13, <2>1 DEF RecordFailed
<1>14. ASSUME NEW p \in Procs, AppendHalt(p) PROVE InnerStep
  BY <1>14 DEF AppendHalt, Opened, AppendEvent
<1>15. ASSUME NEW p \in Procs, SkipStage(p) PROVE InnerStep
  <2>1. \A q \in Procs : Opened(q)' <=> Opened(q)
    BY <1>15, RecordKeepsOpened DEF SkipStage
  <2>2. QED
    BY <1>15, <2>1 DEF SkipStage
<1>16. ASSUME NEW p \in Procs, SkippedAll(p) PROVE InnerStep
  BY <1>16 DEF SkippedAll, Opened
<1>17. ASSUME NEW p \in Procs, MarkNonFinal(p) PROVE InnerStep
  BY <1>17 DEF MarkNonFinal, Opened
<1>18. ASSUME NEW p \in Procs, WriteReport(p) PROVE InnerStep
  BY <1>18 DEF WriteReport, Opened
<1>19. ASSUME NEW p \in Procs, Seal(p) PROVE InnerStep
  <2>1. Opened(p)
    BY <1>19 DEF Seal, WriterInv
  <2>2. \A q \in Procs : Opened(q)' <=> Opened(q)
    BY <1>19, <2>1, SealKeepsOpened
  <2>3. PICK l \in {"returned", "compare"} : pc' = [pc EXCEPT ![p] = l]
    BY <1>19 DEF Seal
  <2>4. QED
    BY <1>19, <2>2, <2>3 DEF Seal
<1>20. ASSUME NEW p \in Procs, Compare(p) PROVE InnerStep
  BY <1>20 DEF Compare, Opened
<1>21. ASSUME NEW p \in Procs, Crash(p) PROVE InnerStep
  BY <1>21 DEF Crash, Opened
<1>22. ASSUME NEW d \in Dirs, EditManifest(d) \/ EditFile(d) PROVE InnerStep
  BY <1>22 DEF EditManifest, EditFile, EditFrom, Opened
<1>23. CASE UNCHANGED vars
  <2>1. InnerStep
    BY <1>23 DEF vars, Opened
  <2>2. QED
    BY <2>1, InnerStepWriterInv
<1>24. QED
  BY <1>1, <1>2, <1>3, <1>4, <1>5, <1>6, <1>7, <1>8, <1>9, <1>10, <1>11, <1>12, <1>13, <1>14,
     <1>15, <1>16, <1>17, <1>18, <1>19, <1>20, <1>21, <1>22, <1>23, InnerStepWriterInv
  DEF Next, Launch, Run

(* No two invocations ever open the manifest of the same directory, however *)
(* many reruns of one source come, at once or one after the death of the   *)
(* other, unless two are between the test of a target and its mkdir.       *)
THEOREM WrittenOnce ==
  ASSUME "run" \notin Collisions
  PROVE  Spec /\ []Unraced => []OneWriter
<1>1. WriterInv => OneWriter
  BY DEF WriterInv
<1>2. TypeInv /\ WriterInv /\ Unraced /\ [Next]_vars => TypeInv' /\ WriterInv'
  BY TypeInvNext, WriterInvNext
<1>3. QED
  BY <1>1, <1>2, TypeInvInit, WriterInvInit, PTL DEF Spec

-----------------------------------------------------------------------------
(* Seals.  An invocation that writes has in memory the manifest that is on *)
(* the disk, still unsealed; only a directory somebody opened has one.     *)
(* What was sealed is remembered by sealedAs, verifies, and is still there *)
(* unless the directory was edited, and an edited one no longer verifies.  *)

(* What seal leaves: it verifies, the manifest is stamped with its time,   *)
(* the run report is there, and nothing in it comes from outside.          *)
Intact(m, fs) ==
  /\ VerifySeal(m, fs)
  /\ m.stamped
  /\ fs.report.state # "none"
  /\ \A k \in PIPELINE : fs.art[k] # "foreign"

SealInv ==
  /\ \A d \in Dirs :
       (\A q \in Procs : Opened(q) => target[q] # d) => ~IsSealed(manifest[d])
  /\ \A p \in Procs : pc[p] \in Writing =>
       /\ manifest[target[p]] = handle[p]
       /\ ~IsSealed(handle[p])
       /\ handle[p].canonical
  /\ \A d \in Dirs : IsSealed(manifest[d]) <=> IsSealed(sealedAs[d].manifest)
  /\ \A d \in Dirs : IsSealed(manifest[d]) =>
       Intact(sealedAs[d].manifest, sealedAs[d].files)
  /\ \A d \in Dirs \ edited : IsSealed(manifest[d]) =>
       sealedAs[d] = [manifest |-> manifest[d], files |-> files[d]]
  /\ \A d \in edited :
       IsSealed(manifest[d]) /\ ~VerifySeal(manifest[d], files[d])
  /\ \A d \in Dirs \ edited : \A k \in PIPELINE : files[d].art[k] # "foreign"
  /\ \A p \in Procs : pc[p] = "seal" => files[target[p]].report.state # "none"

LEMMA SealInvInit == Init => SealInv
  BY DEF Init, SealInv, NeverSealed, NoManifest, NoFiles, IsSealed, Writing

(* An invocation that is about to write has an unsealed directory.         *)
LEMMA WritersUnsealed ==
  ASSUME TypeInv, WriterInv, SealInv, NEW p \in Procs,
         pc[p] \in Writing \cup {"open"}
  PROVE  /\ target[p] \in Dirs
         /\ ~IsSealed(manifest[target[p]])
         /\ target[p] \notin edited
         /\ \A q \in Procs : q # p /\ pc[q] \in Writing \cup {"open"} =>
              target[q] # target[p]
<1>1. target[p] \in Dirs
  BY DEF TypeInv, Launched, Writing
<1>2. ~IsSealed(manifest[target[p]])
  BY <1>1 DEF SealInv, WriterInv
<1>3. target[p] \notin edited
  BY <1>2 DEF SealInv
<1>4. \A q \in Procs : q # p /\ pc[q] \in Writing \cup {"open"} =>
        target[q] # target[p]
  BY DEF WriterInv, OneWriter
<1>5. QED
  BY <1>1, <1>2, <1>3, <1>4

(* Steps that write nothing.                                               *)
QuietStep ==
  /\ UNCHANGED <<manifest, files, handle, sealedAs, edited>>
  /\ \A q \in Procs : Opened(q) => target'[q] = target[q]
  /\ \A q \in Procs : pc'[q] \in Writing =>
       pc[q] \in Writing /\ target'[q] = target[q]
  /\ \A q \in Procs : pc'[q] = "seal" => pc[q] = "seal"

LEMMA QuietStepSealInv == TypeInv /\ SealInv /\ QuietStep => SealInv'
  BY DEF SealInv, QuietStep, Opened, Writing

(* Steps of p that write one file other than manifest.json.                *)
FileStep(p, fs) ==
  /\ pc[p] \in Writing \cup {"open"}
  /\ files' = [files EXCEPT ![target[p]] = fs]
  /\ UNCHANGED <<manifest, handle, target, sealedAs, edited>>
  /\ \A k \in PIPELINE : fs.art[k] # "foreign"
  /\ \A q \in Procs : q # p => pc'[q] = pc[q]
  /\ pc'[p] \in Writing => pc[p] \in Writing
  /\ pc'[p] = "seal" => fs.report.state # "none"

LEMMA FileStepSealInv ==
  ASSUME TypeInv, WriterInv, SealInv, NEW p \in Procs, NEW fs, FileStep(p, fs)
  PROVE  SealInv'
<1>1. /\ target[p] \in Dirs /\ ~IsSealed(manifest[target[p]])
      /\ target[p] \notin edited
      /\ \A q \in Procs : q # p /\ pc[q] \in Writing \cup {"open"} =>
           target[q] # target[p]
  BY WritersUnsealed DEF FileStep
<1>2. /\ files'[target[p]] = fs
      /\ \A d \in Dirs : d # target[p] => files'[d] = files[d]
  BY <1>1 DEF FileStep, TypeInv, TypeOK
<1>3. \A d \in Dirs : IsSealed(manifest[d]) => files'[d] = files[d]
  BY <1>1, <1>2
<1>4. \A q \in Procs : pc'[q] \in Writing => pc[q] \in Writing
  BY DEF FileStep
<1>5. \A q \in Procs : pc'[q] = "seal" => files'[target[q]].report.state # "none"
  <2>1. ASSUME NEW q \in Procs, q # p, pc'[q] = "seal"
        PROVE  files'[target[q]].report.state # "none"
    BY <1>1, <1>2, <2>1 DEF FileStep, SealInv, Writing, TypeInv, Launched
  <2>2. QED
    BY <1>2, <2>1 DEF FileStep
<1>6. \A d \in Dirs \ edited : \A k \in PIPELINE : files'[d].art[k] # "foreign"
  BY <1>2 DEF FileStep, SealInv
<1>7. edited \subseteq Dirs
  BY DEF TypeInv, TypeOK
<1>8. \A d \in edited : IsSealed(manifest[d]) /\ ~VerifySeal(manifest[d], files'[d])
  BY <1>3, <1>7 DEF SealInv
<1>9. \A d \in Dirs \ edited : IsSealed(manifest[d]) =>
        sealedAs[d] = [manifest |-> manifest[d], files |-> files'[d]]
  BY <1>3 DEF SealInv
<1>10. UNCHANGED <<manifest, handle, target, sealedAs, edited>>
  BY DEF FileStep
<1>11. QED
  BY <1>4, <1>5, <1>6, <1>8, <1>9, <1>10 DEF SealInv, Opened

(* Steps of p that write an unsealed manifest.                             *)
ManifestStep(p, m) ==
  /\ pc[p] \in Writing \cup {"open"}
  /\ manifest' = [manifest EXCEPT ![target[p]] = m]
  /\ handle' = [handle EXCEPT ![p] = m]
  /\ ~IsSealed(m) /\ m.canonical
  /\ \A q \in Procs : Opened(q) => Opened(q)'
  /\ UNCHANGED <<files, target, sealedAs, edited>>
  /\ \A q \in Procs : q # p => pc'[q] = pc[q]
  /\ pc'[p] # "seal"

LEMMA ManifestStepSealInv ==
  ASSUME TypeInv, WriterInv, SealInv, NEW p \in Procs, NEW m, ManifestStep(p, m)
  PROVE  SealInv'
<1>1. /\ target[p] \in Dirs /\ ~IsSealed(manifest[target[p]])
      /\ target[p] \notin edited
      /\ \A q \in Procs : q # p /\ pc[q] \in Writing \cup {"open"} =>
           target[q] # target[p]
  BY WritersUnsealed DEF ManifestStep
<1>2. /\ manifest'[target[p]] = m
      /\ \A d \in Dirs : d # target[p] => manifest'[d] = manifest[d]
      /\ handle'[p] = m
      /\ \A q \in Procs : q # p => handle'[q] = handle[q]
  BY <1>1 DEF ManifestStep, TypeInv, TypeOK
<1>3. \A d \in Dirs : (IsSealed(manifest'[d]) <=> IsSealed(manifest[d]))
                      /\ (IsSealed(manifest[d]) => manifest'[d] = manifest[d])
  BY <1>1, <1>2 DEF ManifestStep
<1>4. \A q \in Procs : pc'[q] \in Writing =>
        /\ manifest'[target[q]] = handle'[q]
        /\ ~IsSealed(handle'[q]) /\ handle'[q].canonical
  <2>1. ASSUME NEW q \in Procs, q # p, pc'[q] \in Writing
        PROVE  /\ manifest'[target[q]] = handle'[q]
               /\ ~IsSealed(handle'[q]) /\ handle'[q].canonical
    <3>1. pc[q] \in Writing
      BY <2>1 DEF ManifestStep
    <3>2. target[q] \in Dirs /\ target[q] # target[p]
      BY <1>1, <2>1, <3>1 DEF TypeInv, Launched, Writing
    <3>3. QED
      BY <1>2, <2>1, <3>1, <3>2 DEF SealInv
  <2>2. QED
    BY <1>2, <2>1 DEF ManifestStep
<1>5. edited \subseteq Dirs
  BY DEF TypeInv, TypeOK
<1>6. \A d \in Dirs :
        (\A q \in Procs : Opened(q)' => target[q] # d) => ~IsSealed(manifest'[d])
  BY <1>3 DEF SealInv, ManifestStep
<1>7. \A d \in edited : IsSealed(manifest'[d]) /\ ~VerifySeal(manifest'[d], files[d])
  BY <1>3, <1>5 DEF SealInv
<1>8. \A d \in Dirs \ edited : IsSealed(manifest'[d]) =>
        sealedAs[d] = [manifest |-> manifest'[d], files |-> files[d]]
  BY <1>3 DEF SealInv
<1>9. \A q \in Procs : pc'[q] = "seal" => pc[q] = "seal"
  BY DEF ManifestStep
<1>10. UNCHANGED <<files, target, sealedAs, edited>>
  BY DEF ManifestStep
<1>11. QED
  BY <1>3, <1>4, <1>6, <1>7, <1>8, <1>9, <1>10 DEF SealInv

LEMMA SealManifestVerifies ==
  ASSUME NEW m \in ManifestFile, NEW fs \in OtherFiles,
         NEW st \in TERMINAL_STATES, m.canonical
  PROVE  /\ VerifySeal(SealManifest(m, fs, st), fs)
         /\ IsSealed(SealManifest(m, fs, st))
         /\ SealManifest(m, fs, st).stamped
<1> DEFINE closed == [m EXCEPT !.state = st, !.stamped = TRUE]
           sealed == [closed EXCEPT !.root = HashTreeRoot(closed, fs)]
<1>1. closed \in ManifestFile /\ closed.canonical /\ closed.stamped
  BY DEF ManifestFile, ManifestWith
<1>2. closed.state # "absent"
  BY DEF ManifestFile, ManifestWith, TERMINAL_STATES, Halted, Boundary
<1> HIDE DEF closed
<1>3. /\ sealed.root = HashTreeRoot(closed, fs)
      /\ sealed.state = closed.state /\ sealed.canonical /\ sealed.stamped
  BY <1>1 DEF ManifestFile, ManifestWith
<1>4. [sealed EXCEPT !.root = <<>>] = [closed EXCEPT !.root = <<>>]
  BY <1>1 DEF ManifestFile, ManifestWith
<1>5. HashTreeRoot(sealed, fs) = HashTreeRoot(closed, fs)
  BY <1>4 DEF HashTreeRoot
<1>6. HashTreeRoot(closed, fs) # <<>>
  BY DEF HashTreeRoot
<1>7. SealManifest(m, fs, st) = sealed
  BY DEF SealManifest, closed
<1> HIDE DEF sealed
<1>8. QED
  BY <1>2, <1>3, <1>5, <1>6, <1>7 DEF VerifySeal, IsSealed

LEMMA SealSealInv ==
  ASSUME TypeInv, WriterInv, SealInv, NEW p \in Procs, Seal(p)
  PROVE  SealInv'
<1> DEFINE d == target[p]
           sealed == SealManifest(handle[p], files[d], RunState(outcome[p]))
<1>1. pc[p] = "seal" /\ pc[p] \in Writing
  BY DEF Seal, Writing
<1>2. /\ d \in Dirs /\ ~IsSealed(manifest[d])
      /\ d \notin edited
      /\ \A q \in Procs : q # p /\ pc[q] \in Writing \cup {"open"} =>
           target[q] # d
  BY <1>1, WritersUnsealed
<1>3. /\ VerifySeal(sealed, files[d]) /\ IsSealed(sealed) /\ sealed.stamped
  <2>1. handle[p].canonical
    BY <1>1 DEF SealInv
  <2>2. /\ handle[p] \in ManifestFile /\ files[d] \in OtherFiles
        /\ RunState(outcome[p]) \in TERMINAL_STATES
    BY <1>2, RunStateType DEF TypeInv, TypeOK
  <2>3. QED
    BY <2>1, <2>2, SealManifestVerifies
<1>4. /\ manifest' = [manifest EXCEPT ![d] = sealed]
      /\ handle' = [handle EXCEPT ![p] = sealed]
      /\ sealedAs' = [sealedAs EXCEPT ![d] = [manifest |-> sealed, files |-> files[d]]]
      /\ UNCHANGED <<files, target, edited>>
  BY DEF Seal, disk, local, ghost
<1>5. \A q \in Procs : Opened(q)' <=> Opened(q)
  BY <1>1, SealKeepsOpened DEF WriterInv
<1>6. /\ \A q \in Procs : q # p => pc'[q] = pc[q]
      /\ pc'[p] \in {"returned", "compare"}
  BY DEF Seal, Goto, TypeInv, TypeOK
<1>7. Intact(sealed, files[d])
  BY <1>1, <1>2, <1>3 DEF Intact, SealInv
<1> HIDE DEF sealed, d
<1>8. /\ manifest'[d] = sealed /\ sealedAs'[d] = [manifest |-> sealed, files |-> files[d]]
      /\ \A c \in Dirs : c # d => manifest'[c] = manifest[c] /\ sealedAs'[c] = sealedAs[c]
      /\ \A q \in Procs : q # p => handle'[q] = handle[q]
  BY <1>2, <1>4 DEF TypeInv, TypeOK
<1>9. Opened(p) /\ target[p] = d
  BY <1>1 DEF WriterInv, d
<1>10. \A c \in Dirs : (\A q \in Procs : Opened(q)' => target'[q] # c) =>
         ~IsSealed(manifest'[c])
  BY <1>4, <1>5, <1>8, <1>9 DEF SealInv
<1>11. \A q \in Procs : pc'[q] \in Writing =>
         q # p /\ pc[q] \in Writing /\ target[q] \in Dirs /\ target[q] # d
  BY <1>2, <1>6 DEF Writing, TypeInv, Launched
<1>12. \A q \in Procs : pc'[q] \in Writing =>
         /\ manifest'[target'[q]] = handle'[q]
         /\ ~IsSealed(handle'[q]) /\ handle'[q].canonical
  BY <1>4, <1>8, <1>11 DEF SealInv
<1>13. \A c \in Dirs :
         /\ IsSealed(manifest'[c]) <=> IsSealed(sealedAs'[c].manifest)
         /\ IsSealed(manifest'[c]) => Intact(sealedAs'[c].manifest, sealedAs'[c].files)
         /\ c \notin edited /\ IsSealed(manifest'[c]) =>
              sealedAs'[c] = [manifest |-> manifest'[c], files |-> files[c]]
  BY <1>3, <1>7, <1>8 DEF SealInv
<1>14. \A c \in edited : IsSealed(manifest'[c]) /\ ~VerifySeal(manifest'[c], files[c])
  BY <1>2, <1>8 DEF SealInv, TypeInv, TypeOK
<1>15. \A q \in Procs : pc'[q] = "seal" => pc[q] = "seal"
  BY <1>6
<1>16. \A c \in Dirs \ edited' : \A k \in PIPELINE : files'[c].art[k] # "foreign"
  BY <1>4 DEF SealInv
<1>17. \A q \in Procs : pc'[q] = "seal" => files'[target'[q]].report.state # "none"
  BY <1>4, <1>15 DEF SealInv
<1>18. /\ \A c \in Dirs \ edited' : IsSealed(manifest'[c]) =>
            sealedAs'[c] = [manifest |-> manifest'[c], files |-> files'[c]]
       /\ \A c \in edited' : IsSealed(manifest'[c]) /\ ~VerifySeal(manifest'[c], files'[c])
  BY <1>4, <1>13, <1>14
<1>19. QED
  BY <1>10, <1>12, <1>13, <1>16, <1>17, <1>18 DEF SealInv

(* No edit of a sealed directory escapes verify_seal: of the manifest ...  *)
LEMMA EditedManifestFails ==
  ASSUME NEW m \in ManifestFile, NEW fs \in OtherFiles, VerifySeal(m, fs),
         m.stamped, NEW e \in ManifestEdits(m)
  PROVE  IsSealed(e) /\ ~VerifySeal(e, fs)
<1> DEFINE bare(x) == [x EXCEPT !.root = <<>>]
<1>1. /\ m.root = <<bare(m), fs>> /\ m.root # <<>> /\ m.canonical
      /\ m.state # "absent"
  BY DEF VerifySeal, IsSealed, HashTreeRoot
<1>2. ASSUME NEW x, IsSealed(x), VerifySeal(x, fs), x.root = m.root
      PROVE  bare(x) = bare(m)
  BY <1>1, <1>2 DEF VerifySeal, HashTreeRoot
<1>3. ASSUME NEW s \in TERMINAL_STATES \ {m.state}
      PROVE  LET x == [m EXCEPT !.state = s] IN IsSealed(x) /\ ~VerifySeal(x, fs)
  <2> DEFINE x == [m EXCEPT !.state = s]
  <2>1. x.root = m.root /\ IsSealed(x)
    BY <1>1 DEF ManifestFile, ManifestWith, IsSealed
  <2>2. bare(x).state # bare(m).state
    BY DEF ManifestFile, ManifestWith
  <2> HIDE DEF x, bare
  <2>3. QED
    BY <1>2, <2>1, <2>2 DEF x
<1>4. ASSUME NEW i \in 1..Len(m.stages), m.stages[i].state # "PASSED"
      PROVE  LET x == [m EXCEPT !.stages[i].state = "PASSED"]
             IN  IsSealed(x) /\ ~VerifySeal(x, fs)
  <2> DEFINE x == [m EXCEPT !.stages[i].state = "PASSED"]
  <2>1. m.stages \in Seq(StageRecord)
    BY DEF ManifestFile, ManifestWith
  <2>2. x.root = m.root /\ IsSealed(x)
    BY <1>1 DEF ManifestFile, ManifestWith, IsSealed
  <2>3. m.stages[i] \in StageRecord
    BY <2>1
  <2>4. x.stages[i] = [m.stages[i] EXCEPT !.state = "PASSED"]
    BY <2>1 DEF ManifestFile, ManifestWith
  <2>5. x.stages[i].state = "PASSED"
    BY <2>3, <2>4 DEF StageRecord
  <2>6. bare(x).stages = x.stages /\ bare(m).stages = m.stages
    BY DEF ManifestFile, ManifestWith
  <2> HIDE DEF x, bare
  <2>7. bare(x) # bare(m)
    BY <1>4, <2>5, <2>6
  <2>8. IsSealed(x) /\ ~VerifySeal(x, fs)
    BY <1>2, <2>2, <2>7
  <2>9. QED
    BY <2>8 DEF x
<1>5. LET x == [m EXCEPT !.stamped = FALSE] IN IsSealed(x) /\ ~VerifySeal(x, fs)
  <2> DEFINE x == [m EXCEPT !.stamped = FALSE]
  <2>1. x.root = m.root /\ IsSealed(x)
    BY <1>1 DEF ManifestFile, ManifestWith, IsSealed
  <2>2. bare(x).stamped # bare(m).stamped
    BY DEF ManifestFile, ManifestWith
  <2> HIDE DEF x, bare
  <2>3. QED
    BY <1>2, <2>1, <2>2 DEF x
<1>6. LET x == [m EXCEPT !.root = Forged] IN IsSealed(x) /\ ~VerifySeal(x, fs)
  <2> DEFINE x == [m EXCEPT !.root = Forged]
  <2>1. x.root = <<"forged">>
    BY DEF ManifestFile, ManifestWith, Forged
  <2>2. \A a, b : <<"forged">> # <<a, b>> /\ <<"forged">> # <<>>
    OBVIOUS
  <2> HIDE DEF x
  <2>3. QED
    BY <2>1, <2>2 DEF VerifySeal, HashTreeRoot, IsSealed, x
<1>7. LET x == [m EXCEPT !.canonical = FALSE] IN IsSealed(x) /\ ~VerifySeal(x, fs)
  BY <1>1 DEF ManifestFile, ManifestWith, IsSealed, VerifySeal
<1> HIDE DEF bare
<1>8. QED
  BY <1>3, <1>4, <1>5, <1>6, <1>7 DEF ManifestEdits, TERMINAL_STATES, Boundary

(* ... and of the other files.                                             *)
LEMMA EditedFileFails ==
  ASSUME NEW m \in ManifestFile, NEW fs \in OtherFiles, Intact(m, fs),
         NEW e \in FileEdits(fs)
  PROVE  ~VerifySeal(m, e)
<1>1. \A k \in PIPELINE : WithArtifacts(fs, k, "foreign").art[k] # fs.art[k]
  BY DEF Intact, WithArtifacts, OtherFiles
<1>2. WithReport(fs, NoReport).report # fs.report
  BY DEF Intact, WithReport, NoReport, OtherFiles
<1>3. e # fs
  BY <1>1, <1>2 DEF FileEdits
<1>4. QED
  BY <1>3 DEF Intact, VerifySeal, HashTreeRoot

LEMMA EditSealInv ==
  ASSUME TypeInv, SealInv, NEW d \in Dirs, EditManifest(d) \/ EditFile(d)
  PROVE  SealInv'
<1>1. /\ IsSealed(manifest[d]) /\ d \notin edited /\ edited' = edited \cup {d}
      /\ UNCHANGED <<pc, target, handle, sealedAs>>
  BY DEF EditManifest, EditFile, EditFrom, local
<1>2. Intact(manifest[d], files[d])
  <2>1. sealedAs[d] = [manifest |-> manifest[d], files |-> files[d]]
    BY <1>1 DEF SealInv
  <2>2. Intact(sealedAs[d].manifest, sealedAs[d].files)
    BY <1>1 DEF SealInv
  <2>3. QED
    BY <2>1, <2>2
<1>3. manifest[d] \in ManifestFile /\ files[d] \in OtherFiles
  BY DEF TypeInv, TypeOK
<1>4. /\ IsSealed(manifest'[d]) /\ ~VerifySeal(manifest'[d], files'[d])
      /\ \A c \in Dirs : c # d => manifest'[c] = manifest[c] /\ files'[c] = files[c]
  <2>1. CASE EditManifest(d)
    <3>1. PICK e \in ManifestEdits(manifest[d]) :
            manifest' = [manifest EXCEPT ![d] = e]
      BY <2>1 DEF EditManifest
    <3>2. files' = files
      BY <2>1 DEF EditManifest
    <3>3. IsSealed(e) /\ ~VerifySeal(e, files[d])
      BY <1>2, <1>3, EditedManifestFails DEF Intact
    <3>4. QED
      BY <3>1, <3>2, <3>3 DEF TypeInv, TypeOK
  <2>2. CASE EditFile(d)
    <3>1. PICK e \in FileEdits(files[d]) : files' = [files EXCEPT ![d] = e]
      BY <2>2 DEF EditFile
    <3>2. manifest' = manifest
      BY <2>2 DEF EditFile
    <3>3. ~VerifySeal(manifest[d], e)
      BY <1>2, <1>3, EditedFileFails
    <3>4. QED
      BY <1>1, <3>1, <3>2, <3>3 DEF TypeInv, TypeOK
  <2>3. QED
    BY <2>1, <2>2
<1>5. \A p \in Procs : pc[p] \in Writing =>
        /\ target[p] \in Dirs /\ target[p] # d
  BY <1>1 DEF SealInv, TypeInv, Launched, Writing
<1>6. \A p \in Procs : pc'[p] \in Writing =>
        manifest'[target[p]] = handle[p] /\ ~IsSealed(handle[p]) /\ handle[p].canonical
  BY <1>1, <1>4, <1>5 DEF SealInv
<1>7. \A p \in Procs : pc'[p] = "seal" => files'[target[p]].report.state # "none"
  BY <1>1, <1>4, <1>5 DEF SealInv, Writing
<1>8. \A c \in Dirs : IsSealed(manifest'[c]) <=> IsSealed(manifest[c])
  BY <1>1, <1>4
<1>9. edited \subseteq Dirs
  BY DEF TypeInv, TypeOK
<1>10. \A c \in edited' : IsSealed(manifest'[c]) /\ ~VerifySeal(manifest'[c], files'[c])
  BY <1>1, <1>4, <1>9 DEF SealInv
<1>11. \A c \in Dirs \ edited' :
         /\ IsSealed(manifest'[c]) =>
              sealedAs[c] = [manifest |-> manifest'[c], files |-> files'[c]]
         /\ \A k \in PIPELINE : files'[c].art[k] # "foreign"
  BY <1>1, <1>4 DEF SealInv
<1>12. QED
  BY <1>1, <1>6, <1>7, <1>8, <1>10, <1>11 DEF SealInv, Opened

LEMMA FileUpdateFields ==
  ASSUME NEW fs \in OtherFiles
  PROVE  /\ WithHaltReport(fs).art = fs.art
         /\ \A e : WithEntry(fs, e).art = fs.art
         /\ \A st : WithMarker(fs, st).art = fs.art
         /\ \A r : WithReport(fs, r).art = fs.art /\ WithReport(fs, r).report = r
         /\ \A k, j \in PIPELINE : \A c :
              WithArtifacts(fs, k, c).art[j] \in {c, fs.art[j]}
  BY DEF WithHaltReport, WithEntry, WithMarker, WithReport, WithArtifacts, OtherFiles

(* Every step is one of these kinds.                                       *)
AnyFileStep == \E p \in Procs, fs \in OtherFiles : FileStep(p, fs)

AnyManifestStep == \E p \in Procs, m \in ManifestFile : ManifestStep(p, m)

StepKind ==
  \/ QuietStep \/ AnyFileStep \/ AnyManifestStep
  \/ \E p \in Procs : Seal(p)
  \/ \E d \in Dirs : EditManifest(d) \/ EditFile(d)

(* A step of p that replaces its files, once it is at a writing place.     *)
LEMMA MakeFileStep ==
  ASSUME TypeInv, WriterInv, SealInv, NEW p \in Procs, NEW fs \in OtherFiles,
         NEW l, pc[p] \in Writing \cup {"open"},
         files' = [files EXCEPT ![target[p]] = fs],
         pc' = [pc EXCEPT ![p] = l],
         l \in Writing => pc[p] \in Writing,
         l = "seal" => fs.report.state # "none",
         \A k \in PIPELINE : fs.art[k] \in {"computed", "varied", files[target[p]].art[k]},
         UNCHANGED <<manifest, handle, target, sealedAs, edited>>
  PROVE  AnyFileStep
<1>1. target[p] \in Dirs \ edited
  BY WritersUnsealed
<1>2. \A k \in PIPELINE : fs.art[k] # "foreign"
  BY <1>1 DEF SealInv
<1>3. /\ \A q \in Procs : q # p => pc'[q] = pc[q]
      /\ pc'[p] = l
  BY DEF TypeInv, TypeOK
<1>4. FileStep(p, fs)
  BY <1>2, <1>3 DEF FileStep
<1>5. QED
  BY <1>4 DEF AnyFileStep

(* A step of p that records a stage.                                       *)
LEMMA MakeManifestStep ==
  ASSUME TypeInv, SealInv, NEW p \in Procs, NEW k \in PIPELINE, NEW v \in Verdict,
         NEW l \in Writing \ {"seal"}, pc[p] \in Writing,
         RecordStage(p, k, v), pc' = [pc EXCEPT ![p] = l],
         UNCHANGED <<files, target, sealedAs, edited>>
  PROVE  AnyManifestStep
<1> DEFINE m == WithStage(handle[p], k, v)
<1>1. handle[p] \in ManifestFile /\ ~IsSealed(handle[p]) /\ handle[p].canonical
  BY DEF TypeInv, TypeOK, SealInv
<1>2. m \in ManifestFile /\ m.root = handle[p].root /\ m.canonical = handle[p].canonical
  BY <1>1, WithStageType DEF WithStage, ManifestFile, ManifestWith
<1>3. manifest' = [manifest EXCEPT ![target[p]] = m] /\ handle' = [handle EXCEPT ![p] = m]
  BY DEF RecordStage, TypeInv, TypeOK
<1>4. \A q \in Procs : Opened(q)' <=> Opened(q)
  BY RecordKeepsOpened
<1>5. /\ \A q \in Procs : q # p => pc'[q] = pc[q]
      /\ pc'[p] # "seal"
  BY DEF TypeInv, TypeOK
<1> HIDE DEF m
<1>6. ManifestStep(p, m)
  BY <1>1, <1>2, <1>3, <1>4, <1>5 DEF ManifestStep, IsSealed
<1>7. QED
  BY <1>2, <1>6 DEF AnyManifestStep

LEMMA NextStepKinds ==
  TypeInv /\ WriterInv /\ SealInv /\ [Next]_vars => StepKind
<1> SUFFICES ASSUME TypeInv, WriterInv, SealInv, [Next]_vars PROVE StepKind
  OBVIOUS
<1> USE DEF Goto, disk, local, ghost
<1>1. ASSUME NEW p \in Procs, NEW d \in Dirs, LaunchRun(p, d) PROVE QuietStep
  <2>1. ~Opened(p)
    BY <1>1 DEF LaunchRun, WriterInv
  <2>2. QED
    BY <1>1, <2>1 DEF LaunchRun, QuietStep, Writing, TypeInv, TypeOK
<1>2. ASSUME NEW p \in Procs, NEW s \in Dirs, NEW d \in Dirs, LaunchRerun(p, s, d)
      PROVE  QuietStep
  <2>1. ~Opened(p)
    BY <1>2 DEF LaunchRerun, WriterInv
  <2>2. PICK l \in {"exists", "raised"} : pc' = [pc EXCEPT ![p] = l]
    BY <1>2 DEF LaunchRerun
  <2>3. QED
    BY <1>2, <2>1, <2>2 DEF LaunchRerun, QuietStep, Writing, TypeInv, TypeOK
<1>3. ASSUME NEW p \in Procs, CheckTarget(p) PROVE QuietStep
  BY <1>3 DEF CheckTarget, QuietStep, Writing, TypeInv, TypeOK
<1>4. ASSUME NEW p \in Procs, RefuseRegistry(p) PROVE QuietStep
  BY <1>4 DEF RefuseRegistry, QuietStep, Writing, TypeInv, TypeOK
<1>5. ASSUME NEW p \in Procs, MakeDir(p) PROVE QuietStep
  BY <1>5 DEF MakeDir, QuietStep, Writing, TypeInv, TypeOK
<1>6. ASSUME NEW p \in Procs, SkippedAll(p) PROVE QuietStep
  BY <1>6 DEF SkippedAll, QuietStep, Writing, TypeInv, TypeOK
<1>7. ASSUME NEW p \in Procs, Compare(p) PROVE QuietStep
  BY <1>7 DEF Compare, QuietStep, Writing, TypeInv, TypeOK
<1>8. ASSUME NEW p \in Procs, Crash(p) PROVE QuietStep
  BY <1>8 DEF Crash, QuietStep, Writing, TypeInv, TypeOK
<1>9. CASE UNCHANGED vars
  <2>1. QuietStep
    BY <1>9 DEF vars, QuietStep
  <2>2. QED
    BY <2>1 DEF StepKind
<1>10. ASSUME NEW p \in Procs, pc[p] \in Writing \cup {"open"}
       PROVE  files[target[p]] \in OtherFiles
  BY <1>10, WritersUnsealed DEF TypeInv, TypeOK
<1>11. ASSUME NEW p \in Procs, RejectFields(p) PROVE AnyFileStep
  <2> DEFINE fs == WithHaltReport(files[target[p]])
  <2>1. pc[p] \in Writing \cup {"open"} /\ files' = [files EXCEPT ![target[p]] = fs]
    BY <1>11 DEF RejectFields
  <2>2. fs \in OtherFiles /\ fs.art = files[target[p]].art
    BY <2>1, <1>10, FileUpdateTypes, FileUpdateFields
  <2> HIDE DEF fs
  <2>3. QED
    BY <1>11, <2>1, <2>2, MakeFileStep DEF RejectFields, Writing
<1>12. ASSUME NEW p \in Procs, OpenProvenance(p) PROVE AnyFileStep
  <2>1. pc[p] \in Writing
    BY <1>12 DEF OpenProvenance, Writing
  <2>2. PICK fs \in {files[target[p]], WithHaltReport(files[target[p]])} :
          files' = [files EXCEPT ![target[p]] = fs]
    BY <1>12 DEF OpenProvenance, TypeInv, TypeOK
  <2>3. fs \in OtherFiles /\ fs.art = files[target[p]].art
    BY <2>1, <2>2, <1>10, FileUpdateTypes, FileUpdateFields
  <2>4. PICK l \in {"stage", "raised"} : pc' = [pc EXCEPT ![p] = l]
    BY <1>12 DEF OpenProvenance
  <2>5. UNCHANGED <<manifest, handle, target, sealedAs, edited>>
    BY <1>12 DEF OpenProvenance
  <2>6. QED
    BY <2>1, <2>2, <2>3, <2>4, <2>5, MakeFileStep
<1>13. ASSUME NEW p \in Procs, ExecuteStage(p) PROVE AnyFileStep
  <2>1. pc[p] \in Writing
    BY <1>13 DEF ExecuteStage, Writing
  <2>2. PICK c \in {"computed", "varied"}, l \in {"passed", "wrap", "failed"} :
          /\ files' = [files EXCEPT ![target[p]] =
                         WithArtifacts(files[target[p]], stage[p], c)]
          /\ pc' = [pc EXCEPT ![p] = l]
    BY <1>13 DEF ExecuteStage
  <2> DEFINE fs == WithArtifacts(files[target[p]], stage[p], c)
  <2>3. stage[p] \in PIPELINE
    BY DEF TypeInv, TypeOK
  <2>4. /\ fs \in OtherFiles
        /\ \A k \in PIPELINE : fs.art[k] \in {"computed", "varied", files[target[p]].art[k]}
    <3>1. files[target[p]] \in OtherFiles
      BY <2>1, <1>10
    <3>2. fs \in OtherFiles
      BY <2>3, <3>1, FileUpdateTypes
    <3>3. \A k \in PIPELINE : fs.art[k] \in {c, files[target[p]].art[k]}
      BY <2>3, <3>1, FileUpdateFields
    <3>4. QED
      BY <3>2, <3>3
  <2>5. UNCHANGED <<manifest, handle, target, sealedAs, edited>>
    BY <1>13 DEF ExecuteStage
  <2> HIDE DEF fs
  <2>6. files' = [files EXCEPT ![target[p]] = fs]
    BY <2>2 DEF fs
  <2>7. QED
    BY <2>1, <2>2, <2>4, <2>5, <2>6, MakeFileStep
<1>14. ASSUME NEW p \in Procs, NEW e \in Event, AppendEvent(p, e),
              NEW l \in Writing \ {"seal"}, pc[p] \in Writing,
              pc' = [pc EXCEPT ![p] = l],
              UNCHANGED <<manifest, handle, target, sealedAs, edited>>
       PROVE  AnyFileStep
  <2> DEFINE entry == [seq |-> nextSeq[p], stage |-> stage[p], event |-> e]
             fs == WithEntry(files[target[p]], entry)
  <2>1. entry \in Entry
    BY DEF Entry, TypeInv, TypeOK
  <2>2. files' = [files EXCEPT ![target[p]] = fs]
    BY <1>14 DEF AppendEvent, TypeInv, TypeOK
  <2> HIDE DEF entry
  <2>3. fs \in OtherFiles /\ fs.art = files[target[p]].art
    BY <2>1, <1>10, <1>14, FileUpdateTypes, FileUpdateFields
  <2> HIDE DEF fs
  <2>4. QED
    BY <1>14, <2>2, <2>3, MakeFileStep
<1>15. ASSUME NEW p \in Procs, AppendComplete(p) PROVE AnyFileStep
  <2>1. PICK l \in {"report", "stage"} : pc' = [pc EXCEPT ![p] = l]
    BY <1>15 DEF AppendComplete
  <2>2. /\ pc[p] = "complete" /\ AppendEvent(p, "stage_complete")
        /\ UNCHANGED <<manifest, handle, target, sealedAs, edited>>
    BY <1>15 DEF AppendComplete
  <2>3. QED
    BY <1>14, <2>1, <2>2 DEF Event, Writing
<1>16. ASSUME NEW p \in Procs, AppendHalt(p) PROVE AnyFileStep
  <2>1. PICK l \in {"skip", "mark"} : pc' = [pc EXCEPT ![p] = l]
    BY <1>16 DEF AppendHalt
  <2>2. PICK e \in Event : AppendEvent(p, e)
    BY <1>16 DEF AppendHalt, Event
  <2>3. pc[p] = "halt" /\ UNCHANGED <<manifest, handle, target, sealedAs, edited>>
    BY <1>16 DEF AppendHalt
  <2>4. QED
    BY <1>14, <2>1, <2>2, <2>3 DEF Writing
<1>17. ASSUME NEW p \in Procs, WrapUntyped(p) PROVE AnyFileStep
  <2> DEFINE fs == WithHaltReport(files[target[p]])
  <2>1. pc[p] \in Writing /\ files' = [files EXCEPT ![target[p]] = fs]
    BY <1>17 DEF WrapUntyped, Writing
  <2>2. fs \in OtherFiles /\ fs.art = files[target[p]].art
    BY <2>1, <1>10, FileUpdateTypes, FileUpdateFields
  <2> HIDE DEF fs
  <2>3. QED
    BY <1>17, <2>1, <2>2, MakeFileStep DEF WrapUntyped
<1>18. ASSUME NEW p \in Procs, MarkNonFinal(p) PROVE AnyFileStep
  <2> DEFINE fs == WithMarker(files[target[p]], RunState(outcome[p]))
  <2>1. pc[p] \in Writing /\ files' = [files EXCEPT ![target[p]] = fs]
    BY <1>18 DEF MarkNonFinal, Writing
  <2>2. RunState(outcome[p]) \in TERMINAL_STATES
    BY RunStateType DEF TypeInv, TypeOK
  <2>3. fs \in OtherFiles /\ fs.art = files[target[p]].art
    BY <2>1, <2>2, <1>10, FileUpdateTypes, FileUpdateFields
  <2> HIDE DEF fs
  <2>4. QED
    BY <1>18, <2>1, <2>3, MakeFileStep DEF MarkNonFinal
<1>19. ASSUME NEW p \in Procs, WriteReport(p) PROVE AnyFileStep
  <2> DEFINE fs == WithReport(files[target[p]], ReportOf(p))
  <2>1. pc[p] \in Writing /\ files' = [files EXCEPT ![target[p]] = fs]
    BY <1>19 DEF WriteReport, Writing
  <2>2. RunState(outcome[p]) \in TERMINAL_STATES
    BY RunStateType DEF TypeInv, TypeOK
  <2>3. ReportOf(p) \in Report /\ ReportOf(p).state # "none"
    BY <2>2, NStagesAssumption
    DEF ReportOf, Report, PIPELINE, TypeInv, TypeOK, TERMINAL_STATES, Halted, Boundary
  <2>4. fs \in OtherFiles /\ fs.art = files[target[p]].art /\ fs.report.state # "none"
    BY <2>1, <2>3, <1>10, FileUpdateTypes, FileUpdateFields
  <2> HIDE DEF fs
  <2>5. QED
    BY <1>19, <2>1, <2>4, MakeFileStep DEF WriteReport
<1>20. ASSUME NEW p \in Procs, OpenManifest(p) PROVE AnyManifestStep
  <2>1. ManifestStep(p, NewManifest)
    BY <1>20 DEF OpenManifest, ManifestStep, NewManifest, NoManifest, IsSealed,
                 Opened, TypeInv, TypeOK
  <2>2. QED
    BY <2>1, NewManifestType DEF AnyManifestStep
<1>21. ASSUME NEW p \in Procs, RecordPassed(p) PROVE AnyManifestStep
  <2>1. stage[p] \in PIPELINE
    BY DEF TypeInv, TypeOK
  <2>2. QED
    BY <1>21, <2>1, MakeManifestStep DEF RecordPassed, Writing, Verdict
<1>22. ASSUME NEW p \in Procs, RecordFailed(p) PROVE AnyManifestStep
  <2>1. stage[p] \in PIPELINE
    BY DEF TypeInv, TypeOK
  <2>2. QED
    BY <1>22, <2>1, MakeManifestStep DEF RecordFailed, Writing, Verdict
<1>23. ASSUME NEW p \in Procs, SkipStage(p) PROVE AnyManifestStep
  <2> DEFINE next == Len(handle[p].stages) + 1
  <2>1. handle[p].stages \in Seq(StageRecord)
    BY DEF TypeInv, TypeOK, ManifestFile, ManifestWith
  <2>2. next \in PIPELINE
    BY <1>23, <2>1, NStagesAssumption DEF SkipStage, PIPELINE
  <2>3. pc[p] = "skip" /\ RecordStage(p, next, "SKIPPED_BOUNDARY")
    BY <1>23 DEF SkipStage
  <2>4. pc' = [pc EXCEPT ![p] = "skip"] /\ UNCHANGED <<files, target, sealedAs, edited>>
    BY <1>23, <2>3 DEF SkipStage, TypeInv, TypeOK
  <2> HIDE DEF next
  <2>5. QED
    BY <2>2, <2>3, <2>4, MakeManifestStep DEF Writing, Verdict
<1>24. QED
  BY <1>1, <1>2, <1>3, <1>4, <1>5, <1>6, <1>7, <1>8, <1>9, <1>11, <1>12, <1>13,
     <1>15, <1>16, <1>17, <1>18, <1>19, <1>20, <1>21, <1>22, <1>23
  DEF Next, Launch, Run, StepKind

LEMMA SealInvNext ==
  TypeInv /\ WriterInv /\ SealInv /\ [Next]_vars => SealInv'
  BY NextStepKinds, QuietStepSealInv, FileStepSealInv, ManifestStepSealInv,
     SealSealInv, EditSealInv
  DEF StepKind, AnyFileStep, AnyManifestStep

LEMMA SealInvHolds ==
  ASSUME "run" \notin Collisions
  PROVE  Spec /\ []Unraced => [](TypeInv /\ WriterInv /\ SealInv)
<1>1. TypeInv /\ WriterInv /\ SealInv /\ Unraced /\ [Next]_vars
        => (TypeInv /\ WriterInv /\ SealInv)'
  BY TypeInvNext, WriterInvNext, SealInvNext
<1>2. QED
  BY <1>1, TypeInvInit, WriterInvInit, SealInvInit, PTL DEF Spec

(* verify_seal accepts a directory exactly when it was sealed and is still *)
(* what it was then.                                                       *)
THEOREM SealsAreExact ==
  ASSUME "run" \notin Collisions
  PROVE  Spec /\ []Unraced => []VerifyIsExact
<1>1. SealInv => VerifyIsExact
  <2> SUFFICES ASSUME SealInv, NEW d \in Dirs
               PROVE  VerifySeal(manifest[d], files[d]) <=>
                        /\ IsSealed(sealedAs[d].manifest)
                        /\ sealedAs[d] = [manifest |-> manifest[d], files |-> files[d]]
    BY DEF VerifyIsExact
  <2>1. ASSUME VerifySeal(manifest[d], files[d])
        PROVE  /\ IsSealed(sealedAs[d].manifest)
               /\ sealedAs[d] = [manifest |-> manifest[d], files |-> files[d]]
    <3>1. IsSealed(manifest[d])
      BY <2>1 DEF VerifySeal
    <3>2. d \notin edited
      BY <2>1 DEF SealInv
    <3>3. QED
      BY <3>1, <3>2 DEF SealInv
  <2>2. ASSUME IsSealed(sealedAs[d].manifest),
               sealedAs[d] = [manifest |-> manifest[d], files |-> files[d]]
        PROVE  VerifySeal(manifest[d], files[d])
    <3>1. VerifySeal(sealedAs[d].manifest, sealedAs[d].files)
      BY <2>2 DEF SealInv, Intact
    <3>2. QED
      BY <2>2, <3>1
  <2>3. QED
    BY <2>1, <2>2
<1>2. QED
  BY <1>1, SealInvHolds, PTL

(* A sealed directory never changes again, except by an edit from outside. *)
SealedStays ==
  \A d \in Dirs : IsSealed(manifest[d]) /\ d \notin edited' =>
    UNCHANGED <<manifest[d], files[d]>>

LEMMA NextSealedStays ==
  TypeInv /\ WriterInv /\ SealInv /\ [Next]_vars => SealedStays
<1> SUFFICES ASSUME TypeInv, WriterInv, SealInv, [Next]_vars,
                    NEW d \in Dirs, IsSealed(manifest[d]), d \notin edited'
             PROVE  UNCHANGED <<manifest[d], files[d]>>
  BY DEF SealedStays
<1>1. CASE QuietStep
  BY <1>1 DEF QuietStep
<1>2. CASE AnyFileStep
  <2>1. PICK p \in Procs, fs \in OtherFiles : FileStep(p, fs)
    BY <1>2 DEF AnyFileStep
  <2>2. ~IsSealed(manifest[target[p]])
    BY <2>1, WritersUnsealed DEF FileStep
  <2>3. QED
    BY <2>1, <2>2 DEF FileStep, TypeInv, TypeOK
<1>3. CASE AnyManifestStep
  <2>1. PICK p \in Procs, m \in ManifestFile : ManifestStep(p, m)
    BY <1>3 DEF AnyManifestStep
  <2>2. ~IsSealed(manifest[target[p]])
    BY <2>1, WritersUnsealed DEF ManifestStep
  <2>3. QED
    BY <2>1, <2>2 DEF ManifestStep, TypeInv, TypeOK
<1>4. ASSUME NEW p \in Procs, Seal(p) PROVE UNCHANGED <<manifest[d], files[d]>>
  <2>1. pc[p] \in Writing
    BY <1>4 DEF Seal, Writing
  <2>2. d # target[p]
    BY <2>1, WritersUnsealed
  <2>3. QED
    BY <1>4, <2>2 DEF Seal, TypeInv, TypeOK
<1>5. ASSUME NEW c \in Dirs, EditManifest(c) \/ EditFile(c)
      PROVE  UNCHANGED <<manifest[d], files[d]>>
  BY <1>5 DEF EditManifest, EditFile, EditFrom, TypeInv, TypeOK
<1>6. QED
  BY <1>1, <1>2, <1>3, <1>4, <1>5, NextStepKinds DEF StepKind

(* No step of an invocation, and no crash, touches a sealed directory.     *)
THEOREM SealsAreFinal ==
  ASSUME "run" \notin Collisions
  PROVE  Spec /\ []Unraced => SealedIsForever
<1>1. TypeInv /\ WriterInv /\ SealInv /\ [Next]_vars => [SealedStays]_vars
  BY NextSealedStays
<1>2. Spec /\ []Unraced => [][SealedStays]_vars
  BY <1>1, SealInvHolds, PTL DEF Spec
<1>3. QED
  BY <1>2 DEF SealedIsForever, SealedStays

-----------------------------------------------------------------------------
(* What the program writes down: the stage records of manifest.json and    *)
(* the entries of PROVENANCE.jsonl stay in step, and whatever verify_seal  *)
(* accepts is the account of one whole run.                                *)

(* Records and Entries: their types, and how they grow.                    *)

LEMMA RecordsType ==
  ASSUME NEW n \in 0..NStages, NEW k \in Nat
  PROVE  /\ Records(n, k) \in Seq(StageRecord)
         /\ Len(Records(n, k)) = n
         /\ \A i \in 1..n : Records(n, k)[i] =
              [stage |-> i,
               state |-> IF i <= k THEN "PASSED"
                         ELSE IF i = k + 1 THEN "FAILED" ELSE "SKIPPED_BOUNDARY"]
<1>1. \A i \in 1..n :
        [stage |-> i,
         state |-> IF i <= k THEN "PASSED"
                   ELSE IF i = k + 1 THEN "FAILED" ELSE "SKIPPED_BOUNDARY"]
          \in StageRecord
  BY NStagesAssumption DEF StageRecord, PIPELINE, Verdict
<1>2. n \in Nat
  BY NStagesAssumption
<1>3. QED
  BY <1>1, <1>2 DEF Records

LEMMA EntriesType ==
  ASSUME NEW n \in 0..NStages, NEW k \in Nat, NEW s
  PROVE  /\ Entries(n, k, s) \in Seq(Entry)
         /\ Len(Entries(n, k, s)) = n
         /\ \A i \in 1..n : Entries(n, k, s)[i] =
              [seq |-> i, stage |-> i,
               event |-> IF i <= k THEN "stage_complete"
                         ELSE IF s \in Halted THEN "halt" ELSE "advisory_issued"]
<1>1. \A i \in 1..n :
        [seq |-> i, stage |-> i,
         event |-> IF i <= k THEN "stage_complete"
                   ELSE IF s \in Halted THEN "halt" ELSE "advisory_issued"]
          \in Entry
  BY NStagesAssumption DEF Entry, PIPELINE, Event
<1>2. n \in Nat
  BY NStagesAssumption
<1>3. QED
  BY <1>1, <1>2 DEF Entries

(* One more record, or entry, in pipeline order.                           *)
LEMMA RecordsGrow ==
  ASSUME NEW n \in 0..(NStages - 1), NEW k \in Nat, NEW v,
         v = Records(n + 1, k)[n + 1].state
  PROVE  Append(Records(n, k), [stage |-> n + 1, state |-> v]) = Records(n + 1, k)
<1> DEFINE r == [stage |-> n + 1, state |-> v]
           s == Append(Records(n, k), r)
           t == Records(n + 1, k)
<1>1. n \in 0..NStages /\ n + 1 \in 0..NStages /\ n + 1 \in 1..(n + 1)
  BY NStagesAssumption
<1>2. /\ t \in Seq(StageRecord) /\ Len(t) = n + 1
      /\ Records(n, k) \in Seq(StageRecord) /\ Len(Records(n, k)) = n
  BY <1>1, RecordsType
<1>3. t[n + 1] = r
  <2> DEFINE w == IF n + 1 <= k THEN "PASSED"
                  ELSE IF n + 1 = k + 1 THEN "FAILED" ELSE "SKIPPED_BOUNDARY"
  <2>1. t[n + 1] = [stage |-> n + 1, state |-> w]
    BY <1>1, RecordsType
  <2> HIDE DEF w, t
  <2>2. v = w
    BY <2>1 DEF t
  <2>3. QED
    BY <2>1, <2>2
<1>4. r \in StageRecord
  BY <1>1, <1>2, <1>3
<1>5. \A i \in 1..n : Records(n, k)[i] = t[i]
  <2> SUFFICES ASSUME NEW i \in 1..n PROVE Records(n, k)[i] = t[i]
    OBVIOUS
  <2>1. i \in 1..(n + 1)
    BY NStagesAssumption
  <2> DEFINE w == [stage |-> i,
               state |-> IF i <= k THEN "PASSED"
                         ELSE IF i = k + 1 THEN "FAILED" ELSE "SKIPPED_BOUNDARY"]
  <2>2. Records(n, k)[i] = w
    BY <1>1, RecordsType
  <2>3. t[i] = w
    BY <1>1, <2>1, RecordsType
  <2> HIDE DEF w, t
  <2>4. QED
    BY <2>2, <2>3
<1> HIDE DEF r
<1>6. /\ s \in Seq(StageRecord) /\ Len(s) = n + 1 /\ s[n + 1] = r
      /\ \A i \in 1..n : s[i] = Records(n, k)[i]
  BY <1>2, <1>4
<1>7. \A i \in 1..(n + 1) : s[i] = t[i]
  BY <1>3, <1>5, <1>6
<1> HIDE DEF s, t
<1>8. s = t
  BY <1>2, <1>6, <1>7
<1>9. QED
  BY <1>8 DEF s, t, r

LEMMA EntriesGrow ==
  ASSUME NEW n \in 0..(NStages - 1), NEW k \in Nat, NEW s, NEW e,
         e = Entries(n + 1, k, s)[n + 1].event
  PROVE  Append(Entries(n, k, s), [seq |-> n + 1, stage |-> n + 1, event |-> e])
           = Entries(n + 1, k, s)
<1> DEFINE r == [seq |-> n + 1, stage |-> n + 1, event |-> e]
           u == Append(Entries(n, k, s), r)
           t == Entries(n + 1, k, s)
<1>1. n \in 0..NStages /\ n + 1 \in 0..NStages /\ n + 1 \in 1..(n + 1)
  BY NStagesAssumption
<1>2. /\ t \in Seq(Entry) /\ Len(t) = n + 1
      /\ Entries(n, k, s) \in Seq(Entry) /\ Len(Entries(n, k, s)) = n
  BY <1>1, EntriesType
<1>3. t[n + 1] = r
  <2> DEFINE w == IF n + 1 <= k THEN "stage_complete"
                  ELSE IF s \in Halted THEN "halt" ELSE "advisory_issued"
  <2>1. t[n + 1] = [seq |-> n + 1, stage |-> n + 1, event |-> w]
    BY <1>1, EntriesType, ZenonT(60)
  <2> HIDE DEF w, t
  <2>2. e = w
    BY <2>1 DEF t
  <2>3. QED
    BY <2>1, <2>2
<1>4. r \in Entry
  BY <1>1, <1>2, <1>3
<1>5. \A i \in 1..n : Entries(n, k, s)[i] = t[i]
  <2> SUFFICES ASSUME NEW i \in 1..n PROVE Entries(n, k, s)[i] = t[i]
    OBVIOUS
  <2>1. i \in 1..(n + 1)
    BY NStagesAssumption
  <2> DEFINE w == [seq |-> i, stage |-> i,
               event |-> IF i <= k THEN "stage_complete"
                         ELSE IF s \in Halted THEN "halt" ELSE "advisory_issued"]
  <2>2. Entries(n, k, s)[i] = w
    BY <1>1, EntriesType
  <2>3. t[i] = w
    BY <1>1, <2>1, EntriesType
  <2> HIDE DEF w, t
  <2>4. QED
    BY <2>2, <2>3
<1> HIDE DEF r
<1>6. /\ u \in Seq(Entry) /\ Len(u) = n + 1 /\ u[n + 1] = r
      /\ \A i \in 1..n : u[i] = Entries(n, k, s)[i]
  BY <1>2, <1>4
<1>7. \A i \in 1..(n + 1) : u[i] = t[i]
  BY <1>3, <1>5, <1>6
<1> HIDE DEF u, t
<1>8. u = t
  BY <1>2, <1>6, <1>7
<1>9. QED
  BY <1>8 DEF u, t, r

(* The same, from the entry that is added.                                 *)
LEMMA EntriesClose ==
  ASSUME NEW n \in PIPELINE, NEW k \in Nat, NEW s, NEW e,
         Entries(n, k, s)[n].event = e
  PROVE  Append(Entries(n - 1, k, s), [seq |-> n, stage |-> n, event |-> e])
           = Entries(n, k, s)
<1>1. PICK j \in 0..(NStages - 1) : j = n - 1 /\ j + 1 = n
  BY NStagesAssumption DEF PIPELINE
<1>2. e = Entries(j + 1, k, s)[j + 1].event
  BY <1>1
<1>3. Append(Entries(j, k, s), [seq |-> j + 1, stage |-> j + 1, event |-> e])
        = Entries(j + 1, k, s)
  BY <1>2, EntriesGrow
<1>4. QED
  BY <1>1, <1>3


(* While only passed stages are recorded it does not matter yet how many   *)
(* will pass, or how the run will end.                                     *)
LEMMA PassedPrefix ==
  ASSUME NEW n \in 0..NStages, NEW k \in Nat, n <= k, NEW s, NEW s2
  PROVE  Records(n, k) = Records(n, n) /\ Entries(n, k, s) = Entries(n, n, s2)
<1>1. Records(n, k) = Records(n, n)
  BY NStagesAssumption DEF Records
<1>2. Entries(n, k, s) = Entries(n, n, s2)
  BY NStagesAssumption DEF Entries
<1>3. QED
  BY <1>1, <1>2

-----------------------------------------------------------------------------
(* The inductive invariant.  An invocation that writes has recorded what   *)
(* its place in run says: Shape(m, fs, n, k, e, s) are n stage records and *)
(* e provenance entries of a run that passed k stages and then, unless it  *)
(* passed them all, ended in state s.                                      *)
Shape(m, fs, n, k, e, s) ==
  m.stages = Records(n, k) /\ fs.prov = Entries(e, k, s)

Running == {"logs", "stage", "passed", "wrap", "failed"}

Closing == {"report", "seal"}

(* Place l, at stage k, x stages executed, the last of them ended in o, c  *)
(* is the next sequence number, m the manifest and fs the other files.     *)
InStep(l, k, x, o, c, m, fs) ==
  LET s == RunState(o)
  IN  /\ m.state = "PENDING"
      /\ l = "logs" => k = 1
      /\ l \in {"passed", "complete"} => o = "passed"
      /\ l \in {"wrap", "failed", "halt", "skip", "mark"} => o # "passed"
      /\ l = "skip" => s = Boundary
      /\ l = "mark" => s \in Halted
      /\ l \in Closing /\ o = "passed" => k = NStages
      /\ x = IF l \in Closing /\ o = "passed" THEN NStages ELSE k - 1
      /\ l \notin {"logs", "skip", "mark"} \cup Closing => c = k
      /\ fs.marker = IF l \in Closing /\ s \in Halted THEN s ELSE "none"
      /\ l \in Running => Shape(m, fs, k - 1, k - 1, k - 1, s)
      /\ l = "complete" => Shape(m, fs, k, k, k - 1, s)
      /\ l = "halt" => Shape(m, fs, k, k - 1, k - 1, s)
      /\ l = "skip" => \E n \in k..NStages : Shape(m, fs, n, k - 1, k, s)
      /\ l = "mark" => Shape(m, fs, k, k - 1, k, s)
      /\ l \in Closing =>
           \/ o = "passed" /\ Shape(m, fs, NStages, NStages, NStages, s)
           \/ o # "passed" /\ s = Boundary /\ Shape(m, fs, NStages, k - 1, k, s)
           \/ o # "passed" /\ s \in Halted /\ Shape(m, fs, k, k - 1, k, s)
      /\ l = "seal" => fs.report = [state |-> s, completed |-> x,
                                    failed |-> IF o = "passed" THEN 0 ELSE k]

(* The two ledgers of an unsealed directory, as LedgersInStep has them.    *)
Agree(m, fs) ==
  LET recs == m.stages
      log  == fs.prov
  IN  /\ m.state \in {"absent", "PENDING"}
      /\ Len(log) <= Len(recs)
      /\ \A i \in 1..Len(log) :
           /\ log[i].seq = i /\ log[i].stage = i /\ recs[i].stage = i
           /\ (log[i].event = "stage_complete") <=> (recs[i].state = "PASSED")
      /\ \A i \in 1..Len(recs) :
           i > Len(log) + 1 => recs[i].state = "SKIPPED_BOUNDARY"

(* What a directory holds before anybody has opened its manifest.          *)
Blank(m, fs) == m = NoManifest /\ fs.prov = <<>> /\ fs.marker = "none"

Early == {"idle", "exists", "mkdir", "open"}

InStepAt(p) ==
  InStep(pc[p], stage[p], executed[p], outcome[p], nextSeq[p], handle[p],
         files[target[p]])

LedgerInv ==
  /\ \A p \in Procs : pc[p] \in Writing => InStepAt(p)
  /\ \A p \in Procs : pc[p] \in Early => stage[p] = 1 /\ executed[p] = 0
  /\ \A d \in Dirs : (\A q \in Procs : Opened(q) => target[q] # d) =>
       Blank(manifest[d], files[d])
  /\ \A d \in Dirs : ~IsSealed(manifest[d]) => Agree(manifest[d], files[d])
  /\ \A d \in Dirs : IsSealed(sealedAs[d].manifest) =>
       Consistent(sealedAs[d].manifest, sealedAs[d].files)

LEMMA BlankAgrees ==
  ASSUME NEW m, NEW fs, Blank(m, fs)
  PROVE  Agree(m, fs)
  BY DEF Blank, Agree, NoManifest

LEMMA LedgerInvInit == Init => LedgerInv
<1> SUFFICES ASSUME Init PROVE LedgerInv
  OBVIOUS
<1>1. \A p \in Procs : pc[p] = "idle" /\ stage[p] = 1 /\ executed[p] = 0
  BY DEF Init
<1>2. \A d \in Dirs : Blank(manifest[d], files[d])
  BY DEF Init, Blank, NoFiles
<1>3. \A d \in Dirs : ~IsSealed(sealedAs[d].manifest)
  BY DEF Init, NeverSealed, NoManifest, IsSealed
<1>4. QED
  BY <1>1, <1>2, <1>3, BlankAgrees DEF LedgerInv, Writing, Early

-----------------------------------------------------------------------------
(* What the shapes of the invariant are worth.                             *)

LEMMA ShapeAgrees ==
  ASSUME NEW m, NEW fs, NEW s, NEW n \in 0..NStages, NEW k \in Nat,
         NEW e \in 0..NStages, Shape(m, fs, n, k, e, s),
         e <= n, k <= e \/ n <= e + 1, m.state = "PENDING"
  PROVE  Agree(m, fs)
<1>1. Len(m.stages) = n /\ Len(fs.prov) = e
  BY RecordsType, EntriesType DEF Shape
<1>2. ASSUME NEW i \in 1..e
      PROVE  /\ fs.prov[i].seq = i /\ fs.prov[i].stage = i
             /\ m.stages[i].stage = i
             /\ (fs.prov[i].event = "stage_complete") <=>
                  (m.stages[i].state = "PASSED")
  <2>1. i \in 1..n
    BY NStagesAssumption
  <2>2. fs.prov[i] = [seq |-> i, stage |-> i,
                      event |-> IF i <= k THEN "stage_complete"
                                ELSE IF s \in Halted THEN "halt"
                                     ELSE "advisory_issued"]
    BY EntriesType DEF Shape
  <2>3. m.stages[i] =
          [stage |-> i,
           state |-> IF i <= k THEN "PASSED"
                     ELSE IF i = k + 1 THEN "FAILED" ELSE "SKIPPED_BOUNDARY"]
    BY <2>1, RecordsType DEF Shape
  <2>4. QED
    BY <2>2, <2>3
<1>3. ASSUME NEW i \in 1..n, i > e + 1
      PROVE  m.stages[i].state = "SKIPPED_BOUNDARY"
  <2>1. ~(i <= k) /\ i # k + 1
    BY <1>3, NStagesAssumption
  <2>2. m.stages[i] =
          [stage |-> i,
           state |-> IF i <= k THEN "PASSED"
                     ELSE IF i = k + 1 THEN "FAILED" ELSE "SKIPPED_BOUNDARY"]
    BY RecordsType DEF Shape
  <2>3. QED
    BY <2>1, <2>2
<1>4. QED
  BY <1>1, <1>2, <1>3 DEF Agree

LEMMA InStepAgrees ==
  ASSUME NEW l \in Writing, NEW k \in PIPELINE, NEW x, NEW o \in Outcome, NEW c,
         NEW m, NEW fs, InStep(l, k, x, o, c, m, fs)
  PROVE  Agree(m, fs)
<1> DEFINE s == RunState(o)
<1>1. /\ k \in Nat /\ k - 1 \in Nat /\ NStages \in Nat
      /\ k \in 0..NStages /\ k - 1 \in 0..NStages /\ NStages \in 0..NStages
      /\ k - 1 <= k /\ k <= k - 1 + 1 /\ k <= NStages
  BY NStagesAssumption DEF PIPELINE
<1>2. m.state = "PENDING"
  BY DEF InStep
<1>3. CASE l \in Running
  <2>1. Shape(m, fs, k - 1, k - 1, k - 1, s)
    BY <1>3 DEF InStep
  <2>2. QED
    BY <1>1, <1>2, <2>1, ShapeAgrees
<1>4. CASE l = "complete"
  <2>1. Shape(m, fs, k, k, k - 1, s)
    BY <1>4 DEF InStep
  <2>2. QED
    BY <1>1, <1>2, <2>1, ShapeAgrees
<1>5. CASE l = "halt"
  <2>1. Shape(m, fs, k, k - 1, k - 1, s)
    BY <1>5 DEF InStep
  <2>2. QED
    BY <1>1, <1>2, <2>1, ShapeAgrees
<1>6. CASE l = "skip"
  <2>1. PICK n \in k..NStages : Shape(m, fs, n, k - 1, k, s)
    BY <1>6 DEF InStep
  <2>2. n \in 0..NStages /\ k <= n
    BY <1>1
  <2>3. QED
    BY <1>1, <1>2, <2>1, <2>2, ShapeAgrees
<1>7. CASE l = "mark"
  <2>1. Shape(m, fs, k, k - 1, k, s)
    BY <1>7 DEF InStep
  <2>2. QED
    BY <1>1, <1>2, <2>1, ShapeAgrees
<1>8. CASE l \in Closing
  <2>1. \/ Shape(m, fs, NStages, NStages, NStages, s)
        \/ Shape(m, fs, NStages, k - 1, k, s)
        \/ Shape(m, fs, k, k - 1, k, s)
    BY <1>8 DEF InStep
  <2>2. QED
    BY <1>1, <1>2, <2>1, ShapeAgrees
<1>9. QED
  BY <1>3, <1>4, <1>5, <1>6, <1>7, <1>8 DEF Writing, Running, Closing

-----------------------------------------------------------------------------
(* How each step of run carries InStep from one place to the next.         *)

LEMMA RunStateCases ==
  /\ RunState("passed") = "COMPLETED"
  /\ \A o \in Outcome : o # "passed" => RunState(o) \in Halted \cup {Boundary}
  /\ "COMPLETED" \notin Halted /\ Boundary \notin Halted /\ Boundary # "COMPLETED"
  BY OrchestratorAssumption DEF RunState, Endings, Halted, Boundary

LEMMA StageBounds ==
  ASSUME NEW k \in PIPELINE
  PROVE  /\ k \in Nat /\ k \in 0..NStages /\ k - 1 \in 0..(NStages - 1)
         /\ k - 1 \in 0..NStages /\ k - 1 \in Nat /\ (k - 1) + 1 = k
         /\ NStages \in Nat /\ NStages \in 0..NStages
  BY NStagesAssumption DEF PIPELINE

LEMMA ManifestFields ==
  ASSUME NEW m \in ManifestFile
  PROVE  \A k, v :
           /\ WithStage(m, k, v).stages = Append(m.stages, [stage |-> k, state |-> v])
           /\ WithStage(m, k, v).state = m.state
  BY DEF WithStage, ManifestFile, ManifestWith

LEMMA WithStageState ==
  ASSUME NEW m \in ManifestFile, NEW k, NEW v
  PROVE  WithStage(m, k, v).state = m.state
  BY ManifestFields

LEMMA FileFields ==
  ASSUME NEW fs \in OtherFiles
  PROVE  /\ \A e : /\ WithEntry(fs, e).prov = Append(fs.prov, e)
                   /\ WithEntry(fs, e).marker = fs.marker
         /\ \A st : /\ WithMarker(fs, st).prov = fs.prov
                    /\ WithMarker(fs, st).marker = st
         /\ \A k, c : /\ WithArtifacts(fs, k, c).prov = fs.prov
                      /\ WithArtifacts(fs, k, c).marker = fs.marker
         /\ \A r : /\ WithReport(fs, r).prov = fs.prov
                   /\ WithReport(fs, r).marker = fs.marker
                   /\ WithReport(fs, r).report = r
         /\ WithHaltReport(fs).prov = fs.prov
         /\ WithHaltReport(fs).marker = fs.marker
  BY DEF WithEntry, WithMarker, WithArtifacts, WithReport, WithHaltReport, OtherFiles

LEMMA InStepOpened ==
  ASSUME NEW m, NEW fs, Blank(m, fs), NEW o, NEW c
  PROVE  InStep("logs", 1, 0, o, c, NewManifest, fs)
<1> DEFINE s == RunState(o)
<1>1. Records(0, 0) = <<>> /\ Entries(0, 0, s) = <<>>
  <2>1. 0 \in 0..NStages
    BY NStagesAssumption
  <2>2. /\ Records(0, 0) \in Seq(StageRecord) /\ Len(Records(0, 0)) = 0
        /\ Entries(0, 0, s) \in Seq(Entry) /\ Len(Entries(0, 0, s)) = 0
    BY <2>1, RecordsType, EntriesType
  <2> HIDE DEF s
  <2>3. QED
    BY <2>2
<1>2. NewManifest.stages = <<>> /\ NewManifest.state = "PENDING"
  BY DEF NewManifest, NoManifest
<1> HIDE DEF s
<1>3. Shape(NewManifest, fs, 0, 0, 0, s)
  BY <1>1, <1>2 DEF Shape, Blank
<1>4. QED
  BY <1>2, <1>3 DEF InStep, Blank, Running, Closing, s

(* The log of a directory just opened is empty: it has no gap.             *)
LEMMA InStepLogs ==
  ASSUME NEW k \in PIPELINE, NEW x, NEW o, NEW c, NEW m, NEW fs,
         InStep("logs", k, x, o, c, m, fs)
  PROVE  /\ Len(fs.prov) = 0
         /\ InStep("stage", k, x, o, 1, m, fs)
<1>1. k = 1 /\ Shape(m, fs, 0, 0, 0, RunState(o))
  BY DEF InStep, Running
<1>2. 0 \in 0..NStages
  BY NStagesAssumption
<1>3. Len(fs.prov) = 0
  BY <1>1, <1>2, EntriesType DEF Shape
<1>4. QED
  BY <1>1, <1>3 DEF InStep, Running, Closing

LEMMA InStepExecuted ==
  ASSUME NEW k \in PIPELINE, NEW x, NEW o \in Outcome, NEW c,
         NEW m, NEW fs, NEW gs, InStep("stage", k, x, o, c, m, fs),
         gs.prov = fs.prov, gs.marker = fs.marker,
         NEW o2 \in Outcome, NEW l \in {"passed", "wrap", "failed"},
         l = "passed" <=> o2 = "passed"
  PROVE  InStep(l, k, x, o2, c, m, gs)
<1>1. Shape(m, fs, k - 1, k - 1, k - 1, RunState(o))
  BY DEF InStep, Running
<1>2. Shape(m, gs, k - 1, k - 1, k - 1, RunState(o2))
  BY <1>1, StageBounds, PassedPrefix DEF Shape
<1>3. QED
  BY <1>2 DEF InStep, Running, Closing

LEMMA InStepWrapped ==
  ASSUME NEW k \in PIPELINE, NEW x, NEW o, NEW c, NEW m, NEW fs, NEW gs,
         InStep("wrap", k, x, o, c, m, fs), gs.prov = fs.prov, gs.marker = fs.marker
  PROVE  InStep("failed", k, x, o, c, m, gs)
  BY DEF InStep, Running, Closing, Shape

LEMMA InStepRecorded ==
  ASSUME NEW k \in PIPELINE, NEW x, NEW o \in Outcome, NEW c,
         NEW m \in ManifestFile, NEW fs
  PROVE  /\ InStep("passed", k, x, o, c, m, fs) =>
              InStep("complete", k, x, o, c, WithStage(m, k, "PASSED"), fs)
         /\ InStep("failed", k, x, o, c, m, fs) =>
              InStep("halt", k, x, o, c, WithStage(m, k, "FAILED"), fs)
<1>1. /\ k \in Nat /\ k \in 0..NStages /\ k - 1 \in 0..(NStages - 1)
      /\ k - 1 \in 0..NStages /\ k - 1 \in Nat /\ (k - 1) + 1 = k
  BY StageBounds
<1>2. k \in 1..k
  BY <1>1 DEF PIPELINE
<1>3. Records(k, k)[k].state = "PASSED" /\ Records(k, k - 1)[k].state = "FAILED"
  <2>1. Records(k, k)[k] =
          [stage |-> k,
           state |-> IF k <= k THEN "PASSED"
                     ELSE IF k = k + 1 THEN "FAILED" ELSE "SKIPPED_BOUNDARY"]
    BY <1>1, <1>2, RecordsType
  <2>2. Records(k, k - 1)[k] =
          [stage |-> k,
           state |-> IF k <= k - 1 THEN "PASSED"
                     ELSE IF k = (k - 1) + 1 THEN "FAILED" ELSE "SKIPPED_BOUNDARY"]
    BY <1>1, <1>2, RecordsType
  <2>3. QED
    BY <1>1, <2>1, <2>2
<1>4. Records(k - 1, k) = Records(k - 1, k - 1)
      /\ Entries(k - 1, k, RunState(o)) = Entries(k - 1, k - 1, RunState(o))
  BY <1>1, PassedPrefix
<1>5. /\ Append(Records(k - 1, k), [stage |-> k, state |-> "PASSED"]) = Records(k, k)
      /\ Append(Records(k - 1, k - 1), [stage |-> k, state |-> "FAILED"])
           = Records(k, k - 1)
  <2>1. Records((k - 1) + 1, k)[(k - 1) + 1].state = "PASSED"
        /\ Records((k - 1) + 1, k - 1)[(k - 1) + 1].state = "FAILED"
    BY <1>1, <1>3
  <2>2. /\ Append(Records(k - 1, k), [stage |-> (k - 1) + 1, state |-> "PASSED"])
             = Records((k - 1) + 1, k)
        /\ Append(Records(k - 1, k - 1), [stage |-> (k - 1) + 1, state |-> "FAILED"])
             = Records((k - 1) + 1, k - 1)
    BY <1>1, <2>1, RecordsGrow
  <2>3. QED
    BY <1>1, <2>2
<1>6. ASSUME InStep("passed", k, x, o, c, m, fs)
      PROVE  InStep("complete", k, x, o, c, WithStage(m, k, "PASSED"), fs)
  <2> DEFINE m2 == WithStage(m, k, "PASSED")
  <2>1. Shape(m, fs, k - 1, k - 1, k - 1, RunState(o))
    BY <1>6 DEF InStep, Running
  <2>2. m2.stages = Append(m.stages, [stage |-> k, state |-> "PASSED"])
    BY ManifestFields
  <2>3. m2.state = m.state
    BY ManifestFields
  <2> HIDE DEF m2
  <2>4. Shape(m2, fs, k, k, k - 1, RunState(o))
    BY <1>4, <1>5, <2>1, <2>2 DEF Shape
  <2>5. InStep("complete", k, x, o, c, m2, fs)
    BY <1>6, <2>3, <2>4 DEF InStep, Running, Closing
  <2>6. QED
    BY <2>5 DEF m2
<1>7. ASSUME InStep("failed", k, x, o, c, m, fs)
      PROVE  InStep("halt", k, x, o, c, WithStage(m, k, "FAILED"), fs)
  <2> DEFINE m2 == WithStage(m, k, "FAILED")
  <2>1. Shape(m, fs, k - 1, k - 1, k - 1, RunState(o))
    BY <1>7 DEF InStep, Running
  <2>2. m2.stages = Append(m.stages, [stage |-> k, state |-> "FAILED"])
    BY ManifestFields
  <2>3. m2.state = m.state
    BY ManifestFields
  <2> HIDE DEF m2
  <2>4. Shape(m2, fs, k, k - 1, k - 1, RunState(o))
    BY <1>5, <2>1, <2>2 DEF Shape
  <2>5. InStep("halt", k, x, o, c, m2, fs)
    BY <1>7, <2>3, <2>4 DEF InStep, Running, Closing
  <2>6. QED
    BY <2>5 DEF m2
<1>8. QED
  BY <1>6, <1>7

LEMMA InStepCompleted ==
  ASSUME NEW k \in PIPELINE, NEW x, NEW o \in Outcome, NEW c,
         NEW m, NEW fs \in OtherFiles, InStep("complete", k, x, o, c, m, fs),
         NEW gs, gs = WithEntry(fs, [seq |-> c, stage |-> k, event |-> "stage_complete"])
  PROVE  /\ k # NStages => InStep("stage", k + 1, x + 1, o, c + 1, m, gs)
         /\ k = NStages => InStep("report", k, x + 1, o, c + 1, m, gs)
<1>1. /\ k \in Nat /\ k \in 0..NStages /\ k - 1 \in 0..(NStages - 1)
      /\ k - 1 \in 0..NStages /\ k - 1 \in Nat /\ (k - 1) + 1 = k /\ k \in 1..k
  BY StageBounds DEF PIPELINE
<1>2. /\ Shape(m, fs, k, k, k - 1, RunState(o)) /\ c = k /\ x = k - 1
      /\ o = "passed" /\ m.state = "PENDING" /\ fs.marker = "none"
  BY DEF InStep, Closing
<1>3. Entries(k, k, RunState(o))[k].event = "stage_complete"
  <2>1. Entries(k, k, RunState(o))[k] =
          [seq |-> k, stage |-> k,
           event |-> IF k <= k THEN "stage_complete"
                     ELSE IF RunState(o) \in Halted THEN "halt" ELSE "advisory_issued"]
    BY <1>1, EntriesType
  <2>2. QED
    BY <1>1, <2>1
<1>4. Append(Entries(k - 1, k, RunState(o)),
             [seq |-> k, stage |-> k, event |-> "stage_complete"])
        = Entries(k, k, RunState(o))
  BY <1>1, <1>3, EntriesClose
<1>5. /\ gs.prov = Append(fs.prov, [seq |-> k, stage |-> k, event |-> "stage_complete"])
      /\ gs.marker = "none"
  BY <1>2, FileFields
<1>6. Shape(m, gs, k, k, k, RunState(o))
  BY <1>2, <1>4, <1>5 DEF Shape
<1>7. RunState(o) \notin Halted
  BY <1>2, RunStateCases
<1>8. ASSUME k # NStages PROVE InStep("stage", k + 1, x + 1, o, c + 1, m, gs)
  <2>1. (k + 1) - 1 = k /\ x + 1 = k
    BY <1>1, <1>2
  <2>2. Shape(m, gs, (k + 1) - 1, (k + 1) - 1, (k + 1) - 1, RunState(o))
    BY <1>6, <2>1
  <2>3. QED
    BY <1>2, <1>5, <2>1, <2>2 DEF InStep, Running, Closing
<1>9. ASSUME k = NStages PROVE InStep("report", k, x + 1, o, c + 1, m, gs)
  <2>1. x + 1 = k
    BY <1>1, <1>2
  <2>2. QED
    BY <1>2, <1>5, <1>6, <1>7, <1>9, <2>1 DEF InStep, Running, Closing
<1>10. QED
  BY <1>8, <1>9

LEMMA InStepHalted ==
  ASSUME NEW k \in PIPELINE, NEW x, NEW o \in Outcome, NEW c,
         NEW m, NEW fs \in OtherFiles, InStep("halt", k, x, o, c, m, fs),
         NEW e, e = IF RunState(o) \in Halted THEN "halt" ELSE "advisory_issued",
         NEW gs, gs = WithEntry(fs, [seq |-> c, stage |-> k, event |-> e]),
         NEW l, l = IF RunState(o) = Boundary THEN "skip" ELSE "mark"
  PROVE  InStep(l, k, x, o, c + 1, m, gs)
<1>1. /\ k \in Nat /\ k \in 0..NStages /\ k - 1 \in 0..(NStages - 1)
      /\ k - 1 \in 0..NStages /\ k - 1 \in Nat /\ (k - 1) + 1 = k /\ k \in 1..k
      /\ k \in k..NStages /\ ~(k <= k - 1)
  BY StageBounds DEF PIPELINE
<1>2. /\ Shape(m, fs, k, k - 1, k - 1, RunState(o)) /\ c = k /\ x = k - 1
      /\ o # "passed" /\ m.state = "PENDING" /\ fs.marker = "none"
  BY DEF InStep, Closing
<1>3. Entries(k, k - 1, RunState(o))[k].event = e
  <2>1. Entries(k, k - 1, RunState(o))[k] =
          [seq |-> k, stage |-> k,
           event |-> IF k <= k - 1 THEN "stage_complete"
                     ELSE IF RunState(o) \in Halted THEN "halt" ELSE "advisory_issued"]
    BY <1>1, EntriesType
  <2>2. QED
    BY <1>1, <2>1
<1>4. Append(Entries(k - 1, k - 1, RunState(o)), [seq |-> k, stage |-> k, event |-> e])
        = Entries(k, k - 1, RunState(o))
  BY <1>1, <1>3, EntriesClose
<1>5. /\ gs.prov = Append(fs.prov, [seq |-> k, stage |-> k, event |-> e])
      /\ gs.marker = "none"
  BY <1>2, FileFields
<1>6. Shape(m, gs, k, k - 1, k, RunState(o))
  BY <1>2, <1>4, <1>5 DEF Shape
<1>7. RunState(o) \in Halted \cup {Boundary} /\ Boundary \notin Halted
  BY <1>2, RunStateCases
<1>8. CASE RunState(o) = Boundary
  <2>1. \E n \in k..NStages : Shape(m, gs, n, k - 1, k, RunState(o))
    BY <1>1, <1>6
  <2>2. InStep("skip", k, x, o, c + 1, m, gs)
    BY <1>2, <1>5, <1>8, <2>1 DEF InStep, Running, Closing
  <2>3. QED
    BY <1>8, <2>2
<1>9. CASE RunState(o) # Boundary
  <2>1. InStep("mark", k, x, o, c + 1, m, gs)
    BY <1>2, <1>5, <1>6, <1>7, <1>9 DEF InStep, Running, Closing
  <2>2. QED
    BY <1>9, <2>1
<1>10. QED
  BY <1>8, <1>9

LEMMA InStepSkipped ==
  ASSUME NEW k \in PIPELINE, NEW x, NEW o \in Outcome, NEW c,
         NEW m \in ManifestFile, NEW fs, InStep("skip", k, x, o, c, m, fs)
  PROVE  /\ Len(m.stages) \in k..NStages
         /\ ~\A i \in 1..Len(m.stages) : m.stages[i].state = "PASSED"
         /\ Len(m.stages) + 1 <= NStages =>
              InStep("skip", k, x, o, c,
                     WithStage(m, Len(m.stages) + 1, "SKIPPED_BOUNDARY"), fs)
         /\ Len(m.stages) >= NStages => InStep("report", k, x, o, c, m, fs)
<1>1. /\ k \in Nat /\ k \in 0..NStages /\ k - 1 \in Nat /\ (k - 1) + 1 = k
      /\ NStages \in Nat /\ ~(k <= k - 1)
  BY StageBounds
<1>2. PICK n \in k..NStages : Shape(m, fs, n, k - 1, k, RunState(o))
  BY DEF InStep
<1>3. /\ RunState(o) = Boundary /\ o # "passed" /\ Boundary \notin Halted
      /\ m.state = "PENDING" /\ fs.marker = "none" /\ x = k - 1
  BY RunStateCases DEF InStep, Closing
<1>4. Len(m.stages) = n /\ n \in 0..NStages
  BY <1>1, <1>2, RecordsType DEF Shape
<1>5. m.stages[k].state = "FAILED"
  <2>1. k \in 1..n
    BY <1>1 DEF PIPELINE
  <2>2. m.stages[k] =
          [stage |-> k,
           state |-> IF k <= k - 1 THEN "PASSED"
                     ELSE IF k = (k - 1) + 1 THEN "FAILED" ELSE "SKIPPED_BOUNDARY"]
    BY <1>1, <1>2, <1>4, <2>1, RecordsType DEF Shape
  <2>3. QED
    BY <1>1, <2>2
<1>6. ASSUME n + 1 <= NStages
      PROVE  InStep("skip", k, x, o, c, WithStage(m, n + 1, "SKIPPED_BOUNDARY"), fs)
  <2> DEFINE m2 == WithStage(m, n + 1, "SKIPPED_BOUNDARY")
  <2>1. n \in 0..(NStages - 1) /\ n + 1 \in 0..NStages /\ n + 1 \in 1..(n + 1)
        /\ n + 1 \in k..NStages /\ ~(n + 1 <= k - 1) /\ n + 1 # (k - 1) + 1
    BY <1>1, <1>4, <1>6
  <2>2. Records(n + 1, k - 1)[n + 1].state = "SKIPPED_BOUNDARY"
    <3>1. Records(n + 1, k - 1)[n + 1] =
            [stage |-> n + 1,
             state |-> IF n + 1 <= k - 1 THEN "PASSED"
                       ELSE IF n + 1 = (k - 1) + 1 THEN "FAILED"
                            ELSE "SKIPPED_BOUNDARY"]
      BY <1>1, <2>1, RecordsType
    <3>2. QED
      BY <2>1, <3>1
  <2>3. m2.stages = Append(m.stages, [stage |-> n + 1, state |-> "SKIPPED_BOUNDARY"])
    BY ManifestFields
  <2>4. m2.state = m.state
    BY ManifestFields
  <2> HIDE DEF m2
  <2>5. Shape(m2, fs, n + 1, k - 1, k, RunState(o))
    BY <1>1, <1>2, <2>1, <2>2, <2>3, RecordsGrow DEF Shape
  <2>6. \E j \in k..NStages : Shape(m2, fs, j, k - 1, k, RunState(o))
    BY <2>1, <2>5
  <2>7. InStep("skip", k, x, o, c, m2, fs)
    BY <1>3, <2>4, <2>6 DEF InStep, Running, Closing
  <2>8. QED
    BY <2>7 DEF m2
<1>7. ASSUME n >= NStages PROVE InStep("report", k, x, o, c, m, fs)
  <2>1. n = NStages
    BY <1>1, <1>4, <1>7
  <2>2. QED
    BY <1>2, <1>3, <2>1 DEF InStep, Running, Closing
<1>8. ~\A i \in 1..n : m.stages[i].state = "PASSED"
  BY <1>1, <1>5 DEF PIPELINE
<1>9. QED
  BY <1>4, <1>6, <1>7, <1>8

LEMMA InStepMarked ==
  ASSUME NEW k \in PIPELINE, NEW x, NEW o \in Outcome, NEW c,
         NEW m, NEW fs \in OtherFiles, InStep("mark", k, x, o, c, m, fs),
         NEW gs, gs = WithMarker(fs, RunState(o))
  PROVE  InStep("report", k, x, o, c, m, gs)
<1>1. /\ RunState(o) \in Halted /\ o # "passed" /\ m.state = "PENDING"
      /\ x = k - 1 /\ Shape(m, fs, k, k - 1, k, RunState(o))
  BY DEF InStep, Closing
<1>2. gs.prov = fs.prov /\ gs.marker = RunState(o)
  BY FileFields
<1>3. Shape(m, gs, k, k - 1, k, RunState(o))
  BY <1>1, <1>2 DEF Shape
<1>4. QED
  BY <1>1, <1>2, <1>3 DEF InStep, Running, Closing

LEMMA InStepReported ==
  ASSUME NEW k \in PIPELINE, NEW x, NEW o \in Outcome, NEW c,
         NEW m, NEW fs \in OtherFiles, InStep("report", k, x, o, c, m, fs),
         NEW gs,
         gs = WithReport(fs, [state |-> RunState(o), completed |-> x,
                              failed |-> IF o = "passed" THEN 0 ELSE k])
  PROVE  InStep("seal", k, x, o, c, m, gs)
<1> DEFINE r == [state |-> RunState(o), completed |-> x,
                 failed |-> IF o = "passed" THEN 0 ELSE k]
<1>1. gs.prov = fs.prov /\ gs.marker = fs.marker /\ gs.report = r
  BY FileFields
<1>2. \A n, j, e : Shape(m, fs, n, j, e, RunState(o)) => Shape(m, gs, n, j, e, RunState(o))
  BY <1>1 DEF Shape
<1>3. QED
  BY <1>1, <1>2 DEF InStep, Running, Closing

(* What is sealed is the account of a whole run.                           *)
LEMMA SealManifestFields ==
  ASSUME NEW m \in ManifestFile, NEW fs, NEW st
  PROVE  SealManifest(m, fs, st).state = st /\ SealManifest(m, fs, st).stages = m.stages
  BY DEF SealManifest, ManifestFile, ManifestWith

LEMMA InStepSealed ==
  ASSUME NEW k \in PIPELINE, NEW x, NEW o \in Outcome, NEW c,
         NEW m \in ManifestFile, NEW fs, InStep("seal", k, x, o, c, m, fs)
  PROVE  Consistent(SealManifest(m, fs, RunState(o)), fs)
<1> DEFINE z == SealManifest(m, fs, RunState(o))
<1>1. z.state = RunState(o) /\ z.stages = m.stages
  BY SealManifestFields
<1>2. /\ k \in Nat /\ k - 1 \in 0..NStages /\ (k - 1) + 1 = k /\ k - 1 # NStages
      /\ NStages \in 0..NStages
  BY StageBounds DEF PIPELINE
<1>3. /\ x = IF o = "passed" THEN NStages ELSE k - 1
      /\ fs.marker = IF RunState(o) \in Halted THEN RunState(o) ELSE "none"
      /\ fs.report = [state |-> RunState(o), completed |-> x,
                      failed |-> IF o = "passed" THEN 0 ELSE k]
      /\ \/ o = "passed" /\ Shape(m, fs, NStages, NStages, NStages, RunState(o))
         \/ /\ o # "passed" /\ RunState(o) = Boundary
            /\ Shape(m, fs, NStages, k - 1, k, RunState(o))
         \/ /\ o # "passed" /\ RunState(o) \in Halted
            /\ Shape(m, fs, k, k - 1, k, RunState(o))
  BY DEF InStep, Closing
<1> HIDE DEF z
<1>4. CASE o = "passed"
  <2>1. /\ z.state = "COMPLETED" /\ z.state \notin Halted
        /\ Shape(m, fs, NStages, NStages, NStages, z.state)
        /\ fs.marker = "none"
        /\ fs.report = [state |-> z.state, completed |-> NStages, failed |-> 0]
    BY <1>1, <1>3, <1>4, RunStateCases
  <2>2. Consistent(z, fs)
    BY <1>1, <1>2, <2>1 DEF Consistent, Shape
  <2>3. QED
    BY <2>2 DEF z
<1>5. CASE o # "passed" /\ RunState(o) = Boundary
  <2>1. /\ z.state # "COMPLETED" /\ z.state \notin Halted
        /\ Shape(m, fs, NStages, k - 1, k, z.state)
        /\ fs.marker = "none"
        /\ fs.report = [state |-> z.state, completed |-> k - 1, failed |-> (k - 1) + 1]
    BY <1>1, <1>2, <1>3, <1>5, RunStateCases
  <2>2. Consistent(z, fs)
    BY <1>1, <1>2, <2>1 DEF Consistent, Shape
  <2>3. QED
    BY <2>2 DEF z
<1>6. CASE o # "passed" /\ RunState(o) \in Halted
  <2>1. /\ z.state # "COMPLETED" /\ z.state \in Halted
        /\ Shape(m, fs, k, k - 1, k, z.state)
        /\ fs.marker = z.state
        /\ fs.report = [state |-> z.state, completed |-> k - 1, failed |-> (k - 1) + 1]
    BY <1>1, <1>2, <1>3, <1>6, RunStateCases
  <2>2. Consistent(z, fs)
    BY <1>1, <1>2, <2>1 DEF Consistent, Shape
  <2>3. QED
    BY <2>2 DEF z
<1>7. QED
  BY <1>3, <1>4, <1>5, <1>6

-----------------------------------------------------------------------------
(* A step of the invocation that owns a directory concerns nobody else.    *)

OwnStep(p) ==
  /\ pc[p] \in Writing \cup {"open"}
  /\ UNCHANGED target
  /\ \A q \in Procs : q # p =>
       UNCHANGED <<pc[q], stage[q], executed[q], outcome[q], nextSeq[q], handle[q]>>
  /\ \A d \in Dirs : d # target[p] => UNCHANGED <<manifest[d], files[d], sealedAs[d]>>
  /\ pc'[p] \notin Early

LEMMA OwnStepLedgerInv ==
  ASSUME TypeInv, TypeInv', WriterInv, SealInv, SealInv', LedgerInv,
         NEW p \in Procs, OwnStep(p),
         pc'[p] \in Writing => Opened(p)' /\ InStepAt(p)',
         pc'[p] \notin Writing =>
           \/ IsSealed(manifest'[target[p]]) /\ Opened(p)'
           \/ ~Opened(p) /\ Blank(manifest'[target[p]], files'[target[p]]),
         IsSealed(sealedAs'[target[p]].manifest) =>
           Consistent(sealedAs'[target[p]].manifest, sealedAs'[target[p]].files)
  PROVE  LedgerInv'
<1> DEFINE t == target[p]
<1>1. /\ t \in Dirs
      /\ \A q \in Procs : q # p /\ pc[q] \in Writing \cup {"open"} => target[q] # t
  BY WritersUnsealed DEF OwnStep
<1>2. \A q \in Procs : pc'[q] \in Writing => InStepAt(q)'
  <2>1. ASSUME NEW q \in Procs, q # p, pc'[q] \in Writing PROVE InStepAt(q)'
    <3>1. pc[q] \in Writing
      BY <2>1 DEF OwnStep
    <3>2. target[q] \in Dirs /\ target[q] # t
      BY <1>1, <2>1, <3>1 DEF TypeInv, Launched, Writing
    <3>3. InStepAt(q)
      BY <3>1 DEF LedgerInv
    <3>4. UNCHANGED <<pc[q], stage[q], executed[q], outcome[q], nextSeq[q],
                      handle[q], files[target[q]]>>
      BY <2>1, <3>2 DEF OwnStep
    <3>5. QED
      BY <3>3, <3>4 DEF InStepAt
  <2>2. QED
    BY <2>1
<1>3. \A q \in Procs : pc'[q] \in Early => stage'[q] = 1 /\ executed'[q] = 0
  BY DEF OwnStep, LedgerInv
<1>4. \A q \in Procs : q # p => (Opened(q)' <=> Opened(q))
  BY DEF OwnStep, Opened
<1>5. ASSUME NEW d \in Dirs, \A q \in Procs : Opened(q)' => target'[q] # d
      PROVE  Blank(manifest'[d], files'[d])
  <2>1. CASE d = t
    <3>1. ~Opened(p)'
      BY <1>5, <2>1 DEF OwnStep
    <3>2. QED
      BY <2>1, <3>1
  <2>2. CASE d # t
    <3>1. \A q \in Procs : Opened(q) => target[q] # d
      BY <1>4, <1>5, <2>2 DEF OwnStep
    <3>2. Blank(manifest[d], files[d])
      BY <3>1 DEF LedgerInv
    <3>3. QED
      BY <2>2, <3>2 DEF OwnStep
  <2>3. QED
    BY <2>1, <2>2
<1>6. ASSUME NEW d \in Dirs, ~IsSealed(manifest'[d])
      PROVE  Agree(manifest'[d], files'[d])
  <2>1. CASE d = t /\ pc'[p] \in Writing
    <3>1. InStepAt(p)' /\ stage'[p] \in PIPELINE /\ outcome'[p] \in Outcome
      BY <2>1 DEF TypeInv, TypeOK
    <3>2. Agree(handle'[p], files'[target'[p]])
      BY <2>1, <3>1, InStepAgrees DEF InStepAt
    <3>3. target'[p] = d
      BY <2>1 DEF OwnStep
    <3>4. manifest'[d] = handle'[p]
      BY <2>1, <3>3 DEF SealInv
    <3>5. QED
      BY <3>2, <3>3, <3>4
  <2>2. CASE d = t /\ pc'[p] \notin Writing
    BY <1>6, <2>2, BlankAgrees
  <2>3. CASE d # t
    BY <1>6, <2>3 DEF OwnStep, LedgerInv
  <2>4. QED
    BY <2>1, <2>2, <2>3
<1>7. \A d \in Dirs : IsSealed(sealedAs'[d].manifest) =>
        Consistent(sealedAs'[d].manifest, sealedAs'[d].files)
  BY DEF OwnStep, LedgerInv
<1>8. QED
  BY <1>2, <1>3, <1>5, <1>6, <1>7 DEF LedgerInv

(* A step that writes nothing keeps what is on record.                     *)
RestStep ==
  /\ UNCHANGED <<manifest, files, handle, sealedAs, stage, executed, outcome, nextSeq>>
  /\ \A q \in Procs : Opened(q) => target'[q] = target[q]
  /\ \A q \in Procs : pc'[q] \in Writing => pc'[q] = pc[q] /\ target'[q] = target[q]
  /\ \A q \in Procs : pc'[q] \in Early => pc[q] \in Early

LEMMA RestStepLedgerInv ==
  ASSUME LedgerInv, RestStep
  PROVE  LedgerInv'
<1>1. \A q \in Procs : pc'[q] \in Writing => InStepAt(q)'
  BY DEF RestStep, LedgerInv, InStepAt
<1>2. \A q \in Procs : pc'[q] \in Early => stage'[q] = 1 /\ executed'[q] = 0
  BY DEF RestStep, LedgerInv
<1>3. \A q \in Procs : Opened(q)' <=> Opened(q)
  BY DEF RestStep, Opened
<1>4. \A d \in Dirs : (\A q \in Procs : Opened(q)' => target'[q] # d) =>
        Blank(manifest'[d], files'[d])
  BY <1>3 DEF RestStep, LedgerInv
<1>5. UNCHANGED <<manifest, files, sealedAs>>
  BY DEF RestStep
<1>6. QED
  BY <1>1, <1>2, <1>4, <1>5 DEF LedgerInv

(* An edit changes a sealed directory only.                                *)
LEMMA EditLedgerInv ==
  ASSUME TypeInv, TypeInv', SealInv, SealInv', LedgerInv,
         NEW c \in Dirs, EditManifest(c) \/ EditFile(c)
  PROVE  LedgerInv'
<1>1. /\ IsSealed(manifest[c]) /\ edited' = edited \cup {c}
      /\ UNCHANGED <<pc, target, source, handle, nextSeq, stage, executed, outcome,
                     sealedAs>>
  BY DEF EditManifest, EditFile, EditFrom, local
<1>2. \A d \in Dirs : d # c => manifest'[d] = manifest[d] /\ files'[d] = files[d]
  BY DEF EditManifest, EditFile, TypeInv, TypeOK
<1>3. IsSealed(manifest'[c])
  BY <1>1 DEF SealInv
<1>4. \A q \in Procs : Opened(q)' <=> Opened(q)
  BY <1>1 DEF Opened
<1>5. \A q \in Procs : pc[q] \in Writing => target[q] \in Dirs /\ target[q] # c
  BY <1>1 DEF SealInv, TypeInv, Launched, Writing
<1>6. \A q \in Procs : pc'[q] \in Writing => InStepAt(q)'
  BY <1>1, <1>2, <1>5 DEF LedgerInv, InStepAt
<1>7. \A d \in Dirs : (\A q \in Procs : Opened(q)' => target'[q] # d) =>
        Blank(manifest'[d], files'[d])
  <2> SUFFICES ASSUME NEW d \in Dirs, \A q \in Procs : Opened(q)' => target'[q] # d
               PROVE  Blank(manifest'[d], files'[d])
    OBVIOUS
  <2>1. \A q \in Procs : Opened(q) => target[q] # d
    BY <1>1, <1>4
  <2>2. d # c
    BY <1>1, <2>1 DEF SealInv
  <2>3. QED
    BY <1>2, <2>1, <2>2 DEF LedgerInv
<1>8. \A d \in Dirs : ~IsSealed(manifest'[d]) => Agree(manifest'[d], files'[d])
  BY <1>2, <1>3 DEF LedgerInv
<1>9. QED
  BY <1>1, <1>6, <1>7, <1>8 DEF LedgerInv

(* The directory of an invocation about to open its manifest is blank.     *)
LEMMA OpenIsBlank ==
  ASSUME TypeInv, WriterInv, LedgerInv, NEW p \in Procs, pc[p] = "open"
  PROVE  /\ ~Opened(p) /\ target[p] \in Dirs
         /\ Blank(manifest[target[p]], files[target[p]])
         /\ stage[p] = 1 /\ executed[p] = 0
<1>1. target[p] \in Dirs
  BY DEF TypeInv, Launched
<1>2. ~Opened(p) /\ \A q \in Procs : Opened(q) => target[q] # target[p]
  BY DEF WriterInv
<1>3. QED
  BY <1>1, <1>2 DEF LedgerInv, Early

(* Invocation p moves on to place l, with a new value of everything it     *)
(* owns: its own variables, its manifest and the files of its directory.   *)
MovesTo(p, l, k, x, o, c, m, fs) ==
  /\ pc' = [pc EXCEPT ![p] = l]
  /\ stage' = [stage EXCEPT ![p] = k]
  /\ executed' = [executed EXCEPT ![p] = x]
  /\ outcome' = [outcome EXCEPT ![p] = o]
  /\ nextSeq' = [nextSeq EXCEPT ![p] = c]
  /\ handle' = [handle EXCEPT ![p] = m]
  /\ manifest' = [manifest EXCEPT ![target[p]] = m]
  /\ files' = [files EXCEPT ![target[p]] = fs]
  /\ UNCHANGED <<target, sealedAs>>

LEMMA MoveLedgerInv ==
  ASSUME TypeInv, TypeInv', WriterInv, SealInv, SealInv', LedgerInv,
         NEW p \in Procs, pc[p] \in Writing \cup {"open"},
         NEW l \in Writing, NEW k, NEW x, NEW o, NEW c, NEW m, NEW fs,
         MovesTo(p, l, k, x, o, c, m, fs), InStep(l, k, x, o, c, m, fs)
  PROVE  LedgerInv'
<1>1. target[p] \in Dirs /\ ~IsSealed(manifest[target[p]])
  BY WritersUnsealed
<1>2. /\ pc'[p] = l /\ stage'[p] = k /\ executed'[p] = x /\ outcome'[p] = o
      /\ nextSeq'[p] = c /\ handle'[p] = m /\ files'[target[p]] = fs
      /\ manifest'[target[p]] = m
  BY <1>1 DEF MovesTo, TypeInv, TypeOK
<1>3. OwnStep(p)
  BY <1>1, <1>2 DEF OwnStep, MovesTo, Early, Writing, TypeInv, TypeOK
<1>4. target' = target
  BY DEF MovesTo
<1>5. InStepAt(p)'
  <2>1. InStep(pc'[p], stage'[p], executed'[p], outcome'[p], nextSeq'[p],
               handle'[p], files'[target'[p]])
    BY <1>2, <1>4
  <2>2. QED
    BY <2>1 DEF InStepAt
<1>6. Opened(p)'
  BY <1>2 DEF InStep, Opened
<1>7. ~IsSealed(sealedAs'[target[p]].manifest)
  BY <1>1 DEF MovesTo, SealInv
<1>8. QED
  BY <1>2, <1>3, <1>5, <1>6, <1>7, OwnStepLedgerInv

(* What an invocation that writes has in its hands.                        *)
LEMMA WriterFacts ==
  ASSUME TypeInv, WriterInv, SealInv, LedgerInv,
         NEW p \in Procs, pc[p] \in Writing
  PROVE  /\ target[p] \in Dirs /\ stage[p] \in PIPELINE /\ outcome[p] \in Outcome
         /\ executed[p] \in Nat /\ nextSeq[p] \in Nat
         /\ handle[p] \in ManifestFile /\ files[target[p]] \in OtherFiles
         /\ manifest[target[p]] = handle[p]
         /\ InStep(pc[p], stage[p], executed[p], outcome[p], nextSeq[p],
                   handle[p], files[target[p]])
<1>1. target[p] \in Dirs
  BY WritersUnsealed
<1>2. QED
  BY <1>1 DEF TypeInv, TypeOK, SealInv, LedgerInv, InStepAt

LEMMA LedgerInvNext ==
  ASSUME TypeInv, TypeInv', WriterInv, SealInv, SealInv', LedgerInv, [Next]_vars
  PROVE  LedgerInv'
<1> USE DEF Goto, disk, local, ghost
<1>1. ASSUME NEW p \in Procs, NEW d \in Dirs, LaunchRun(p, d) PROVE RestStep
  <2>1. ~Opened(p)
    BY <1>1 DEF LaunchRun, WriterInv
  <2>2. QED
    BY <1>1, <2>1 DEF LaunchRun, RestStep, Writing, Early, TypeInv, TypeOK
<1>2. ASSUME NEW p \in Procs, NEW s \in Dirs, NEW d \in Dirs, LaunchRerun(p, s, d)
      PROVE  RestStep
  <2>1. ~Opened(p)
    BY <1>2 DEF LaunchRerun, WriterInv
  <2>2. PICK l \in {"exists", "raised"} : pc' = [pc EXCEPT ![p] = l]
    BY <1>2 DEF LaunchRerun
  <2>3. QED
    BY <1>2, <2>1, <2>2 DEF LaunchRerun, RestStep, Writing, Early, TypeInv, TypeOK
<1>3. ASSUME NEW p \in Procs,
             CheckTarget(p) \/ RefuseRegistry(p) \/ MakeDir(p) \/ Compare(p) \/ Crash(p)
      PROVE  RestStep
  BY <1>3 DEF CheckTarget, RefuseRegistry, MakeDir, Compare, Crash, RestStep,
              Writing, Early, TypeInv, TypeOK
<1>4. CASE UNCHANGED vars
  <2>1. RestStep
    BY <1>4 DEF vars, RestStep
  <2>2. QED
    BY <2>1, RestStepLedgerInv
<1>5. ASSUME NEW p \in Procs, RejectFields(p) PROVE LedgerInv'
  <2>1. /\ ~Opened(p) /\ target[p] \in Dirs
        /\ Blank(manifest[target[p]], files[target[p]])
        /\ files[target[p]] \in OtherFiles
    BY <1>5, OpenIsBlank DEF RejectFields, TypeInv, TypeOK
  <2>2. Blank(manifest'[target[p]], files'[target[p]])
    BY <1>5, <2>1, FileFields DEF RejectFields, Blank, TypeInv, TypeOK
  <2>3. OwnStep(p) /\ pc'[p] \notin Writing
    BY <1>5, <2>1 DEF RejectFields, OwnStep, Writing, Early, TypeInv, TypeOK
  <2>4. ~IsSealed(sealedAs'[target[p]].manifest)
    BY <1>5, <2>1 DEF RejectFields, SealInv, Blank, NoManifest, IsSealed
  <2>5. QED
    BY <2>1, <2>2, <2>3, <2>4, OwnStepLedgerInv
<1>6. ASSUME NEW p \in Procs, OpenManifest(p) PROVE LedgerInv'
  <2> DEFINE fs == files[target[p]]
  <2>1. /\ target[p] \in Dirs /\ Blank(manifest[target[p]], fs)
        /\ stage[p] = 1 /\ executed[p] = 0 /\ pc[p] = "open"
    BY <1>6, OpenIsBlank DEF OpenManifest
  <2>2. InStep("logs", 1, 0, outcome[p], nextSeq[p], NewManifest, fs)
    BY <2>1, InStepOpened
  <2>3. MovesTo(p, "logs", 1, 0, outcome[p], nextSeq[p], NewManifest, fs)
    BY <1>6, <2>1 DEF OpenManifest, MovesTo, TypeInv, TypeOK
  <2> HIDE DEF fs
  <2>4. QED
    BY <2>1, <2>2, <2>3, MoveLedgerInv DEF Writing
<1>7. ASSUME NEW p \in Procs, OpenProvenance(p) PROVE LedgerInv'
  <2> DEFINE k == stage[p]
             x == executed[p]
             o == outcome[p]
             m == handle[p]
             fs == files[target[p]]
  <2>1. pc[p] = "logs" /\ pc[p] \in Writing
    BY <1>7 DEF OpenProvenance, Writing
  <2>2. /\ target[p] \in Dirs /\ k \in PIPELINE /\ manifest[target[p]] = m
        /\ InStep("logs", k, x, o, nextSeq[p], m, fs)
    BY <2>1, WriterFacts
  <2>3. Len(fs.prov) = 0 /\ InStep("stage", k, x, o, 1, m, fs)
    BY <2>2, InStepLogs
  <2>4. MovesTo(p, "stage", k, x, o, 1, m, fs)
    <3>1. \A i \in 1..Len(fs.prov) : fs.prov[i].seq = i
      BY <2>3
    <3>2. files' = files /\ pc' = [pc EXCEPT ![p] = "stage"]
      BY <1>7, <3>1 DEF OpenProvenance
    <3>3. nextSeq' = [nextSeq EXCEPT ![p] = 1]
      BY <1>7, <2>3 DEF OpenProvenance
    <3>4. UNCHANGED <<manifest, target, handle, stage, executed, outcome, sealedAs>>
      BY <1>7 DEF OpenProvenance
    <3>5. QED
      BY <2>2, <3>2, <3>3, <3>4 DEF MovesTo, TypeInv, TypeOK
  <2> HIDE DEF k, x, o, m, fs
  <2>5. QED
    BY <2>1, <2>3, <2>4, MoveLedgerInv DEF Writing
<1>8. ASSUME NEW p \in Procs, ExecuteStage(p) PROVE LedgerInv'
  <2> DEFINE k == stage[p]
             x == executed[p]
             o == outcome[p]
             c == nextSeq[p]
             m == handle[p]
             fs == files[target[p]]
  <2>1. pc[p] = "stage" /\ pc[p] \in Writing
    BY <1>8 DEF ExecuteStage, Writing
  <2>2. /\ target[p] \in Dirs /\ k \in PIPELINE /\ o \in Outcome
        /\ m \in ManifestFile /\ fs \in OtherFiles /\ manifest[target[p]] = m
        /\ InStep(pc[p], k, x, o, c, m, fs)
    BY <2>1, WriterFacts
  <2>3. PICK o2 \in Outcome, a \in {"computed", "varied"} :
          /\ files' = [files EXCEPT ![target[p]] = WithArtifacts(fs, k, a)]
          /\ outcome' = [outcome EXCEPT ![p] = o2]
          /\ pc' = [pc EXCEPT ![p] = CASE o2 = "passed"  -> "passed"
                                       [] o2 = "untyped" -> "wrap"
                                       [] OTHER          -> "failed"]
    BY <1>8 DEF ExecuteStage
  <2>4. PICK l \in {"passed", "wrap", "failed"} :
          pc' = [pc EXCEPT ![p] = l] /\ (l = "passed" <=> o2 = "passed")
    BY <2>3
  <2> DEFINE gs == WithArtifacts(fs, k, a)
  <2>5. gs.prov = fs.prov /\ gs.marker = fs.marker
    BY <2>2, FileFields
  <2>6. UNCHANGED <<manifest, target, handle, nextSeq, stage, executed, sealedAs>>
    BY <1>8 DEF ExecuteStage
  <2>7. files' = [files EXCEPT ![target[p]] = gs] /\ outcome' = [outcome EXCEPT ![p] = o2]
    BY <2>3
  <2> HIDE DEF gs
  <2>8. MovesTo(p, l, k, x, o2, c, m, gs)
    BY <2>2, <2>4, <2>6, <2>7 DEF MovesTo, TypeInv, TypeOK
  <2> HIDE DEF k, x, o, c, m, fs
  <2>9. InStep(l, k, x, o2, c, m, gs)
    BY <2>1, <2>2, <2>4, <2>5, InStepExecuted
  <2>10. QED
    BY <2>1, <2>8, <2>9, MoveLedgerInv DEF Writing
<1>9. ASSUME NEW p \in Procs, RecordPassed(p) PROVE LedgerInv'
  <2> DEFINE k == stage[p]
             x == executed[p]
             o == outcome[p]
             c == nextSeq[p]
             m == handle[p]
             fs == files[target[p]]
             m2 == WithStage(m, k, "PASSED")
  <2>1. pc[p] = "passed" /\ pc[p] \in Writing
    BY <1>9 DEF RecordPassed, Writing
  <2>2. /\ target[p] \in Dirs /\ k \in PIPELINE /\ o \in Outcome
        /\ m \in ManifestFile /\ fs \in OtherFiles /\ manifest[target[p]] = m
        /\ InStep(pc[p], k, x, o, c, m, fs)
    BY <2>1, WriterFacts
  <2>3. MovesTo(p, "complete", k, x, o, c, m2, fs)
    BY <1>9, <2>2 DEF RecordPassed, RecordStage, MovesTo, TypeInv, TypeOK
  <2> HIDE DEF k, x, o, c, m, fs
  <2>4. InStep("complete", k, x, o, c, m2, fs)
    BY <2>1, <2>2, InStepRecorded
  <2> HIDE DEF m2
  <2>5. QED
    BY <2>1, <2>3, <2>4, MoveLedgerInv DEF Writing
<1>10. ASSUME NEW p \in Procs, RecordFailed(p) PROVE LedgerInv'
  <2> DEFINE k == stage[p]
             x == executed[p]
             o == outcome[p]
             c == nextSeq[p]
             m == handle[p]
             fs == files[target[p]]
             m2 == WithStage(m, k, "FAILED")
  <2>1. pc[p] = "failed" /\ pc[p] \in Writing
    BY <1>10 DEF RecordFailed, Writing
  <2>2. /\ target[p] \in Dirs /\ k \in PIPELINE /\ o \in Outcome
        /\ m \in ManifestFile /\ fs \in OtherFiles /\ manifest[target[p]] = m
        /\ InStep(pc[p], k, x, o, c, m, fs)
    BY <2>1, WriterFacts
  <2>3. MovesTo(p, "halt", k, x, o, c, m2, fs)
    BY <1>10, <2>2 DEF RecordFailed, RecordStage, MovesTo, TypeInv, TypeOK
  <2> HIDE DEF k, x, o, c, m, fs
  <2>4. InStep("halt", k, x, o, c, m2, fs)
    BY <2>1, <2>2, InStepRecorded
  <2> HIDE DEF m2
  <2>5. QED
    BY <2>1, <2>3, <2>4, MoveLedgerInv DEF Writing
<1>11. ASSUME NEW p \in Procs, AppendComplete(p) PROVE LedgerInv'
  <2> DEFINE k == stage[p]
             x == executed[p]
             o == outcome[p]
             c == nextSeq[p]
             m == handle[p]
             fs == files[target[p]]
             r == [seq |-> c, stage |-> k, event |-> "stage_complete"]
             gs == WithEntry(fs, r)
  <2>1. pc[p] = "complete" /\ pc[p] \in Writing
    BY <1>11 DEF AppendComplete, Writing
  <2>2. /\ target[p] \in Dirs /\ k \in PIPELINE /\ o \in Outcome
        /\ m \in ManifestFile /\ fs \in OtherFiles /\ manifest[target[p]] = m
        /\ InStep(pc[p], k, x, o, c, m, fs)
    BY <2>1, WriterFacts
  <2>3. /\ files' = [files EXCEPT ![target[p]] = gs]
        /\ nextSeq' = [nextSeq EXCEPT ![p] = c + 1]
        /\ executed' = [executed EXCEPT ![p] = x + 1]
        /\ UNCHANGED <<manifest, target, handle, outcome, sealedAs>>
    BY <1>11 DEF AppendComplete, AppendEvent, TypeInv, TypeOK
  <2>4. /\ k = NStages => pc' = [pc EXCEPT ![p] = "report"] /\ stage' = stage
        /\ k # NStages => /\ pc' = [pc EXCEPT ![p] = "stage"]
                          /\ stage' = [stage EXCEPT ![p] = k + 1]
    BY <1>11 DEF AppendComplete, TypeInv, TypeOK
  <2> HIDE DEF r
  <2>5. /\ k = NStages => MovesTo(p, "report", k, x + 1, o, c + 1, m, gs)
        /\ k # NStages => MovesTo(p, "stage", k + 1, x + 1, o, c + 1, m, gs)
    BY <2>2, <2>3, <2>4 DEF MovesTo, TypeInv, TypeOK
  <2> HIDE DEF k, x, o, c, m, fs, gs
  <2>6. /\ k # NStages => InStep("stage", k + 1, x + 1, o, c + 1, m, gs)
        /\ k = NStages => InStep("report", k, x + 1, o, c + 1, m, gs)
    BY <2>1, <2>2, InStepCompleted DEF gs, r
  <2>7. CASE k = NStages
    BY <2>1, <2>5, <2>6, <2>7, MoveLedgerInv DEF Writing
  <2>8. CASE k # NStages
    BY <2>1, <2>5, <2>6, <2>8, MoveLedgerInv DEF Writing
  <2>9. QED
    BY <2>7, <2>8
<1>12. ASSUME NEW p \in Procs, WrapUntyped(p) PROVE LedgerInv'
  <2> DEFINE k == stage[p]
             x == executed[p]
             o == outcome[p]
             c == nextSeq[p]
             m == handle[p]
             fs == files[target[p]]
             gs == WithHaltReport(fs)
  <2>1. pc[p] = "wrap" /\ pc[p] \in Writing
    BY <1>12 DEF WrapUntyped, Writing
  <2>2. /\ target[p] \in Dirs /\ k \in PIPELINE /\ o \in Outcome
        /\ m \in ManifestFile /\ fs \in OtherFiles /\ manifest[target[p]] = m
        /\ InStep(pc[p], k, x, o, c, m, fs)
    BY <2>1, WriterFacts
  <2>3. MovesTo(p, "failed", k, x, o, c, m, gs)
    BY <1>12, <2>2 DEF WrapUntyped, MovesTo, TypeInv, TypeOK
  <2>4. gs.prov = fs.prov /\ gs.marker = fs.marker
    BY <2>2, FileFields
  <2> HIDE DEF k, x, o, c, m, fs, gs
  <2>5. InStep("failed", k, x, o, c, m, gs)
    BY <2>1, <2>2, <2>4, InStepWrapped
  <2>6. QED
    BY <2>1, <2>3, <2>5, MoveLedgerInv DEF Writing
<1>13. ASSUME NEW p \in Procs, AppendHalt(p) PROVE LedgerInv'
  <2> DEFINE k == stage[p]
             x == executed[p]
             o == outcome[p]
             c == nextSeq[p]
             m == handle[p]
             fs == files[target[p]]
             e == IF RunState(o) \in Halted THEN "halt" ELSE "advisory_issued"
             r == [seq |-> c, stage |-> k, event |-> e]
             gs == WithEntry(fs, r)
             l == IF RunState(o) = Boundary THEN "skip" ELSE "mark"
  <2>1. pc[p] = "halt" /\ pc[p] \in Writing
    BY <1>13 DEF AppendHalt, Writing
  <2>2. /\ target[p] \in Dirs /\ k \in PIPELINE /\ o \in Outcome
        /\ m \in ManifestFile /\ fs \in OtherFiles /\ manifest[target[p]] = m
        /\ InStep(pc[p], k, x, o, c, m, fs)
    BY <2>1, WriterFacts
  <2>3. /\ files' = [files EXCEPT ![target[p]] = gs]
        /\ nextSeq' = [nextSeq EXCEPT ![p] = c + 1]
        /\ pc' = [pc EXCEPT ![p] = l]
        /\ UNCHANGED <<manifest, target, handle, stage, executed, outcome, sealedAs>>
    BY <1>13 DEF AppendHalt, AppendEvent, TypeInv, TypeOK
  <2> HIDE DEF e, r, l
  <2>4. MovesTo(p, l, k, x, o, c + 1, m, gs)
    BY <2>2, <2>3 DEF MovesTo, TypeInv, TypeOK
  <2> HIDE DEF k, x, o, c, m, fs, gs
  <2>5. InStep(l, k, x, o, c + 1, m, gs)
    BY <2>1, <2>2, InStepHalted DEF e, r, gs, l
  <2>6. l \in Writing
    BY DEF l, Writing
  <2>7. QED
    BY <2>1, <2>4, <2>5, <2>6, MoveLedgerInv
<1>14. ASSUME NEW p \in Procs, SkipStage(p) PROVE LedgerInv'
  <2> DEFINE k == stage[p]
             x == executed[p]
             o == outcome[p]
             c == nextSeq[p]
             m == handle[p]
             fs == files[target[p]]
             n == Len(m.stages)
             m2 == WithStage(m, n + 1, "SKIPPED_BOUNDARY")
  <2>1. pc[p] = "skip" /\ pc[p] \in Writing /\ n + 1 <= NStages
    BY <1>14 DEF SkipStage, Writing
  <2>2. /\ target[p] \in Dirs /\ k \in PIPELINE /\ o \in Outcome
        /\ m \in ManifestFile /\ fs \in OtherFiles /\ manifest[target[p]] = m
        /\ InStep(pc[p], k, x, o, c, m, fs)
    BY <2>1, WriterFacts
  <2>3. MovesTo(p, "skip", k, x, o, c, m2, fs)
    BY <1>14, <2>2 DEF SkipStage, RecordStage, MovesTo, TypeInv, TypeOK
  <2> HIDE DEF k, x, o, c, m, fs
  <2>4. InStep("skip", k, x, o, c, m2, fs)
    BY <2>1, <2>2, InStepSkipped
  <2> HIDE DEF m2
  <2>5. QED
    BY <2>1, <2>3, <2>4, MoveLedgerInv DEF Writing
<1>15. ASSUME NEW p \in Procs, SkippedAll(p) PROVE LedgerInv'
  <2> DEFINE k == stage[p]
             x == executed[p]
             o == outcome[p]
             c == nextSeq[p]
             m == handle[p]
             fs == files[target[p]]
  <2>1. pc[p] = "skip" /\ pc[p] \in Writing /\ Len(m.stages) >= NStages
    BY <1>15 DEF SkippedAll, Writing
  <2>2. /\ target[p] \in Dirs /\ k \in PIPELINE /\ o \in Outcome
        /\ m \in ManifestFile /\ fs \in OtherFiles /\ manifest[target[p]] = m
        /\ InStep(pc[p], k, x, o, c, m, fs)
    BY <2>1, WriterFacts
  <2>3. MovesTo(p, "report", k, x, o, c, m, fs)
    BY <1>15, <2>2 DEF SkippedAll, MovesTo, TypeInv, TypeOK
  <2> HIDE DEF k, x, o, c, m, fs
  <2>4. InStep("report", k, x, o, c, m, fs)
    BY <2>1, <2>2, InStepSkipped
  <2>5. QED
    BY <2>1, <2>3, <2>4, MoveLedgerInv DEF Writing
<1>16. ASSUME NEW p \in Procs, MarkNonFinal(p) PROVE LedgerInv'
  <2> DEFINE k == stage[p]
             x == executed[p]
             o == outcome[p]
             c == nextSeq[p]
             m == handle[p]
             fs == files[target[p]]
             gs == WithMarker(fs, RunState(o))
  <2>1. pc[p] = "mark" /\ pc[p] \in Writing
    BY <1>16 DEF MarkNonFinal, Writing
  <2>2. /\ target[p] \in Dirs /\ k \in PIPELINE /\ o \in Outcome
        /\ m \in ManifestFile /\ fs \in OtherFiles /\ manifest[target[p]] = m
        /\ InStep(pc[p], k, x, o, c, m, fs)
    BY <2>1, WriterFacts
  <2>3. MovesTo(p, "report", k, x, o, c, m, gs)
    BY <1>16, <2>2 DEF MarkNonFinal, MovesTo, TypeInv, TypeOK
  <2> HIDE DEF k, x, o, c, m, fs, gs
  <2>4. InStep("report", k, x, o, c, m, gs)
    BY <2>1, <2>2, InStepMarked DEF gs
  <2>5. QED
    BY <2>1, <2>3, <2>4, MoveLedgerInv DEF Writing
<1>17. ASSUME NEW p \in Procs, WriteReport(p) PROVE LedgerInv'
  <2> DEFINE k == stage[p]
             x == executed[p]
             o == outcome[p]
             c == nextSeq[p]
             m == handle[p]
             fs == files[target[p]]
             r == [state |-> RunState(o), completed |-> x,
                   failed |-> IF o = "passed" THEN 0 ELSE k]
             gs == WithReport(fs, r)
  <2>1. pc[p] = "report" /\ pc[p] \in Writing
    BY <1>17 DEF WriteReport, Writing
  <2>2. /\ target[p] \in Dirs /\ k \in PIPELINE /\ o \in Outcome
        /\ m \in ManifestFile /\ fs \in OtherFiles /\ manifest[target[p]] = m
        /\ InStep(pc[p], k, x, o, c, m, fs)
    BY <2>1, WriterFacts
  <2>3. ReportOf(p) = r
    BY DEF ReportOf
  <2> HIDE DEF r
  <2>4. MovesTo(p, "seal", k, x, o, c, m, gs)
    BY <1>17, <2>2, <2>3 DEF WriteReport, MovesTo, TypeInv, TypeOK
  <2> HIDE DEF k, x, o, c, m, fs, gs
  <2>5. InStep("seal", k, x, o, c, m, gs)
    BY <2>1, <2>2, InStepReported DEF gs, r
  <2>6. QED
    BY <2>1, <2>4, <2>5, MoveLedgerInv DEF Writing
<1>18. ASSUME NEW p \in Procs, Seal(p) PROVE LedgerInv'
  <2> DEFINE k == stage[p]
             x == executed[p]
             o == outcome[p]
             c == nextSeq[p]
             m == handle[p]
             fs == files[target[p]]
             z == SealManifest(m, fs, RunState(o))
  <2>1. pc[p] = "seal" /\ pc[p] \in Writing
    BY <1>18 DEF Seal, Writing
  <2>2. /\ target[p] \in Dirs /\ k \in PIPELINE /\ o \in Outcome
        /\ m \in ManifestFile /\ fs \in OtherFiles /\ manifest[target[p]] = m
        /\ InStep(pc[p], k, x, o, c, m, fs)
    BY <2>1, WriterFacts
  <2>3. PICK l \in {"returned", "compare"} : pc' = [pc EXCEPT ![p] = l]
    BY <1>18 DEF Seal
  <2>4. /\ handle' = [handle EXCEPT ![p] = z]
        /\ manifest' = [manifest EXCEPT ![target[p]] = z]
        /\ sealedAs' = [sealedAs EXCEPT ![target[p]] = [manifest |-> z, files |-> fs]]
        /\ UNCHANGED <<files, target, nextSeq, stage, executed, outcome>>
    BY <1>18 DEF Seal
  <2>5. Consistent(z, fs)
    BY <2>1, <2>2, InStepSealed
  <2>6. Opened(p)'
    BY <1>18, <2>1, SealKeepsOpened DEF WriterInv
  <2>7. IsSealed(z)
    BY <2>1, <2>2, SealManifestVerifies, RunStateType DEF SealInv
  <2> HIDE DEF z, k, x, o, c, m
  <2>8. OwnStep(p) /\ pc'[p] \notin Writing
    BY <2>1, <2>2, <2>3, <2>4 DEF OwnStep, Writing, Early, TypeInv, TypeOK
  <2>9. /\ manifest'[target[p]] = z
        /\ sealedAs'[target[p]] = [manifest |-> z, files |-> fs]
    BY <2>2, <2>4 DEF TypeInv, TypeOK
  <2> HIDE DEF fs
  <2>10. QED
    BY <2>5, <2>6, <2>7, <2>8, <2>9, OwnStepLedgerInv
<1>19. ASSUME NEW d \in Dirs, EditManifest(d) \/ EditFile(d) PROVE LedgerInv'
  BY <1>19, EditLedgerInv
<1>20. QED
  BY <1>1, <1>2, <1>3, <1>4, <1>5, <1>6, <1>7, <1>8, <1>9, <1>10, <1>11, <1>12,
     <1>13, <1>14, <1>15, <1>16, <1>17, <1>18, <1>19, RestStepLedgerInv
  DEF Next, Launch, Run

LEMMA LedgerInvHolds ==
  ASSUME "run" \notin Collisions
  PROVE  Spec /\ []Unraced => [](TypeInv /\ WriterInv /\ SealInv /\ LedgerInv)
<1>1. TypeInv /\ WriterInv /\ SealInv /\ LedgerInv /\ Unraced /\ [Next]_vars
        => (TypeInv /\ WriterInv /\ SealInv /\ LedgerInv)'
  BY TypeInvNext, WriterInvNext, SealInvNext, LedgerInvNext
<1>2. QED
  BY <1>1, TypeInvInit, WriterInvInit, SealInvInit, LedgerInvInit, PTL DEF Spec

(* What a crash leaves behind never claims a terminal state, and its two   *)
(* ledgers agree up to the one stage whose entry was still to be written.  *)
THEOREM CrashedLedgersAgree ==
  ASSUME "run" \notin Collisions
  PROVE  Spec /\ []Unraced => []LedgersInStep
<1>1. LedgerInv => LedgersInStep
  BY DEF LedgerInv, LedgersInStep, Agree
<1>2. QED
  BY <1>1, LedgerInvHolds, PTL

(* Whatever verify_seal accepts is the account of one whole run.           *)
THEOREM VerifiedTellsOneRun ==
  ASSUME "run" \notin Collisions
  PROVE  Spec /\ []Unraced => []VerifiedIsConsistent
<1>1. TypeInv /\ WriterInv /\ SealInv /\ LedgerInv => VerifiedIsConsistent
  <2> SUFFICES ASSUME SealInv, LedgerInv, NEW d \in Dirs,
                      VerifySeal(manifest[d], files[d])
               PROVE  Consistent(manifest[d], files[d])
    BY DEF VerifiedIsConsistent
  <2>1. IsSealed(manifest[d]) /\ d \notin edited
    BY DEF VerifySeal, SealInv
  <2>2. /\ sealedAs[d] = [manifest |-> manifest[d], files |-> files[d]]
        /\ IsSealed(sealedAs[d].manifest)
    BY <2>1 DEF SealInv
  <2>3. Consistent(sealedAs[d].manifest, sealedAs[d].files)
    BY <2>2 DEF LedgerInv
  <2>4. QED
    BY <2>2, <2>3
<1>2. QED
  BY <1>1, LedgerInvHolds, PTL

-----------------------------------------------------------------------------
(* Every run directory keeps the promise of RunSpec.  Its variables are    *)
(* functions of the manifest on record: the state, and these verdicts.     *)

Verdicts(m) == [i \in 1..Len(m.stages) |-> m.stages[i].state]

LEMMA VerdictsType ==
  ASSUME NEW m \in ManifestFile
  PROVE  /\ Verdicts(m) \in Seq(Verdict) /\ Len(Verdicts(m)) = Len(m.stages)
         /\ \A i \in 1..Len(m.stages) : Verdicts(m)[i] = m.stages[i].state
<1>1. m.stages \in Seq(StageRecord)
  BY DEF ManifestFile, ManifestWith
<1>2. Len(m.stages) \in Nat /\ \A i \in 1..Len(m.stages) : m.stages[i].state \in Verdict
  <2>1. Len(m.stages) \in Nat
    BY <1>1
  <2>2. \A i \in 1..Len(m.stages) : m.stages[i] \in StageRecord
    BY <1>1
  <2>3. QED
    BY <2>1, <2>2 DEF StageRecord
<1>3. QED
  BY <1>2 DEF Verdicts

LEMMA VerdictsGrow ==
  ASSUME NEW m \in ManifestFile, NEW k \in PIPELINE, NEW v \in Verdict
  PROVE  Verdicts(WithStage(m, k, v)) = Append(Verdicts(m), v)
<1> DEFINE z == WithStage(m, k, v)
           r == [stage |-> k, state |-> v]
           a == Verdicts(z)
           b == Append(Verdicts(m), v)
           n == Len(m.stages)
<1>1. m.stages \in Seq(StageRecord) /\ r \in StageRecord /\ r.state = v
  BY DEF ManifestFile, ManifestWith, StageRecord
<1>2. z \in ManifestFile /\ z.stages = Append(m.stages, r)
  BY WithStageType, ManifestFields
<1> HIDE DEF z, r
<1>3. /\ n \in Nat /\ Len(z.stages) = n + 1 /\ z.stages[n + 1] = r
      /\ \A i \in 1..n : z.stages[i] = m.stages[i]
  BY <1>1, <1>2
<1>4. /\ a \in Seq(Verdict) /\ Len(a) = n + 1
      /\ \A i \in 1..(n + 1) : a[i] = z.stages[i].state
  BY <1>2, <1>3, VerdictsType
<1>5. /\ Verdicts(m) \in Seq(Verdict) /\ Len(Verdicts(m)) = n
      /\ \A i \in 1..n : Verdicts(m)[i] = m.stages[i].state
  BY VerdictsType
<1>6. /\ b \in Seq(Verdict) /\ Len(b) = n + 1 /\ b[n + 1] = v
      /\ \A i \in 1..n : b[i] = m.stages[i].state
  BY <1>5
<1>7. \A i \in 1..(n + 1) : a[i] = b[i]
  BY <1>1, <1>3, <1>4, <1>6, SMTT(30)
<1> HIDE DEF a, b, n
<1>8. a = b
  BY <1>4, <1>6, <1>7
<1>9. QED
  BY <1>8 DEF a, b, z

Life == [d \in Dirs |-> Recorded(d).state]

Books == [d \in Dirs |-> Verdicts(Recorded(d))]

(* A step changes what is on record of directory t alone, from m to m2.    *)
RecordChanges(t, m, m2) ==
  /\ Recorded(t) = m /\ Recorded(t)' = m2
  /\ \A d \in Dirs : d # t => Recorded(d)' = Recorded(d)

LEMMA RecordMaps ==
  ASSUME NEW t \in Dirs, NEW m, NEW m2, RecordChanges(t, m, m2)
  PROVE  /\ Life' = [Life EXCEPT ![t] = m2.state] /\ Life[t] = m.state
         /\ Books' = [Books EXCEPT ![t] = Verdicts(m2)] /\ Books[t] = Verdicts(m)
<1>1. \A d \in Dirs : /\ Recorded(d)' = IF d = t THEN m2 ELSE Recorded(d)
                      /\ Recorded(t) = m
  BY DEF RecordChanges
<1>2. Life' = [d \in Dirs |-> Recorded(d)'.state]
      /\ Books' = [d \in Dirs |-> Verdicts(Recorded(d)')]
  BY DEF Life, Books, Verdicts
<1>3. QED
  BY <1>1, <1>2 DEF Life, Books

LEMMA OpenMaps ==
  ASSUME NEW t \in Dirs, RecordChanges(t, NoManifest, NewManifest)
  PROVE  Promise!Open(t)
<1>1. /\ NoManifest.state = "absent" /\ NewManifest.state = "PENDING"
      /\ Verdicts(NoManifest) = Verdicts(NewManifest)
  BY DEF NoManifest, NewManifest, Verdicts
<1>2. Life[t] = "absent" /\ Life' = [Life EXCEPT ![t] = "PENDING"]
  BY <1>1, RecordMaps
<1>3. Books' = Books
  <2>1. Books' = [Books EXCEPT ![t] = Books[t]]
    BY <1>1, RecordMaps
  <2>2. QED
    BY <2>1 DEF Books
<1>4. QED
  BY <1>2, <1>3 DEF Promise!Open, Life, Books, Verdicts

(* Only passed stages can be followed by one that is executed.             *)
LEMMA RecordRunMaps ==
  ASSUME NEW t \in Dirs, NEW m \in ManifestFile, NEW k \in PIPELINE, NEW fs, NEW s,
         m.state = "PENDING", Shape(m, fs, k - 1, k - 1, k - 1, s),
         NEW v \in {"PASSED", "FAILED"}, RecordChanges(t, m, WithStage(m, k, v))
  PROVE  Promise!Record(t, v)
<1>1. k - 1 \in 0..NStages /\ k - 1 \in Nat /\ k - 1 < NStages
  BY StageBounds
<1>2. Len(m.stages) = k - 1 /\ \A i \in 1..(k - 1) : m.stages[i].state = "PASSED"
  <2>1. Len(m.stages) = k - 1
    BY <1>1, RecordsType DEF Shape
  <2>2. ASSUME NEW i \in 1..(k - 1) PROVE m.stages[i].state = "PASSED"
    <3>1. m.stages[i] =
            [stage |-> i,
             state |-> IF i <= k - 1 THEN "PASSED"
                       ELSE IF i = (k - 1) + 1 THEN "FAILED" ELSE "SKIPPED_BOUNDARY"]
      BY <1>1, RecordsType DEF Shape
    <3>2. i <= k - 1
      BY <1>1
    <3>3. QED
      BY <3>1, <3>2
  <2>3. QED
    BY <2>1, <2>2
<1>3. Len(Verdicts(m)) = k - 1 /\ Promise!AllPassed(Verdicts(m))
  BY <1>2, VerdictsType DEF Promise!AllPassed
<1>4. v \in Verdict
  BY DEF Verdict
<1>5. /\ WithStage(m, k, v).state = m.state
      /\ Verdicts(WithStage(m, k, v)) = Append(Verdicts(m), v)
  BY <1>4, VerdictsGrow, ManifestFields
<1>6. /\ Life[t] = "PENDING" /\ Life' = [Life EXCEPT ![t] = "PENDING"]
      /\ Books[t] = Verdicts(m)
      /\ Books' = [Books EXCEPT ![t] = Append(Books[t], v)]
  BY <1>5, RecordMaps
<1>7. Life' = Life
  BY <1>6 DEF Life
<1>8. Len(Books[t]) < NStages /\ Promise!AllPassed(Books[t])
  BY <1>1, <1>3, <1>6
<1>9. QED
  BY <1>6, <1>7, <1>8 DEF Promise!Record, Life, Books, Verdicts

(* Only the stages after a boundary are skipped.                           *)
LEMMA RecordSkipMaps ==
  ASSUME NEW t \in Dirs, NEW m \in ManifestFile, NEW k \in PIPELINE,
         m.state = "PENDING", k = Len(m.stages) + 1,
         ~\A i \in 1..Len(m.stages) : m.stages[i].state = "PASSED",
         RecordChanges(t, m, WithStage(m, k, "SKIPPED_BOUNDARY"))
  PROVE  Promise!Record(t, "SKIPPED_BOUNDARY")
<1>1. k - 1 < NStages /\ Len(m.stages) = k - 1
  <2>1. m.stages \in Seq(StageRecord)
    BY DEF ManifestFile, ManifestWith
  <2>2. Len(m.stages) \in Nat
    BY <2>1
  <2>3. QED
    BY <2>2, StageBounds
<1>2. Len(Verdicts(m)) < NStages /\ ~Promise!AllPassed(Verdicts(m))
  BY <1>1, VerdictsType DEF Promise!AllPassed
<1>3. "SKIPPED_BOUNDARY" \in Verdict
  BY DEF Verdict
<1>4. /\ WithStage(m, k, "SKIPPED_BOUNDARY").state = m.state
      /\ Verdicts(WithStage(m, k, "SKIPPED_BOUNDARY")) = Append(Verdicts(m), "SKIPPED_BOUNDARY")
  <2>1. WithStage(m, k, "SKIPPED_BOUNDARY").state = m.state
    BY WithStageState
  <2>2. Verdicts(WithStage(m, k, "SKIPPED_BOUNDARY")) = Append(Verdicts(m), "SKIPPED_BOUNDARY")
    BY <1>3, VerdictsGrow
  <2>3. QED
    BY <2>1, <2>2
<1>5. /\ Life[t] = "PENDING" /\ Life' = [Life EXCEPT ![t] = "PENDING"]
      /\ Books[t] = Verdicts(m)
      /\ Books' = [Books EXCEPT ![t] = Append(Books[t], "SKIPPED_BOUNDARY")]
  BY <1>4, RecordMaps
<1>6. Life' = Life
  BY <1>5 DEF Life
<1>7. Len(Books[t]) < NStages /\ ~Promise!AllPassed(Books[t])
  BY <1>2, <1>5
<1>8. QED
  BY <1>5, <1>6, <1>7 DEF Promise!Record, Life, Books, Verdicts

(* The terminal state is the one the verdicts account for.                 *)
LEMMA CloseMaps ==
  ASSUME NEW t \in Dirs, NEW m \in ManifestFile, NEW k \in PIPELINE, NEW x,
         NEW o \in Outcome, NEW c, NEW fs, InStep("seal", k, x, o, c, m, fs),
         RecordChanges(t, m, SealManifest(m, fs, RunState(o)))
  PROVE  Promise!Close(t, RunState(o))
<1> DEFINE s == RunState(o)
           z == SealManifest(m, fs, s)
           b == Verdicts(m)
<1>1. z.state = s /\ Verdicts(z) = b
  BY SealManifestFields DEF Verdicts
<1>2. /\ k \in 1..NStages /\ k \in 1..k /\ k \in Nat /\ k \in 0..NStages
      /\ k - 1 \in Nat /\ (k - 1) + 1 = k /\ ~(k <= k - 1)
      /\ NStages \in Nat /\ NStages \in 0..NStages /\ k > 0
  BY StageBounds DEF PIPELINE
<1>3. /\ m.state = "PENDING"
      /\ \/ o = "passed" /\ Shape(m, fs, NStages, NStages, NStages, s)
         \/ o # "passed" /\ s = Boundary /\ Shape(m, fs, NStages, k - 1, k, s)
         \/ o # "passed" /\ s \in Halted /\ Shape(m, fs, k, k - 1, k, s)
  BY DEF InStep, Closing
<1>4. Len(b) = Len(m.stages) /\ \A i \in 1..Len(m.stages) : b[i] = m.stages[i].state
  BY VerdictsType
<1>5. ASSUME NEW n \in 0..NStages, k \in 1..n, m.stages = Records(n, k - 1)
      PROVE  Len(b) = n /\ b[k] = "FAILED"
  <2>1. m.stages[k] =
          [stage |-> k,
           state |-> IF k <= k - 1 THEN "PASSED"
                     ELSE IF k = (k - 1) + 1 THEN "FAILED" ELSE "SKIPPED_BOUNDARY"]
    BY <1>2, <1>5, RecordsType
  <2>2. Len(m.stages) = n
    BY <1>2, <1>5, RecordsType
  <2>3. QED
    BY <1>2, <1>4, <1>5, <2>1, <2>2
<1> HIDE DEF b, z
<1>6. Promise!Accounts(b, s)
  <2>1. CASE o = "passed"
    <3>1. m.stages = Records(NStages, NStages) /\ s = "COMPLETED"
      BY <1>3, <2>1, RunStateCases DEF Shape
    <3>2. Len(m.stages) = NStages
      BY <1>2, <3>1, RecordsType
    <3>3. ASSUME NEW i \in 1..NStages PROVE b[i] = "PASSED"
      <4>1. m.stages[i] =
              [stage |-> i,
               state |-> IF i <= NStages THEN "PASSED"
                         ELSE IF i = NStages + 1 THEN "FAILED" ELSE "SKIPPED_BOUNDARY"]
        BY <1>2, <3>1, RecordsType
      <4>2. i <= NStages
        BY <1>2
      <4>3. QED
        BY <1>4, <3>2, <4>1, <4>2
    <3>4. Promise!AllPassed(b) /\ Len(b) = NStages
      BY <1>4, <3>2, <3>3 DEF Promise!AllPassed
    <3> HIDE DEF s
    <3>5. QED
      BY <3>1, <3>4 DEF Promise!Accounts
  <2>2. CASE o # "passed" /\ s = Boundary
    <3>1. Len(b) = NStages /\ b[k] = "FAILED"
      BY <1>2, <1>3, <1>5, <2>2, RunStateCases DEF Shape
    <3>2. ~Promise!AllPassed(b)
      BY <1>2, <3>1 DEF Promise!AllPassed
    <3> HIDE DEF s
    <3>3. QED
      BY <2>2, <3>1, <3>2 DEF Promise!Accounts, Boundary
  <2>3. CASE o # "passed" /\ s \in Halted
    <3>1. Len(b) = k /\ b[k] = "FAILED"
      BY <1>2, <1>3, <1>5, <2>3, RunStateCases DEF Shape
    <3>2. s \notin {"COMPLETED", "COMPLETED_TO_BOUNDARY"}
      BY <2>3 DEF Halted
    <3> HIDE DEF s
    <3>3. QED
      BY <1>2, <3>1, <3>2 DEF Promise!Accounts
  <2>4. QED
    BY <1>3, <2>1, <2>2, <2>3
<1>7. /\ Life[t] = "PENDING" /\ Life' = [Life EXCEPT ![t] = s]
      /\ Books[t] = b /\ Books' = [Books EXCEPT ![t] = Books[t]]
  <2>1. RecordChanges(t, m, z)
    BY DEF z
  <2>2. QED
    BY <1>1, <1>3, <2>1, RecordMaps DEF b
<1>8. Books' = Books
  BY <1>7 DEF Books
<1>9. Promise!Accounts(Books[t], s)
  BY <1>6, <1>7
<1> HIDE DEF s
<1>10. Promise!Close(t, s)
  BY <1>7, <1>8, <1>9 DEF Promise!Close, Life, Books, Verdicts
<1>11. QED
  BY <1>10 DEF s

LEMMA InitMaps == Init => Promise!Init
<1> SUFFICES ASSUME Init PROVE Promise!Init
  OBVIOUS
<1>1. \A d \in Dirs : Recorded(d) = NoManifest
  BY DEF Init, Recorded
<1>2. NoManifest.state = "absent" /\ Verdicts(NoManifest) = <<>>
  <2>1. NoManifest.state = "absent" /\ NoManifest.stages = <<>>
    BY DEF NoManifest
  <2>2. [i \in 1..Len(<<>>) |-> NoManifest.stages[i].state] = <<>>
    OBVIOUS
  <2>3. QED
    BY <2>1, <2>2 DEF Verdicts
<1>3. /\ Life = [d \in Dirs |-> "absent"]
      /\ Books = [d \in Dirs |-> <<>>]
  BY <1>1, <1>2 DEF Life, Books
<1>4. QED
  BY <1>3 DEF Promise!Init, Life, Books, Verdicts

(* The owner of directory t replaces its manifest.                         *)
LEMMA ManifestChanges ==
  ASSUME TypeInv, WriterInv, SealInv, NEW p \in Procs,
         pc[p] \in Writing \cup {"open"}, NEW t \in Dirs, t = target[p], NEW m,
         manifest' = [manifest EXCEPT ![t] = m],
         \A d \in Dirs : d # t => sealedAs'[d] = sealedAs[d],
         edited' = edited
  PROVE  RecordChanges(t, manifest[t], m)
<1>1. t \notin edited
  BY WritersUnsealed
<1>2. manifest'[t] = m /\ \A d \in Dirs : d # t => manifest'[d] = manifest[d]
  BY DEF TypeInv, TypeOK
<1>3. Recorded(t) = manifest[t] /\ Recorded(t)' = m
  BY <1>1, <1>2 DEF Recorded
<1>4. \A d \in Dirs : d # t => Recorded(d)' = Recorded(d)
  BY <1>2 DEF Recorded
<1>5. QED
  BY <1>3, <1>4 DEF RecordChanges

LEMMA StepMaps ==
  ASSUME TypeInv, WriterInv, SealInv, LedgerInv, [Next]_vars
  PROVE  [Promise!Next]_(Promise!vars)
<1> USE DEF disk, local, ghost
<1>1. ASSUME UNCHANGED <<manifest, sealedAs, edited>>
      PROVE  UNCHANGED Promise!vars
  BY <1>1 DEF Promise!vars, Recorded
<1>2. ASSUME NEW p \in Procs, NEW d \in Dirs, NEW s \in Dirs,
             LaunchRun(p, d) \/ LaunchRerun(p, s, d)
      PROVE  UNCHANGED <<manifest, sealedAs, edited>>
  BY <1>2 DEF LaunchRun, LaunchRerun
<1>3. ASSUME NEW p \in Procs,
             \/ CheckTarget(p) \/ RefuseRegistry(p) \/ MakeDir(p) \/ RejectFields(p)
             \/ OpenProvenance(p) \/ ExecuteStage(p) \/ AppendComplete(p)
             \/ WrapUntyped(p) \/ AppendHalt(p) \/ SkippedAll(p) \/ MarkNonFinal(p)
             \/ WriteReport(p) \/ Compare(p) \/ Crash(p)
      PROVE  UNCHANGED <<manifest, sealedAs, edited>>
  BY <1>3 DEF CheckTarget, RefuseRegistry, MakeDir, RejectFields, OpenProvenance,
              ExecuteStage, AppendComplete, WrapUntyped, AppendHalt, SkippedAll,
              MarkNonFinal, WriteReport, Compare, Crash
<1>4. ASSUME NEW p \in Procs, OpenManifest(p) PROVE Promise!Next
  <2>1. PICK t \in Dirs : t = target[p] /\ manifest[t] = NoManifest
    BY <1>4, OpenIsBlank DEF OpenManifest, Blank
  <2>2. RecordChanges(t, NoManifest, NewManifest)
    BY <1>4, <2>1, ManifestChanges DEF OpenManifest
  <2>3. Promise!Open(t)
    BY <2>2, OpenMaps
  <2>4. QED
    BY <2>3 DEF Promise!Next
<1>5. ASSUME NEW p \in Procs, RecordPassed(p) \/ RecordFailed(p) PROVE Promise!Next
  <2>1. pc[p] \in {"passed", "failed"} /\ pc[p] \in Writing
    BY <1>5 DEF RecordPassed, RecordFailed, Writing
  <2>2. PICK t \in Dirs : t = target[p]
    BY <2>1, WritersUnsealed
  <2>3. PICK v \in {"PASSED", "FAILED"} : RecordStage(p, stage[p], v)
    BY <1>5 DEF RecordPassed, RecordFailed
  <2> DEFINE m == handle[p]
             k == stage[p]
  <2>4. /\ k \in PIPELINE /\ m \in ManifestFile /\ manifest[t] = m
        /\ InStep(pc[p], k, executed[p], outcome[p], nextSeq[p], m, files[t])
    BY <2>1, <2>2, WriterFacts
  <2>5. RecordChanges(t, m, WithStage(m, k, v))
    <3>1. UNCHANGED <<sealedAs, edited>>
      BY <1>5 DEF RecordPassed, RecordFailed
    <3>2. manifest' = [manifest EXCEPT ![t] = WithStage(m, k, v)]
      BY <2>2, <2>3 DEF RecordStage
    <3>3. QED
      BY <2>1, <2>2, <2>4, <3>1, <3>2, ManifestChanges
  <2>6. m.state = "PENDING"
        /\ Shape(m, files[t], k - 1, k - 1, k - 1, RunState(outcome[p]))
    BY <2>1, <2>4 DEF InStep, Running
  <2> HIDE DEF m, k
  <2>7. Promise!Record(t, v)
    BY <2>4, <2>5, <2>6, RecordRunMaps
  <2>8. QED
    BY <2>7 DEF Promise!Next
<1>6. ASSUME NEW p \in Procs, SkipStage(p) PROVE Promise!Next
  <2> DEFINE m == handle[p]
             n == Len(m.stages) + 1
  <2>1. /\ pc[p] = "skip" /\ pc[p] \in Writing /\ n <= NStages
        /\ RecordStage(p, n, "SKIPPED_BOUNDARY")
        /\ UNCHANGED <<sealedAs, edited>>
    BY <1>6 DEF SkipStage, Writing
  <2>2. PICK t \in Dirs : t = target[p]
    BY <2>1, WritersUnsealed
  <2>3. /\ stage[p] \in PIPELINE /\ outcome[p] \in Outcome
        /\ m \in ManifestFile /\ manifest[t] = m
        /\ InStep("skip", stage[p], executed[p], outcome[p], nextSeq[p], m, files[t])
    BY <2>1, <2>2, WriterFacts
  <2>4. RecordChanges(t, m, WithStage(m, n, "SKIPPED_BOUNDARY"))
    <3>1. manifest' = [manifest EXCEPT ![t] = WithStage(m, n, "SKIPPED_BOUNDARY")]
      BY <2>1, <2>2 DEF RecordStage
    <3>2. QED
      BY <2>1, <2>2, <2>3, <3>1, ManifestChanges
  <2>5. ~\A i \in 1..Len(m.stages) : m.stages[i].state = "PASSED"
    BY <2>3, InStepSkipped
  <2>6. m.state = "PENDING"
    BY <2>3 DEF InStep
  <2>7. n \in PIPELINE
    <3>1. m.stages \in Seq(StageRecord)
      BY <2>3 DEF ManifestFile, ManifestWith
    <3>2. Len(m.stages) \in Nat
      BY <3>1
    <3>3. QED
      BY <2>1, <3>2, NStagesAssumption DEF PIPELINE
  <2> HIDE DEF m
  <2>8. Promise!Record(t, "SKIPPED_BOUNDARY")
    BY <2>3, <2>4, <2>5, <2>6, <2>7, RecordSkipMaps
  <2>9. QED
    BY <2>8 DEF Promise!Next
<1>7. ASSUME NEW p \in Procs, Seal(p) PROVE Promise!Next
  <2> DEFINE m == handle[p]
             o == outcome[p]
  <2>1. pc[p] = "seal" /\ pc[p] \in Writing
    BY <1>7 DEF Seal, Writing
  <2>2. PICK t \in Dirs : t = target[p]
    BY <2>1, WritersUnsealed
  <2>3. /\ manifest' = [manifest EXCEPT ![t] = SealManifest(m, files[t], RunState(o))]
        /\ \A d \in Dirs : d # t => sealedAs'[d] = sealedAs[d]
        /\ edited' = edited
    BY <1>7, <2>2 DEF Seal, TypeInv, TypeOK
  <2>4. /\ stage[p] \in PIPELINE /\ o \in Outcome
        /\ m \in ManifestFile /\ manifest[t] = m
        /\ InStep("seal", stage[p], executed[p], o, nextSeq[p], m, files[t])
    BY <2>1, <2>2, WriterFacts
  <2>5. RecordChanges(t, m, SealManifest(m, files[t], RunState(o)))
    BY <2>1, <2>2, <2>3, <2>4, ManifestChanges
  <2> HIDE DEF m, o
  <2>6. Promise!Close(t, RunState(o))
    BY <2>4, <2>5, CloseMaps
  <2>7. RunState(o) \in TERMINAL_STATES
    BY <2>4, RunStateType
  <2>8. QED
    BY <2>6, <2>7 DEF Promise!Next, TERMINAL_STATES, Halted, Boundary
<1>8. ASSUME NEW c \in Dirs, EditManifest(c) \/ EditFile(c)
      PROVE  UNCHANGED Promise!vars
  <2>1. /\ IsSealed(manifest[c]) /\ c \notin edited /\ edited' = edited \cup {c}
        /\ sealedAs' = sealedAs
        /\ \A d \in Dirs : d # c => manifest'[d] = manifest[d]
    BY <1>8 DEF EditManifest, EditFile, EditFrom, TypeInv, TypeOK
  <2>2. sealedAs[c].manifest = manifest[c]
    <3>1. sealedAs[c] = [manifest |-> manifest[c], files |-> files[c]]
      BY <2>1 DEF SealInv
    <3>2. QED
      BY <3>1
  <2>3. \A d \in Dirs : Recorded(d)' = Recorded(d)
    BY <2>1, <2>2 DEF Recorded
  <2>4. Life' = Life /\ Books' = Books
    BY <2>3 DEF Life, Books, Verdicts
  <2>5. QED
    BY <2>4 DEF Promise!vars, Life, Books, Verdicts
<1>9. CASE UNCHANGED vars
  <2>1. UNCHANGED <<manifest, sealedAs, edited>>
    BY <1>9 DEF vars
  <2>2. QED
    BY <1>1, <2>1
<1>10. QED
  BY <1>1, <1>2, <1>3, <1>4, <1>5, <1>6, <1>7, <1>8, <1>9 DEF Next, Launch, Run

(* Every run directory keeps the promise of RunSpec: a ledger of verdicts  *)
(* in pipeline order and one terminal state that it accounts for.          *)
THEOREM DirectoriesKeepTheirPromise ==
  ASSUME "run" \notin Collisions
  PROVE  Spec /\ []Unraced => ImplementsRunSpec
<1>1. TypeInv /\ WriterInv /\ SealInv /\ LedgerInv /\ [Next]_vars
        => [Promise!Next]_(Promise!vars)
  BY StepMaps
<1>2. QED
  BY <1>1, InitMaps, LedgerInvHolds, PTL DEF Spec, ImplementsRunSpec, Promise!Spec

-----------------------------------------------------------------------------
(* Reruns.  A rerun past its first check has a source that was sealed, and *)
(* stays so; one that compares has sealed its target.  An edited file is   *)
(* one no stage writes, so that equal files come from the seals unless     *)
(* both directories were edited; and two sealed directories with the same  *)
(* files have the same state and records, because each is Consistent.      *)

Gone == {"raised", "crashed"}

RerunInv ==
  /\ \A p \in Procs : source[p] # NoDir /\ pc[p] \notin {"idle"} \cup Gone =>
       IsSealed(manifest[source[p]])
  /\ \A p \in Procs : pc[p] = "idle" => source[p] = NoDir
  /\ \A p \in Procs : pc[p] \in {"compare", "returned"} =>
       IsSealed(manifest[target[p]])
  /\ \A p \in Procs : pc[p] = "compare" => source[p] # NoDir
  /\ \A d \in edited :
       \/ files[d] = sealedAs[d].files
       \/ \E k \in PIPELINE : files[d].art[k] = "foreign"
       \/ files[d].report.state = "none"
  /\ RerunReproduces

LEMMA RerunInvInit == Init => RerunInv
  BY DEF Init, RerunInv, RerunReproduces

(* What was sealed stays sealed, with the same history.                    *)
SealsRemain ==
  /\ \A d \in Dirs : IsSealed(manifest[d]) =>
       IsSealed(manifest'[d]) /\ sealedAs'[d] = sealedAs[d]
  /\ edited \subseteq edited'
  /\ \A d \in edited' :
       \/ d \in edited /\ files'[d] = files[d]
       \/ files'[d] = sealedAs'[d].files
       \/ \E k \in PIPELINE : files'[d].art[k] = "foreign"
       \/ files'[d].report.state = "none"

LEMMA QuietSealsRemain ==
  ASSUME QuietStep
  PROVE  SealsRemain
  BY DEF QuietStep, SealsRemain

LEMMA FileStepSealsRemain ==
  ASSUME TypeInv, WriterInv, SealInv, NEW p \in Procs, NEW fs, FileStep(p, fs)
  PROVE  SealsRemain
<1>1. target[p] \in Dirs /\ target[p] \notin edited
  BY WritersUnsealed DEF FileStep
<1>2. \A d \in edited' : d \in edited /\ files'[d] = files[d]
  BY <1>1 DEF FileStep, TypeInv, TypeOK
<1>3. QED
  BY <1>2 DEF FileStep, SealsRemain

LEMMA ManifestStepSealsRemain ==
  ASSUME TypeInv, WriterInv, SealInv, NEW p \in Procs, NEW m, ManifestStep(p, m)
  PROVE  SealsRemain
<1>1. target[p] \in Dirs /\ ~IsSealed(manifest[target[p]])
  BY WritersUnsealed DEF ManifestStep
<1>2. \A d \in Dirs : IsSealed(manifest[d]) => manifest'[d] = manifest[d]
  BY <1>1 DEF ManifestStep, TypeInv, TypeOK
<1>3. UNCHANGED <<files, sealedAs, edited>>
  BY DEF ManifestStep
<1>4. QED
  BY <1>2, <1>3 DEF SealsRemain

LEMMA SealSealsRemain ==
  ASSUME TypeInv, WriterInv, SealInv, NEW p \in Procs, Seal(p)
  PROVE  SealsRemain
<1>1. pc[p] \in Writing
  BY DEF Seal, Writing
<1>2. target[p] \in Dirs /\ ~IsSealed(manifest[target[p]])
  BY <1>1, WritersUnsealed
<1>3. \A d \in Dirs : IsSealed(manifest[d]) =>
        manifest'[d] = manifest[d] /\ sealedAs'[d] = sealedAs[d]
  BY <1>2 DEF Seal, TypeInv, TypeOK
<1>4. UNCHANGED <<files, edited>>
  BY DEF Seal
<1>5. QED
  BY <1>3, <1>4 DEF SealsRemain

LEMMA EditSealsRemain ==
  ASSUME TypeInv, SealInv, SealInv', NEW c \in Dirs, EditManifest(c) \/ EditFile(c)
  PROVE  SealsRemain
<1>1. /\ IsSealed(manifest[c]) /\ c \notin edited /\ edited' = edited \cup {c}
      /\ sealedAs' = sealedAs
  BY DEF EditManifest, EditFile, EditFrom
<1>2. \A d \in Dirs : d # c => manifest'[d] = manifest[d] /\ files'[d] = files[d]
  BY DEF EditManifest, EditFile, TypeInv, TypeOK
<1>3. edited \subseteq Dirs /\ IsSealed(manifest'[c])
  BY <1>1 DEF SealInv, TypeInv, TypeOK
<1>4. \/ files'[c] = sealedAs[c].files
      \/ \E k \in PIPELINE : files'[c].art[k] = "foreign"
      \/ files'[c].report.state = "none"
  <2>1. files[c] = sealedAs[c].files /\ files[c] \in OtherFiles
    BY <1>1 DEF SealInv, TypeInv, TypeOK
  <2>2. CASE EditManifest(c)
    BY <2>1, <2>2 DEF EditManifest
  <2>3. CASE EditFile(c)
    <3>1. PICK fs \in FileEdits(files[c]) : files' = [files EXCEPT ![c] = fs]
      BY <2>3 DEF EditFile
    <3>2. files'[c] = fs
      BY <3>1 DEF TypeInv, TypeOK
    <3>3. CASE \E k \in PIPELINE : fs = WithArtifacts(files[c], k, "foreign")
      BY <2>1, <3>2, <3>3 DEF WithArtifacts, OtherFiles
    <3>4. CASE fs = WithReport(files[c], NoReport)
      BY <2>1, <3>2, <3>4 DEF WithReport, NoReport, OtherFiles
    <3>5. QED
      BY <3>1, <3>3, <3>4 DEF FileEdits
  <2>4. QED
    BY <2>2, <2>3
<1>5. QED
  BY <1>1, <1>2, <1>3, <1>4 DEF SealsRemain

LEMMA SealsRemainNext ==
  TypeInv /\ WriterInv /\ SealInv /\ SealInv' /\ [Next]_vars => SealsRemain
  BY NextStepKinds, QuietSealsRemain, FileStepSealsRemain, ManifestStepSealsRemain,
     SealSealsRemain, EditSealsRemain
  DEF StepKind, AnyFileStep, AnyManifestStep

(* Two directories that tell of one run each, in the same files, tell of   *)
(* the same run.                                                           *)
LEMMA SameFilesSameRun ==
  ASSUME NEW m, NEW n, NEW fs, Consistent(m, fs), Consistent(n, fs)
  PROVE  m.state = n.state /\ m.stages = n.stages
<1>1. PICK k \in 0..NStages :
        /\ m.stages = Records(IF m.state \in Halted
                                THEN IF k = NStages THEN k ELSE k + 1
                                ELSE NStages, k)
        /\ fs.report = [state |-> m.state, completed |-> k,
                        failed |-> IF k = NStages THEN 0 ELSE k + 1]
  BY DEF Consistent
<1>2. PICK j \in 0..NStages :
        /\ n.stages = Records(IF n.state \in Halted
                                THEN IF j = NStages THEN j ELSE j + 1
                                ELSE NStages, j)
        /\ fs.report = [state |-> n.state, completed |-> j,
                        failed |-> IF j = NStages THEN 0 ELSE j + 1]
  BY DEF Consistent
<1>3. fs.report.state = m.state /\ fs.report.completed = k
  BY <1>1
<1>4. fs.report.state = n.state /\ fs.report.completed = j
  BY <1>2
<1>5. m.state = n.state /\ k = j
  BY <1>3, <1>4
<1>6. QED
  BY <1>1, <1>2, <1>5

(* What p says at the end, of the directories as they were sealed.         *)
Reproduced(s, t) ==
  /\ sealedAs[t].files = sealedAs[s].files
  /\ sealedAs[t].manifest.state = sealedAs[s].manifest.state
  /\ sealedAs[t].manifest.stages = sealedAs[s].manifest.stages

(* Files that compare equal are those of the two seals, unless both        *)
(* directories were edited: a sealed directory holds no foreign file.      *)
LEMMA EqualFilesReproduce ==
  ASSUME TypeInv, SealInv, LedgerInv, RerunInv, NEW s \in Dirs, NEW t \in Dirs,
         IsSealed(manifest[s]), IsSealed(manifest[t]), files[s] = files[t],
         ~({s, t} \subseteq edited)
  PROVE  Reproduced(s, t)
<1>1. \A d \in Dirs \ edited : IsSealed(manifest[d]) =>
        sealedAs[d].files = files[d]
  <2> SUFFICES ASSUME NEW d \in Dirs \ edited, IsSealed(manifest[d])
               PROVE  sealedAs[d].files = files[d]
    OBVIOUS
  <2>1. sealedAs[d] = [manifest |-> manifest[d], files |-> files[d]]
    BY DEF SealInv
  <2>2. QED
    BY <2>1
<1>2. \A d \in Dirs : IsSealed(manifest[d]) =>
        Intact(sealedAs[d].manifest, sealedAs[d].files)
  BY DEF SealInv
<1>3. ASSUME NEW a \in Dirs, NEW b \in Dirs, b \notin edited,
             IsSealed(manifest[a]), IsSealed(manifest[b]), files[a] = files[b]
      PROVE  sealedAs[a].files = sealedAs[b].files
  <2>1. sealedAs[b].files = files[b] /\ Intact(sealedAs[b].manifest, sealedAs[b].files)
    BY <1>1, <1>2, <1>3
  <2>2. CASE a \in edited
    BY <1>3, <2>1, <2>2 DEF RerunInv, Intact
  <2>3. CASE a \notin edited
    BY <1>1, <1>3, <2>1, <2>3
  <2>4. QED
    BY <2>2, <2>3
<1>4. sealedAs[s].files = sealedAs[t].files
  BY <1>3
<1>5. /\ Consistent(sealedAs[s].manifest, sealedAs[s].files)
      /\ Consistent(sealedAs[t].manifest, sealedAs[t].files)
  BY DEF SealInv, LedgerInv
<1>6. QED
  BY <1>4, <1>5, SameFilesSameRun DEF Reproduced

(* How one step may move a process between the phases RerunInv speaks of.  *)
PhaseStep(p) ==
  \/ UNCHANGED <<pc[p], source[p], target[p]>>
  \/ /\ pc[p] # "idle" /\ UNCHANGED <<source[p], target[p]>>
     /\ pc[p] \notin Gone
     /\ pc'[p] \notin {"idle", "compare", "returned"}
  \/ /\ pc[p] = "idle" /\ source'[p] = source[p]
     /\ pc'[p] \notin {"idle", "compare", "returned"}
  \/ /\ pc[p] = "idle" /\ source'[p] \in Dirs
     /\ pc'[p] \notin {"idle", "compare", "returned"}
     /\ pc'[p] \notin Gone => IsSealed(manifest[source'[p]])
  \/ /\ pc[p] = "seal" /\ UNCHANGED <<source[p], target[p]>>
     /\ target[p] \in Dirs /\ IsSealed(manifest'[target[p]])
     /\ pc'[p] = IF source[p] = NoDir THEN "returned" ELSE "compare"
  \/ /\ pc[p] = "compare" /\ UNCHANGED <<source[p], target[p], manifest, sealedAs, edited>>
     /\ pc'[p] = "returned" => files[source[p]] = files[target[p]]
     /\ pc'[p] \in {"returned", "raised"}

LEMMA PhaseStepRerunInv ==
  ASSUME TypeInv, TypeInv', SealInv, LedgerInv, RerunInv, SealsRemain,
         \A p \in Procs : PhaseStep(p)
  PROVE  RerunInv'
<1>1. \A p \in Procs : source[p] \in Dirs \cup {NoDir} /\ source'[p] \in Dirs \cup {NoDir}
  BY DEF TypeInv, TypeOK
<1>2. \A p \in Procs : pc[p] # "idle" => target[p] \in Dirs
  BY DEF TypeInv, Launched
<1>3. ASSUME NEW p \in Procs, source'[p] # NoDir, pc'[p] \notin {"idle"} \cup Gone
      PROVE  IsSealed(manifest'[source'[p]])
  <2>1. source'[p] \in Dirs
    BY <1>1, <1>3
  <2>2. IsSealed(manifest[source'[p]])
    BY <1>3 DEF PhaseStep, RerunInv, Gone
  <2>3. QED
    BY <2>1, <2>2 DEF SealsRemain
<1>4. \A p \in Procs : pc'[p] = "idle" => source'[p] = NoDir
  BY DEF PhaseStep, RerunInv, Gone
<1>5. ASSUME NEW p \in Procs, pc'[p] \in {"compare", "returned"}
      PROVE  IsSealed(manifest'[target'[p]])
  BY <1>2, <1>5 DEF PhaseStep, RerunInv, SealsRemain
<1>6. \A p \in Procs : pc'[p] = "compare" => source'[p] # NoDir
  BY DEF PhaseStep, RerunInv
<1>7. \A d \in edited' :
        \/ files'[d] = sealedAs'[d].files
        \/ \E k \in PIPELINE : files'[d].art[k] = "foreign"
        \/ files'[d].report.state = "none"
  <2> SUFFICES ASSUME NEW d \in edited', d \in edited, files'[d] = files[d]
               PROVE  \/ files'[d] = sealedAs'[d].files
                      \/ \E k \in PIPELINE : files'[d].art[k] = "foreign"
                      \/ files'[d].report.state = "none"
    BY DEF SealsRemain
  <2>1. d \in Dirs /\ IsSealed(manifest[d])
    BY DEF SealInv, TypeInv, TypeOK
  <2>2. sealedAs'[d] = sealedAs[d]
    BY <2>1 DEF SealsRemain
  <2>3. QED
    BY <2>2 DEF RerunInv
<1>8. ASSUME NEW p \in Procs, pc'[p] = "returned", source'[p] # NoDir,
             ~({source'[p], target'[p]} \subseteq edited')
      PROVE  Reproduced(source[p], target[p])' /\ UNCHANGED <<source[p], target[p]>>
  <2>1. \/ pc[p] = "returned" /\ UNCHANGED <<pc[p], source[p], target[p]>>
        \/ /\ pc[p] = "compare" /\ UNCHANGED <<source[p], target[p], manifest, sealedAs, edited>>
           /\ files[source[p]] = files[target[p]]
    BY <1>8 DEF PhaseStep
  <2>2. /\ source[p] \in Dirs /\ target[p] \in Dirs
        /\ IsSealed(manifest[source[p]]) /\ IsSealed(manifest[target[p]])
        /\ ~({source[p], target[p]} \subseteq edited)
    BY <1>1, <1>2, <1>8, <2>1 DEF RerunInv, SealsRemain, Gone
  <2>3. Reproduced(source[p], target[p])
    <3>1. CASE pc[p] = "returned"
      BY <2>1, <2>2, <1>8, <3>1 DEF RerunInv, RerunReproduces, Reproduced
    <3>2. CASE pc[p] = "compare"
      BY <2>1, <2>2, <3>2, EqualFilesReproduce
    <3>3. QED
      BY <2>1, <3>1, <3>2
  <2>4. /\ sealedAs'[source[p]] = sealedAs[source[p]]
        /\ sealedAs'[target[p]] = sealedAs[target[p]]
    BY <2>2 DEF SealsRemain
  <2>5. QED
    BY <2>1, <2>3, <2>4 DEF Reproduced
<1>9. RerunReproduces'
  BY <1>8 DEF RerunReproduces, Reproduced
<1>10. QED
  BY <1>3, <1>4, <1>5, <1>6, <1>7, <1>9 DEF RerunInv

(* A step that leaves p where it was, or is p's own.                       *)
LEMMA PhaseStepNext ==
  ASSUME TypeInv, TypeInv', WriterInv, SealInv, SealInv', RerunInv, [Next]_vars,
         NEW p \in Procs
  PROVE  PhaseStep(p)
<1> USE DEF Goto, disk, local, ghost
<1>1. CASE UNCHANGED <<pc, source, target>>
  BY <1>1 DEF PhaseStep
<1>2. ASSUME NEW q \in Procs, NEW d \in Dirs, LaunchRun(q, d) PROVE PhaseStep(p)
  BY <1>2 DEF LaunchRun, PhaseStep, TypeInv, TypeOK
<1>3. ASSUME NEW q \in Procs, NEW s \in Dirs, NEW d \in Dirs, LaunchRerun(q, s, d)
      PROVE  PhaseStep(p)
  <2>1. CASE p = q
    <3>1. pc[p] = "idle" /\ source'[p] = s
      BY <1>3, <2>1 DEF LaunchRerun, TypeInv, TypeOK
    <3>2. pc'[p] = IF VerifySeal(manifest[s], files[s]) THEN "exists" ELSE "raised"
      BY <1>3, <2>1 DEF LaunchRerun, TypeInv, TypeOK
    <3>3. QED
      BY <3>1, <3>2 DEF PhaseStep, Gone, VerifySeal
  <2>2. CASE p # q
    BY <1>3, <2>2 DEF LaunchRerun, PhaseStep, TypeInv, TypeOK
  <2>3. QED
    BY <2>1, <2>2
<1>4. ASSUME NEW q \in Procs, UNCHANGED <<source, target>>, pc[q] \notin {"idle"} \cup Ended,
             NEW l, l \notin {"idle", "compare", "returned"}, pc' = [pc EXCEPT ![q] = l]
      PROVE  PhaseStep(p)
  BY <1>4 DEF PhaseStep, Gone, Ended, TypeInv, TypeOK
<1>5. ASSUME NEW q \in Procs,
             \/ CheckTarget(q) \/ RefuseRegistry(q) \/ MakeDir(q) \/ RejectFields(q)
             \/ OpenManifest(q) \/ RecordPassed(q) \/ WrapUntyped(q)
             \/ RecordFailed(q) \/ SkippedAll(q) \/ MarkNonFinal(q) \/ WriteReport(q)
      PROVE  PhaseStep(p)
  <2>1. /\ UNCHANGED <<source, target>> /\ pc[q] \notin {"idle"} \cup Ended
        /\ \E l : l \notin {"idle", "compare", "returned"} /\ pc' = [pc EXCEPT ![q] = l]
    BY <1>5 DEF CheckTarget, RefuseRegistry, MakeDir, RejectFields, OpenManifest,
                RecordPassed, WrapUntyped, RecordFailed, SkippedAll, MarkNonFinal,
                WriteReport, Ended
  <2>2. QED
    BY <2>1, <1>4
<1>6. ASSUME NEW q \in Procs, OpenProvenance(q) \/ AppendHalt(q) PROVE PhaseStep(p)
  <2>1. /\ UNCHANGED <<source, target>> /\ pc[q] \notin {"idle"} \cup Ended
        /\ \E l : l \notin {"idle", "compare", "returned"} /\ pc' = [pc EXCEPT ![q] = l]
    BY <1>6 DEF OpenProvenance, AppendHalt, Ended
  <2>2. QED
    BY <2>1, <1>4
<1>7. ASSUME NEW q \in Procs, ExecuteStage(q) PROVE PhaseStep(p)
  <2>1. PICK o \in Outcome :
          pc' = [pc EXCEPT ![q] = CASE o = "passed"  -> "passed"
                                    [] o = "untyped" -> "wrap"
                                    [] OTHER         -> "failed"]
    BY <1>7 DEF ExecuteStage
  <2>2. /\ UNCHANGED <<source, target>> /\ pc[q] \notin {"idle"} \cup Ended
        /\ \E l : l \notin {"idle", "compare", "returned"} /\ pc' = [pc EXCEPT ![q] = l]
    BY <1>7, <2>1 DEF ExecuteStage, Ended
  <2>3. QED
    BY <2>2, <1>4
<1>8. ASSUME NEW q \in Procs, AppendComplete(q) PROVE PhaseStep(p)
  <2>1. /\ UNCHANGED <<source, target>> /\ pc[q] \notin {"idle"} \cup Ended
        /\ \E l : l \notin {"idle", "compare", "returned"} /\ pc' = [pc EXCEPT ![q] = l]
    BY <1>8 DEF AppendComplete, Ended
  <2>2. QED
    BY <2>1, <1>4
<1>9. ASSUME NEW q \in Procs, Crash(q) PROVE PhaseStep(p)
  <2>1. UNCHANGED <<source, target>> /\ pc' = [pc EXCEPT ![q] = "crashed"]
    BY <1>9 DEF Crash
  <2>2. pc[q] \notin {"idle"} \cup Ended
    BY <1>9 DEF Crash, Live
  <2>3. QED
    BY <2>1, <2>2, <1>4
<1>10. ASSUME NEW q \in Procs, SkipStage(q) PROVE PhaseStep(p)
  BY <1>10 DEF SkipStage, PhaseStep
<1>11. ASSUME NEW q \in Procs, Seal(q) PROVE PhaseStep(p)
  <2>1. CASE p = q
    <3> DEFINE z == SealManifest(handle[p], files[target[p]], RunState(outcome[p]))
    <3>1. pc[p] = "seal" /\ pc[p] \in Writing /\ UNCHANGED <<source, target>>
      BY <1>11, <2>1 DEF Seal, Writing
    <3>2. /\ target[p] \in Dirs /\ handle[p] \in ManifestFile
          /\ files[target[p]] \in OtherFiles /\ outcome[p] \in Outcome
          /\ ~IsSealed(handle[p]) /\ handle[p].canonical
      BY <3>1, WritersUnsealed DEF TypeInv, TypeOK, SealInv
    <3>3. IsSealed(z)
      BY <3>1, <3>2, SealManifestVerifies, RunStateType DEF SealInv
    <3>4. manifest' = [manifest EXCEPT ![target[p]] = z]
      BY <1>11, <2>1 DEF Seal
    <3> HIDE DEF z
    <3>5. manifest'[target[p]] = z
      BY <3>2, <3>4 DEF TypeInv, TypeOK
    <3>6. pc'[p] = IF source[p] = NoDir THEN "returned" ELSE "compare"
      BY <1>11, <2>1 DEF Seal, TypeInv, TypeOK
    <3>7. QED
      BY <3>1, <3>2, <3>3, <3>5, <3>6 DEF PhaseStep
  <2>2. CASE p # q
    BY <1>11, <2>2 DEF Seal, PhaseStep, TypeInv, TypeOK
  <2>3. QED
    BY <2>1, <2>2
<1>12. ASSUME NEW q \in Procs, Compare(q) PROVE PhaseStep(p)
  BY <1>12 DEF Compare, PhaseStep, TypeInv, TypeOK
<1>13. ASSUME NEW d \in Dirs, EditManifest(d) \/ EditFile(d) PROVE PhaseStep(p)
  BY <1>13, <1>1 DEF EditManifest, EditFile, EditFrom
<1>14. QED
  BY <1>1, <1>2, <1>3, <1>5, <1>6, <1>7, <1>8, <1>9, <1>10, <1>11, <1>12, <1>13
  DEF Next, Launch, Run, vars

(* A rerun that returns has reproduced its source as it was sealed, unless *)
(* both directories were edited.                                           *)
THEOREM RerunsReproduce ==
  ASSUME "run" \notin Collisions
  PROVE  Spec /\ []Unraced => []RerunReproduces
<1> DEFINE Inv == TypeInv /\ WriterInv /\ SealInv /\ LedgerInv /\ RerunInv
<1>1. Inv /\ Unraced /\ [Next]_vars => Inv'
  <2> SUFFICES ASSUME Inv, Unraced, [Next]_vars PROVE Inv'
    OBVIOUS
  <2>1. TypeInv' /\ WriterInv' /\ SealInv'
    BY TypeInvNext, WriterInvNext, SealInvNext
  <2>2. LedgerInv'
    BY <2>1, LedgerInvNext
  <2>3. SealsRemain /\ \A p \in Procs : PhaseStep(p)
    BY <2>1, SealsRemainNext, PhaseStepNext
  <2>4. RerunInv'
    BY <2>1, <2>3, PhaseStepRerunInv
  <2>5. QED
    BY <2>1, <2>2, <2>4
<1>2. Init => Inv
  BY TypeInvInit, WriterInvInit, SealInvInit, LedgerInvInit, RerunInvInit
<1>3. Inv => RerunReproduces
  BY DEF RerunInv
<1>4. QED
  BY <1>1, <1>2, <1>3, PTL DEF Spec
=============================================================================
