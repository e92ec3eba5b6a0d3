---------------------------- MODULE StagePrograms ----------------------------
(***************************************************************************)
(* What the thirteen stages of src/burhan/stages do to the run directory,  *)
(* in the order they do it: for each stage the sequence of the steps of    *)
(* its execute, on a given study.  The statistics are left out; what a     *)
(* study makes the stages do differently is in the record of the study.    *)
(*                                                                         *)
(*   constructs  the construct codes, in the contract's order              *)
(*   direct      the direct hypotheses, as pairs <<from, to>>; R reports   *)
(*               a link that two of them declare once                      *)
(*   indirect    the indirect hypotheses, as triples <<from, via, to>>     *)
(*   enough      whether N:q reaches the floor of the playbook             *)
(*   verdict     what Node C answers at Gate 1                             *)
(*   markers     whether a method marker is declared                       *)
(*   misfit      whether the measurement model fails a fit band            *)
(*   respecs     how many modifications the respecification then applies   *)
(*                                                                         *)
(* Each construct has one item, of the construct's code.  A code is made   *)
(* of letters, digits and underscores, and there is at least one construct *)
(* with items.                                                             *)
(***************************************************************************)
EXTENDS Evidence, Selection

Code == Seq(STRING \ {"->", ".via"})

Study ==
  [constructs : Seq(Code) \ {<<>>}, direct : Seq(Code \X Code), indirect : Seq(Code \X Code \X Code),
   enough : BOOLEAN, verdict : {"approve", "reject"}, markers : BOOLEAN,
   misfit : BOOLEAN, respecs : Nat]

Pipeline == <<"ingest", "contract", "gate1", "power", "prep", "assumptions",
  "measurement", "structural", "effects", "robustness", "narrate", "gate2",
  "package">>

(* consumes and produces, as the stages declare them.                      *)
Consumes == <<
  {}, {"ingest"}, {"config"}, {"config", "ingest"}, {"config"}, {"frame"},
  {"frame", "config"}, {"frame", "config"}, {"frame", "config"},
  {"frame", "config"}, {"structural", "effects"}, {"draft"}, {"verdict2"} >>

Produces == <<
  {"ingest"}, {"config"}, {"verdict1"}, {}, {"frame"}, {},
  {"measurement"}, {"structural"}, {"effects"}, {}, {"draft"}, {"verdict2"},
  {"checklist", "package"} >>

Artifacts == {"advisory"} \cup UNION {Produces[k] : k \in DOMAIN Produces}

-----------------------------------------------------------------------------
(* The steps.                                                              *)

Read(a)      == [op |-> "read", what |-> a]          \* reload an artifact
File(a)      == [op |-> "file", what |-> a]          \* write an artifact
Record(a)    == [op |-> "record", what |-> a]        \* its provenance entry
Compute(f)   == [op |-> "compute", what |-> f]       \* may end in a halt
Call(id)     == [op |-> "call", what |-> <<id, 0>>]  \* an R worker call
CallNth(id, m) == [op |-> "call", what |-> <<id, m>>]
Row(id)      == [op |-> "row", what |-> id]          \* ResultsStore.write
Journal      == [op |-> "journal", what |-> "open"]  \* Compliance(...)
Mark(n, st)  == [op |-> "mark", what |-> [step |-> n, status |-> st]]
OpenLog(h)   == [op |-> "log", what |-> h]           \* DecisionLog(...)
Decide(h)    == [op |-> "decide", what |-> h]        \* DecisionLog.append
Render       == [op |-> "render", what |-> "checklist"]
Stop(s)      == [op |-> "stop", what |-> s]          \* raise a halt

WriteUnrecorded(a) == <<File(a)>>                       \* a mutated form

WriteArtifact(a) == <<File(a), Record(a)>>

Rows(ids) == [i \in 1..Len(ids) |-> Row(ids[i])]

Bare(stage, family) == <<stage, family, <<>>>>

Arrow(a, b) == a \o <<"->">> \o b

-----------------------------------------------------------------------------
(* The rows of serialize.py and of the helpers in stats.                   *)

PowerRows == Rows(<<
  <<"power", "close_fit", <<"estimate">>>>, <<"power", "n_to_q", <<"ratio">>>>,
  Bare("power", "montecarlo")>>)

PrepRows == Rows(<<
  Bare("prep", "n_chain"), Bare("prep", "screening"),
  Bare("prep", "missingness"), Bare("prep", "outliers")>>)

AssumptionsRows == Rows(<<
  <<"assumptions", "normality", <<"mardia_skew_p">>>>,
  <<"assumptions", "normality", <<"mardia_kurtosis_p">>>>,
  <<"assumptions", "normality", <<"max_abs_skewness">>>>,
  <<"assumptions", "normality", <<"max_abs_kurtosis">>>>,
  Bare("assumptions", "collinearity"), Bare("assumptions", "estimator")>>)

(* The pairs of constructs in the order of the HTMT matrix.                *)
PairsOf(cs) ==
  LET n      == Len(cs)
      row(p) == (p - 1) \div n + 1
      col(p) == ((p - 1) % n) + 1
  IN  EntriesAt([p \in 1..(n * n) |-> <<cs[row(p)], cs[col(p)]>>],
                {p \in 1..(n * n) : row(p) < col(p)})

MeasurementRows(study) ==
  LET cs    == study.constructs
      items == EachOnce(cs)
      ps    == PairsOf(cs)
  IN  Rows(<<Bare("measurement", "spec")>>
        \o [i \in 1..Len(items) |-> <<"measurement", "loadings", items[i]>>]
        \o [i \in 1..(2 * Len(cs)) |->
             <<"measurement", IF i % 2 = 1 THEN "reliability" ELSE "convergent",
               cs[(i + 1) \div 2]>>]
        \o [i \in 1..Len(ps) |->
             <<"measurement", "discriminant", ps[i][1] \o ps[i][2]>>]
        \o <<Bare("measurement", "item_deletion")>>)

StructuralRows(study) ==
  LET ds   == EachOnce(study.direct)
      ends == EachOnce([i \in 1..Len(ds) |-> ds[i][2]])
  IN  Rows([i \in 1..5 |->
              <<"structural", "fit",
                <<(<<"chisq", "cfi", "tli", "rmsea", "srmr">>)[i]>>>>]
        \o [i \in 1..Len(ds) |-> <<"structural", "path", Arrow(ds[i][1], ds[i][2])>>]
        \o [i \in 1..Len(ends) |-> <<"structural", "r_squared", ends[i]>>])

(* A total effect is reported when the model has the direct edge; the      *)
(* chain links of an accepted contract are among its direct hypotheses.    *)
HasTotal(study, i) ==
  LET h == study.indirect[i]
  IN  Has(study.direct, <<h[1], h[3]>>)

(* For each indirect hypothesis its indirect effect, the total effect if   *)
(* there is one, and the classification.                                   *)
EffectsRows(study) ==
  LET ds == EachOnce(study.direct)
      hs == study.indirect
      Of(p) == (p + 2) \div 3
      Kind(p) == (<<"indirect", "total", "classification">>)[((p - 1) % 3) + 1]
      Row3(p) ==
        LET h == hs[Of(p)]
        IN  <<"effects", Kind(p),
              IF Kind(p) = "total" THEN Arrow(h[1], h[3])
              ELSE Arrow(h[1], h[3]) \o <<".via">> \o h[2]>>
      slots == 1..(3 * Len(hs))
  IN  Rows([i \in 1..Len(ds) |-> <<"effects", "direct", Arrow(ds[i][1], ds[i][2])>>]
           \o EntriesAt([p \in slots |-> Row3(p)],
                        {p \in slots : Kind(p) = "total" => HasTotal(study, Of(p))}))

RobustnessRows == Rows(<<
  <<"robustness", "alternatives", <<"reversed_paths", "delta_aic">>>>,
  <<"robustness", "alternatives", <<"reversed_paths", "delta_bic">>>>,
  <<"robustness", "alternatives", <<"reversed_paths", "preferred">>>>,
  Bare("robustness", "achieved_power")>>)

-----------------------------------------------------------------------------
(* The execute of each stage.                                              *)

Ingest(study) == <<Compute("read_export")>> \o WriteArtifact("ingest")

Contract(study) == <<Compute("node_a")>> \o WriteArtifact("config")

Gate1(study) ==
  <<Read("config"), Compute("node_c")>> \o WriteArtifact("verdict1")
  \o (IF study.verdict = "approve" THEN <<>> ELSE <<Stop("HALTED_GATE")>>)

Power(study) ==
  <<Read("config"), Read("ingest")>>
  \o IF study.enough
       THEN <<Call("power-montecarlo")>> \o PowerRows
            \o <<Journal, Mark(1, "completed")>>
       ELSE WriteArtifact("advisory") \o <<Stop("COMPLETED_TO_BOUNDARY")>>

PrepUnrecorded(study) ==                                \* a mutated form
  <<Read("config"), Compute("run_prep")>> \o WriteUnrecorded("frame")
  \o PrepRows
  \o <<Journal, Mark(2, "completed"), Mark(3, "completed"), Mark(4, "completed")>>

Prep(study) ==
  <<Read("config"), Compute("run_prep")>> \o WriteArtifact("frame")
  \o PrepRows
  \o <<Journal, Mark(2, "completed"), Mark(3, "completed"), Mark(4, "completed")>>

Assumptions(study) ==
  <<Read("frame"), OpenLog(1), Compute("estimator_determination"), Decide(1)>>
  \o AssumptionsRows
  \o <<Journal, Mark(5, "completed"), Mark(6, "completed"), Mark(7, "completed")>>

(* PB-12, conditioned on the data.                                         *)
AssessCmb(study) ==
  IF study.markers
    THEN <<Call("measurement-cmb"),
           Row(<<"measurement", "cmb", <<"method_variance_share">>>>),
           Mark(12, "completed")>>
    ELSE <<Mark(12, "flagged")>>

(* PB-14, conditioned on the data, behind its own decision log.            *)
AssessRespecification(study, h) ==
  <<OpenLog(h)>>
  \o IF study.misfit
    THEN <<Call("measurement-respec-base")>>
         \o [i \in 1..(2 * study.respecs) |->
              IF i % 2 = 1 THEN CallNth("measurement-respec", (i + 1) \div 2)
                           ELSE Decide(h)]
         \o <<Row(<<"measurement", "respecification", <<"modifications">>>>),
              Mark(14, "completed")>>
    ELSE <<Mark(14, "flagged")>>

MeasurementMarksCmbLate(study) ==                       \* a mutated form
  <<Read("frame"), Read("config"), Call("measurement"), OpenLog(1),
    Call("measurement-deletion-base"), Decide(1)>>
  \o WriteArtifact("measurement") \o MeasurementRows(study)
  \o <<Journal, Mark(8, "completed"), Mark(9, "completed"),
       Mark(10, "completed"), Mark(11, "completed"), Mark(13, "completed")>>
  \o AssessCmb(study)
  \o AssessRespecification(study, 2)

Measurement(study) ==
  <<Read("frame"), Read("config"), Call("measurement"), OpenLog(1),
    Call("measurement-deletion-base"), Decide(1)>>
  \o WriteArtifact("measurement") \o MeasurementRows(study)
  \o <<Journal, Mark(8, "completed"), Mark(9, "completed"),
       Mark(10, "completed"), Mark(11, "completed")>>
  \o AssessCmb(study)
  \o <<Mark(13, "completed")>>
  \o AssessRespecification(study, 2)

(* A contract without a direct hypothesis is refused by the stage.         *)
Structural(study) ==
  <<Read("frame"), Read("config")>>
  \o IF study.direct = <<>> THEN <<Stop("HALTED_INTEGRITY")>>
     ELSE <<Call("structural")>> \o WriteArtifact("structural")
          \o StructuralRows(study)
          \o <<Journal, Mark(15, "completed"), Mark(16, "completed")>>

(* A contract without an indirect hypothesis is refused by the stage.      *)
Effects(study) ==
  <<Read("frame"), Read("config")>>
  \o IF study.indirect = <<>> THEN <<Stop("HALTED_INTEGRITY")>>
     ELSE <<Call("effects")>> \o WriteArtifact("effects")
          \o EffectsRows(study) \o <<Journal, Mark(17, "completed")>>

RobustnessOneCallId(study) ==                           \* a mutated form
  <<Read("frame"), Read("config"), Call("robustness-alternatives"),
    Call("robustness-alternatives"), Read("frame")>>
  \o RobustnessRows
  \o <<Journal, Mark(18, "completed"), Mark(19, "completed")>>

Robustness(study) ==
  <<Read("frame"), Read("config"), Call("robustness-alternatives-retained"),
    Call("robustness-alternatives-reversed_paths"), Read("frame")>>
  \o RobustnessRows
  \o <<Journal, Mark(18, "completed"), Mark(19, "completed")>>

StubNarrate(study) == WriteArtifact("draft") \o <<Journal, Mark(20, "flagged")>>

StubGate2(study) == WriteArtifact("verdict2")

StubPackage(study) ==
  <<Journal, Mark(21, "flagged"), Render, File("checklist")>>
  \o WriteArtifact("package")

Program(k, study) ==
  CASE Pipeline[k] = "ingest"      -> Ingest(study)
    [] Pipeline[k] = "contract"    -> Contract(study)
    [] Pipeline[k] = "gate1"       -> Gate1(study)
    [] Pipeline[k] = "power"       -> Power(study)
    [] Pipeline[k] = "prep"        -> Prep(study)
    [] Pipeline[k] = "assumptions" -> Assumptions(study)
    [] Pipeline[k] = "measurement" -> Measurement(study)
    [] Pipeline[k] = "structural"  -> Structural(study)
    [] Pipeline[k] = "effects"     -> Effects(study)
    [] Pipeline[k] = "robustness"  -> Robustness(study)
    [] Pipeline[k] = "narrate"     -> StubNarrate(study)
    [] Pipeline[k] = "gate2"       -> StubGate2(study)
    [] Pipeline[k] = "package"     -> StubPackage(study)
=============================================================================
