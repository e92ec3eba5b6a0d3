-------------------------- MODULE MCStudyPipeline --------------------------
(* StudyPipeline on one study for each thing that can be different.       *)
EXTENDS StudyPipeline

X == <<"X">>
M == <<"M">>
N == <<"N">>
Y == <<"Y">>

(* X -> M -> Y with the direct edge X -> Y.                               *)
Mediation ==
  [constructs |-> <<X, M, Y>>,
   direct     |-> << <<X, M>>, <<M, Y>>, <<X, Y>> >>,
   indirect   |-> << <<X, M, Y>> >>,
   enough |-> TRUE, verdict |-> "approve", markers |-> FALSE,
   misfit |-> FALSE, respecs |-> 0]

MarkedStudy == [Mediation EXCEPT !.markers = TRUE]

Misfit == [Mediation EXCEPT !.markers = TRUE, !.misfit = TRUE, !.respecs = 2]

MisfitUnremedied == [Mediation EXCEPT !.misfit = TRUE]

TooSmall == [Mediation EXCEPT !.enough = FALSE]

Rejected == [Mediation EXCEPT !.verdict = "reject"]

FullMediation == [Mediation EXCEPT !.direct = << <<X, M>>, <<M, Y>> >>]

Unmediated == [Mediation EXCEPT !.indirect = <<>>]

ParallelMediation ==
  [Mediation EXCEPT
     !.constructs = <<X, M, N, Y>>,
     !.direct = << <<X, M>>, <<M, Y>>, <<X, N>>, <<N, Y>>, <<X, Y>> >>,
     !.indirect = << <<X, M, Y>>, <<X, N, Y>> >>]

(* Codes A, B_C, A_B and C: the pairs (A, B_C) and (A_B, C) join alike.   *)
Underscored ==
  [Mediation EXCEPT
     !.constructs = << <<"A">>, <<"B", "C">>, <<"A", "B">>, <<"C">> >>,
     !.direct = << << <<"A">>, <<"B", "C">> >>, << <<"B", "C">>, <<"C">> >>,
                   << <<"A">>, <<"C">> >> >>,
     !.indirect = << << <<"A">>, <<"B", "C">>, <<"C">> >> >>]

Unstructured == [Unmediated EXCEPT !.direct = <<>>]

(* One factor and its items; a hypothesis about itself passes V4 and V5.   *)
OneFactor ==
  [Mediation EXCEPT !.constructs = <<X>>, !.direct = << <<X, X>> >>,
                    !.indirect = << <<X, X, X>> >>]

(* The construct X and the link X -> M are declared twice.                 *)
Doubled ==
  [Mediation EXCEPT !.constructs = <<X, M, X, Y>>,
                    !.direct = << <<X, M>>, <<X, M>>, <<M, Y>>, <<X, Y>> >>]

(* The link X -> M declared twice, and H2 again under another name.        *)
Repeated ==
  [FullMediation EXCEPT !.direct = << <<X, M>>, <<M, Y>>, <<X, M>> >>,
                        !.indirect = << <<X, M, Y>>, <<X, M, Y>> >>]

MCStudies == {Mediation, MarkedStudy, Misfit, MisfitUnremedied, TooSmall, Rejected,
  FullMediation, Unmediated, ParallelMediation, Underscored, Unstructured, OneFactor,
  Doubled, Repeated}

MCForgedRows ==
  {[step |-> 5, status |-> "completed"], [step |-> 12, status |-> "completed"],
   [step |-> 12, status |-> "flagged"], [step |-> 21, status |-> "completed"]}

MCParallel == {ParallelMediation}

MCFull == {FullMediation}

MCNoRows == {}
=============================================================================
