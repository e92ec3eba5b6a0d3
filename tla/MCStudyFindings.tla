--------------------------- MODULE MCStudyFindings ---------------------------
(***************************************************************************)
(* StudyFindings on the contracts that differ from a good one in what the  *)
(* validators, the payloads and the reports can tell apart: every choice   *)
(* of hypotheses from a pool, in the order of the pool, and one change of  *)
(* the instrument, of the constructs or of the ids.                        *)
(***************************************************************************)
EXTENDS StudyFindings

Hyp(effect, from, to, via, sign) ==
  [id |-> "", effect |-> effect, from |-> from, to |-> to, via |-> via, sign |-> sign]

Pool ==
  << Hyp("direct", "X", "M", <<>>, "positive"), Hyp("direct", "M", "Y", <<>>, "positive"),
     Hyp("direct", "X", "Y", <<>>, "negative"), Hyp("direct", "X", "Z", <<>>, "positive"),
     Hyp("indirect", "X", "Y", <<"M">>, "positive"), Hyp("indirect", "X", "Y", <<>>, "positive"),
     Hyp("indirect", "X", "Y", <<"M">>, "negative"), Hyp("total", "X", "Y", <<>>, "positive") >>

HypothesisIds == <<"H1", "H2", "H3", "H4", "H5", "H6", "H7", "H8">>

Numbered(hs) == [k \in DOMAIN hs |-> [hs[k] EXCEPT !.id = HypothesisIds[k]]]

Chosen(S) == Numbered(SelectSeq(Pool, LAMBDA h : \E k \in S : Pool[k] = h))

WithHypotheses(hs) ==
  [level |-> [k \in {"X", "M", "Y"} |-> "first_order"],
   components |-> <<>>, carrier |-> "none",
   construct_ref |-> [i \in {"x1", "x2", "m1", "m2", "y1", "y2"} |->
     IF i \in {"x1", "x2"} THEN "X" ELSE IF i \in {"m1", "m2"} THEN "M" ELSE "Y"],
   indicators |-> [k \in {"X", "M", "Y"} |->
     IF k = "X" THEN <<"x1", "x2">> ELSE IF k = "M" THEN <<"m1", "m2">> ELSE <<"y1", "y2">>],
   reverse_coded |-> {}, exogenous |-> {"X"}, endogenous |-> {"M", "Y"},
   mediators |-> {"M"}, hypotheses |-> hs]

Good == WithHypotheses(Chosen({1, 2, 3, 5, 8}))

WithSecondOrder(S, carrier) ==
  [Good EXCEPT !.level = [k \in {"X", "M", "Y"} \cup S |->
                            IF k \in S THEN "second_order" ELSE "first_order"],
               !.components = [k \in S |-> <<"X", "M">>], !.carrier = carrier]

Changed ==
  {[Good EXCEPT !.construct_ref["x1"] = "Z"], [Good EXCEPT !.indicators["X"] = <<"x1", "x9">>],
   [Good EXCEPT !.indicators["X"] = <<"x1">>], [Good EXCEPT !.mediators = {}],
   [Good EXCEPT !.endogenous = {"Y", "Z"}], [Good EXCEPT !.reverse_coded = {"x1"}],
   [Good EXCEPT !.hypotheses[2].id = "H1"], [Good EXCEPT !.carrier = "full_hierarchy"],
   [WithSecondOrder({"S"}, "full_hierarchy") EXCEPT !.components["S"] = <<"X", "Z">>],
   WithSecondOrder({"S"}, "full_hierarchy"), WithSecondOrder({"S"}, "latent_scores"),
   WithSecondOrder({"S"}, "none"), WithSecondOrder({"S", "T"}, "full_hierarchy")}

(* Two mediators between the same constructs.                              *)
Parallel ==
  [WithHypotheses(Numbered(<<Pool[1], Pool[2], Pool[3],
      Hyp("direct", "X", "N", <<>>, "positive"), Hyp("direct", "N", "Y", <<>>, "positive"),
      Pool[5], Hyp("indirect", "X", "Y", <<"N">>, "positive"), Pool[8]>>))
   EXCEPT !.level = [k \in {"X", "M", "N", "Y"} |-> "first_order"],
          !.indicators = [k \in {"X", "M", "N", "Y"} |-> <<"x1", "x2">>],
          !.mediators = {"M", "N"}]

MCContracts ==
  {WithHypotheses(Chosen(S)) : S \in SUBSET (1..8) \ {{}}} \cup Changed \cup {Parallel}

MCDocuments == {{}, {"x1"}}

MCDictionaries ==
  {<<>>, "x1" :> {}, "x1" :> {Positive}, "x1" :> {Negative}, "x1" :> {Positive, Negative},
   "x9" :> {Positive}}

MCBlocks ==
  {[sign |-> 1, ci |-> "above", p |-> "marginal"],
   [sign |-> -1, ci |-> "spans", p |-> "significant"]}

Sound ==
  [n \in Nodes |-> [lacks |-> "none", lineage |-> IF n = "node_a" THEN "l1" ELSE "l2"]]

(* Inputs that only one of the callers reads are fixed for the other, and  *)
(* unsound settings meet one document only: no contract is reached.        *)
MCInit ==
  /\ Init
  /\ IF caller = "gate" \/ settings # Sound
     THEN text = "text" /\ document = {} /\ dictionary = <<>> ELSE TRUE
  /\ IF caller = "gate" THEN settings = Sound ELSE retries = 1

MCSpec == MCInit /\ [][Next]_vars
=============================================================================
