------------------------------ MODULE Contract ------------------------------
(***************************************************************************)
(* The study contract as a value, the validators every contract goes       *)
(* through (src/burhan/contract/validators.py) and the models the later    *)
(* stages derive from it: the regressions of the structural and of the     *)
(* effects worker (stats/structural.py, stats/effects.py) and the rival    *)
(* model of the robustness stage (stats/robustness.py).                    *)
(*                                                                         *)
(* A contract is a record: the level of each declared construct, its       *)
(* components or indicators, the construct of each item of the instrument, *)
(* the items it flags as reverse-coded, the roles of the structural model, *)
(* its mediators, the carrier of the higher-order block ("none" without    *)
(* one) and the sequence of hypotheses.                                    *)
(***************************************************************************)
EXTENDS Selection

Declared(c) == DOMAIN c.level

OfLevel(c, l) == {k \in Declared(c) : c.level[k] = l}

Instrument(c) == DOMAIN c.construct_ref

Hypotheses(c, effect) ==
  EntriesAt(c.hypotheses, {k \in DOMAIN c.hypotheses : c.hypotheses[k].effect = effect})

HypothesisSet(c) == {c.hypotheses[k] : k \in DOMAIN c.hypotheses}

(* What the schema says of the hypotheses of a contract.                   *)
HypothesesWellFormed(c) ==
  /\ "hypotheses" \in DOMAIN c
  /\ c.hypotheses \in Seq(HypothesisSet(c))
  /\ \A h \in HypothesisSet(c) :
       /\ DOMAIN h = {"id", "effect", "from", "to", "via", "sign"}
       /\ h.effect \in {"direct", "indirect", "total"}
       /\ h.via \in Seq(Named(h.via))
       /\ h.sign \in {"positive", "negative"}

-----------------------------------------------------------------------------
(* The validators, each true of the contracts it lets through.             *)

V1(c) ==
  \A i \in Instrument(c) : c.construct_ref[i] \in OfLevel(c, "first_order")

V2(c, minimum) ==
  \A k \in OfLevel(c, "first_order") :
    /\ Named(c.indicators[k]) \subseteq Instrument(c)
    /\ Len(c.indicators[k]) >= minimum

V3(c) ==
  /\ \A k \in OfLevel(c, "second_order") :
       Named(c.components[k]) \subseteq OfLevel(c, "first_order")
  /\ OfLevel(c, "second_order") # {} <=> c.carrier # "none"

V4(c) ==
  /\ c.exogenous \cup c.endogenous \cup c.mediators \subseteq Declared(c)
  /\ \A h \in HypothesisSet(c) :
       /\ {h.from, h.to} \subseteq Declared(c)
       /\ h.effect = "indirect" => /\ h.via # <<>>
                                   /\ Named(h.via) \subseteq Declared(c)
                                   /\ Named(h.via) \subseteq c.mediators

Chain(h) == <<h.from>> \o h.via \o <<h.to>>

Links(h) == {<<Chain(h)[k], Chain(h)[k + 1]>> : k \in 1..Len(h.via) + 1}

DirectLinks(c) ==
  {<<h.from, h.to>> : h \in {g \in HypothesisSet(c) : g.effect = "direct"}}

IdsDistinct(c) ==
  \A j, k \in DOMAIN c.hypotheses : c.hypotheses[j].id = c.hypotheses[k].id => j = k

V5IdsOnly(c) == IdsDistinct(c)                          \* a mutated form

V5(c) ==
  /\ IdsDistinct(c)
  /\ \A h \in HypothesisSet(c) :
       h.effect = "indirect" /\ h.via # <<>> => Links(h) \subseteq DirectLinks(c)

-----------------------------------------------------------------------------
(* The sources besides the contract.  The dictionary has the attributes it *)
(* gives each code, the document the items of its lines about reversal.    *)

Positive == "reverse-coded"
Negative == "not reverse-coded"

Conflicts(c, dictionary) ==
  {i \in DOMAIN dictionary :
    \/ i \notin Instrument(c)
    \/ {Positive, Negative} \subseteq dictionary[i]
    \/ Positive \in dictionary[i] /\ i \notin c.reverse_coded
    \/ Negative \in dictionary[i] /\ i \in c.reverse_coded}

(* A line that says "not reverse" is no evidence, whatever else it says.   *)
SourceReversed(c, document, dictionary) ==
  Instrument(c) \cap
    (document \cup {i \in DOMAIN dictionary : dictionary[i] = {Positive}})

V7(c, document, dictionary) ==
  c.reverse_coded = SourceReversed(c, document, dictionary)

(* validate_contract: the name of the first validator that refuses, or     *)
(* "none".  V6, of the export, is not run on a contract of Node A.         *)
FirstOf(checks) ==
  LET refusing == {k \in DOMAIN checks : ~checks[k][2]}
  IN  IF refusing = {} THEN "none" ELSE checks[Min(refusing)][1]

Refused(c, document, dictionary, minimum) ==
  FirstOf(<< <<"V1", V1(c)>>, <<"V2", V2(c, minimum)>>, <<"V3", V3(c)>>,
             <<"V4", V4(c)>>, <<"V5", V5(c)>>,
             <<"FR-204", Conflicts(c, dictionary) = {}>>,
             <<"V7", V7(c, document, dictionary)>> >>)

-----------------------------------------------------------------------------
(* The models.  A regression is the pair <<outcome, predictor>>.           *)

Regression(link) == <<link[2], link[1]>>

(* More than one second-order construct: the measurement payload halts.    *)
SecondOrderFits(c) == Cardinality(OfLevel(c, "second_order")) <= 1

(* One regression for each direct hypothesis, in their order.              *)
StructuralRegressions(c) ==
  LET direct == Hypotheses(c, "direct")
  IN  [k \in DOMAIN direct |-> <<direct[k].to, direct[k].from>>]

StructuralBuilds(c) ==
  /\ Named(StructuralRegressions(c)) \subseteq Declared(c) \X Declared(c)
  /\ StructuralRegressions(c) # <<>>
  /\ SecondOrderFits(c)

Endogenous(c) == {r[1] : r \in Named(StructuralRegressions(c))}

(* The direct pairs and the pairs of every chain, each once.               *)
EffectsRegressions(c) ==
  Named(StructuralRegressions(c)) \cup
    UNION {{Regression(l) : l \in Links(h)} : h \in Named(Hypotheses(c, "indirect"))}

EffectsBuilds(c) ==
  LET indirect == Hypotheses(c, "indirect")
  IN  /\ \A k \in DOMAIN indirect :
           indirect[k].via # <<>> /\ Named(Chain(indirect[k])) \subseteq Declared(c)
      /\ indirect # <<>>
      /\ SecondOrderFits(c)

(* The pairs that more than one indirect hypothesis is about.              *)
Sums(c) ==
  LET indirect == Hypotheses(c, "indirect")
      Pair(k) == <<indirect[k].from, indirect[k].to>>
  IN  {Pair(j) : j \in {i \in DOMAIN indirect : \E k \in DOMAIN indirect :
                                                  k # i /\ Pair(k) = Pair(i)}}

HasDirect(c, h) == <<h.to, h.from>> \in EffectsRegressions(c)

(* reversed_alternative: the direct hypotheses alone, each turned round.   *)
Reversed(c) ==
  LET direct == Hypotheses(c, "direct")
  IN  [c EXCEPT
        !.hypotheses = [k \in DOMAIN direct |->
          [direct[k] EXCEPT !.from = direct[k].to, !.to = direct[k].from]],
        !.exogenous = c.endogenous, !.endogenous = c.exogenous]
=============================================================================
