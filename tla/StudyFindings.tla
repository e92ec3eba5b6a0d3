---------------------------- MODULE StudyFindings ----------------------------
(***************************************************************************)
(* From the answer of the extraction node to the findings: the adapters of *)
(* the language models (src/burhan/contract/llm_base.py), the extraction   *)
(* (contract/node_a.py), the gate of the reviewing node (review/node_c.py, *)
(* with one audit in a study, or revised and audited again by run_gate),   *)
(* the structural model, the effects, the rival model, and the matrix of   *)
(* hypotheses (src/burhan/stats/), with every answer of a model or worker  *)
(* that comes back malformed.                                              *)
(***************************************************************************)
EXTENDS Contract

CONSTANTS
  Contracts,      \* the contracts the extraction node may answer with
  Documents,      \* the items a document may say are reversed
  Dictionaries,   \* what a data dictionary may say of the items
  MinDesigned,    \* the fewest indicators of a construct
  Retries,        \* what the bound on the cycles of a gate may be
  Lineages,       \* the lineages of language models
  Blocks,         \* what an estimate may look like
  Foreign         \* a construct no contract knows

ASSUME FindingsAssumption ==
  /\ MinDesigned \in Nat /\ Retries \subseteq Nat
  /\ Blocks \subseteq [sign : {-1, 0, 1}, ci : {"above", "spans", "below"},
                       p : {"significant", "marginal", "not", "none"}]
  /\ \A c \in Contracts : Foreign \notin Declared(c) /\ HypothesesWellFormed(c)
  /\ \A d \in Dictionaries : \A i \in DOMAIN d : d[i] \subseteq {Positive, Negative}

VARIABLES
  pc,             \* what is done next
  caller,         \* "stage" for a study, "gate" for run_gate alone
  settings,       \* llm.yaml: for each node what its entry lacks, its lineage
  text,           \* the document handed to the adapter: text, or raw data
  document,       \* the items the document says are reversed
  dictionary,     \* the attributes the data dictionary gives, by code
  retries,        \* gates.max_retries
  contract,       \* the contract that was extracted
  failure,        \* why the work halted
  version,        \* how often the author has revised the contract
  verdict,        \* the last verdict, and the version it is about
  audits,         \* how many audits there were
  structural,     \* the structural report
  effects,        \* the effects report
  rival,          \* the report on the rival model
  matrix          \* the matrix of hypotheses

inputs == <<caller, settings, text, document, dictionary, retries>>
gate == <<version, verdict, audits>>
reports == <<structural, effects, rival, matrix>>
vars == <<pc, inputs, contract, failure, gate, reports>>

Nodes == {"node_a", "node_c"}

NodeDefects == {"none", "incomplete", "temperature", "max_retries", "api_key"}

Unread == [verdict |-> "none", of |-> 0, meant |-> "none"]

NoContract == [hypotheses |-> <<>>]

NoStructural == [paths |-> <<>>, r2 |-> {}]

NoEffects == [paths |-> <<>>, rows |-> <<>>, sums |-> {}]

NoRival == [paths |-> <<>>, preferred |-> FALSE]

Init ==
  /\ caller \in {"stage", "gate"}
  /\ pc = IF caller = "stage" THEN "settings" ELSE "bound"
  /\ settings \in [Nodes -> [lacks : NodeDefects, lineage : Lineages]]
  /\ text \in {"text", "path", "bytes", "frame", "data_file"}
  /\ document \in Documents /\ dictionary \in Dictionaries /\ retries \in Retries
  /\ contract = NoContract /\ failure = "none"
  /\ version = 0 /\ verdict = Unread /\ audits = 0
  /\ structural = NoStructural /\ effects = NoEffects
  /\ rival = NoRival /\ matrix = <<>>

Goto(step) == pc' = step

Halt(why) ==
  /\ pc' = "halted" /\ failure' = why
  /\ UNCHANGED <<inputs, contract, gate, reports>>

-----------------------------------------------------------------------------
(* load_llm_settings: both nodes complete and deterministic, and the one   *)
(* that audits of another lineage than the one that extracts.              *)

Usable(s) ==
  /\ \A n \in Nodes : s[n].lacks = "none"
  /\ s["node_a"].lineage # s["node_c"].lineage

LoadSettings ==
  /\ pc = "settings" /\ Usable(settings)
  /\ Goto("extract")
  /\ UNCHANGED <<inputs, contract, failure, gate, reports>>

SettingsRefused == pc = "settings" /\ ~Usable(settings) /\ Halt("FR-304")

(* AdapterBase.complete: only text passes, and no name of a data file.     *)
Screened(value) == value = "text"

InputRefused == pc = "extract" /\ ~Screened(text) /\ Halt("NFR-401")

-----------------------------------------------------------------------------
(* NodeA.extract.  A reply in a fence of another language is not unwrapped *)
(* and fails as YAML, even one that says the document is ambiguous.        *)

Unwrapped(reply) == IF reply.fence = "other" THEN "not_yaml" ELSE reply.body

Unreadable(body) ==
  CASE body = "ambiguous"                  -> "FR-205"
    [] body \in {"not_yaml", "not_mapping"} -> "FR-203"
    [] body = "invalid"                    -> "schema"

Fences == {"none", "yaml", "other"}

ExtractFails ==
  /\ pc = "extract" /\ Screened(text)
  /\ \E f \in Fences, b \in {"ambiguous", "not_yaml", "not_mapping", "invalid"} :
       Halt(Unreadable(Unwrapped([fence |-> f, body |-> b])))

Extract ==
  /\ pc = "extract" /\ Screened(text)
  /\ contract' \in Contracts
  /\ Goto("validate")
  /\ UNCHANGED <<inputs, failure, gate, reports>>

Accept ==
  /\ pc = "validate"
  /\ Refused(contract, document, dictionary, MinDesigned) = "none"
  /\ Goto("audit")
  /\ UNCHANGED <<inputs, contract, failure, gate, reports>>

Refuse ==
  LET why == Refused(contract, document, dictionary, MinDesigned)
  IN  pc = "validate" /\ why # "none" /\ Halt(why)

-----------------------------------------------------------------------------
(* The gate.  A reply of the reviewer: whether it is YAML, whether some    *)
(* key occurs twice (the last occurrence is the one that is read), whether *)
(* the keys are the two of the schema, and what they have.                 *)

Replies ==
  [yaml : BOOLEAN, duplicate : BOOLEAN, keys : BOOLEAN,
   verdict : {"approve", "reject", "other"}, fixes : {"none", "some", "malformed"}]

Conforms(r) ==
  /\ r.yaml /\ r.keys
  /\ \/ r.verdict = "approve" /\ r.fixes = "none"
     \/ r.verdict = "reject" /\ r.fixes = "some"

ParseVerdictLastWins(r) ==                              \* a mutated form
  IF Conforms(r) THEN r.verdict ELSE "reject"

(* What does not conform is a rejection.                                   *)
ParseVerdict(r) ==
  IF Conforms(r) /\ ~r.duplicate THEN r.verdict ELSE "reject"

(* What the reviewer meant by a reply that has a key twice is not known.   *)
Meant(r) == IF r.duplicate THEN "unknown" ELSE r.verdict

Audit ==
  /\ pc = "audit"
  /\ \E r \in Replies :
       verdict' = [verdict |-> ParseVerdict(r), of |-> version, meant |-> Meant(r)]
  /\ audits' = audits + 1
  /\ Goto("decide")
  /\ UNCHANGED <<inputs, contract, failure, version, reports>>

(* Gate1.execute: one audit, and a rejection ends the study.               *)
Gate1Passes ==
  /\ pc = "decide" /\ caller = "stage" /\ verdict.verdict = "approve"
  /\ Goto("structural")
  /\ UNCHANGED <<inputs, contract, failure, gate, reports>>

Gate1Rejects ==
  pc = "decide" /\ caller = "stage" /\ verdict.verdict # "approve" /\ Halt("gate")

(* run_gate.                                                               *)
BoundRefused == pc = "bound" /\ retries < 1 /\ Halt("FR-303")

BoundHolds ==
  /\ pc = "bound" /\ retries >= 1
  /\ Goto("audit")
  /\ UNCHANGED <<inputs, contract, failure, gate, reports>>

GateApproves ==
  /\ pc = "decide" /\ caller = "gate" /\ verdict.verdict = "approve"
  /\ Goto("done")
  /\ UNCHANGED <<inputs, contract, failure, gate, reports>>

GateExhausts ==
  /\ pc = "decide" /\ caller = "gate" /\ verdict.verdict # "approve"
  /\ version = retries
  /\ Halt("gate")

ReviseOnceMore ==                                       \* a mutated form
  /\ pc = "decide" /\ caller = "gate" /\ verdict.verdict # "approve"
  /\ version <= retries
  /\ version' = version + 1
  /\ Goto("audit")
  /\ UNCHANGED <<inputs, contract, failure, verdict, audits, reports>>

(* The author revises by the fixes of the last verdict.                    *)
Revise ==
  /\ pc = "decide" /\ caller = "gate" /\ verdict.verdict # "approve"
  /\ version # retries
  /\ version' = version + 1
  /\ Goto("audit")
  /\ UNCHANGED <<inputs, contract, failure, verdict, audits, reports>>

-----------------------------------------------------------------------------
(* What a worker may return for the keys it was asked for: each once, one  *)
(* left out, one twice, or one nobody asked for.                           *)
Returned(keys, foreign) ==
  LET all == SetToSeq(keys)
  IN  {all, Append(all, foreign)} \cup
      {Append(all, all[k]) : k \in DOMAIN all} \cup
      {RemoveAt(all, k) : k \in DOMAIN all}

(* _validate_paths and its like: no key twice, none missing, none extra.   *)
CoversWithin(rows, keys) ==                             \* a mutated form
  (\A j, k \in DOMAIN rows : rows[j] = rows[k] => j = k) /\ Named(rows) \subseteq keys

Covers(rows, keys) ==
  (\A j, k \in DOMAIN rows : rows[j] = rows[k] => j = k) /\ Named(rows) = keys

ForeignPair == <<Foreign, Foreign>>

(* The answers of the structural worker to model c, with one thing wrong   *)
(* at most.                                                                *)
StructuralAnswers(c) ==
  LET pairs == Named(StructuralRegressions(c))
      right == [carrier |-> c.carrier, fit |-> TRUE, model |-> TRUE,
                paths |-> SetToSeq(pairs), r2 |-> SetToSeq(Endogenous(c))]
  IN  {right, [right EXCEPT !.carrier = "other"], [right EXCEPT !.fit = FALSE],
       [right EXCEPT !.model = FALSE]} \cup
      {[right EXCEPT !.paths = p] : p \in Returned(pairs, ForeignPair)} \cup
      {[right EXCEPT !.r2 = r] : r \in Returned(Endogenous(c), Foreign)}

StructuralValid(c, a) ==
  /\ a.carrier = c.carrier /\ a.fit /\ a.model
  /\ Covers(a.paths, Named(StructuralRegressions(c)))
  /\ Covers(a.r2, Endogenous(c))

BadAnswers(c) == {a \in StructuralAnswers(c) : ~StructuralValid(c, a)}

StructuralRefused == pc = "structural" /\ ~StructuralBuilds(contract) /\ Halt("payload")

StructuralFails ==
  /\ pc = "structural" /\ StructuralBuilds(contract)
  /\ BadAnswers(contract) # {}
  /\ Halt("answer")

RunStructural ==
  /\ pc = "structural" /\ StructuralBuilds(contract)
  /\ \E a \in StructuralAnswers(contract) :
       /\ StructuralValid(contract, a)
       /\ structural' = [paths |-> a.paths, r2 |-> Named(a.r2)]
  /\ Goto("effects")
  /\ UNCHANGED <<inputs, contract, failure, gate, effects, rival, matrix>>

-----------------------------------------------------------------------------
(* The effects: for each indirect hypothesis its own block, and the direct *)
(* and the total one where the model has the direct edge.                  *)

Indirect == Hypotheses(contract, "indirect")

Ids == {Indirect[k].id : k \in DOMAIN Indirect}

Significant(b) == b.ci # "spans"

(* classify_effect; direct is <<>> without a direct edge.                  *)
Classify(direct, indirect) ==
  LET both == direct # <<>> /\ Significant(direct[1]) /\ Significant(indirect)
      agree == both /\ direct[1].sign * indirect.sign > 0
  IN  CASE agree -> "complementary"
        [] both /\ ~agree -> "competitive"
        [] ~both /\ Significant(indirect) -> "indirect_only"
        [] ~both /\ direct # <<>> /\ Significant(direct[1]) -> "direct_only"
        [] OTHER -> "no_effect"

(* A right answer has a block for each edge, for each chain and for the    *)
(* total along each chain; what can be wrong is the echo of the bootstrap, *)
(* a block, the direct block of an edge that is none, or the keys.         *)
Estimates ==
  [edge : [EffectsRegressions(contract) -> Blocks],
   chain : [{Chain(h) : h \in Named(Indirect)} -> Blocks],
   total : [{Chain(h) : h \in Named(Indirect)} -> Blocks]]

EffectsKeys ==
  LET pairs == EffectsRegressions(contract)
      right == [echo |-> TRUE, blocks |-> TRUE, undeclared |-> FALSE,
                paths |-> SetToSeq(pairs), ids |-> SetToSeq(Ids),
                sums |-> SetToSeq(Sums(contract))]
  IN  {right, [right EXCEPT !.echo = FALSE], [right EXCEPT !.blocks = FALSE],
       [right EXCEPT !.undeclared = TRUE]} \cup
      {[right EXCEPT !.paths = p] : p \in Returned(pairs, ForeignPair)} \cup
      {[right EXCEPT !.ids = i] : i \in Returned(Ids, "H0")} \cup
      {[right EXCEPT !.sums = s] : s \in Returned(Sums(contract), ForeignPair)}

EffectsValid(a) ==
  /\ a.echo /\ a.blocks
  /\ a.undeclared => \A h \in Named(Indirect) : HasDirect(contract, h)
  /\ Covers(a.paths, EffectsRegressions(contract))
  /\ Covers(a.ids, Ids)
  /\ Covers(a.sums, Sums(contract))

(* The direct and the total block of a row, where there are any.           *)
EdgeOf(h, e) == IF HasDirect(contract, h) THEN <<e.edge[<<h.to, h.from>>]>> ELSE <<>>

TotalOf(h, e) == IF HasDirect(contract, h) THEN <<e.total[Chain(h)]>> ELSE <<>>

Row(h, e) ==
  [hypothesis |-> h.id, from |-> h.from, to |-> h.to, via |-> h.via,
   indirect |-> e.chain[Chain(h)], direct |-> EdgeOf(h, e), total |-> TotalOf(h, e),
   classification |-> Classify(EdgeOf(h, e), e.chain[Chain(h)])]

EffectsRefused == pc = "effects" /\ ~EffectsBuilds(contract) /\ Halt("payload")

(* The worker of the effects knows no latent scores.                       *)
EffectsFail ==
  /\ pc = "effects" /\ EffectsBuilds(contract)
  /\ contract.carrier = "latent_scores" \/ \E a \in EffectsKeys : ~EffectsValid(a)
  /\ Halt("answer")

RunEffects ==
  /\ pc = "effects" /\ EffectsBuilds(contract) /\ contract.carrier # "latent_scores"
  /\ \E a \in {k \in EffectsKeys : EffectsValid(k)}, e \in Estimates :
       effects' =
         [paths |-> [k \in DOMAIN a.paths |-> [pair |-> a.paths[k], block |-> e.edge[a.paths[k]]]],
          rows |-> [k \in DOMAIN Indirect |-> Row(Indirect[k], e)],
          sums |-> Named(a.sums)]
  /\ Goto("rival")
  /\ UNCHANGED <<inputs, contract, failure, gate, structural, rival, matrix>>

-----------------------------------------------------------------------------
(* run_alternatives: the retained model once more, then the rival, which   *)
(* is preferred when both information criteria fall.                       *)

RivalFails ==
  /\ pc = "rival"
  /\ \/ ~StructuralBuilds(Reversed(contract))
     \/ BadAnswers(contract) \cup BadAnswers(Reversed(contract)) # {}
  /\ Halt("answer")

RunRival ==
  /\ pc = "rival" /\ StructuralBuilds(Reversed(contract))
  /\ \E a \in StructuralAnswers(Reversed(contract)), aicFalls, bicFalls \in BOOLEAN :
       /\ StructuralValid(Reversed(contract), a)
       /\ rival' = [paths |-> a.paths, preferred |-> aicFalls /\ bicFalls]
  /\ Goto("matrix")
  /\ UNCHANGED <<inputs, contract, failure, gate, structural, effects, matrix>>

-----------------------------------------------------------------------------
(* build_hypothesis_matrix; no stage calls it yet.                         *)

SupportedDespiteMarginal(b, sign) ==                    \* a mutated form
  /\ IF sign = "positive" THEN b.sign > 0 ELSE b.sign < 0
  /\ b.p = "significant" \/ b.ci # "spans"

(* A marginal p overrides an interval that leaves out zero.                *)
Supported(b, sign) ==
  /\ IF sign = "positive" THEN b.sign > 0 ELSE b.sign < 0
  /\ b.p # "marginal"
  /\ b.p = "significant" \/ b.ci # "spans"

(* The statistics a hypothesis may be judged by; a later row of the report *)
(* replaces an earlier one with the same key.                              *)
Judged(h) ==
  CASE h.effect = "direct" ->
         LET at == {k \in DOMAIN effects.paths : effects.paths[k].pair = <<h.to, h.from>>}
         IN  {effects.paths[k].block : k \in at}
    [] h.effect = "indirect" ->
         {effects.rows[k].indirect : k \in
           {j \in DOMAIN effects.rows : effects.rows[j].from = h.from
              /\ effects.rows[j].to = h.to /\ effects.rows[j].via = h.via}}
    [] h.effect = "total" ->
         LET at == {k \in DOMAIN effects.rows : effects.rows[k].from = h.from
                      /\ effects.rows[k].to = h.to /\ effects.rows[k].total # <<>>}
         IN  {effects.rows[k].total[1] : k \in {j \in at : \A i \in at : i <= j}}

MatrixFails ==
  /\ pc = "matrix"
  /\ \E h \in HypothesisSet(contract) : Judged(h) = {}
  /\ Halt("missing")

BuildMatrix ==
  /\ pc = "matrix"
  /\ \A h \in HypothesisSet(contract) : Judged(h) # {}
  /\ matrix' = [k \in DOMAIN contract.hypotheses |->
       LET h == contract.hypotheses[k]
       IN  [hypothesis |-> h.id,
            supported |-> \E b \in Judged(h) : Supported(b, h.sign)]]
  /\ Goto("done")
  /\ UNCHANGED <<inputs, contract, failure, gate, structural, effects, rival>>

-----------------------------------------------------------------------------
Extraction == \/ LoadSettings \/ SettingsRefused \/ InputRefused
              \/ ExtractFails \/ Extract \/ Accept \/ Refuse

Gate == \/ Audit \/ Gate1Passes \/ Gate1Rejects
        \/ BoundRefused \/ BoundHolds \/ GateApproves \/ GateExhausts \/ Revise

Analysis == \/ StructuralRefused \/ StructuralFails \/ RunStructural
            \/ EffectsRefused \/ EffectsFail \/ RunEffects
            \/ RivalFails \/ RunRival \/ MatrixFails \/ BuildMatrix

Next == Extraction \/ Gate \/ Analysis

Spec == Init /\ [][Next]_vars

-----------------------------------------------------------------------------
Accepted == pc \in {"audit", "decide", "structural", "effects", "rival", "matrix", "done"}
              /\ caller = "stage"

(* Each variable keeps its type: a gate never takes more cycles than its   *)
(* bound, and the work is halted exactly when there is a reason.           *)
TypeOK ==
  /\ pc \in {"settings", "extract", "validate", "bound", "audit", "decide",
             "structural", "effects", "rival", "matrix", "done", "halted"}
  /\ contract = NoContract \/ contract \in Contracts
  /\ version \in 0..retries /\ audits \in 0..retries + 1
  /\ verdict.verdict \in {"none", "approve", "reject"} /\ verdict.of \in 0..version
  /\ pc = "halted" <=> failure # "none"
  /\ DOMAIN matrix \in {{}, DOMAIN contract.hypotheses}

(* What every accepted contract has, whatever the later stages do with it. *)
(* The structural model and the model of the effects have the same edges,  *)
(* so that the chains of the indirect hypotheses add none of their own; no *)
(* payload is refused for an unknown construct or an empty chain; an item  *)
(* is reversed exactly when a source says so and the dictionary does not   *)
(* say otherwise.  A conflict with the dictionary is reported as one, not  *)
(* as the difference in reverse-coding that comes with it.                 *)
AcceptedContractHolds ==
  /\ Accepted =>
       /\ EffectsRegressions(contract) = Named(StructuralRegressions(contract))
       /\ SecondOrderFits(contract) /\ Hypotheses(contract, "direct") # <<>>
            => StructuralBuilds(contract)
       /\ SecondOrderFits(contract) /\ Indirect # <<>>
            => StructuralBuilds(contract) /\ EffectsBuilds(contract)
       /\ \A i \in Instrument(contract) :
            /\ i \in DOMAIN dictionary /\ dictionary[i] # {}
                 => dictionary[i] = (IF i \in contract.reverse_coded THEN {Positive}
                                                                    ELSE {Negative})
            /\ i \in contract.reverse_coded
                 => i \in document \/ (i \in DOMAIN dictionary /\ Positive \in dictionary[i])
  /\ failure = "V7" => \A i \in DOMAIN dictionary : i \in Instrument(contract)
                                /\ (Positive \in dictionary[i] => i \in contract.reverse_coded)

(* What passed the gate was approved in so many words, by a reply that can *)
(* be read in one way only, in an audit of the very version that passed,   *)
(* by a model of another lineage; and there was one audit more than there  *)
(* were revisions.                                                         *)
GateHolds ==
  pc \in {"structural", "effects", "rival", "matrix", "done"} =>
    /\ verdict.verdict = "approve" /\ verdict.meant = "approve" /\ verdict.of = version
    /\ audits = version + 1
    /\ caller = "stage" =>
         settings["node_a"].lineage # settings["node_c"].lineage /\ text = "text"

EdgesOf(s) == {s[k].pair : k \in DOMAIN s}

(* What was reported is about the hypotheses of the contract and nothing   *)
(* else, however the answers came back: each direct hypothesis has its     *)
(* path in both models, each construct that is explained its R-squared,    *)
(* each indirect hypothesis one row, with a direct and a total effect just *)
(* when the contract has the direct hypothesis; the class says that an     *)
(* indirect effect is there exactly when its interval leaves out zero; and *)
(* the rival has the same paths, turned round.                             *)
ReportsMatch ==
  LET links == DirectLinks(contract)
  IN  /\ pc \in {"effects", "rival", "matrix", "done"} /\ caller = "stage" =>
           /\ Named(structural.paths) = {Regression(l) : l \in links}
           /\ Len(structural.paths) = Cardinality(links)
           /\ structural.r2 = {l[2] : l \in links}
      /\ pc \in {"rival", "matrix", "done"} /\ caller = "stage" =>
           /\ EdgesOf(effects.paths) = Named(structural.paths)
           /\ [k \in DOMAIN effects.rows |-> effects.rows[k].hypothesis]
                = [k \in DOMAIN Indirect |-> Indirect[k].id]
           /\ \A k \in DOMAIN effects.rows :
                LET r == effects.rows[k]
                IN  /\ r.direct # <<>> <=> <<r.from, r.to>> \in links
                    /\ r.total # <<>> <=> r.direct # <<>>
                    /\ r.classification \in {"complementary", "competitive", "indirect_only"}
                         <=> r.indirect.ci # "spans"
      /\ pc \in {"matrix", "done"} /\ caller = "stage" => Named(rival.paths) = links

(* In the matrix no statistic with a marginal p supports a hypothesis, nor *)
(* does one support two that expect opposite signs; an indirect hypothesis *)
(* that is supported though its class knows no indirect effect has the p   *)
(* to show for it; and only a total hypothesis can be without a statistic, *)
(* one for whose pair there is no indirect hypothesis with a direct edge.  *)
MatrixFollows ==
  LET Hyp(k) == contract.hypotheses[k]
  IN  /\ \A k \in DOMAIN matrix : matrix[k].supported =>
           /\ \A b \in Judged(Hyp(k)) : b.p # "marginal"
           /\ \A j \in DOMAIN matrix : matrix[j].supported
                /\ Hyp(j).effect = Hyp(k).effect /\ Hyp(j).via = Hyp(k).via
                /\ Hyp(j).from = Hyp(k).from /\ Hyp(j).to = Hyp(k).to
                  => Hyp(j).sign = Hyp(k).sign
           /\ \A r \in DOMAIN effects.rows :
                effects.rows[r].hypothesis = matrix[k].hypothesis
                /\ effects.rows[r].classification \in {"direct_only", "no_effect"}
                  => effects.rows[r].indirect.p = "significant"
      /\ failure = "missing" => \E h \in HypothesisSet(contract) :
           h.effect = "total" /\ \A g \in Named(Indirect) :
             <<g.from, g.to>> = <<h.from, h.to>> => <<g.from, g.to>> \notin DirectLinks(contract)
=============================================================================
