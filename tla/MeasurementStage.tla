-------------------------- MODULE MeasurementStage --------------------------
(***************************************************************************)
(* The methods of the measurement stage: the item-deletion protocol behind *)
(* the permit of PD-05 (src/burhan/stats/deletion.py, core/registry.py)    *)
(* and the respecification controller (stats/respecification.py), both     *)
(* loops around calls of the R worker, with the decision log they share.   *)
(*                                                                         *)
(* The stage calls the protocol without any attestation of content         *)
(* validity and then assesses respecification; another caller may attest,  *)
(* and takes the protocol's result.  A loading is a number on a small      *)
(* scale, a fit index its place with respect to its band.  The list of     *)
(* suggestions that respecification filtered out is left out: no step      *)
(* reads it.                                                               *)
(***************************************************************************)
EXTENDS Integers, Sequences, FiniteSets

CONSTANTS
  Items,          \* the items, numbered in the order of their codes
  ConstructOf,    \* the construct of each item
  Loadings,       \* what a standardized loading may be
  Bound,          \* a loading below it is a signal for deletion (PB-09)
  Floor,          \* the fewest items a construct may be left with (PB-13)
  Pairs,          \* the pairs a modification index may be reported for
  MiReports,      \* what modification indices a model may have
  MiFloor,        \* the fewest a modification index must be (PB-14)
  Cap,            \* how many modifications the policy allows
  Attestations,   \* what another caller may hand over as content_validity
  FitReports      \* where the fit indices of a measurement model may be

Criteria == {"normed_chisq", "cfi", "tli", "rmsea", "srmr"}

(* An index is inside its band, exactly on the limit, or outside.          *)
Places == {"inside", "at", "outside"}

ASSUME MeasurementAssumption ==
  /\ Items \in SUBSET Nat /\ IsFiniteSet(Items)
  /\ DOMAIN ConstructOf = Items
  /\ Loadings \in SUBSET Int /\ MiReports \subseteq [Pairs -> Nat]
  /\ Bound \in Int /\ Floor \in Nat /\ MiFloor \in Nat \ {0} /\ Cap \in Nat
  /\ FitReports \subseteq [Criteria -> Places]
  /\ Attestations \subseteq [Items -> {"missing", "blank", "given"}]

VARIABLES
  pc,             \* what the stage does next
  caller,         \* "stage", or "other" for a caller of the protocol alone
  policy,         \* whether deletion is preauthorized, and for which signals
  attested,       \* content_validity: "missing", "blank" or "given"
  fit,            \* where each fit index of the measurement model is
  left,           \* the items of the working configuration
  report,         \* the loadings last estimated, of the items then in it
  chosen,         \* the item that was just taken out
  deletions,      \* the audit of the deletions
  skipped,        \* the candidates that were passed over, with the reason
  log,            \* the decision log
  mi,             \* the modification indices last reported
  modifications,  \* the pairs applied; the last is in flight during "refit"
  outcome         \* how respecification ended: why it stopped, or "flagged"

protocol == <<left, report, chosen, deletions, skipped>>
controller == <<mi, modifications, outcome>>
inputs == <<caller, policy, attested>>
vars == <<pc, inputs, fit, protocol, log, controller>>

Constructs == {ConstructOf[i] : i \in Items}

ItemsOf(c, S) == {i \in S : ConstructOf[i] = c}

Signal == "loading_below_playbook_target"

(* Before the first estimation, and when the protocol has returned to the  *)
(* stage, which keeps only what it deleted.                                *)
NoReport == [i \in {} |-> Bound]

NoAttestation == [i \in Items |-> "missing"]

Init ==
  /\ pc = "measure"
  /\ caller \in {"stage", "other"}
  /\ policy \in [preauthorized : BOOLEAN, granted : SUBSET {Signal}]
  /\ attested \in IF caller = "stage" THEN {NoAttestation} ELSE Attestations
  /\ fit = [c \in Criteria |-> "inside"]
  /\ left = Items /\ report = NoReport /\ chosen = {}
  /\ deletions = <<>> /\ skipped = {} /\ log = <<>>
  /\ mi = [p \in Pairs |-> 0] /\ modifications = <<>> /\ outcome = "none"

Goto(step) == pc' = step

Logged(entry) == log' = Append(log, entry)

-----------------------------------------------------------------------------
(* run_measurement.  Of the first report only the fit matters.             *)

Measure ==
  /\ pc = "measure"
  /\ IF caller = "stage"
       THEN fit' \in FitReports
       ELSE UNCHANGED fit
  /\ Goto("base")
  /\ UNCHANGED <<inputs, protocol, log, controller>>

DeletionBase ==
  /\ pc = "base"
  /\ report' \in [Items -> Loadings]
  /\ Goto("guard")
  /\ UNCHANGED <<inputs, fit, left, chosen, deletions, skipped, log, controller>>

(* A worker that fails, stays silent until the timeout, or answers with a  *)
(* malformed result ends the stage.                                        *)
WorkerFails ==
  /\ pc \in {"measure", "base", "reestimate", "respec", "refit"}
  /\ Goto("halted")
  /\ UNCHANGED <<inputs, fit, protocol, log, controller>>

-----------------------------------------------------------------------------
(* Registry.guard for PD-05.                                               *)

Return(passed) ==
  IF caller = "stage"
    THEN Goto("assess") /\ report' = NoReport /\ skipped' = {}
    ELSE Goto("done") /\ skipped' = passed /\ UNCHANGED report

Recommend ==
  /\ pc = "guard" /\ ~policy.preauthorized
  /\ Logged([what |-> "recommendation_surfaced"])
  /\ Return(skipped)
  /\ UNCHANGED <<inputs, fit, left, chosen, deletions, controller>>

Permit ==
  /\ pc = "guard" /\ policy.preauthorized
  /\ Logged([what |-> "permit_token_issued"])
  /\ Goto("choose")
  /\ UNCHANGED <<inputs, fit, protocol, controller>>

-----------------------------------------------------------------------------
(* _execute_under_permit.                                                  *)

Candidates == {i \in DOMAIN report : report[i] < Bound}

(* Worst first, then by construct and item.                                *)
Precedes(i, j) == report[i] < report[j] \/ (report[i] = report[j] /\ i < j)

Count(i, S) == Cardinality(ItemsOf(ConstructOf[i], S))

ReasonFloorOff(i) ==                                    \* a mutated form
  CASE Signal \notin policy.granted  -> "signal_not_granted"
    [] Signal \in policy.granted /\ Count(i, Items) < Floor -> "deletion_locked"
    [] OTHER ->
         IF Count(i, left) < Floor THEN "three_item_floor"
         ELSE IF attested[i] = "missing" THEN "content_validity_missing"
         ELSE IF attested[i] = "blank" THEN "content_validity_invalid"
         ELSE "none"

Reason(i) ==
  CASE Signal \notin policy.granted -> "signal_not_granted"
    [] Signal \in policy.granted /\ Count(i, Items) < Floor -> "deletion_locked"
    [] OTHER ->
         IF Count(i, left) - 1 < Floor THEN "three_item_floor"
         ELSE IF attested[i] = "missing" THEN "content_validity_missing"
         ELSE IF attested[i] = "blank" THEN "content_validity_invalid"
         ELSE "none"

(* Why a candidate was passed over, once for each reason.                  *)
PassedOver(S) == skipped \cup {<<i, Reason(i)>> : i \in S}

(* The first candidate that nothing speaks against is taken out; the ones  *)
(* behind it are not looked at in this round.                              *)
ChooseItem ==
  /\ pc = "choose"
  /\ \E i \in Candidates :
       /\ Reason(i) = "none"
       /\ \A j \in Candidates : Precedes(j, i) => Reason(j) # "none"
       /\ skipped' = PassedOver({j \in Candidates : Precedes(j, i)})
       /\ left' = left \ {i} /\ chosen' = {i}
  /\ Goto("reestimate")
  /\ UNCHANGED <<inputs, fit, report, deletions, log, controller>>

NoneLeftLooping ==                                      \* a mutated form
  /\ pc = "choose"
  /\ \A i \in Candidates : Reason(i) # "none"
  /\ skipped' = PassedOver(Candidates)
  /\ UNCHANGED <<pc, inputs, fit, left, report, chosen, deletions, log, controller>>

NoneLeft ==
  /\ pc = "choose"
  /\ \A i \in Candidates : Reason(i) # "none"
  /\ Return(PassedOver(Candidates))
  /\ UNCHANGED <<inputs, fit, left, chosen, deletions, log, controller>>

AuditFromDesign(i) ==                                   \* a mutated form
  [item |-> i, std |-> report[i], before |-> Items, after |-> left]

(* The audit has the report of the model before and of the model after;    *)
(* a report is identified by the items it was estimated with.              *)
Audit(i) == [item |-> i, std |-> report[i],
             before |-> DOMAIN report, after |-> left]

ReestimateDesign ==                                     \* a mutated form
  /\ pc = "reestimate"
  /\ \E i \in chosen : deletions' = Append(deletions, Audit(i))
  /\ report' \in [Items -> Loadings]
  /\ Goto("log")
  /\ UNCHANGED <<inputs, fit, left, chosen, skipped, log, controller>>

Reestimate ==
  /\ pc = "reestimate"
  /\ \E i \in chosen : deletions' = Append(deletions, Audit(i))
  /\ report' \in [left -> Loadings]
  /\ Goto("log")
  /\ UNCHANGED <<inputs, fit, left, chosen, skipped, log, controller>>

LogDeletion ==
  /\ pc = "log"
  /\ \E i \in chosen : Logged([what |-> "item_deletion_executed", item |-> i])
  /\ chosen' = {}
  /\ Goto("choose")
  /\ UNCHANGED <<inputs, fit, left, report, deletions, skipped, controller>>

-----------------------------------------------------------------------------
(* assess_respecification.                                                 *)

(* _fit_inadequate looks at three of the five criteria.                    *)
FitInadequate == \E c \in {"cfi", "rmsea", "srmr"} : fit[c] = "outside"

(* evaluate_fit_bands: an index on the limit of its band fails.            *)
BandVerdict(c) == IF fit[c] = "inside" THEN "pass" ELSE "fail"

FlagRespecification ==
  /\ pc = "assess" /\ ~FitInadequate
  /\ outcome' = "flagged"
  /\ Goto("done")
  /\ UNCHANGED <<inputs, fit, protocol, log, mi, modifications>>

StartRespecification ==
  /\ pc = "assess" /\ FitInadequate
  /\ Goto("respec")
  /\ UNCHANGED <<inputs, fit, protocol, log, controller>>

RespecificationBase ==
  /\ pc = "respec"
  /\ mi' \in MiReports
  /\ Goto("select")
  /\ UNCHANGED <<inputs, fit, protocol, log, modifications, outcome>>

Within(p) ==
  /\ p[1] \in Items /\ p[2] \in Items
  /\ ConstructOf[p[1]] = ConstructOf[p[2]]

SamePair(p, q) == {p[1], p[2]} = {q[1], q[2]}

AppliedAsReported(p) ==                                 \* a mutated form
  \E k \in DOMAIN modifications : modifications[k].pair = p

Applied(p) == \E k \in DOMAIN modifications : SamePair(modifications[k].pair, p)

Eligible == {p \in Pairs : mi[p] >= MiFloor /\ Within(p) /\ ~Applied(p)}

(* By falling index, then by the codes.                                    *)
Larger(p, q) ==
  \/ mi[p] > mi[q]
  \/ mi[p] = mi[q] /\ (p[1] < q[1] \/ (p[1] = q[1] /\ p[2] <= q[2]))

Stop(why) ==
  /\ outcome' = why
  /\ Goto("done")
  /\ UNCHANGED <<inputs, fit, protocol, log, mi, modifications>>

NoSuggestion == pc = "select" /\ Eligible = {} /\ Stop("no_eligible_suggestion")

PolicyCap ==
  pc = "select" /\ Eligible # {} /\ Len(modifications) >= Cap /\ Stop("policy_cap")

(* The pair joins the covariances, and the model is estimated again.       *)
Modify ==
  /\ pc = "select" /\ Len(modifications) < Cap
  /\ \E p \in Eligible :
       /\ \A q \in Eligible : Larger(p, q)
       /\ modifications' = Append(modifications, [pair |-> p, mi |-> mi[p]])
  /\ Goto("refit")
  /\ UNCHANGED <<inputs, fit, protocol, log, mi, outcome>>

Refit ==
  /\ pc = "refit"
  /\ mi' \in MiReports
  /\ LET m == modifications[Len(modifications)]
     IN  Logged([what |-> "respecification", pair |-> m.pair, mi |-> m.mi])
  /\ Goto("select")
  /\ UNCHANGED <<inputs, fit, protocol, modifications, outcome>>

-----------------------------------------------------------------------------
Protocol == \/ DeletionBase \/ Recommend \/ Permit
            \/ ChooseItem \/ NoneLeft \/ Reestimate \/ LogDeletion

Respecification == \/ FlagRespecification \/ StartRespecification
                   \/ RespecificationBase \/ NoSuggestion \/ PolicyCap
                   \/ Modify \/ Refit

Next == Measure \/ WorkerFails \/ Protocol \/ Respecification

(* Every step of the loops is the program's own; a call of the worker ends *)
(* at the latest with its timeout.                                         *)
Fairness == WF_vars(Next)

Spec == Init /\ [][Next]_vars /\ Fairness

-----------------------------------------------------------------------------
(* Each variable keeps its type; between two rounds of the protocol the    *)
(* report is one of exactly the items of the working configuration.        *)
TypeOK ==
  /\ pc \in {"measure", "base", "guard", "choose", "reestimate", "log", "assess",
             "respec", "select", "refit", "done", "halted"}
  /\ left \subseteq Items /\ chosen \subseteq Items
  /\ report \in [DOMAIN report -> Loadings \cup {Bound}]
  /\ pc \in {"choose", "log"} => DOMAIN report = left
  /\ fit \in [Criteria -> Places]
  /\ mi \in MiReports \cup {[p \in Pairs |-> 0]}
  /\ outcome \in {"none", "flagged", "no_eligible_suggestion", "policy_cap"}

Deleted == {deletions[k].item : k \in DOMAIN deletions}

(* However many rounds the protocol takes and whatever the models in       *)
(* between report, what is gone was permitted and attested, no construct   *)
(* is below the floor because of it, one designed below the floor is       *)
(* whole, and the stage itself, which attests nothing, only recommends.    *)
DeletionsEarned ==
  /\ left # Items => /\ policy.preauthorized /\ Signal \in policy.granted
                     /\ caller # "stage"
  /\ \A i \in Items \ left : attested[i] = "given"
  /\ \A c \in Constructs : \/ ItemsOf(c, left) = ItemsOf(c, Items)
                          \/ Cardinality(ItemsOf(c, left)) >= Floor

(* Where the decision log has the entries of one kind.                     *)
Positions(what) == {k \in DOMAIN log : log[k].what = what}

(* The audit is a chain: it starts at the design, each entry takes its one *)
(* item out of the model that the entry before it left, and it ends at the *)
(* working configuration.  The decision log has the same deletions in the  *)
(* same order, behind its one entry on the permit, but for the one that is *)
(* about to be logged.  A candidate that was passed over is never taken    *)
(* out later, though its loading and the counts change with every          *)
(* deletion; and when the protocol has been executed, each candidate that  *)
(* is still in the model is in the list with the reason that keeps it      *)
(* there.                                                                  *)
DeletionsAccounted ==
  LET n == Len(deletions)
      logged == IF pc = "log" THEN n - 1 ELSE n
  IN  /\ \A k \in 1..n :
           LET d == deletions[k]
               origin == IF k = 1 THEN Items ELSE deletions[k - 1].after
           IN  d.before = origin /\ d.item \in origin
               /\ d.after = origin \ {d.item} /\ d.std < Bound
      /\ left \cup chosen = (IF n = 0 THEN Items ELSE deletions[n].after) \cup chosen
      /\ Positions("item_deletion_executed") = {k + 1 : k \in 1..logged}
      /\ \A k \in 1..logged : log[k + 1].item = deletions[k].item
      /\ Deleted \cap {s[1] : s \in skipped} = {}
      /\ pc = "done" /\ caller = "other" /\ policy.preauthorized =>
           \A i \in Candidates : Reason(i) # "none" /\ <<i, Reason(i)>> \in skipped

(* The model is modified only for a fit that a band refuses, at most Cap   *)
(* times, never twice for the same two items, only within a construct and  *)
(* for an index of at least the floor, each with its entry in the decision *)
(* log, with the pair and the index it was applied for; and a stop at the  *)
(* cap leaves a suggestion that could be applied.                          *)
ModificationsEarned ==
  LET n == Len(modifications)
      logged == IF pc = "refit" THEN n - 1 ELSE n
  IN  /\ n > 0 => \E c \in Criteria : BandVerdict(c) = "fail"
      /\ n <= Cap
      /\ \A k \in 1..n : Within(modifications[k].pair) /\ modifications[k].mi >= MiFloor
      /\ \A k, m \in 1..n :
           SamePair(modifications[k].pair, modifications[m].pair) => k = m
      /\ pc # "halted" =>
           /\ Positions("respecification") = {k + 1 : k \in 1..logged}
           /\ \A k \in 1..logged : log[k + 1].pair = modifications[k].pair
                                  /\ log[k + 1].mi = modifications[k].mi
      /\ outcome = "policy_cap" => n = Cap /\ Eligible # {}

(* Neither loop goes on for ever: the stage ends, with its results or with *)
(* a halt, whatever the worker reports in each round.                      *)
EveryStageEnds == <>(pc \in {"done", "halted"})
=============================================================================
