------------------------------ MODULE Evidence ------------------------------
(***************************************************************************)
(* The evidence a run gathers, as operators on values: the rows of the     *)
(* results store (src/burhan/results/store.py), the rows of the compliance *)
(* journal (src/burhan/core/compliance.py) and the playbook that says      *)
(* which rows a step must have emitted to be called completed.             *)
(*                                                                         *)
(* A statistic id "stage.family.tail" is the triple of its dot segments;   *)
(* everything behind the family is one value.  A construct or item code    *)
(* such as FOO_BAR is the sequence of its pieces, so that ids the code     *)
(* builds by joining two codes with "_" clash here when they clash there.  *)
(***************************************************************************)
EXTENDS Integers, Sequences, FiniteSets

(* PB-01 .. PB-21 by number, with the prefixes of the ids each must emit.  *)
Outputs == <<
  {<<"power", "close_fit">>, <<"power", "n_to_q">>, <<"power", "montecarlo">>},
  {<<"prep", "n_chain">>, <<"prep", "screening">>},
  {<<"prep", "missingness">>},
  {<<"prep", "outliers">>},
  {<<"assumptions", "normality">>},
  {<<"assumptions", "collinearity">>},
  {<<"assumptions", "estimator">>},
  {<<"measurement", "spec">>, <<"measurement", "loadings">>},
  {<<"measurement", "loadings">>},
  {<<"measurement", "reliability">>, <<"measurement", "convergent">>},
  {<<"measurement", "discriminant">>},
  {<<"measurement", "cmb">>},
  {<<"measurement", "item_deletion">>},
  {<<"measurement", "respecification">>},
  {<<"structural", "fit">>},
  {<<"structural", "path">>, <<"structural", "r_squared">>},
  {<<"effects", "direct">>, <<"effects", "indirect">>, <<"effects", "total">>,
   <<"effects", "classification">>},
  {<<"robustness", "alternatives">>},
  {<<"robustness", "achieved_power">>},
  {},
  {} >>

Steps == DOMAIN Outputs

Status == {"completed", "failed", "flagged"}

JournalRow == [step : Steps, status : Status]

-----------------------------------------------------------------------------
(* The results store: a sequence of ids, each there once.                  *)

Has(s, x) == \E i \in DOMAIN s : s[i] = x

(* iter(prefix) yields something.                                          *)
Landed(store, prefix) == \E i \in DOMAIN store : SubSeq(store[i], 1, 2) = prefix

(* The compliance journal: _require_completed_outputs, and what _replay    *)
(* accepts: every step once, and no completed row without its outputs.     *)
Evidenced(store, step) == \A prefix \in Outputs[step] : Landed(store, prefix)

Marked(rows, step) == \E i \in DOMAIN rows : rows[i].step = step

StatusIn(rows, step) == rows[CHOOSE i \in DOMAIN rows : rows[i].step = step].status

EachStepOnce(rows) == \A i, j \in DOMAIN rows : rows[i].step = rows[j].step => i = j

ReplayTrustsRows(rows, store) == EachStepOnce(rows)     \* a mutated form

Replayable(rows, store) ==
  /\ EachStepOnce(rows)
  /\ \A i \in DOMAIN rows : rows[i].status = "completed" => Evidenced(store, rows[i].step)

Markable(rows, store, step, status) ==
  /\ ~Marked(rows, step)
  /\ status = "completed" => Evidenced(store, step)

(* render: METHOD_COMPLIANCE_CHECKLIST.md as the status of every step.     *)
Renderable(rows) == \A step \in Steps : Marked(rows, step)

Checklist(rows) == [step \in Steps |-> StatusIn(rows, step)]
=============================================================================
