---------------------------- MODULE MCPreparation ----------------------------
(***************************************************************************)
(* Preparation on exports of two and three rows that differ in what the    *)
(* preparation can tell apart, and on a sound export with one change of    *)
(* its columns, of its header, of the contract or of what it declares.     *)
(***************************************************************************)
EXTENDS Preparation

WithReversed(reversed) ==
  [level |-> [k \in {"X", "Y"} |-> "first_order"], components |-> <<>>, carrier |-> "none",
   construct_ref |-> [i \in {"x1", "x2", "y1", "y2"} |-> IF i \in {"x1", "x2"} THEN "X" ELSE "Y"],
   indicators |-> [k \in {"X", "Y"} |-> IF k = "X" THEN <<"x1", "x2">> ELSE <<"y1", "y2">>],
   reverse_coded |-> reversed, exogenous |-> {"X"}, endogenous |-> {"Y"}, mediators |-> {},
   hypotheses |-> << [id |-> "H1", effect |-> "direct", from |-> "X", to |-> "Y",
                      via |-> <<>>, sign |-> "positive"] >>]

(* Second-order constructs that have each other as components.             *)
Nested(components) ==
  [WithReversed({}) EXCEPT
     !.level = [k \in {"X", "Y", "V", "W"} |->
                  IF k \in {"X", "Y"} THEN "first_order" ELSE "second_order"],
     !.components = components, !.carrier = "full_hierarchy", !.hypotheses[1].from = "W"]

HigherOrder ==
  {Nested([k \in {"V", "W"} |-> IF k = "V" THEN v ELSE w]) :
     v \in {<<"X", "Y">>, <<"W", "X">>, <<"X", "W">>},
     w \in {<<"V", "Z">>, <<"X", "V">>, <<"X", "Y">>}}

Contracts ==
  HigherOrder \cup
  {WithReversed({"x2"}), WithReversed({}),
   [WithReversed({}) EXCEPT !.hypotheses[1].to = "Z"],
   [WithReversed({}) EXCEPT !.carrier = "full_hierarchy"],
   [WithReversed({}) EXCEPT !.hypotheses[1].via = <<"Z">>],
   [WithReversed({"x2"}) EXCEPT !.indicators["X"] = <<"x2", "x9">>]}

Col(name) == [name |-> name, head |-> {name}, text |-> {}, sidecar |-> "none"]

Asked(name, code) == [Col(name) EXCEPT !.text = {code}]

Plain ==
  <<Col("rid"), Col("ok"), Col("att"), Col("x1"), Col("x2"), Col("y1"), Col("y2"),
    Col("age"), Col("meta")>>

(* Codes in the second of three header rows, and a companion of "Q8".      *)
Embedded ==
  <<Col("rid"), Asked("Q2", "ok"), Asked("Q3", "att"), Asked("Q4", "x1"), Asked("Q5", "x2"),
    Asked("Q6", "y1"), Asked("Q7", "y2"), Asked("Q8", "age"),
    [Asked("Q8_1_TEXT", "age") EXCEPT !.sidecar = "Q8"], Col("meta")>>

Declaring(id, consent, check) ==
  [header_rows |-> 0, dialect |-> "none", id |-> id, consent |-> consent, checks |-> check,
   demographics |-> <<"age">>, others |-> << <<"meta", "metadata">> >>, hints |-> TRUE]

Ignored(tokens) == [n \in 1..Cardinality(tokens) |-> <<SetToSeq(tokens)[n], "ignored_item">>]

Declares == [Declaring("rid", "ok", <<"att">>) EXCEPT !.header_rows = 1]

Row(id, consent, pass, cells) ==
  [width |-> "full", id |-> id, consent |-> consent, passes |-> <<pass>>, cells |-> cells]

Up == <<"low", "high", "high", "low">>

Down == <<"high", "low", "low", "high">>

(* The second id is also the key of a first id that comes twice.           *)
Pool ==
  << Row(<<1>>, TRUE, TRUE, Up), Row(<<2>>, TRUE, TRUE, Down), Row(<<1>>, FALSE, TRUE, Down),
     Row(<<1>>, TRUE, TRUE, Down), Row(<<3>>, TRUE, FALSE, Up),
     Row(<<3>>, TRUE, TRUE, <<"low", "low", "low", "blank">>),
     Row(<<2>>, TRUE, TRUE, <<"blank", "blank", "blank", "high">>),
     Row(<<1, 2>>, TRUE, TRUE, <<"nan", "far", "text", "low">>),
     [Row(<<4>>, TRUE, TRUE, Up) EXCEPT !.width = "short"],
     [Row(<<>>, TRUE, TRUE, Up) EXCEPT !.width = "empty"] >>

Picked(p) == [n \in DOMAIN p |-> Pool[p[n]]]

ExportOf(columns, headers, rows) ==
  [readable |-> TRUE, headers |-> headers, ragged |-> FALSE, signature |-> FALSE,
   columns |-> columns, rows |-> rows]

Sound == ExportOf(Plain, 1, Picked(<<1, 2>>))

Of(contract, data, export) ==
  [contract |-> contract, items |-> <<"x1", "x2", "y1", "y2">>, data |-> data, export |-> export]

Base == Of(WithReversed({"x2"}), Declares, Sound)

(* Every two rows, and three where the order of the screens matters.       *)
Exports ==
  {[Sound EXCEPT !.rows = Picked(<<j, k>>)] : j, k \in DOMAIN Pool} \cup
  {[Sound EXCEPT !.rows = Picked(p)] :
     p \in {<<3, 1, 4>>, <<2, 1, 4>>, <<1, 4, 2>>, <<1, 2, 4>>, <<5, 1, 6>>, <<1, 1, 8>>,
            <<1, 1, 1>>, <<6, 7, 8>>, <<3, 4, 2>>, <<4, 5, 6>>}} \cup
  {[Sound EXCEPT !.rows = <<>>]}

AllPassing(rows, data) ==
  [n \in DOMAIN rows |-> [rows[n] EXCEPT !.passes = [c \in DOMAIN data.checks |-> TRUE]]]

Headers ==
  {Of(WithReversed({"x2"}), d,
      [ExportOf(Embedded, 3, AllPassing(Picked(<<1, 2>>), d)) EXCEPT !.signature = b]) :
     d \in {[Declaring("rid", c[1], c[2]) EXCEPT !.header_rows = n, !.dialect = q, !.others = @ \o c[3]] :
              c \in {<<"none", <<>>, Ignored({"ok", "att"})>>, <<"ok", <<>>, Ignored({"att"})>>,
                    <<"none", <<"att">>, Ignored({"ok"})>>},
              n \in {0, 3}, q \in {"none", "qualtrics"}},
     b \in BOOLEAN}

Changed ==
  {[Base EXCEPT !.export.readable = FALSE], [Base EXCEPT !.export.ragged = TRUE],
   [Base EXCEPT !.data.header_rows = 3, !.export.rows = <<>>],
   [Base EXCEPT !.export.columns[9] = Col("age")], [Base EXCEPT !.export.columns[9].head = {"x1"}],
   [Base EXCEPT !.export.columns[4].head = {"x1", "x2"}],
   [Base EXCEPT !.export.columns[4].head = {}], [Base EXCEPT !.data.others = <<>>],
   [Base EXCEPT !.data.others[1] = <<"age", "metadata">>],
   [Base EXCEPT !.data.others[1] = <<"other", "metadata">>],
   [Base EXCEPT !.data.demographics = <<"age", "age">>],
   [Base EXCEPT !.export.columns[1] = [Col("Q1") EXCEPT !.head = {"rid"}]],
   [Base EXCEPT !.items = <<"x1", "x2", "y1", "y2", "x1">>, !.export.rows = <<>>],
   [Base EXCEPT !.data.hints = FALSE]}

MCStudies ==
  {Of(WithReversed({"x2"}), Declares, e) : e \in Exports} \cup
  {Of(c, Declares, Sound) : c \in Contracts} \cup Headers \cup Changed

Strict ==
  [duplicates |-> {"response_id", "identical_model_vector"}, attention |-> "drop",
   method |-> "zero_variance_within_block", liners |-> "drop",
   outliers |-> "remove_with_sensitivity"]

MCPolicies ==
  {Strict, [Strict EXCEPT !.duplicates = {"response_id"}, !.outliers = "retain_with_sensitivity"],
   [Strict EXCEPT !.duplicates = {"identical_model_vector"}, !.attention = "flag_only",
                  !.liners = "flag_only"],
   [Strict EXCEPT !.duplicates = {"ip_plus_duration"}],
   [Strict EXCEPT !.method = "longstring"]}

(* A change besides the rows meets the strict policy only.                 *)
MCInit ==
  /\ Init
  /\ study \in {Of(WithReversed({"x2"}), Declares, e) : e \in Exports} \/ policy = Strict

MCSpec == MCInit /\ [][Next]_vars
=============================================================================
