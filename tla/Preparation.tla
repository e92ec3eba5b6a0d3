----------------------------- MODULE Preparation -----------------------------
(***************************************************************************)
(* From the survey export to the prepared frame: the crosswalk of columns  *)
(* (src/burhan/contract/crosswalk.py), the preparation with its accountant *)
(* (prep/py_impl/pipeline.py, prep/n_chain.py), the missingness report     *)
(* (prep/py_impl/missingness.py), and the two checks of what comes out:    *)
(* the invariants I1..I7 (prep/invariants.py) and the comparison with the  *)
(* R path (prep/reconciler.py), which no stage calls yet.                  *)
(*                                                                         *)
(* A column is its name, the tokens embedded in its name and in its text,  *)
(* and the column it is a free-text companion of.  An id is a sequence of  *)
(* numbers, and a row is full, or lacks its last cells, or is empty.  A    *)
(* cell is blank, text that is no number, the text "nan", an end of its    *)
(* scale of two points, or a number beyond it.  Correlations, the test of  *)
(* Little and the distances of outliers are choices.  The cases are the    *)
(* numbers of their rows.                                                  *)
(***************************************************************************)
EXTENDS Contract

CONSTANTS
  Studies,        \* the contracts with their exports
  Policies,       \* what the policy may say of preparation
  Block,          \* the shortest run of equal answers that is a straight line
  Threshold,      \* the least completion of a case, in percent
  MinItems        \* the fewest informative items of a construct (I6)

Keys == {"response_id", "identical_model_vector", "ip_plus_duration"}

Values == {"blank", "text", "nan", "low", "high", "far"}

(* A row of the export has a cell for each item and an answer to each      *)
(* check.  An id that is an empty text is a number too.                    *)
RowsOf(s) ==
  {r \in [width : {"full", "short", "empty"}, id : Seq(Nat), consent : BOOLEAN,
          passes : [DOMAIN s.data.checks -> BOOLEAN], cells : [DOMAIN s.items -> Values]] :
     r.width = "empty" \/ r.id # <<>>}

IsSequence(s) == s \in Seq(Named(s))

(* What the schema says of a contract: its items, its constructs of two    *)
(* levels, of indicators and of components, and its hypotheses.            *)
SchemaHolds(c) ==
  /\ c.reverse_coded \subseteq Instrument(c)
  /\ Declared(c) = OfLevel(c, "first_order") \cup OfLevel(c, "second_order")
  /\ \A k \in OfLevel(c, "first_order") : k \in DOMAIN c.indicators
  /\ \A k \in OfLevel(c, "second_order") : k \in DOMAIN c.components
  /\ \A k \in DOMAIN c.indicators : IsSequence(c.indicators[k]) /\ c.indicators[k] # <<>>
  /\ \A k \in DOMAIN c.components : IsSequence(c.components[k]) /\ c.components[k] # <<>>
  /\ HypothesesWellFormed(c)

ASSUME PreparationAssumption ==
  /\ \A s \in Studies :
       /\ SchemaHolds(s.contract)
       /\ IsSequence(s.items) /\ Named(s.items) = Instrument(s.contract)
       /\ IsSequence(s.export.columns) /\ s.export.rows \in Seq(RowsOf(s))
       /\ IsSequence(s.data.checks) /\ IsSequence(s.data.demographics)
       /\ IsSequence(s.data.others) /\ s.data.header_rows \in 0..3
  /\ Block \in Nat \ {0} /\ Threshold \in 0..100 /\ MinItems \in Nat
  /\ Policies \subseteq [duplicates : SUBSET Keys, attention : {"drop", "flag_only"},
                         method : {"zero_variance_within_block", "longstring"},
                         liners : {"drop", "flag_only"},
                         outliers : {"retain_with_sensitivity", "remove_with_sensitivity"}]

VARIABLES
  pc,             \* what is done next
  study,          \* the contract, its data block and the export
  policy,
  failure,        \* why the work halted
  header,         \* how many header rows the export has
  roles,          \* the pairs of a column and its role
  current,        \* the cases run_prep goes on with, in the order of the rows
  accounted,      \* the cases the accountant has left
  links,          \* the links of the N chain
  screening,      \* what was detected: census, corrupt cells, items that flip
  frame,          \* the prepared frame: for each case its cells
  flips,          \* the reversed items that do not correlate with their siblings
  missingness,    \* the verdict on the mechanism
  flagged,        \* the outliers
  parity          \* what the R path answered

chain == <<current, accounted, links>>
crosswalk == <<header, roles>>
prepared == <<screening, frame, flips, missingness, flagged, parity>>
vars == <<pc, study, policy, failure, crosswalk, chain, prepared>>

Con == study.contract
Data == study.data
Export == study.export
Columns == Export.columns
Rows == Export.rows
ItemOrder == study.items

NoScreening == [census |-> {}, out_of_range |-> {}, violations |-> {}]

NoFrame == [k \in {} |-> <<>>]

NoAnswer == [cases |-> <<>>]

Init ==
  /\ study \in Studies /\ policy \in Policies
  /\ pc = "load" /\ failure = "none"
  /\ header = 0 /\ roles = {}
  /\ current = <<>> /\ accounted = <<>> /\ links = <<>>
  /\ screening = NoScreening /\ frame = NoFrame /\ flips = {}
  /\ missingness = "none" /\ flagged = {} /\ parity = NoAnswer

Goto(step) == pc' = step

Halt(why) ==
  /\ pc' = "halted" /\ failure' = why
  /\ UNCHANGED <<study, policy, crosswalk, chain, prepared>>

-----------------------------------------------------------------------------
(* build_crosswalk.                                                        *)

LoadRaw ==
  /\ pc = "load" /\ Export.readable
  /\ Goto("header")
  /\ UNCHANGED <<study, policy, failure, crosswalk, chain, prepared>>

Unreadable == pc = "load" /\ ~Export.readable /\ Halt("FR-101")

(* _resolve_header_rows: the declared number, a dialect with three, or one *)
(* if every item is found in the first row; 0 when it cannot be told.      *)
SingleHeader == Named(ItemOrder) \subseteq UNION {c.head : c \in Named(Columns)}

HeaderRows ==
  IF Data.header_rows # 0 THEN Data.header_rows
  ELSE IF Data.dialect = "qualtrics" \/ Export.signature THEN 3
  ELSE IF SingleHeader THEN 1 ELSE 0

Names == [k \in DOMAIN Columns |-> Columns[k].name]

HeaderHolds ==
  /\ HeaderRows # 0
  /\ HeaderRows <= Export.headers + Len(Rows)
  /\ ~Export.ragged
  /\ Different(Names)

ResolveHeader ==
  /\ pc = "header" /\ HeaderHolds
  /\ header' = HeaderRows
  /\ Goto("match")
  /\ UNCHANGED <<study, policy, failure, roles, chain, prepared>>

HeaderRefused == pc = "header" /\ ~HeaderHolds /\ Halt("FR-104")

(* The tokens embedded in the row that carries the item codes.             *)
Texts(k) == IF header >= 2 THEN Columns[k].text ELSE Columns[k].head

ColumnsOf(i) == {k \in DOMAIN Columns : i \in Texts(k)}

(* _match_items: each item in one column, no column with two items.  An    *)
(* item that is listed twice is found twice.                               *)
Matches ==
  /\ Different(ItemOrder)
  /\ \A i \in Named(ItemOrder) : Cardinality(ColumnsOf(i)) = 1
  /\ \A k \in DOMAIN Columns : Cardinality(Texts(k) \cap Named(ItemOrder)) <= 1

ColumnOf(i) == CHOOSE k \in DOMAIN Columns : i \in Texts(k)

MatchItems ==
  /\ pc = "match" /\ Matches
  /\ roles' = {<<ColumnOf(i), "model_item">> : i \in Named(ItemOrder)}
  /\ Goto("account")
  /\ UNCHANGED <<study, policy, failure, header, chain, prepared>>

Unmatched == pc = "match" /\ ~Matches /\ Halt("FR-103")

(* _account_roles.  A declared column is found by its name or by its text. *)
Resolved(token) == {k \in DOMAIN Columns : Columns[k].name = token \/ token \in Texts(k)}

Optional(token, role) == IF token = "none" THEN <<>> ELSE << <<token, role>> >>

Declarations ==
  Optional(Data.id, "id") \o Optional(Data.consent, "consent") \o
  [k \in DOMAIN Data.checks |-> <<Data.checks[k], "attention_check">>] \o Data.others

(* Of the columns of a demographic, those that are not the companion of    *)
(* another one of them.                                                    *)
Bases(token) ==
  {k \in Resolved(token) :
     \A j \in Resolved(token) : Columns[k].sidecar # Columns[j].name}

Sidecars(k) == {j \in DOMAIN Columns : Columns[j].sidecar = Columns[k].name}

TheOne(S) == CHOOSE k \in S : TRUE

ResolvedRoles ==
  {<<TheOne(Resolved(Declarations[n][1])), Declarations[n][2]>> : n \in DOMAIN Declarations}
  \cup UNION {{<<TheOne(Bases(t)), "demographic">>} \cup
              {<<k, "ignored_item">> : k \in Sidecars(TheOne(Bases(t)))}
                : t \in Named(Data.demographics)}

ClaimCount ==
  Len(Declarations) + Len(Data.demographics) +
  Cardinality(UNION {Sidecars(TheOne(Bases(t))) : t \in Named(Data.demographics)})

(* Every declared column is found once, none is claimed twice, and none is *)
(* left over.                                                              *)
Accounts ==
  /\ \A n \in DOMAIN Declarations : Cardinality(Resolved(Declarations[n][1])) = 1
  /\ \A t \in Named(Data.demographics) : Cardinality(Bases(t)) = 1
  /\ LET all == roles \cup ResolvedRoles
     IN  /\ {r[1] : r \in all} = DOMAIN Columns
         /\ Len(ItemOrder) + ClaimCount = Cardinality(DOMAIN Columns)

AccountRoles ==
  /\ pc = "account" /\ Accounts
  /\ roles' = roles \cup ResolvedRoles
  /\ Goto("keys")
  /\ UNCHANGED <<study, policy, failure, header, chain, prepared>>

Unaccounted == pc = "account" /\ ~Accounts /\ Halt("V6")

-----------------------------------------------------------------------------
(* run_prep.  A column is looked up by its name alone; a name that is not  *)
(* there, or a row that is too short, is an error of Python that no halt   *)
(* of the program types.                                                   *)

ByName(token) == \E k \in DOMAIN Columns : Columns[k].name = token

(* An id that comes back gets the number of its occurrence behind it, and  *)
(* may then be the id of another row.                                      *)
CaseKey(k) ==
  LET n == Cardinality({j \in 1..k : Rows[j].id = Rows[k].id})
  IN  IF n = 1 THEN Rows[k].id ELSE Append(Rows[k].id, n)

Ids == \A k \in DOMAIN Rows : Rows[k].width # "empty"

KeysDistinct == \A j, k \in DOMAIN Rows : CaseKey(j) = CaseKey(k) => j = k

RawCases == [k \in DOMAIN Rows |-> k]

OpenChain ==
  /\ pc = "keys" /\ ByName(Data.id) /\ Ids /\ KeysDistinct
  /\ current' = RawCases
  /\ accounted' = RawCases
  /\ Goto("consent")
  /\ UNCHANGED <<study, policy, failure, crosswalk, links, prepared>>

NoIdColumn == pc = "keys" /\ ~ByName(Data.id) /\ Halt("id column")

NoId == pc = "keys" /\ ByName(Data.id) /\ ~Ids /\ Halt("unclassified")

SameKeys == pc = "keys" /\ ByName(Data.id) /\ Ids /\ ~KeysDistinct /\ Halt("same keys")

(* NChainAccountant.apply: the halts are of the accountant.                *)
DroppedBefore == UNION {Named(links[n].dropped) : n \in DOMAIN links}

LinkHolds(dropped, recovered) ==
  /\ Different(dropped) /\ Different(recovered)
  /\ Named(dropped) \subseteq Named(accounted) \ DroppedBefore
  /\ Named(recovered) \subseteq Named(accounted) \ Named(dropped)

(* The cases of a list that are in S, in their order, and the others.      *)
From(cases, S) == EntriesAt(cases, {n \in DOMAIN cases : cases[n] \in S})

Without(cases, S) == From(cases, Named(cases) \ S)

(* The accountant takes the drops of a link; run_prep goes on with the     *)
(* rest it has computed itself.                                            *)
Link(name, dropped, recovered, rest, step) ==
  IF LinkHolds(dropped, recovered)
    THEN /\ links' = Append(links, [name |-> name, entering |-> Len(accounted),
                                    dropped |-> dropped, recovered |-> recovered,
                                    leaving |-> Len(Without(accounted, Named(dropped)))])
         /\ accounted' = Without(accounted, Named(dropped))
         /\ current' = rest
         /\ Goto(step) /\ UNCHANGED failure
    ELSE /\ Goto("halted") /\ failure' = "N chain"
         /\ UNCHANGED chain

Rest == UNCHANGED <<study, policy, crosswalk, prepared>>

Refuses(k) == Data.consent # "none" /\ ~Rows[k].consent

Consent ==
  LET refused == From(current, {k \in Named(current) : Refuses(k)})
  IN  /\ pc = "consent" /\ (Data.consent = "none" \/ ByName(Data.consent))
      /\ Link("consent", refused, <<>>, Without(current, Named(refused)), "duplicates")
      /\ Rest

NoConsentColumn ==
  pc = "consent" /\ Data.consent # "none" /\ ~ByName(Data.consent) /\ Halt("unclassified")

(* The later of two cases with one id, then of two with the same answers.  *)
SameId(j, k) == Rows[j].id = Rows[k].id

SameAnswers(j, k) == Rows[j].cells = Rows[k].cells

SameIdBefore(cases, k) == \E j \in Named(cases) : j < k /\ SameId(j, k)

SameAnswersBefore(cases, k) == \E j \in Named(cases) : j < k /\ SameAnswers(j, k)

Under(key, cases) == IF key \in policy.duplicates THEN cases ELSE <<>>

IdTwiceOfAll ==                                         \* a mutated form
  From(Under("response_id", current), {k \in Named(current) : \E j \in 1..(k - 1) : SameId(j, k)})

IdTwice ==
  From(Under("response_id", current), {k \in Named(current) : SameIdBefore(current, k)})

AnswersTwiceOfAll ==                                    \* a mutated form
  From(Under("identical_model_vector", current),
       {k \in Named(current) : SameAnswersBefore(current, k)})

AnswersTwice ==
  LET others == Without(current, Named(IdTwice))
  IN  From(Under("identical_model_vector", others),
           {k \in Named(others) : SameAnswersBefore(others, k)})

ReadsShort(cases) == \E k \in Named(cases) : Rows[k].width # "full"

VectorsReadable ==
  "identical_model_vector" \in policy.duplicates => ~ReadsShort(Without(current, Named(IdTwice)))

Duplicates ==
  LET twice == IdTwice \o AnswersTwice
  IN  /\ pc = "duplicates" /\ VectorsReadable
      /\ Link("duplicates", twice, <<>>, Without(current, Named(twice)), "attention")
      /\ Rest

DuplicatesFail == pc = "duplicates" /\ ~VectorsReadable /\ Halt("unclassified")

(* The cases are looked at for one check after the other: visit n is about *)
(* this check and this case.  A case that failed is listed once, at the    *)
(* first check it fails.                                                   *)
CheckAt(n) == ((n - 1) \div Len(current)) + 1

CaseAt(n) == current[((n - 1) % Len(current)) + 1]

Inattentive ==
  LET visits == [n \in 1..(Len(Data.checks) * Len(current)) |-> CaseAt(n)]
  IN  EachOnce(EntriesAt(visits, {n \in DOMAIN visits : ~Rows[CaseAt(n)].passes[CheckAt(n)]}))

Acting(action, cases) == IF action = "drop" THEN cases ELSE <<>>

Attention ==
  LET dropped == Acting(policy.attention, Inattentive)
  IN  /\ pc = "attention" /\ \A c \in DOMAIN Data.checks : ByName(Data.checks[c])
      /\ Link("attention_checks", dropped, <<>>, Without(current, Named(dropped)), "liners")
      /\ Rest

NoCheckColumn ==
  /\ pc = "attention" /\ \E c \in DOMAIN Data.checks : ~ByName(Data.checks[c])
  /\ Halt("unclassified")

(* _straightline_run: Block answers in a row that are the same number.     *)
Answered(cell) == cell \in {"low", "high", "far", "nan"}

StraightLined(cells) ==
  \E a \in 1..(Len(cells) - Block + 1) :
    /\ \A k \in a..(a + Block - 1) : Answered(cells[k])
    /\ \A k \in a..(a + Block - 2) : cells[k] = cells[k + 1] /\ cells[k] # "nan"

StraightLiners ==
  LET liners == From(current, {k \in Named(current) : StraightLined(Rows[k].cells)})
      dropped == Acting(policy.liners, liners)
  IN  /\ pc = "liners" /\ policy.method = "zero_variance_within_block"
      /\ ~ReadsShort(current)
      /\ Link("straight_liners", dropped, <<>>, Without(current, Named(dropped)), "partials")
      /\ Rest

LinersFail ==
  /\ pc = "liners"
  /\ policy.method # "zero_variance_within_block" \/ ReadsShort(current)
  /\ Halt(IF policy.method # "zero_variance_within_block" THEN "method" ELSE "unclassified")

(* The completion counts every cell that is not blank, whatever is in it.  *)
Blanks(k) == {n \in DOMAIN ItemOrder : Rows[k].cells[n] = "blank"}

Completion(k) == (100 * (Len(ItemOrder) - Cardinality(Blanks(k)))) \div Len(ItemOrder)

Partials ==
  LET partial == From(current, {k \in Named(current) : Blanks(k) # {}})
      dropped == From(partial, {k \in Named(partial) : Completion(k) < Threshold})
  IN  /\ pc = "partials"
      /\ Link("partial_recovery", dropped, Without(partial, Named(dropped)),
              Without(current, Named(dropped)), "frame")
      /\ screening' = [screening EXCEPT
           !.census = UNION {{<<k, ItemOrder[n]>> : n \in Blanks(k)} : k \in Named(current)}]
      /\ UNCHANGED <<study, policy, crosswalk, frame, flips, missingness, flagged, parity>>

-----------------------------------------------------------------------------
(* The frame.  What is no number or beyond the scale becomes missing and   *)
(* is listed; the text "nan" is a number to Python and is not.             *)

Corrupt(cell) == cell \in {"text", "far"}

Turned(cell) == CASE cell = "low" -> "high" [] cell = "high" -> "low" [] OTHER -> cell

TypedAsIs(i, cell) ==                                   \* a mutated form
  IF cell \in {"blank", "nan", "text"} THEN "missing"
  ELSE IF i \in Con.reverse_coded THEN Turned(cell) ELSE cell

Typed(i, cell) ==
  IF cell \in {"blank", "nan"} \/ Corrupt(cell) THEN "missing"
  ELSE IF i \in Con.reverse_coded THEN Turned(cell) ELSE cell

(* The indicators of a construct that are columns of the frame.            *)
Prepared(k) ==
  IF k \in DOMAIN Con.indicators THEN Named(Con.indicators[k]) \cap Named(ItemOrder) ELSE {}

Siblings(i) == Prepared(Con.construct_ref[i]) \ {i}

(* An item with no two values correlates with nothing.                     *)
Constant(f) ==
  {i \in Con.reverse_coded : Cardinality({f[k][i] : k \in DOMAIN f} \ {"missing"}) < 2}

Correlations(f) == {F \in SUBSET Con.reverse_coded : Constant(f) \subseteq F}

CellOf(k, i) == Rows[k].cells[CHOOSE n \in DOMAIN ItemOrder : ItemOrder[n] = i]

BuildFrame ==
  /\ pc = "frame"
  /\ frame' = [k \in Named(current) |->
       [i \in Named(ItemOrder) |-> Typed(i, CellOf(k, i))]]
  /\ flips' \in Correlations(frame')
  /\ screening' = [screening EXCEPT
       !.out_of_range = {c \in Named(current) \X Named(ItemOrder) : Corrupt(CellOf(c[1], c[2]))},
       !.violations = {i \in flips' : Siblings(i) # {}}]
  /\ Goto("missing")
  /\ UNCHANGED <<study, policy, failure, crosswalk, chain, missingness, flagged, parity>>

(* The sets of items that some case answered.  With no more answers in     *)
(* them than there are items, the test of Little has no degree of freedom. *)
Patterns == {{i \in Named(ItemOrder) : frame[k][i] # "missing"} : k \in DOMAIN frame}

AssessMissingness ==
  /\ pc = "missing"
  /\ missingness' \in
       IF MapThenSumSet(Cardinality, Patterns) <= Len(ItemOrder) THEN {"mcar_not_rejected"}
       ELSE {"mcar_not_rejected", "mcar_rejected"}
  /\ Goto("outliers")
  /\ UNCHANGED <<study, policy, failure, crosswalk, chain, screening, frame, flips, flagged, parity>>

(* Outliers leave the frame, and the correlations may change.  The program *)
(* lists them by their keys, in the order of text.                         *)
Outliers ==
  /\ pc = "outliers"
  /\ flagged' \in SUBSET DOMAIN frame
  /\ LET dropped == IF policy.outliers = "remove_with_sensitivity"
                      THEN From(current, flagged') ELSE <<>>
         kept == DOMAIN frame \ Named(dropped)
     IN  /\ Link("outlier_policy", dropped, <<>>, current, "finalize")
         /\ frame' = [k \in kept |-> frame[k]]
         /\ IF dropped = <<>> THEN UNCHANGED flips ELSE flips' \in Correlations(frame')
  /\ UNCHANGED <<study, policy, crosswalk, screening, missingness, parity>>

(* finalize, and the comparison of the frame with the chain.               *)
ChainAgrees ==
  /\ accounted = Without(RawCases, DroppedBefore)
  /\ From(current, DOMAIN frame) = accounted

Finalize ==
  /\ pc = "finalize"
  /\ pc' = (IF ChainAgrees THEN "prepared" ELSE "halted")
  /\ failure' = (IF ChainAgrees THEN failure ELSE "N chain")
  /\ UNCHANGED <<study, policy, crosswalk, chain, prepared>>

-----------------------------------------------------------------------------
(* assert_invariants.                                                      *)

I1 == \A k \in DOMAIN frame, i \in Named(ItemOrder) : frame[k][i] \in {"low", "high", "missing"}

I2 == \A i \in Con.reverse_coded : Siblings(i) # {} /\ i \notin flips

(* I3 and I4: the columns of the frame are the items of the instrument.    *)
I34 == \A k \in DOMAIN frame : DOMAIN frame[k] = Instrument(Con)

(* measured: a construct has columns of its own, or one of its components  *)
(* is measured, or one of those of a component, and so on.                 *)
Components(k) == IF k \in DOMAIN Con.components THEN Con.components[k] ELSE <<>>

MeasuredFrom(S) ==
  {k \in Declared(Con) : Prepared(k) # {} \/ Named(Components(k)) \cap S # {}}

Measured(k) == \A S \in SUBSET Declared(Con) : MeasuredFrom(S) \subseteq S => k \in S

(* The components it asks, one after the other until one is measured.  If  *)
(* that leads back to where it was, Python's recursion has no end.         *)
Descends(k) ==
  {Components(k)[n] : n \in {m \in DOMAIN Components(k) :
     Prepared(k) = {} /\ \A l \in 1..(m - 1) : ~Measured(Components(k)[l])}}

Endless(k) ==
  \E S \in SUBSET Declared(Con) : k \in S /\ \A m \in S : Descends(m) \cap S # {}

InPaths == UNION {Named(Chain(h)) : h \in HypothesisSet(Con)}

PathsEnd == \A k \in InPaths : ~Endless(k)

I5 == \A k \in InPaths : k \in Declared(Con) /\ Measured(k)

Informative(i) == \E k \in DOMAIN frame : frame[k][i] # "missing"

I6 == \A k \in OfLevel(Con, "first_order") :
        LET own == Con.indicators[k]
        IN  Cardinality({n \in DOMAIN own : own[n] \in Prepared(k) /\ Informative(own[n])}) >= MinItems

I7 == V3(Con) /\ \A k \in OfLevel(Con, "second_order") :
                   \A m \in Named(Con.components[k]) : Prepared(m) # {}

AssertInvariants ==
  /\ pc = "prepared"
  /\ failure' = FirstOf(<< <<"I1", I1>>, <<"I2", I2>>, <<"I3", I34>>,
                           <<"recursion", PathsEnd>>, <<"I5", I5>>, <<"I6", I6>>,
                           <<"I7", I7>> >>)
  /\ pc' = (IF failure' = "none" THEN "asserted" ELSE "halted")
  /\ UNCHANGED <<study, policy, crosswalk, chain, prepared>>

(* reconcile_prep: the cases in their order, the cells, and of the chain   *)
(* how many each link dropped.  build_r_payload lets the R path skip as    *)
(* many rows as are declared, or one.                                      *)
PythonSide ==
  [cases |-> accounted, cells |-> frame,
   counts |-> [n \in DOMAIN links |-> Len(links[n].dropped)]]

SkippedByR == IF Data.header_rows # 0 THEN Data.header_rows ELSE 1

(* What the R path may answer when it reads the same rows: the same, one   *)
(* cell or the order otherwise, or another account of the cases.           *)
SameRows ==
  LET same == PythonSide
      other(cell) == IF cell = "missing" THEN {"low"} ELSE {"missing", Turned(cell)}
  IN  {same, [same EXCEPT !.cases = Reverse(@)], [same EXCEPT !.counts[1] = @ + 1],
       [same EXCEPT !.counts[1] = @ + 1, !.counts[2] = @ - 1]} \cup
      UNION {{[same EXCEPT !.cells[c[1]][c[2]] = v] : v \in other(frame[c[1]][c[2]])}
               : c \in (DOMAIN frame) \X Named(ItemOrder)}

(* Header rows that it takes for cases of their own.                       *)
OtherRows == {[PythonSide EXCEPT !.cases = <<0>> \o @]}

AgreesInTotal(r) ==                                     \* a mutated form
  /\ r.cases = accounted /\ r.cells = frame
  /\ FoldFunction(LAMBDA m, n : m + n, 0, r.counts) =
     FoldFunction(LAMBDA m, n : m + n, 0, PythonSide.counts)

Agrees(r) == r.cases = accounted /\ r.cells = frame /\ r.counts = PythonSide.counts

Reconcile ==
  /\ pc = "prepared" /\ Data.hints
  /\ parity' \in IF SkippedByR = header THEN SameRows ELSE OtherRows
  /\ pc' = (IF Agrees(parity') THEN "reconciled" ELSE "halted")
  /\ failure' = (IF Agrees(parity') THEN failure ELSE "FR-501")
  /\ UNCHANGED <<study, policy, crosswalk, chain, screening, frame, flips, missingness, flagged>>

(* An item without a column hint.                                          *)
NoHint == pc = "prepared" /\ ~Data.hints /\ Halt("column hint")

-----------------------------------------------------------------------------
BuildCrosswalk ==
  \/ LoadRaw \/ Unreadable \/ ResolveHeader \/ HeaderRefused
  \/ MatchItems \/ Unmatched \/ AccountRoles \/ Unaccounted

ScreenCases ==
  \/ OpenChain \/ NoIdColumn \/ NoId \/ SameKeys
  \/ Consent \/ NoConsentColumn \/ Duplicates \/ DuplicatesFail
  \/ Attention \/ NoCheckColumn \/ StraightLiners \/ LinersFail \/ Partials

Next ==
  \/ BuildCrosswalk \/ ScreenCases
  \/ BuildFrame \/ AssessMissingness \/ Outliers \/ Finalize
  \/ AssertInvariants \/ Reconcile \/ NoHint

Spec == Init /\ [][Next]_vars

-----------------------------------------------------------------------------
Cells == {"low", "high", "missing"}

(* Every variable has its type.                                            *)
TypeOK ==
  /\ study \in Studies /\ policy \in Policies
  /\ pc \in {"load", "header", "match", "account", "keys", "consent", "duplicates",
             "attention", "liners", "partials", "frame", "missing", "outliers", "finalize",
             "prepared", "asserted", "reconciled", "halted"}
  /\ header \in 0..3
  /\ \A r \in roles : r[1] \in DOMAIN Columns
  /\ Named(current) \cup Named(accounted) \subseteq DOMAIN Rows
  /\ \A l \in Named(links) : l.entering - l.leaving = Len(l.dropped)
  /\ DOMAIN screening = DOMAIN NoScreening
  /\ DOMAIN frame \subseteq DOMAIN Rows
  /\ \A k \in DOMAIN frame : frame[k] \in [Named(ItemOrder) -> Cells]
  /\ flips \subseteq Con.reverse_coded /\ flagged \subseteq DOMAIN Rows
  /\ missingness \in {"none", "mcar_not_rejected", "mcar_rejected"}

Done == pc \in {"prepared", "asserted", "reconciled"}

(* Why a link drops a case, said of the export alone.                      *)
Reason(name, k) ==
  CASE name = "consent" -> Refuses(k)
    [] name = "duplicates" -> \E j \in 1..(k - 1) : ~Refuses(j) /\ (SameId(j, k) \/ SameAnswers(j, k))
    [] name = "attention_checks" -> FALSE \in Named(Rows[k].passes)
    [] name = "straight_liners" -> StraightLined(Rows[k].cells)
    [] name = "partial_recovery" -> Completion(k) < Threshold
    [] name = "outlier_policy" -> k \in flagged

(* When preparation ends, everything is accounted for once: a column by    *)
(* one role; a case by the frame or by the one link that dropped it, and   *)
(* then for the reason of that link; and a missing cell by the census, by  *)
(* the list of corrupt cells, or by the spelling "nan", which is in        *)
(* neither.  No two cases of the frame are duplicates under the policy.    *)
EverythingAccounted ==
  Done =>
    /\ \A k \in DOMAIN Columns : Cardinality({r \in roles : r[1] = k}) = 1
    /\ Len(links) = 6
    /\ \A k \in DOMAIN Rows :
         Cardinality({n \in DOMAIN links : k \in Named(links[n].dropped)}) =
           IF k \in DOMAIN frame THEN 0 ELSE 1
    /\ \A l \in Named(links) : \A k \in Named(l.dropped) : Reason(l.name, k)
    /\ \A j, k \in DOMAIN frame :
         j < k => /\ "response_id" \in policy.duplicates => ~SameId(j, k)
                  /\ "identical_model_vector" \in policy.duplicates => ~SameAnswers(j, k)
    /\ screening.census \cap screening.out_of_range = {}
    /\ \A k \in DOMAIN frame, i \in Named(ItemOrder) :
         frame[k][i] = "missing" <=>
           \/ <<k, i>> \in screening.census \cup screening.out_of_range
           \/ CellOf(k, i) = "nan"

(* What run_prep drops never falls foul of the accountant, and what it     *)
(* goes on with is what the accountant has left: no study halts in the N   *)
(* chain.  Only a row that is too short, or a column that is declared by a *)
(* code in its text and looked up by its name, ends in an error without a  *)
(* type, and only an id that is spelled like the key of a repeated one     *)
(* makes two cases one.                                                    *)
FailuresExplained ==
  /\ failure # "N chain"
  /\ failure = "unclassified" =>
       \/ \E k \in DOMAIN Rows : Rows[k].width # "full"
       \/ \E t \in ({Data.consent} \ {"none"}) \cup Named(Data.checks) : ~ByName(t)
  /\ failure = "same keys" => \E k \in DOMAIN Rows : Len(Rows[k].id) > 1

(* For a contract the validators accept, the gate after preparation can    *)
(* fail at I2 or I6 only, and at I5 for a path that V4 does not look at,   *)
(* as the hypothesis that has it is not indirect.  For any contract, it    *)
(* fails at I2 for an item that was reported when it was screened, unless  *)
(* no sibling of it is in the frame or outliers have left the frame since. *)
(* The two paths agree only if they say the same, and where no number of   *)
(* header rows was declared, only if there is one.                         *)
ChecksAreExact ==
  /\ (V1(Con) /\ V2(Con, MinItems) /\ V3(Con) /\ V4(Con) /\ V5(Con)) =>
       /\ failure \notin {"I1", "I3", "recursion", "I7"}
       /\ failure = "I5" =>
            \E h \in HypothesisSet(Con) :
              h.effect # "indirect" /\ ~(Named(h.via) \subseteq Declared(Con))
  /\ failure = "I2" =>
       \E i \in Con.reverse_coded :
         i \in screening.violations \/ Siblings(i) = {} \/ links[6].dropped # <<>>
  /\ pc = "reconciled" => /\ parity = PythonSide
                          /\ Data.header_rows = 0 => header = 1
=============================================================================
