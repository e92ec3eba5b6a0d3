----------------------- MODULE MeasurementStageProofs -----------------------
(***************************************************************************)
(* Proofs about MeasurementStage.  The deletion protocol and the           *)
(* respecification controller are loops around a worker whose answers are  *)
(* arbitrary, so what the audit and the decision log say at the end rests  *)
(* on what each loop keeps while an item or a pair is in flight: taken out *)
(* and not yet estimated without it, estimated and not yet logged.         *)
(* StageInv says so for both loops; it needs no assumption beyond those of *)
(* the model, and nothing about what the worker reports.                   *)
(***************************************************************************)
EXTENDS MeasurementStage, SequenceTheorems, FiniteSetTheorems, TLAPS

(* The model the audit ends with.                                          *)
Origin == IF deletions = <<>> THEN Items ELSE deletions[Len(deletions)].after

AnyDeletion ==
  [item : Items, std : Int, before : SUBSET Items, after : SUBSET Items]

AnyModification == [pair : Pairs, mi : Nat]

Entries ==
  [what : {"recommendation_surfaced", "permit_token_issued"}]
    \cup [what : {"item_deletion_executed"}, item : Items]
    \cup [what : {"respecification"}, pair : Pairs, mi : Nat]

(* The types that the proofs need, and which steps the callers never reach.*)
StageType ==
  /\ TypeOK
  /\ caller \in {"stage", "other"}
  /\ policy \in [preauthorized : BOOLEAN, granted : SUBSET {Signal}]
  /\ attested \in [Items -> {"missing", "blank", "given"}]
  /\ caller = "stage" => attested = NoAttestation
  /\ deletions \in Seq(AnyDeletion) /\ modifications \in Seq(AnyModification)
  /\ log \in Seq(Entries)
  /\ mi \in [Pairs -> Nat]
  /\ report \in [DOMAIN report -> Int] /\ DOMAIN report \subseteq Items
  /\ pc \in {"assess", "respec", "select", "refit"} => caller = "stage"

(* The protocol works with a permit; an item that is out of the model and  *)
(* not yet in the audit was a candidate of the model before, and nothing   *)
(* spoke against it.                                                       *)
PermitInv ==
  /\ pc \in {"choose", "reestimate", "log"} => policy.preauthorized
  /\ pc \in {"measure", "base", "guard"} =>
       deletions = <<>> /\ skipped = {} /\ modifications = <<>> /\ log = <<>>
  /\ pc \in {"guard", "choose", "reestimate"} => DOMAIN report = Origin
  /\ pc = "reestimate" => \E i \in Items : chosen = {i}
  /\ pc = "log" => deletions # <<>> /\ chosen = {deletions[Len(deletions)].item}
  /\ pc \notin {"reestimate", "log", "halted"} => chosen = {}
  /\ pc \in {"reestimate", "halted"} =>
       /\ chosen \subseteq Origin /\ left = Origin \ chosen
       /\ \A i \in chosen : /\ i \in DOMAIN report /\ report[i] < Bound
                            /\ attested[i] = "given" /\ caller = "other"
                            /\ Signal \in policy.granted /\ policy.preauthorized
  /\ pc \notin {"reestimate", "halted"} => left = Origin

(* A candidate that was passed over stays in the model: what spoke against *)
(* it still does, in whatever model the protocol goes on to.               *)
SkippedInv == \A s \in skipped : s[1] \in left /\ Reason(s[1]) # "none"

DoneInv ==
  pc = "done" /\ caller = "other" /\ policy.preauthorized =>
    \A i \in Candidates : Reason(i) # "none" /\ <<i, Reason(i)>> \in skipped

(* Each entry of the audit takes its item out of the model that the entry  *)
(* before it left, and none of them comes back.                            *)
ChainInv ==
  /\ \A k \in 1..Len(deletions) :
       LET d == deletions[k]
           origin == IF k = 1 THEN Items ELSE deletions[k - 1].after
       IN  d.before = origin /\ d.item \in origin
           /\ d.after = origin \ {d.item} /\ d.std < Bound
  /\ \A k \in 1..Len(deletions) : deletions[k].item \notin left

(* The two loops never run in one study, so that the decision log has the  *)
(* entry on the permit and then the entries of one of them.                *)
LogInv ==
  /\ caller = "other" => modifications = <<>>
  /\ caller = "stage" => deletions = <<>>
  /\ log = <<>> => /\ pc \in {"measure", "base", "guard", "halted"}
                   /\ deletions = <<>> /\ modifications = <<>>
  /\ log # <<>> =>
       /\ log[1].what \in {"recommendation_surfaced", "permit_token_issued"}
       /\ caller = "other" =>
            Len(log) = IF pc = "log" THEN Len(deletions) ELSE Len(deletions) + 1
       /\ caller = "stage" =>
            /\ pc = "refit" => Len(log) = Len(modifications)
            /\ pc \notin {"refit", "halted"} => Len(log) = Len(modifications) + 1
            /\ Len(log) \in {Len(modifications), Len(modifications) + 1}
  /\ \A k \in 2..Len(log) :
       log[k] = IF caller = "other"
                THEN [what |-> "item_deletion_executed", item |-> deletions[k - 1].item]
                ELSE [what |-> "respecification", pair |-> modifications[k - 1].pair,
                      mi |-> modifications[k - 1].mi]

(* Respecification goes on only for an inadequate fit, and stops for good. *)
ControllerInv ==
  /\ pc \in {"respec", "select", "refit"} \/ modifications # <<>> => FitInadequate
  /\ pc = "refit" => modifications # <<>>
  /\ Len(modifications) <= Cap
  /\ \A k \in 1..Len(modifications) :
       Within(modifications[k].pair) /\ modifications[k].mi >= MiFloor
  /\ \A k, m \in 1..Len(modifications) :
       SamePair(modifications[k].pair, modifications[m].pair) => k = m
  /\ outcome # "none" => pc = "done"
  /\ outcome = "policy_cap" => Len(modifications) = Cap /\ Eligible # {}

StageInv == /\ StageType /\ PermitInv /\ SkippedInv /\ DoneInv /\ ChainInv
            /\ DeletionsEarned /\ LogInv /\ ControllerInv

-----------------------------------------------------------------------------
(* A set of items of one construct is finite, shrinks by one with the item *)
(* that is taken out, and never grows when the model shrinks.              *)
LEMMA CountFacts ==
  ASSUME NEW S \in SUBSET Items, NEW c
  PROVE  /\ IsFiniteSet(ItemsOf(c, S)) /\ Cardinality(ItemsOf(c, S)) \in Nat
         /\ \A T \in SUBSET S : Cardinality(ItemsOf(c, T)) <= Cardinality(ItemsOf(c, S))
         /\ \A i \in ItemsOf(c, S) :
              Cardinality(ItemsOf(c, S \ {i})) = Cardinality(ItemsOf(c, S)) - 1
<1>1. ASSUME NEW T \in SUBSET S
      PROVE  IsFiniteSet(ItemsOf(c, T)) /\ ItemsOf(c, T) \subseteq ItemsOf(c, S)
  <2>1. ItemsOf(c, T) \subseteq Items
    BY DEF ItemsOf
  <2>2. IsFiniteSet(ItemsOf(c, T))
    BY <2>1, FS_Subset, MeasurementAssumption
  <2> QED
    BY <2>2 DEF ItemsOf
<1>2. IsFiniteSet(ItemsOf(c, S)) /\ Cardinality(ItemsOf(c, S)) \in Nat
  BY <1>1, FS_CardinalityType
<1>3. ASSUME NEW T \in SUBSET S
      PROVE  Cardinality(ItemsOf(c, T)) <= Cardinality(ItemsOf(c, S))
  BY <1>1, <1>2, FS_Subset
<1>4. ASSUME NEW i \in ItemsOf(c, S)
      PROVE  Cardinality(ItemsOf(c, S \ {i})) = Cardinality(ItemsOf(c, S)) - 1
  <2>1. ItemsOf(c, S \ {i}) = ItemsOf(c, S) \ {i}
    BY DEF ItemsOf
  <2>2. Cardinality(ItemsOf(c, S) \ {i}) = Cardinality(ItemsOf(c, S)) - 1
    BY <1>2, FS_RemoveElement
  <2> QED
    BY <2>1, <2>2
<1> QED
  BY <1>2, <1>3, <1>4

(* When nothing speaks against an item.                                    *)
LEMMA ReasonNone ==
  ASSUME NEW i \in Items, StageType
  PROVE  Reason(i) = "none" <=>
           /\ Signal \in policy.granted /\ ~(Count(i, Items) < Floor)
           /\ ~(Count(i, left) - 1 < Floor) /\ attested[i] = "given"
<1>1. attested[i] \in {"missing", "blank", "given"}
  BY DEF StageType
<1> QED
  BY <1>1 DEF Reason

(* What spoke against an item still does when the model has shrunk.        *)
LEMMA ReasonsRemain ==
  ASSUME NEW i \in Items, StageType, StageType', Reason(i) # "none",
         left' \subseteq left, policy' = policy, attested' = attested
  PROVE  Reason(i)' # "none"
<1>1. left \in SUBSET Items /\ left' \in SUBSET left /\ left' \in SUBSET Items
  BY DEF StageType, TypeOK
<1>2. Count(i, left) \in Nat /\ Count(i, left') \in Nat /\ Count(i, left') <= Count(i, left)
  BY <1>1, CountFacts DEF Count
<1>3. Floor \in Nat
  BY MeasurementAssumption
<1>4. Reason(i) = "none" <=>
           /\ Signal \in policy.granted /\ ~(Count(i, Items) < Floor)
           /\ ~(Count(i, left) - 1 < Floor) /\ attested[i] = "given"
  BY ReasonNone
<1>5. Reason(i)' = "none" =>
           /\ Signal \in policy'.granted /\ ~(Count(i, Items) < Floor)
           /\ ~(Count(i, left') - 1 < Floor) /\ attested'[i] = "given"
  <2>1. attested'[i] \in {"missing", "blank", "given"}
    BY DEF StageType
  <2> QED
    BY <2>1 DEF Reason
<1> QED
  BY <1>2, <1>3, <1>4, <1>5

LEMMA AppendFacts ==
  ASSUME NEW S, NEW s \in Seq(S), NEW e \in S
  PROVE  /\ Append(s, e) \in Seq(S) /\ Append(s, e) # <<>>
         /\ Len(s) \in Nat /\ Len(Append(s, e)) = Len(s) + 1
         /\ Append(s, e)[Len(s) + 1] = e
         /\ \A k \in 1..Len(s) : Append(s, e)[k] = s[k]
BY AppendProperties

-----------------------------------------------------------------------------
(* The steps that touch neither the model nor its audit.                   *)
LEMMA ModelFrame ==
  StageInv /\ UNCHANGED <<inputs, left, deletions, skipped>>
    => SkippedInv' /\ ChainInv' /\ DeletionsEarned'
<1> SUFFICES ASSUME StageInv, UNCHANGED <<inputs, left, deletions, skipped>>
             PROVE  SkippedInv' /\ ChainInv' /\ DeletionsEarned'
  OBVIOUS
<1>1. SkippedInv'
  BY DEF StageInv, SkippedInv, Reason, Count, ItemsOf, inputs
<1>2. ChainInv'
  BY DEF StageInv, ChainInv
<1>3. DeletionsEarned'
  BY DEF StageInv, DeletionsEarned, inputs
<1> QED
  BY <1>1, <1>2, <1>3

LEMMA MeasureKeeps == StageInv /\ Measure => StageInv'
<1> SUFFICES ASSUME StageInv, Measure PROVE StageInv'
  OBVIOUS
<1>1. StageType'
  BY MeasurementAssumption DEF StageInv, StageType, TypeOK, Measure, Goto,
    inputs, protocol, controller
<1>2. PermitInv'
  BY DEF StageInv, StageType, TypeOK, PermitInv, Origin, Measure, Goto,
    inputs, protocol, controller
<1>3. SkippedInv' /\ ChainInv' /\ DeletionsEarned'
  BY ModelFrame DEF Measure, inputs, protocol
<1>4. DoneInv'
  BY DEF StageInv, StageType, DoneInv, Measure, Goto, inputs, protocol,
    controller
<1>5. LogInv'
  BY DEF StageInv, StageType, PermitInv, LogInv, Measure, Goto, inputs,
    protocol, controller
<1>6. ControllerInv'
  BY DEF StageInv, StageType, PermitInv, ControllerInv, FitInadequate,
    Measure, Goto, inputs, protocol, controller
<1> QED
  BY <1>1, <1>2, <1>3, <1>4, <1>5, <1>6 DEF StageInv

LEMMA DeletionBaseKeeps == StageInv /\ DeletionBase => StageInv'
<1> SUFFICES ASSUME StageInv, DeletionBase PROVE StageInv'
  OBVIOUS
<1>1. StageType'
  BY MeasurementAssumption DEF StageInv, StageType, TypeOK, DeletionBase,
    Goto, inputs, controller
<1>2. PermitInv'
  BY DEF StageInv, StageType, TypeOK, PermitInv, Origin, DeletionBase,
    Goto, inputs, controller
<1>3. SkippedInv' /\ ChainInv' /\ DeletionsEarned'
  BY ModelFrame DEF DeletionBase, inputs
<1>4. DoneInv'
  BY DEF StageInv, StageType, DoneInv, DeletionBase, Goto, inputs,
    controller
<1>5. LogInv'
  BY DEF StageInv, StageType, PermitInv, LogInv, DeletionBase, Goto,
    inputs, controller
<1>6. ControllerInv'
  BY DEF StageInv, StageType, PermitInv, ControllerInv, FitInadequate,
    DeletionBase, Goto, inputs, controller
<1> QED
  BY <1>1, <1>2, <1>3, <1>4, <1>5, <1>6 DEF StageInv

LEMMA WorkerFailsKeeps == StageInv /\ WorkerFails => StageInv'
<1> SUFFICES ASSUME StageInv, WorkerFails PROVE StageInv'
  OBVIOUS
<1>1. StageType'
  BY MeasurementAssumption DEF StageInv, StageType, TypeOK, WorkerFails,
    Goto, inputs, protocol, controller
<1>2. PermitInv'
  BY DEF StageInv, StageType, TypeOK, PermitInv, Origin, WorkerFails,
    Goto, inputs, protocol, controller
<1>3. SkippedInv' /\ ChainInv' /\ DeletionsEarned'
  BY ModelFrame DEF WorkerFails, inputs, protocol
<1>4. DoneInv'
  BY DEF StageInv, StageType, DoneInv, WorkerFails, Goto, inputs,
    protocol, controller
<1>5. LogInv'
  BY DEF StageInv, StageType, PermitInv, LogInv, WorkerFails, Goto,
    inputs, protocol, controller
<1>6. ControllerInv'
  BY DEF StageInv, StageType, PermitInv, ControllerInv, FitInadequate,
    WorkerFails, Goto, inputs, protocol, controller
<1> QED
  BY <1>1, <1>2, <1>3, <1>4, <1>5, <1>6 DEF StageInv

LEMMA RecommendKeeps == StageInv /\ Recommend => StageInv'
<1> SUFFICES ASSUME StageInv, Recommend PROVE StageInv'
  OBVIOUS
<1>1. StageType'
  <2>1. [what |-> "recommendation_surfaced"] \in Entries
    BY DEF Entries
  <2>2. log' \in Seq(Entries)
    BY <2>1, AppendFacts DEF Recommend, Logged, StageInv, StageType
  <2> QED
    BY <2>2, MeasurementAssumption
      DEF StageInv, StageType, TypeOK, PermitInv, Recommend, Goto, Return, NoReport,
          inputs, controller
<1>2. PermitInv'
  BY DEF StageInv, StageType, TypeOK, PermitInv, Origin, Recommend, Goto,
    Logged, Return, NoReport, inputs, controller
<1>3. SkippedInv' /\ ChainInv' /\ DeletionsEarned'
  <2>1. skipped' = skipped
    BY DEF StageInv, PermitInv, Recommend, Return
  <2> QED
    BY <2>1, ModelFrame DEF Recommend
<1>4. DoneInv'
  BY DEF StageInv, StageType, DoneInv, Recommend, Goto, Logged, Return,
    NoReport, inputs, controller
<1>5. LogInv'
  BY DEF StageInv, StageType, PermitInv, LogInv, Recommend, Goto, Logged,
    Return, NoReport, inputs, controller
<1>6. ControllerInv'
  BY DEF StageInv, StageType, PermitInv, ControllerInv, FitInadequate,
    Recommend, Goto, Logged, Return, NoReport, inputs, controller
<1> QED
  BY <1>1, <1>2, <1>3, <1>4, <1>5, <1>6 DEF StageInv

LEMMA PermitKeeps == StageInv /\ Permit => StageInv'
<1> SUFFICES ASSUME StageInv, Permit PROVE StageInv'
  OBVIOUS
<1>1. StageType'
  <2>1. [what |-> "permit_token_issued"] \in Entries
    BY DEF Entries
  <2>2. log' \in Seq(Entries)
    BY <2>1, AppendFacts DEF Permit, Logged, StageInv, StageType
  <2>3. DOMAIN report = left
    BY DEF StageInv, PermitInv, Permit
  <2> QED
    BY <2>2, <2>3
      DEF StageInv, StageType, TypeOK, Permit, Goto, inputs, protocol, controller
<1>2. PermitInv'
  BY DEF StageInv, StageType, TypeOK, PermitInv, Origin, Permit, Goto,
    Logged, inputs, protocol, controller
<1>3. SkippedInv' /\ ChainInv' /\ DeletionsEarned'
  BY ModelFrame DEF Permit, inputs, protocol
<1>4. DoneInv'
  BY DEF StageInv, StageType, DoneInv, Permit, Goto, Logged, inputs,
    protocol, controller
<1>5. LogInv'
  <2>1. /\ log = <<>> /\ deletions = <<>> /\ modifications = <<>> /\ pc' = "choose"
        /\ log' = <<[what |-> "permit_token_issued"]>>
        /\ UNCHANGED <<inputs, deletions, modifications>>
    BY DEF StageInv, PermitInv, Permit, Goto, Logged, protocol, controller
  <2>2. Len(log') = 1 /\ log' # <<>> /\ log'[1].what = "permit_token_issued"
        /\ Len(modifications') = 0 /\ Len(deletions') = 0
    BY <2>1
  <2> QED
    BY <2>1, <2>2 DEF StageInv, LogInv, inputs
<1>6. ControllerInv'
  BY DEF StageInv, StageType, PermitInv, ControllerInv, FitInadequate,
    Permit, Goto, Logged, inputs, protocol, controller
<1> QED
  BY <1>1, <1>2, <1>3, <1>4, <1>5, <1>6 DEF StageInv

(* The item that is taken out is one that nothing speaks against, so that  *)
(* what was passed over stays; its construct keeps at least Floor items.   *)
LEMMA ChooseItemKeeps == StageInv /\ ChooseItem => StageInv'
<1> SUFFICES ASSUME StageInv, ChooseItem PROVE StageInv'
  OBVIOUS
<1> USE DEF StageInv
<1>1. PICK i \in Candidates :
        /\ Reason(i) = "none"
        /\ skipped' = PassedOver({j \in Candidates : Precedes(j, i)})
        /\ \A j \in Candidates : Precedes(j, i) => Reason(j) # "none"
        /\ left' = left \ {i} /\ chosen' = {i}
  BY DEF ChooseItem
<1>2. /\ pc = "choose" /\ pc' = "reestimate"
      /\ UNCHANGED <<inputs, fit, report, deletions, log, controller>>
  BY DEF ChooseItem, Goto
<1>3. /\ DOMAIN report = left /\ left = Origin /\ left \subseteq Items
      /\ i \in Items /\ i \in left /\ report[i] < Bound
      /\ policy.preauthorized
  BY <1>2 DEF StageType, TypeOK, PermitInv, Candidates
<1>4. /\ Signal \in policy.granted /\ ~(Count(i, left) - 1 < Floor)
      /\ attested[i] = "given"
  BY <1>1, <1>3, ReasonNone
<1>5. caller = "other"
  BY <1>2, <1>3, <1>4 DEF DeletionsEarned, StageType, NoAttestation
<1>6. StageType'
  BY <1>1, <1>2, <1>3 DEF StageType, TypeOK, inputs, controller
<1>7. PermitInv'
  <2>1. Origin' = Origin
    BY <1>2 DEF Origin
  <2> QED
    BY <1>1, <1>2, <1>3, <1>4, <1>5, <2>1 DEF PermitInv, inputs, controller
<1>8. SkippedInv'
  <2>1. ASSUME NEW s \in skipped' PROVE s[1] \in left /\ Reason(s[1]) # "none"
    BY <1>1, <1>3, <2>1 DEF SkippedInv, PassedOver, Candidates
  <2>2. ASSUME NEW s \in skipped' PROVE s[1] \in left' /\ Reason(s[1])' # "none"
    <3>1. PICK j : j = s[1]
      OBVIOUS
    <3>2. j \in left /\ j \in Items /\ Reason(j) # "none" /\ j # i
      BY <1>1, <1>3, <2>1, <3>1
    <3>3. Reason(j)' # "none"
      BY <1>1, <1>2, <1>6, <3>2, ReasonsRemain DEF inputs
    <3> QED
      BY <1>1, <3>1, <3>2, <3>3
  <2> QED
    BY <2>2 DEF SkippedInv
<1>9. DoneInv' /\ ChainInv'
  BY <1>1, <1>2 DEF DoneInv, ChainInv
<1>10. DeletionsEarned'
  <2>1. /\ policy' = policy /\ attested' = attested /\ caller' = caller
    BY <1>2 DEF inputs
  <2>2. \A j \in Items \ left' : attested[j] = "given"
    BY <1>1, <1>4 DEF DeletionsEarned
  <2>3. ASSUME NEW c \in Constructs
        PROVE  \/ ItemsOf(c, left') = ItemsOf(c, Items)
               \/ Cardinality(ItemsOf(c, left')) >= Floor
    <3>1. CASE c = ConstructOf[i]
      <4>1. i \in ItemsOf(c, left) /\ left \in SUBSET Items
        BY <1>3, <3>1 DEF ItemsOf
      <4>2. /\ Cardinality(ItemsOf(c, left')) = Cardinality(ItemsOf(c, left)) - 1
            /\ Cardinality(ItemsOf(c, left)) \in Nat
        BY <1>1, <4>1, CountFacts
      <4> QED
        BY <1>4, <3>1, <4>2, MeasurementAssumption DEF Count
    <3>2. CASE c # ConstructOf[i]
      <4>1. ItemsOf(c, left') = ItemsOf(c, left)
        BY <1>1, <3>2 DEF ItemsOf
      <4> QED
        BY <4>1 DEF DeletionsEarned
    <3> QED
      BY <3>1, <3>2
  <2> QED
    BY <1>3, <1>4, <1>5, <2>1, <2>2, <2>3 DEF DeletionsEarned
<1>11. LogInv'
  BY <1>2 DEF LogInv, inputs, controller
<1>12. ControllerInv'
  BY <1>2 DEF ControllerInv, FitInadequate, inputs, controller, Eligible, Applied
<1> QED
  BY <1>6, <1>7, <1>8, <1>9, <1>10, <1>11, <1>12

(* What is still in the model is in the list of what was passed over.      *)
LEMMA NoneLeftKeeps == StageInv /\ NoneLeft => StageInv'
<1> SUFFICES ASSUME StageInv, NoneLeft PROVE StageInv'
  OBVIOUS
<1> USE DEF StageInv
<1>1. /\ pc = "choose" /\ pc' \in {"assess", "done"}
      /\ pc' = "assess" <=> caller = "stage"
      /\ \A i \in Candidates : Reason(i) # "none"
      /\ skipped' = IF caller = "stage" THEN {} ELSE PassedOver(Candidates)
      /\ report' = IF caller = "stage" THEN NoReport ELSE report
      /\ UNCHANGED <<inputs, fit, left, chosen, deletions, log, controller>>
  BY DEF NoneLeft, Return, Goto
<1>2. StageType'
  BY <1>1 DEF StageType, TypeOK, NoReport, inputs, controller
<1>3. PermitInv'
  BY <1>1 DEF PermitInv, Origin, inputs, controller
<1>4. \A i : Reason(i)' = Reason(i)
  BY <1>1 DEF Reason, Count, ItemsOf, inputs
<1>5. \A i \in Candidates : i \in left
  BY <1>1 DEF StageType, TypeOK, Candidates
<1>6. SkippedInv'
  <2>1. ASSUME NEW s \in skipped' PROVE s[1] \in left /\ Reason(s[1]) # "none"
    BY <1>1, <1>5, <2>1 DEF SkippedInv, PassedOver
  <2>2. ASSUME NEW s \in skipped' PROVE s[1] \in left' /\ Reason(s[1])' # "none"
    <3>1. PICK j : j = s[1]
      OBVIOUS
    <3> QED
      BY <1>1, <1>4, <2>1, <3>1
  <2> QED
    BY <2>2 DEF SkippedInv
<1>7. DoneInv'
  <2> SUFFICES ASSUME caller = "other", NEW i \in Candidates'
               PROVE  Reason(i)' # "none" /\ <<i, Reason(i)'>> \in skipped'
    BY <1>1 DEF DoneInv, inputs
  <2>1. i \in Candidates
    BY <1>1 DEF Candidates
  <2> QED
    BY <1>1, <1>4, <2>1 DEF PassedOver
<1>8. ChainInv' /\ DeletionsEarned'
  BY <1>1 DEF ChainInv, DeletionsEarned, inputs
<1>9. LogInv'
  BY <1>1 DEF LogInv, StageType, inputs, controller
<1>10. ControllerInv'
  BY <1>1 DEF ControllerInv, FitInadequate, inputs, controller, Eligible, Applied
<1> QED
  BY <1>2, <1>3, <1>6, <1>7, <1>8, <1>9, <1>10

(* The audit takes the item out of the model it ended with before.         *)
LEMMA ReestimateKeeps == StageInv /\ Reestimate => StageInv'
<1> SUFFICES ASSUME StageInv, Reestimate PROVE StageInv'
  OBVIOUS
<1> USE DEF StageInv
<1> DEFINE n == Len(deletions)
<1>1. PICK i \in Items : chosen = {i}
  BY DEF Reestimate, PermitInv
<1>2. /\ pc = "reestimate" /\ pc' = "log" /\ deletions' = Append(deletions, Audit(i))
      /\ report' \in [left -> Loadings]
      /\ UNCHANGED <<inputs, fit, left, chosen, skipped, log, controller>>
  BY <1>1 DEF Reestimate, Goto
<1>3. /\ DOMAIN report = Origin /\ i \in Origin /\ left = Origin \ {i}
      /\ report[i] < Bound /\ caller = "other" /\ policy.preauthorized
      /\ i \notin left
  BY <1>1, <1>2 DEF PermitInv
<1>4. Audit(i) = [item |-> i, std |-> report[i], before |-> Origin, after |-> left]
  BY <1>3 DEF Audit
<1>5. Audit(i) \in AnyDeletion
  <2>1. report[i] \in Int /\ Origin \in SUBSET Items /\ left \in SUBSET Items
    BY <1>3 DEF StageType, TypeOK
  <2> QED
    BY <1>4, <2>1 DEF AnyDeletion
<1>6. /\ n \in Nat /\ deletions' \in Seq(AnyDeletion) /\ deletions' # <<>>
      /\ Len(deletions') = n + 1 /\ deletions'[n + 1] = Audit(i)
      /\ \A k \in 1..n : deletions'[k] = deletions[k]
  BY <1>2, <1>5, AppendFacts DEF StageType
<1> HIDE DEF n
<1>7. Origin' = left
  BY <1>4, <1>6 DEF Origin
<1>8. Origin = IF n = 0 THEN Items ELSE deletions[n].after
  BY <1>6, EmptySeq DEF Origin, n, StageType
<1>9. StageType'
  BY <1>2, <1>3, <1>6, MeasurementAssumption DEF StageType, TypeOK, inputs, controller
<1>10. PermitInv'
  BY <1>1, <1>2, <1>3, <1>4, <1>6, <1>7 DEF PermitInv, inputs, controller
<1>11. SkippedInv' /\ DeletionsEarned'
  BY <1>2 DEF SkippedInv, DeletionsEarned, Reason, Count, ItemsOf, inputs
<1>12. ChainInv'
  <2>0. \A k \in 1..(n + 1) : deletions'[k].item \notin left'
    BY <1>2, <1>3, <1>4, <1>6 DEF ChainInv, n
  <2> SUFFICES ASSUME NEW k \in 1..(n + 1)
               PROVE  LET d == deletions'[k]
                          origin == IF k = 1 THEN Items ELSE deletions'[k - 1].after
                      IN  /\ d.before = origin /\ d.item \in origin
                          /\ d.after = origin \ {d.item} /\ d.std < Bound
    BY <1>6, <2>0 DEF ChainInv
  <2>1. CASE k \in 1..n
    <3>1. deletions'[k] = deletions[k] /\ (k # 1 => deletions'[k - 1] = deletions[k - 1])
      BY <1>6, <2>1
    <3> QED
      BY <2>1, <3>1 DEF ChainInv, n
  <2>2. CASE k = n + 1
    <3>1. (IF k = 1 THEN Items ELSE deletions'[k - 1].after) = Origin
      BY <1>6, <1>8, <2>2
    <3> QED
      BY <1>3, <1>4, <1>6, <2>2, <3>1
  <2> QED
    BY <1>6, <2>1, <2>2
<1>13. DoneInv' /\ ControllerInv'
  BY <1>2 DEF DoneInv, ControllerInv, FitInadequate, inputs, controller, Eligible, Applied
<1>14. LogInv'
  <2>1. log # <<>> /\ Len(log) = n + 1
    BY <1>2, <1>3 DEF LogInv, n
  <2>2. ASSUME NEW k \in 2..Len(log)
        PROVE  log[k] = [what |-> "item_deletion_executed", item |-> deletions'[k - 1].item]
    BY <1>3, <1>6, <2>1 DEF LogInv
  <2> QED
    BY <1>2, <1>3, <1>6, <2>1, <2>2 DEF LogInv, inputs, controller
<1> QED
  BY <1>9, <1>10, <1>11, <1>12, <1>13, <1>14

LEMMA LogDeletionKeeps == StageInv /\ LogDeletion => StageInv'
<1> SUFFICES ASSUME StageInv, LogDeletion PROVE StageInv'
  OBVIOUS
<1>1. log' \in Seq(Entries) /\ Len(log') = Len(log) + 1 /\ log' # <<>> /\ Len(log) \in Nat
      /\ log'[Len(log')] = [what |-> "item_deletion_executed",
                            item |-> deletions[Len(deletions)].item]
      /\ \A k \in 1..Len(log) : log'[k] = log[k]
  <2>1. deletions # <<>> /\ deletions[Len(deletions)].item \in Items
        /\ chosen = {deletions[Len(deletions)].item}
    BY DEF StageInv, PermitInv, StageType, TypeOK, LogDeletion
  <2>2. [what |-> "item_deletion_executed", item |-> deletions[Len(deletions)].item]
          \in Entries
    BY <2>1 DEF Entries
  <2>3. log' = Append(log, [what |-> "item_deletion_executed",
                            item |-> deletions[Len(deletions)].item])
    BY <2>1 DEF LogDeletion, Logged
  <2> QED
    BY <2>2, <2>3, AppendFacts DEF StageInv, StageType
<1>2. StageType'
  BY <1>1 DEF StageInv, StageType, TypeOK, LogDeletion, Goto, inputs, controller
<1>3. PermitInv'
  BY DEF StageInv, StageType, TypeOK, PermitInv, Origin, LogDeletion,
    Goto, Logged, inputs, controller
<1>4. SkippedInv' /\ ChainInv' /\ DeletionsEarned'
  BY ModelFrame DEF LogDeletion, inputs
<1>5. DoneInv'
  BY DEF StageInv, StageType, DoneInv, LogDeletion, Goto, Logged, inputs,
    controller
<1>6. LogInv'
  <2>1. /\ pc = "log" /\ pc' = "choose" /\ caller = "other" /\ deletions # <<>>
        /\ UNCHANGED <<inputs, deletions, controller>> /\ log # <<>>
        /\ Len(log) = Len(deletions)
    BY DEF StageInv, StageType, PermitInv, LogInv, LogDeletion, Goto
  <2>2. ASSUME NEW k \in 2..Len(log')
        PROVE  log'[k] = [what |-> "item_deletion_executed", item |-> deletions[k - 1].item]
    BY <1>1, <2>1 DEF StageInv, LogInv
  <2>3. log'[1] = log[1]
    BY <1>1, <2>1, EmptySeq DEF StageInv, StageType
  <2> QED
    BY <1>1, <2>1, <2>2, <2>3 DEF StageInv, LogInv, inputs, controller
<1>7. ControllerInv'
  BY DEF StageInv, StageType, PermitInv, ControllerInv, FitInadequate,
    LogDeletion, Goto, Logged, inputs, controller
<1> QED
  BY <1>1, <1>2, <1>3, <1>4, <1>5, <1>6, <1>7 DEF StageInv

LEMMA FlagRespecificationKeeps == StageInv /\ FlagRespecification => StageInv'
<1> SUFFICES ASSUME StageInv, FlagRespecification PROVE StageInv'
  OBVIOUS
<1>1. StageType'
  BY MeasurementAssumption DEF StageInv, StageType, TypeOK,
    FlagRespecification, Goto, inputs, protocol
<1>2. PermitInv'
  BY DEF StageInv, StageType, TypeOK, PermitInv, Origin,
    FlagRespecification, Goto, inputs, protocol
<1>3. SkippedInv' /\ ChainInv' /\ DeletionsEarned'
  BY ModelFrame DEF FlagRespecification, inputs, protocol
<1>4. DoneInv'
  BY DEF StageInv, StageType, DoneInv, FlagRespecification, Goto, inputs,
    protocol
<1>5. LogInv'
  BY DEF StageInv, StageType, PermitInv, LogInv, FlagRespecification,
    Goto, inputs, protocol
<1>6. ControllerInv'
  BY DEF StageInv, StageType, PermitInv, ControllerInv, FitInadequate,
    FlagRespecification, Goto, inputs, protocol
<1> QED
  BY <1>1, <1>2, <1>3, <1>4, <1>5, <1>6 DEF StageInv

LEMMA StartRespecificationKeeps == StageInv /\ StartRespecification => StageInv'
<1> SUFFICES ASSUME StageInv, StartRespecification PROVE StageInv'
  OBVIOUS
<1>1. StageType'
  BY MeasurementAssumption DEF StageInv, StageType, TypeOK,
    StartRespecification, Goto, inputs, protocol, controller
<1>2. PermitInv'
  BY DEF StageInv, StageType, TypeOK, PermitInv, Origin,
    StartRespecification, Goto, inputs, protocol, controller
<1>3. SkippedInv' /\ ChainInv' /\ DeletionsEarned'
  BY ModelFrame DEF StartRespecification, inputs, protocol
<1>4. DoneInv'
  BY DEF StageInv, StageType, DoneInv, StartRespecification, Goto, inputs,
    protocol, controller
<1>5. LogInv'
  BY DEF StageInv, StageType, PermitInv, LogInv, StartRespecification,
    Goto, inputs, protocol, controller
<1>6. ControllerInv'
  BY DEF StageInv, StageType, PermitInv, ControllerInv, FitInadequate,
    StartRespecification, Goto, inputs, protocol, controller
<1> QED
  BY <1>1, <1>2, <1>3, <1>4, <1>5, <1>6 DEF StageInv

LEMMA RespecificationBaseKeeps == StageInv /\ RespecificationBase => StageInv'
<1> SUFFICES ASSUME StageInv, RespecificationBase PROVE StageInv'
  OBVIOUS
<1>1. StageType'
  BY MeasurementAssumption DEF StageInv, StageType, TypeOK,
    RespecificationBase, Goto, inputs, protocol
<1>2. PermitInv'
  BY DEF StageInv, StageType, TypeOK, PermitInv, Origin,
    RespecificationBase, Goto, inputs, protocol
<1>3. SkippedInv' /\ ChainInv' /\ DeletionsEarned'
  BY ModelFrame DEF RespecificationBase, inputs, protocol
<1>4. DoneInv'
  BY DEF StageInv, StageType, DoneInv, RespecificationBase, Goto, inputs,
    protocol
<1>5. LogInv'
  BY DEF StageInv, StageType, PermitInv, LogInv, RespecificationBase,
    Goto, inputs, protocol
<1>6. ControllerInv'
  BY DEF StageInv, StageType, PermitInv, ControllerInv, FitInadequate,
    RespecificationBase, Goto, inputs, protocol
<1> QED
  BY <1>1, <1>2, <1>3, <1>4, <1>5, <1>6 DEF StageInv

LEMMA NoSuggestionKeeps == StageInv /\ NoSuggestion => StageInv'
<1> SUFFICES ASSUME StageInv, NoSuggestion PROVE StageInv'
  OBVIOUS
<1>1. StageType'
  BY MeasurementAssumption DEF StageInv, StageType, TypeOK, NoSuggestion,
    Goto, Stop, inputs, protocol
<1>2. PermitInv'
  BY DEF StageInv, StageType, TypeOK, PermitInv, Origin, NoSuggestion,
    Goto, Stop, inputs, protocol
<1>3. SkippedInv' /\ ChainInv' /\ DeletionsEarned'
  BY ModelFrame DEF NoSuggestion, Stop, inputs, protocol
<1>4. DoneInv'
  BY DEF StageInv, StageType, DoneInv, NoSuggestion, Goto, Stop, inputs,
    protocol
<1>5. LogInv'
  BY DEF StageInv, StageType, PermitInv, LogInv, NoSuggestion, Goto, Stop,
    inputs, protocol
<1>6. ControllerInv'
  BY DEF StageInv, StageType, PermitInv, ControllerInv, FitInadequate,
    NoSuggestion, Goto, Stop, inputs, protocol, Within, SamePair, Eligible,
    Applied
<1> QED
  BY <1>1, <1>2, <1>3, <1>4, <1>5, <1>6 DEF StageInv

LEMMA PolicyCapKeeps == StageInv /\ PolicyCap => StageInv'
<1> SUFFICES ASSUME StageInv, PolicyCap PROVE StageInv'
  OBVIOUS
<1>1. StageType'
  BY MeasurementAssumption DEF StageInv, StageType, TypeOK, PolicyCap,
    Goto, Stop, inputs, protocol
<1>2. PermitInv'
  BY DEF StageInv, StageType, TypeOK, PermitInv, Origin, PolicyCap, Goto,
    Stop, inputs, protocol
<1>3. SkippedInv' /\ ChainInv' /\ DeletionsEarned'
  BY ModelFrame DEF PolicyCap, Stop, inputs, protocol
<1>4. DoneInv'
  BY DEF StageInv, StageType, DoneInv, PolicyCap, Goto, Stop, inputs,
    protocol
<1>5. LogInv'
  BY DEF StageInv, StageType, PermitInv, LogInv, PolicyCap, Goto, Stop,
    inputs, protocol
<1>6. ControllerInv'
  <2>1. Len(modifications) \in Nat /\ Cap \in Nat
    BY MeasurementAssumption, LenProperties DEF StageInv, StageType
  <2>2. /\ Len(modifications) = Cap /\ Eligible # {} /\ Eligible' = Eligible
    BY <2>1 DEF StageInv, ControllerInv, PolicyCap, Stop, Eligible, Applied
  <2> QED
    BY <2>2 DEF StageInv, ControllerInv, FitInadequate, PolicyCap, Goto, Stop
<1> QED
  BY <1>1, <1>2, <1>3, <1>4, <1>5, <1>6 DEF StageInv

LEMMA ModifyKeeps == StageInv /\ Modify => StageInv'
<1> SUFFICES ASSUME StageInv, Modify PROVE StageInv'
  OBVIOUS
<1>1. /\ \E p \in Eligible :
        modifications' = Append(modifications, [pair |-> p, mi |-> mi[p]])
      /\ pc = "select" /\ pc' = "refit" /\ Len(modifications) < Cap
      /\ UNCHANGED <<inputs, fit, protocol, log, mi, outcome>>
  BY DEF Modify, Goto
<1>2. StageType'
  <2>1. PICK p \in Eligible :
        modifications' = Append(modifications, [pair |-> p, mi |-> mi[p]])
    BY <1>1
  <2>2. [pair |-> p, mi |-> mi[p]] \in AnyModification
    BY DEF StageInv, StageType, AnyModification, Eligible
  <2>3. modifications' \in Seq(AnyModification)
    BY <2>1, <2>2, AppendFacts DEF StageInv, StageType
  <2> QED
    BY <1>1, <2>3 DEF StageInv, StageType, TypeOK, inputs, protocol
<1>3. PermitInv'
  BY <1>1 DEF StageInv, PermitInv, Origin, inputs, protocol
<1>4. SkippedInv' /\ ChainInv' /\ DeletionsEarned'
  BY ModelFrame DEF Modify, inputs, protocol
<1>5. DoneInv'
  BY DEF StageInv, StageType, DoneInv, Modify, Goto, inputs, protocol
<1>6. LogInv'
  <2>1. PICK p \in Eligible :
        modifications' = Append(modifications, [pair |-> p, mi |-> mi[p]])
    BY <1>1
  <2>2. [pair |-> p, mi |-> mi[p]] \in AnyModification
    BY DEF StageInv, StageType, AnyModification, Eligible
  <2>3. /\ Len(modifications) \in Nat /\ Len(modifications') = Len(modifications) + 1
        /\ \A k \in 1..Len(modifications) : modifications'[k] = modifications[k]
    BY <2>1, <2>2, AppendFacts DEF StageInv, StageType
  <2>4. /\ caller = "stage" /\ log # <<>> /\ Len(log) = Len(modifications) + 1
        /\ deletions = <<>>
    BY <1>1 DEF StageInv, StageType, LogInv
  <2>5. ASSUME NEW k \in 2..Len(log)
        PROVE  log[k] = [what |-> "respecification", pair |-> modifications'[k - 1].pair,
                         mi |-> modifications'[k - 1].mi]
    BY <2>3, <2>4 DEF StageInv, LogInv
  <2> QED
    BY <1>1, <2>3, <2>4, <2>5 DEF StageInv, LogInv, inputs, protocol
<1>7. ControllerInv'
  <2> DEFINE n == Len(modifications)
  <2>1. PICK p \in Eligible :
        modifications' = Append(modifications, [pair |-> p, mi |-> mi[p]])
    BY <1>1
  <2>2. [pair |-> p, mi |-> mi[p]] \in AnyModification
    BY DEF StageInv, StageType, AnyModification, Eligible
  <2>3. /\ n \in Nat /\ Len(modifications') = n + 1 /\ modifications' # <<>>
        /\ modifications'[n + 1] = [pair |-> p, mi |-> mi[p]]
        /\ \A k \in 1..n : modifications'[k] = modifications[k]
    BY <2>1, <2>2, AppendFacts DEF StageInv, StageType
  <2>4. n < Cap /\ Cap \in Nat
    BY <1>1, MeasurementAssumption
  <2>5. /\ Within(p) /\ mi[p] >= MiFloor
        /\ \A k \in 1..n : ~SamePair(modifications[k].pair, p)
    BY <2>3, LenProperties DEF Eligible, Applied, StageInv, StageType
  <2> HIDE DEF n
  <2>6. \A k \in 1..(n + 1) :
          Within(modifications'[k].pair) /\ modifications'[k].mi >= MiFloor
    <3> SUFFICES ASSUME NEW k \in 1..(n + 1)
                 PROVE  Within(modifications'[k].pair) /\ modifications'[k].mi >= MiFloor
      OBVIOUS
    <3>1. CASE k \in 1..n
      BY <2>3, <3>1 DEF StageInv, ControllerInv, n
    <3>2. CASE k = n + 1
      BY <2>3, <2>5, <3>2
    <3> QED
      BY <2>3, <3>1, <3>2
  <2>7. ASSUME NEW k \in 1..(n + 1), NEW m \in 1..(n + 1),
               SamePair(modifications'[k].pair, modifications'[m].pair)
        PROVE  k = m
    <3>1. CASE k \in 1..n /\ m \in 1..n
      BY <2>3, <2>7, <3>1 DEF StageInv, ControllerInv, n
    <3>2. CASE k = n + 1 /\ m \in 1..n
      <4>1. modifications'[k].pair = p /\ modifications'[m].pair = modifications[m].pair
        BY <2>3, <3>2
      <4>2. SamePair(p, modifications[m].pair)
        BY <2>7, <4>1
      <4> QED
        BY <2>5, <3>2, <4>2 DEF SamePair
    <3>3. CASE k \in 1..n /\ m = n + 1
      BY <2>3, <2>5, <2>7, <3>3
    <3> QED
      BY <2>3, <3>1, <3>2, <3>3
  <2>8. FitInadequate' /\ outcome' = "none"
    BY <1>1 DEF StageInv, StageType, ControllerInv, FitInadequate
  <2> QED
    BY <1>1, <2>3, <2>4, <2>6, <2>7, <2>8 DEF ControllerInv
<1> QED
  BY <1>1, <1>2, <1>3, <1>4, <1>5, <1>6, <1>7 DEF StageInv

LEMMA RefitKeeps == StageInv /\ Refit => StageInv'
<1> SUFFICES ASSUME StageInv, Refit PROVE StageInv'
  OBVIOUS
<1>1. log' \in Seq(Entries) /\ Len(log') = Len(log) + 1 /\ log' # <<>> /\ Len(log) \in Nat
      /\ log'[Len(log')] = [what |-> "respecification",
                            pair |-> modifications[Len(modifications)].pair,
                            mi |-> modifications[Len(modifications)].mi]
      /\ \A k \in 1..Len(log) : log'[k] = log[k]
  <2> DEFINE m == modifications[Len(modifications)]
             e == [what |-> "respecification", pair |-> m.pair, mi |-> m.mi]
  <2>1. modifications # <<>>
    BY DEF StageInv, ControllerInv, Refit
  <2>2. m \in AnyModification
    BY <2>1 DEF StageInv, StageType
  <2>3. e \in Entries
    BY <2>2 DEF Entries, AnyModification
  <2>4. log' = Append(log, e)
    BY DEF Refit, Logged
  <2> QED
    BY <2>3, <2>4, AppendFacts DEF StageInv, StageType
<1>2. StageType'
  <2>1. mi' \in [Pairs -> Nat]
    BY MeasurementAssumption DEF Refit
  <2> QED
    BY <1>1, <2>1 DEF StageInv, StageType, TypeOK, Refit, Goto, inputs, protocol
<1>3. PermitInv'
  BY DEF StageInv, StageType, TypeOK, PermitInv, Origin, Refit, Goto,
    Logged, inputs, protocol
<1>4. SkippedInv' /\ ChainInv' /\ DeletionsEarned'
  BY ModelFrame DEF Refit, inputs, protocol
<1>5. DoneInv'
  BY DEF StageInv, StageType, DoneInv, Refit, Goto, Logged, inputs,
    protocol
<1>6. LogInv'
  <2>1. /\ pc = "refit" /\ pc' = "select" /\ caller = "stage" /\ log # <<>>
        /\ Len(log) = Len(modifications) /\ deletions = <<>>
        /\ UNCHANGED <<inputs, protocol, modifications>>
    BY DEF StageInv, StageType, LogInv, Refit, Goto
  <2>2. ASSUME NEW k \in 2..Len(log')
        PROVE  log'[k] = [what |-> "respecification", pair |-> modifications[k - 1].pair,
                          mi |-> modifications[k - 1].mi]
    BY <1>1, <2>1 DEF StageInv, LogInv
  <2>3. log'[1] = log[1]
    BY <1>1, <2>1, EmptySeq DEF StageInv, StageType
  <2> QED
    BY <1>1, <2>1, <2>2, <2>3 DEF StageInv, LogInv, inputs, protocol
<1>7. ControllerInv'
  BY DEF StageInv, StageType, PermitInv, ControllerInv, FitInadequate,
    Refit, Goto, Logged, inputs, protocol
<1> QED
  BY <1>1, <1>2, <1>3, <1>4, <1>5, <1>6, <1>7 DEF StageInv

-----------------------------------------------------------------------------
LEMMA InitHolds == Init => StageInv
<1> SUFFICES ASSUME Init PROVE StageInv
  OBVIOUS
<1>1. StageType
  <2>1. attested \in [Items -> {"missing", "blank", "given"}]
    BY MeasurementAssumption DEF Init, NoAttestation
  <2>2. TypeOK /\ report \in [DOMAIN report -> Int] /\ DOMAIN report \subseteq Items
    BY DEF Init, TypeOK, NoReport, Places
  <2>3. caller = "stage" => attested = NoAttestation
    BY DEF Init
  <2> QED
    BY <2>1, <2>2, <2>3 DEF StageType, Init
<1>2. PermitInv /\ SkippedInv /\ DoneInv
  BY DEF Init, PermitInv, SkippedInv, DoneInv, Origin
<1>3. ChainInv /\ DeletionsEarned
  BY DEF Init, ChainInv, DeletionsEarned
<1>4. LogInv
  BY DEF Init, LogInv
<1>5. ControllerInv
  BY MeasurementAssumption DEF Init, ControllerInv
<1> QED
  BY <1>1, <1>2, <1>3, <1>4, <1>5 DEF StageInv

LEMMA StutterKeeps == StageInv /\ UNCHANGED vars => StageInv'
<1> SUFFICES ASSUME StageInv, UNCHANGED vars PROVE StageInv'
  OBVIOUS
<1>1. UNCHANGED <<pc, inputs, fit, protocol, log, controller>>
  BY DEF vars
<1>2. StageType' /\ PermitInv' /\ LogInv'
  BY <1>1 DEF StageInv, StageType, TypeOK, PermitInv, LogInv, Origin, inputs,
    protocol, controller
<1>3. SkippedInv' /\ ChainInv' /\ DeletionsEarned'
  BY <1>1, ModelFrame DEF protocol
<1>4. DoneInv'
  BY <1>1 DEF StageInv, DoneInv, Candidates, Reason, Count, ItemsOf, inputs, protocol
<1>5. ControllerInv'
  BY <1>1 DEF StageInv, ControllerInv, FitInadequate, Eligible, Applied, controller
<1> QED
  BY <1>2, <1>3, <1>4, <1>5 DEF StageInv

LEMMA StageInvariant == Spec => []StageInv
<1>1. ASSUME StageInv, [Next]_vars PROVE StageInv'
  BY <1>1, MeasureKeeps, DeletionBaseKeeps, WorkerFailsKeeps, RecommendKeeps,
     PermitKeeps, ChooseItemKeeps, NoneLeftKeeps, ReestimateKeeps, LogDeletionKeeps,
     FlagRespecificationKeeps, StartRespecificationKeeps, RespecificationBaseKeeps,
     NoSuggestionKeeps, PolicyCapKeeps, ModifyKeeps, RefitKeeps, StutterKeeps
     DEF Next, Protocol, Respecification
<1> QED
  BY <1>1, InitHolds, PTL DEF Spec

(* Where the entries of the loop that ran are in the decision log.         *)
LEMMA PositionsBehindTheFirst ==
  ASSUME NEW what, NEW m \in Nat, Len(log) = m + 1, log \in Seq(Entries),
         log[1].what # what, \A k \in 2..(m + 1) : log[k].what = what
  PROVE  Positions(what) = {k + 1 : k \in 1..m}
<1>1. DOMAIN log = 1..(m + 1)
  BY LenProperties
<1>2. ASSUME NEW j \in 1..(m + 1) PROVE log[j].what = what <=> j \in {k + 1 : k \in 1..m}
  <2>1. CASE j = 1
    BY <2>1
  <2>2. CASE j \in 2..(m + 1)
    <3>1. j - 1 \in 1..m /\ j = (j - 1) + 1
      BY <2>2
    <3> QED
      BY <2>2, <3>1
  <2> QED
    BY <2>1, <2>2, SMTT(30)
<1>3. {k + 1 : k \in 1..m} \subseteq 1..(m + 1)
  OBVIOUS
<1> QED
  BY <1>1, <1>2, <1>3 DEF Positions

LEMMA NoPositions ==
  ASSUME NEW what, log \in Seq(Entries), \A k \in 1..Len(log) : log[k].what # what
  PROVE  Positions(what) = {}
BY LenProperties DEF Positions

LEMMA PositionsOfDeletions ==
  ASSUME StageInv
  PROVE  LET n == Len(deletions)
             logged == IF pc = "log" THEN n - 1 ELSE n
         IN  /\ Positions("item_deletion_executed") = {k + 1 : k \in 1..logged}
             /\ \A k \in 1..logged : log[k + 1].item = deletions[k].item
<1> DEFINE n == Len(deletions)
           logged == IF pc = "log" THEN n - 1 ELSE n
<1>1. /\ n \in Nat /\ Len(log) \in Nat /\ log \in Seq(Entries)
      /\ (deletions = <<>> <=> n = 0) /\ (log = <<>> <=> Len(log) = 0)
  BY LenProperties, EmptySeq DEF StageInv, StageType
<1>2. logged \in Nat
  BY <1>1 DEF StageInv, PermitInv, ControllerInv
<1>3. log = <<>> \/ caller = "stage" => logged = 0
  BY <1>1 DEF StageInv, StageType, LogInv, PermitInv
<1>4. log # <<>> /\ caller = "other" => Len(log) = logged + 1
  BY <1>1 DEF StageInv, LogInv
<1> HIDE DEF logged, n
<1>5. ASSUME log = <<>> \/ caller = "stage"
      PROVE  /\ Positions("item_deletion_executed") = {k + 1 : k \in 1..logged}
             /\ \A k \in 1..logged : log[k + 1].item = deletions[k].item
  <2>1. ASSUME NEW k \in 1..Len(log) PROVE log[k].what # "item_deletion_executed"
    <3>1. log # <<>> /\ caller = "stage"
      BY <1>1, <1>5
    <3>2. CASE k = 1
      BY <3>1, <3>2 DEF StageInv, LogInv
    <3>3. CASE k \in 2..Len(log)
      <4>1. log[k] = [what |-> "respecification", pair |-> modifications[k - 1].pair,
                   mi |-> modifications[k - 1].mi]
        BY <3>1, <3>3 DEF StageInv, LogInv
      <4> QED
        BY <4>1
    <3> QED
      BY <1>1, <3>2, <3>3
  <2>2. Positions("item_deletion_executed") = {}
    BY <1>1, <2>1, NoPositions
  <2>3. 1..logged = {}
    BY <1>3, <1>5
  <2> QED
    BY <2>2, <2>3
<1>6. ASSUME log # <<>>, caller = "other"
      PROVE  /\ Positions("item_deletion_executed") = {k + 1 : k \in 1..logged}
             /\ \A k \in 1..logged : log[k + 1].item = deletions[k].item
  <2>1. Len(log) = logged + 1
    BY <1>4, <1>6
  <2>2. ASSUME NEW k \in 2..(logged + 1)
        PROVE  log[k] = [what |-> "item_deletion_executed", item |-> deletions[k - 1].item]
    BY <1>6, <2>1 DEF StageInv, LogInv
  <2>3. log[1].what # "item_deletion_executed"
    BY <1>6 DEF StageInv, LogInv
  <2>4. ASSUME NEW k \in 2..(logged + 1) PROVE log[k].what = "item_deletion_executed"
    <3>1. log[k] = [what |-> "item_deletion_executed", item |-> deletions[k - 1].item]
      BY <2>2
    <3> QED
      BY <3>1
  <2>5. Positions("item_deletion_executed") = {k + 1 : k \in 1..logged}
    BY <1>1, <1>2, <2>1, <2>3, <2>4, PositionsBehindTheFirst
  <2>6. ASSUME NEW k \in 1..logged
        PROVE  log[k + 1].item = deletions[k].item
    <3>1. k + 1 \in 2..(logged + 1) /\ (k + 1) - 1 = k
      BY <1>2
    <3>2. log[k + 1] = [what |-> "item_deletion_executed", item |-> deletions[k].item]
      BY <2>2, <3>1
    <3> QED
      BY <3>2
  <2> QED
    BY <2>5, <2>6
<1> QED
  BY <1>5, <1>6 DEF StageInv, StageType, logged, n

LEMMA PositionsOfModifications ==
  ASSUME StageInv, pc # "halted"
  PROVE  LET n == Len(modifications)
             logged == IF pc = "refit" THEN n - 1 ELSE n
         IN  /\ Positions("respecification") = {k + 1 : k \in 1..logged}
             /\ \A k \in 1..logged : /\ log[k + 1].pair = modifications[k].pair
                                     /\ log[k + 1].mi = modifications[k].mi
<1> DEFINE n == Len(modifications)
           logged == IF pc = "refit" THEN n - 1 ELSE n
<1>1. /\ n \in Nat /\ Len(log) \in Nat /\ log \in Seq(Entries)
      /\ (modifications = <<>> <=> n = 0) /\ (log = <<>> <=> Len(log) = 0)
  BY LenProperties, EmptySeq DEF StageInv, StageType
<1>2. logged \in Nat
  BY <1>1 DEF StageInv, PermitInv, ControllerInv
<1>3. log = <<>> \/ caller = "other" => logged = 0
  BY <1>1 DEF StageInv, StageType, LogInv, PermitInv
<1>4. log # <<>> /\ caller = "stage" => Len(log) = logged + 1
  BY <1>1 DEF StageInv, LogInv
<1> HIDE DEF logged, n
<1>5. ASSUME log = <<>> \/ caller = "other"
      PROVE  /\ Positions("respecification") = {k + 1 : k \in 1..logged}
             /\ \A k \in 1..logged : /\ log[k + 1].pair = modifications[k].pair
                                     /\ log[k + 1].mi = modifications[k].mi
  <2>1. ASSUME NEW k \in 1..Len(log) PROVE log[k].what # "respecification"
    <3>1. log # <<>> /\ caller = "other"
      BY <1>1, <1>5
    <3>2. CASE k = 1
      BY <3>1, <3>2 DEF StageInv, LogInv
    <3>3. CASE k \in 2..Len(log)
      <4>1. log[k] = [what |-> "item_deletion_executed", item |-> deletions[k - 1].item]
        BY <3>1, <3>3 DEF StageInv, LogInv
      <4> QED
        BY <4>1
    <3> QED
      BY <1>1, <3>2, <3>3
  <2>2. Positions("respecification") = {}
    BY <1>1, <2>1, NoPositions
  <2>3. 1..logged = {}
    BY <1>3, <1>5
  <2> QED
    BY <2>2, <2>3
<1>6. ASSUME log # <<>>, caller = "stage"
      PROVE  /\ Positions("respecification") = {k + 1 : k \in 1..logged}
             /\ \A k \in 1..logged : /\ log[k + 1].pair = modifications[k].pair
                                     /\ log[k + 1].mi = modifications[k].mi
  <2>1. Len(log) = logged + 1
    BY <1>4, <1>6
  <2>2. ASSUME NEW k \in 2..(logged + 1)
        PROVE  log[k] = [what |-> "respecification", pair |-> modifications[k - 1].pair,
                         mi |-> modifications[k - 1].mi]
    BY <1>6, <2>1 DEF StageInv, LogInv
  <2>3. log[1].what # "respecification"
    BY <1>6 DEF StageInv, LogInv
  <2>4. ASSUME NEW k \in 2..(logged + 1) PROVE log[k].what = "respecification"
    <3>1. log[k] = [what |-> "respecification", pair |-> modifications[k - 1].pair,
                    mi |-> modifications[k - 1].mi]
      BY <2>2
    <3> QED
      BY <3>1
  <2>5. Positions("respecification") = {k + 1 : k \in 1..logged}
    BY <1>1, <1>2, <2>1, <2>3, <2>4, PositionsBehindTheFirst
  <2>6. ASSUME NEW k \in 1..logged
        PROVE  /\ log[k + 1].pair = modifications[k].pair
               /\ log[k + 1].mi = modifications[k].mi
    <3>1. k + 1 \in 2..(logged + 1) /\ (k + 1) - 1 = k
      BY <1>2
    <3>2. log[k + 1] = [what |-> "respecification", pair |-> modifications[k].pair,
                        mi |-> modifications[k].mi]
      BY <2>2, <3>1
    <3> QED
      BY <3>2
  <2> QED
    BY <2>5, <2>6
<1> QED
  BY <1>5, <1>6 DEF StageInv, StageType, logged, n

-----------------------------------------------------------------------------
(* However many rounds either loop takes and whatever the worker reports,  *)
(* the variables keep their types, and between two rounds of the deletion  *)
(* protocol the report is one of exactly the items still in the model.     *)
THEOREM StageTypeCorrect == Spec => []TypeOK
<1>1. StageInv => TypeOK
  BY DEF StageInv, StageType
<1> QED
  BY <1>1, StageInvariant, PTL

(* For every instrument, every policy and every answer of the worker: an   *)
(* item is deleted only with a permit, for a signal the policy grants and  *)
(* with an attestation of content validity, no construct falls below the   *)
(* floor by it, and the stage itself deletes nothing.                      *)
THEOREM DeletionsAreEarned == Spec => []DeletionsEarned
<1>1. StageInv => DeletionsEarned
  BY DEF StageInv
<1> QED
  BY <1>1, StageInvariant, PTL

(* The audit of the deletions is a chain from the design to the model the  *)
(* protocol ends with, the decision log has the same deletions in the same *)
(* order, what was passed over is never deleted, and a protocol that has   *)
(* been executed names what keeps each candidate that is left.             *)
THEOREM DeletionsAreAccountedFor == Spec => []DeletionsAccounted
<1>1. ASSUME StageInv PROVE DeletionsAccounted
  <2> DEFINE n == Len(deletions)
             logged == IF pc = "log" THEN n - 1 ELSE n
  <2>1. n \in Nat /\ (deletions = <<>> <=> n = 0)
    BY <1>1, LenProperties, EmptySeq DEF StageInv, StageType
  <2>2. left \cup chosen = (IF n = 0 THEN Items ELSE deletions[n].after) \cup chosen
    BY <1>1, <2>1 DEF StageInv, PermitInv, Origin
  <2>3. Deleted \cap {s[1] : s \in skipped} = {}
    <3> SUFFICES ASSUME NEW k \in DOMAIN deletions, NEW s \in skipped,
                        deletions[k].item = s[1]
                 PROVE  FALSE
      BY DEF Deleted
    <3>1. k \in 1..n /\ s[1] \in left
      BY <1>1, LenProperties DEF StageInv, StageType, SkippedInv
    <3>2. deletions[k].item \notin left
      BY <1>1, <3>1 DEF StageInv, ChainInv
    <3> QED
      BY <3>1, <3>2
  <2>4. ChainInv /\ DoneInv
    BY <1>1 DEF StageInv
  <2>5. /\ Positions("item_deletion_executed") = {k + 1 : k \in 1..logged}
        /\ \A k \in 1..logged : log[k + 1].item = deletions[k].item
    BY <1>1, PositionsOfDeletions
  <2> QED
    BY <2>2, <2>3, <2>4, <2>5 DEF DeletionsAccounted, ChainInv, DoneInv
<1> QED
  BY <1>1, StageInvariant, PTL

(* For every cap, floor and report of indices: what was modified was       *)
(* called for by the fit, stays within the cap, the floor and one          *)
(* construct, never repeats a pair in either order, and is in the decision *)
(* log with its index; a stop at the cap leaves something to apply.        *)
THEOREM ModificationsAreEarned == Spec => []ModificationsEarned
<1>1. ASSUME StageInv PROVE ModificationsEarned
  <2> DEFINE n == Len(modifications)
             logged == IF pc = "refit" THEN n - 1 ELSE n
  <2>1. n > 0 => \E c \in Criteria : BandVerdict(c) = "fail"
    <3>1. n > 0 => modifications # <<>>
      BY EmptySeq
    <3>2. FitInadequate => \E c \in Criteria : BandVerdict(c) = "fail"
      BY DEF FitInadequate, BandVerdict, Criteria
    <3> QED
      BY <1>1, <3>1, <3>2 DEF StageInv, ControllerInv
  <2>2. pc # "halted" =>
          /\ Positions("respecification") = {k + 1 : k \in 1..logged}
          /\ \A k \in 1..logged : log[k + 1].pair = modifications[k].pair
                                 /\ log[k + 1].mi = modifications[k].mi
    BY <1>1, PositionsOfModifications
  <2>3. ControllerInv
    BY <1>1 DEF StageInv
  <2> QED
    BY <2>1, <2>2, <2>3 DEF ModificationsEarned, ControllerInv
<1> QED
  BY <1>1, StageInvariant, PTL

=============================================================================
