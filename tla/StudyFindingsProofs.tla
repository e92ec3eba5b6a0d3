------------------------ MODULE StudyFindingsProofs ------------------------
(***************************************************************************)
(* Proofs about StudyFindings, for any contracts the extraction node may   *)
(* answer with, any documents and dictionaries, any bound on the cycles of *)
(* the gate and any estimates of the workers.                              *)
(*                                                                         *)
(* What the validators promise of a contract is shown once, of contracts   *)
(* as values (AcceptedIsSound); that a contract stays accepted, that the   *)
(* verdict is about the version that passed, and that the reports are      *)
(* those of the contract are invariants of the steps (FindingsInv).        *)
(***************************************************************************)
EXTENDS StudyFindings, FiniteSetTheorems, FunctionTheorems, SequenceTheorems, TLAPS

-----------------------------------------------------------------------------
(* Entries chosen by their positions (module Selection).                   *)

(* Choosing entries of a sequence by their positions: the position that is *)
(* the n-th of a finite set is found for each n there can be.              *)
RankIn(positions, k) == Cardinality({j \in positions : j <= k})

LEMMA RankType ==
  ASSUME NEW positions \in SUBSET Nat, IsFiniteSet(positions), NEW k \in positions
  PROVE  RankIn(positions, k) \in 1..Cardinality(positions)
<1>1. {j \in positions : j <= k} \subseteq positions /\ k \in {j \in positions : j <= k}
  OBVIOUS
<1>2. /\ IsFiniteSet({j \in positions : j <= k})
      /\ RankIn(positions, k) <= Cardinality(positions)
  BY <1>1, FS_Subset DEF RankIn
<1>3. RankIn(positions, k) # 0
  BY <1>1, <1>2, FS_EmptySet DEF RankIn
<1>4. RankIn(positions, k) \in Nat /\ Cardinality(positions) \in Nat
  BY <1>2, FS_CardinalityType DEF RankIn
<1> QED
  BY <1>2, <1>3, <1>4

LEMMA RankGrows ==
  ASSUME NEW positions \in SUBSET Nat, IsFiniteSet(positions),
         NEW k \in positions, NEW l \in positions, k < l
  PROVE  RankIn(positions, k) < RankIn(positions, l)
<1> DEFINE K == {j \in positions : j <= k}
           L == {j \in positions : j <= l}
<1>1. K \subseteq L /\ l \in L /\ l \notin K
  <2>1. k \in Nat /\ l \in Nat
    OBVIOUS
  <2>2. ASSUME NEW j \in K PROVE j \in L
    <3>1. j \in positions /\ j \in Nat /\ j <= k
      OBVIOUS
    <3>2. j <= l
      BY <2>1, <3>1
    <3> QED
      BY <3>1, <3>2
  <2>3. l <= l /\ ~(l <= k)
    BY <2>1
  <2> QED
    BY <2>2, <2>3
<1>2. IsFiniteSet(L)
  BY FS_Subset
<1>3. IsFiniteSet(K) /\ Cardinality(K) <= Cardinality(L) /\ Cardinality(K) # Cardinality(L)
  BY <1>1, <1>2, FS_Subset
<1>4. Cardinality(K) \in Nat /\ Cardinality(L) \in Nat
  BY <1>2, <1>3, FS_CardinalityType
<1> QED
  BY <1>3, <1>4 DEF RankIn

LEMMA RankInjective ==
  ASSUME NEW positions \in SUBSET Nat, IsFiniteSet(positions),
         NEW k \in positions, NEW l \in positions,
         RankIn(positions, k) = RankIn(positions, l)
  PROVE  k = l
<1>1. RankIn(positions, k) \in Int /\ RankIn(positions, l) \in Int
  BY RankType
<1>2. CASE k < l
  BY <1>1, <1>2, RankGrows
<1>3. CASE l < k
  BY <1>1, <1>3, RankGrows
<1> QED
  BY <1>2, <1>3

LEMMA RankSurjective ==
  ASSUME NEW positions \in SUBSET Nat, IsFiniteSet(positions),
         NEW n \in 1..Cardinality(positions)
  PROVE  \E k \in positions : RankIn(positions, k) = n
<1> DEFINE T == 1..Cardinality(positions)
           f == [k \in positions |-> RankIn(positions, k)]
<1>1. Cardinality(positions) \in Nat
  BY FS_CardinalityType
<1>2. f \in [positions -> T]
  BY RankType
<1>3. \A j, k \in positions : f[j] = f[k] => j = k
  BY RankInjective
<1>4. f \in Injection(positions, T)
  BY <1>2, <1>3, Fun_IsInj
<1>5. IsFiniteSet(T) /\ Cardinality(T) = Cardinality(positions)
  BY <1>1, FS_Interval
<1>6. f \in Surjection(positions, T)
  BY <1>4, <1>5, FS_Injection
<1>7. \A t \in T : \E k \in positions : f[k] = t
  <2> HIDE DEF T, f
  <2> QED
    BY <1>6, Fun_SurjectionProperties
<1> QED
  BY <1>7

(* Of some positions there is a first.                                     *)
LEMMA FirstPosition ==
  ASSUME NEW positions \in SUBSET Nat, IsFiniteSet(positions), positions # {}
  PROVE  /\ \E k \in positions : \A j \in positions : k <= j
         /\ Min(positions) \in positions /\ \A k \in positions : Min(positions) <= k
<1>1. 1 \in 1..Cardinality(positions)
  BY FS_CardinalityType, FS_EmptySet
<1>2. PICK k \in positions : RankIn(positions, k) = 1
  BY <1>1, RankSurjective
<1>3. ASSUME NEW j \in positions, j < k PROVE FALSE
  BY <1>2, <1>3, RankGrows, RankType, FS_CardinalityType
<1>4. \E i \in positions : \A j \in positions : i <= j
  BY <1>3
<1> QED
  BY <1>4 DEF Min

(* And a last.                                                             *)
LEMMA LastPosition ==
  ASSUME NEW positions \in SUBSET Nat, IsFiniteSet(positions), positions # {}
  PROVE  \E k \in positions : \A j \in positions : j <= k
<1>1. Cardinality(positions) \in 1..Cardinality(positions)
  BY FS_CardinalityType, FS_EmptySet
<1>2. PICK k \in positions : RankIn(positions, k) = Cardinality(positions)
  BY <1>1, RankSurjective
<1>3. ASSUME NEW j \in positions, k < j PROVE FALSE
  BY <1>2, <1>3, RankGrows, RankType
<1> QED
  BY <1>3

(* The entries at some positions are a sequence of just those entries.     *)
LEMMA EntriesAtPositions ==
  ASSUME NEW S, NEW s \in Seq(S), NEW positions \in SUBSET DOMAIN s
  PROVE  /\ EntriesAt(s, positions) \in Seq(S)
         /\ Named(EntriesAt(s, positions)) = {s[k] : k \in positions}
<1> DEFINE nth(n) == CHOOSE k \in positions : Cardinality({j \in positions : j <= k}) = n
           e == [n \in 1..Cardinality(positions) |-> s[nth(n)]]
<1>1. e = EntriesAt(s, positions)
  BY DEF EntriesAt
<1>2. DOMAIN s = 1..Len(s) /\ Len(s) \in Nat /\ \A k \in DOMAIN s : s[k] \in S
  BY LenProperties
<1>3. IsFiniteSet(positions) /\ positions \in SUBSET Nat
  <2>1. IsFiniteSet(1..Len(s))
    BY <1>2, FS_Interval
  <2>2. positions \in SUBSET (1..Len(s))
    BY <1>2
  <2>3. IsFiniteSet(positions)
    BY <2>1, <2>2, FS_Subset
  <2> QED
    BY <1>2, <2>2, <2>3
<1>4. Cardinality(positions) \in Nat
  BY <1>3, FS_CardinalityType
<1>5. \A n \in 1..Cardinality(positions) :
        nth(n) \in positions /\ Cardinality({j \in positions : j <= nth(n)}) = n
  BY <1>3, RankSurjective DEF RankIn
<1>6. \A k \in positions : \E n \in 1..Cardinality(positions) : nth(n) = k
  <2> SUFFICES ASSUME NEW k \in positions
               PROVE  \E n \in 1..Cardinality(positions) : nth(n) = k
    OBVIOUS
  <2>1. RankIn(positions, k) \in 1..Cardinality(positions)
    BY <1>3, RankType
  <2>2. nth(RankIn(positions, k)) = k
    BY <1>3, <1>5, <2>1, RankInjective DEF RankIn
  <2> QED
    BY <2>1, <2>2
<1> HIDE DEF nth
<1>7. e \in Seq(S)
  <2>1. \A n \in 1..Cardinality(positions) : s[nth(n)] \in S
    BY <1>2, <1>5
  <2>2. e \in [1..Cardinality(positions) -> S]
    BY <2>1
  <2> HIDE DEF e
  <2> QED
    BY <1>4, <2>2
<1>8. Named(e) = {s[k] : k \in positions}
  BY <1>5, <1>6 DEF Named
<1> QED
  BY <1>1, <1>7, <1>8

-----------------------------------------------------------------------------
(* Contracts as values.                                                    *)
LEMMA HypothesesAre ==
  ASSUME NEW c, HypothesesWellFormed(c), NEW effect
  PROVE  /\ Hypotheses(c, effect) \in Seq(HypothesisSet(c))
         /\ Named(Hypotheses(c, effect)) = {h \in HypothesisSet(c) : h.effect = effect}
<1> DEFINE at == {k \in DOMAIN c.hypotheses : c.hypotheses[k].effect = effect}
<1>1. c.hypotheses \in Seq(HypothesisSet(c)) /\ at \in SUBSET DOMAIN c.hypotheses
  BY DEF HypothesesWellFormed
<1>2. Hypotheses(c, effect) = EntriesAt(c.hypotheses, at)
  BY DEF Hypotheses
<1>3. {c.hypotheses[k] : k \in at} = {h \in HypothesisSet(c) : h.effect = effect}
  BY DEF HypothesisSet
<1> HIDE DEF at
<1> QED
  BY <1>1, <1>2, <1>3, EntriesAtPositions

LEMMA HypothesesEmpty ==
  ASSUME NEW c, HypothesesWellFormed(c), NEW effect
  PROVE  Hypotheses(c, effect) = <<>> <=> Named(Hypotheses(c, effect)) = {}
<1>1. PICK hs : hs = Hypotheses(c, effect)
  OBVIOUS
<1>2. hs \in Seq(HypothesisSet(c))
  BY <1>1, HypothesesAre
<1>3. hs = <<>> <=> Named(hs) = {}
  BY <1>2 DEF Named
<1> QED
  BY <1>1, <1>3

(* The regressions of the structural model are the direct hypotheses.      *)
LEMMA RegressionsAre ==
  ASSUME NEW c, HypothesesWellFormed(c)
  PROVE  /\ Named(StructuralRegressions(c)) = {Regression(l) : l \in DirectLinks(c)}
         /\ Endogenous(c) = {l[2] : l \in DirectLinks(c)}
         /\ StructuralRegressions(c) = <<>> <=> Hypotheses(c, "direct") = <<>>
<1>1. PICK hs : hs = Hypotheses(c, "direct")
  OBVIOUS
<1>2. /\ hs \in Seq(HypothesisSet(c))
      /\ Named(hs) = {h \in HypothesisSet(c) : h.effect = "direct"}
  BY <1>1, HypothesesAre
<1>3. StructuralRegressions(c) = [k \in DOMAIN hs |-> <<hs[k].to, hs[k].from>>]
  BY <1>1 DEF StructuralRegressions
<1>4. Named(StructuralRegressions(c)) = {<<h.to, h.from>> : h \in Named(hs)}
  BY <1>3 DEF Named
<1>5. DirectLinks(c) = {<<h.from, h.to>> : h \in Named(hs)}
  BY <1>2 DEF DirectLinks
<1> DEFINE links == {<<h.from, h.to>> : h \in Named(hs)}
<1>8. {<<h.to, h.from>> : h \in Named(hs)} = {Regression(l) : l \in links}
  <2>1. \A h \in Named(hs) : Regression(<<h.from, h.to>>) = <<h.to, h.from>>
    BY DEF Regression
  <2>2. ASSUME NEW x \in {<<h.to, h.from>> : h \in Named(hs)}
        PROVE  x \in {Regression(l) : l \in links}
    <3>1. PICK h \in Named(hs) : x = <<h.to, h.from>>
      OBVIOUS
    <3>2. <<h.from, h.to>> \in links /\ x = Regression(<<h.from, h.to>>)
      BY <2>1, <3>1
    <3> QED
      BY <3>2
  <2>3. ASSUME NEW x \in {Regression(l) : l \in links}
        PROVE  x \in {<<h.to, h.from>> : h \in Named(hs)}
    <3>1. PICK l \in links : x = Regression(l)
      OBVIOUS
    <3>2. PICK h \in Named(hs) : l = <<h.from, h.to>>
      OBVIOUS
    <3> QED
      BY <2>1, <3>1, <3>2
  <2> QED
    BY <2>2, <2>3
<1>9. {r[1] : r \in {<<h.to, h.from>> : h \in Named(hs)}} = {l[2] : l \in links}
  <2>1. ASSUME NEW x \in {r[1] : r \in {<<h.to, h.from>> : h \in Named(hs)}}
        PROVE  x \in {l[2] : l \in links}
    <3>1. PICK h \in Named(hs) : x = <<h.to, h.from>>[1]
      OBVIOUS
    <3>2. <<h.from, h.to>> \in links /\ x = <<h.from, h.to>>[2]
      BY <3>1
    <3> QED
      BY <3>2
  <2>2. ASSUME NEW x \in {l[2] : l \in links}
        PROVE  x \in {r[1] : r \in {<<h.to, h.from>> : h \in Named(hs)}}
    <3>1. PICK h \in Named(hs) : x = <<h.from, h.to>>[2]
      OBVIOUS
    <3>2. <<h.to, h.from>> \in {<<g.to, g.from>> : g \in Named(hs)} /\ x = <<h.to, h.from>>[1]
      BY <3>1
    <3> QED
      BY <3>2
  <2> QED
    BY <2>1, <2>2
<1>6. StructuralRegressions(c) = <<>> <=> hs = <<>>
  BY <1>2, <1>3
<1>7. Endogenous(c) = {l[2] : l \in DirectLinks(c)}
  BY <1>4, <1>5, <1>9 DEF Endogenous
<1> QED
  BY <1>1, <1>4, <1>5, <1>6, <1>7, <1>8

(* validate_contract names the first validator that refuses.               *)
LEMMA FirstRefusal ==
  ASSUME NEW c, NEW source, NEW dict, NEW minimum
  PROVE  /\ Refused(c, source, dict, minimum) = "none" =>
              /\ V1(c) /\ V2(c, minimum) /\ V3(c) /\ V4(c) /\ V5(c)
              /\ Conflicts(c, dict) = {} /\ V7(c, source, dict)
         /\ Refused(c, source, dict, minimum) = "V7" => Conflicts(c, dict) = {}
         /\ Refused(c, source, dict, minimum)
              \in {"none", "V1", "V2", "V3", "V4", "V5", "FR-204", "V7"}
<1>1. PICK v1, v2, v3, v4, v5, v6, v7 :
        /\ v1 = V1(c) /\ v2 = V2(c, minimum) /\ v3 = V3(c) /\ v4 = V4(c) /\ v5 = V5(c)
        /\ v6 = (Conflicts(c, dict) = {}) /\ v7 = V7(c, source, dict)
  OBVIOUS
<1> DEFINE checks == << <<"V1", v1>>, <<"V2", v2>>, <<"V3", v3>>, <<"V4", v4>>,
                        <<"V5", v5>>, <<"FR-204", v6>>, <<"V7", v7>> >>
           refusing == {k \in DOMAIN checks : ~checks[k][2]}
<1>2. Refused(c, source, dict, minimum) =
        IF refusing = {} THEN "none" ELSE checks[Min(refusing)][1]
  BY <1>1 DEF Refused, FirstOf
<1>3. /\ refusing \subseteq 1..7 /\ (1 \in refusing <=> ~v1) /\ (2 \in refusing <=> ~v2)
      /\ (3 \in refusing <=> ~v3) /\ (4 \in refusing <=> ~v4) /\ (5 \in refusing <=> ~v5)
      /\ (6 \in refusing <=> ~v6) /\ (7 \in refusing <=> ~v7)
  OBVIOUS
<1>4. \A k \in 1..7 : checks[k][1] # "none" /\ (checks[k][1] = "V7" => k = 7)
                      /\ checks[k][1] \in {"V1", "V2", "V3", "V4", "V5", "FR-204", "V7"}
  OBVIOUS
<1> HIDE DEF checks, refusing
<1>5. refusing # {} => Min(refusing) \in refusing /\ \A k \in refusing : Min(refusing) <= k
  <2>1. PICK n \in Nat : refusing \in SUBSET (1..n)
    BY <1>3
  <2>2. IsFiniteSet(refusing)
    <3>1. IsFiniteSet(1..n)
      BY FS_Interval
    <3> QED
      BY <2>1, <3>1, FS_Subset
  <2>3. refusing \in SUBSET Nat
    BY <1>3
  <2>4. ASSUME refusing # {}
        PROVE  Min(refusing) \in refusing /\ \A k \in refusing : Min(refusing) <= k
    BY <2>2, <2>3, <2>4, FirstPosition
  <2> QED
    BY <2>4
<1>6. Refused(c, source, dict, minimum) = "none" => refusing = {}
  BY <1>2, <1>3, <1>4, <1>5
<1>7. Refused(c, source, dict, minimum) = "V7" => 6 \notin refusing
  <2>1. Refused(c, source, dict, minimum) = "V7" => refusing # {} /\ Min(refusing) = 7
    BY <1>2, <1>3, <1>4, <1>5
  <2> QED
    BY <1>5, <2>1
<1>8. refusing # {} => checks[Min(refusing)][1] \in {"V1", "V2", "V3", "V4", "V5", "FR-204", "V7"}
  BY <1>3, <1>4, <1>5
<1> QED
  BY <1>1, <1>2, <1>3, <1>6, <1>7, <1>8

(* The chains of the indirect hypotheses of a contract that passed V4 and  *)
(* V5 add no edge of their own.                                            *)
LEMMA ChainsAddNoEdge ==
  ASSUME NEW c, HypothesesWellFormed(c), V4(c), V5(c)
  PROVE  EffectsRegressions(c) = Named(StructuralRegressions(c))
<1>1. Named(StructuralRegressions(c)) = {Regression(l) : l \in DirectLinks(c)}
  BY RegressionsAre
<1>2. Named(Hypotheses(c, "indirect")) = {h \in HypothesisSet(c) : h.effect = "indirect"}
  BY HypothesesAre
<1>3. \A h \in Named(Hypotheses(c, "indirect")) : Links(h) \subseteq DirectLinks(c)
  BY <1>2 DEF V4, V5
<1>4. \A h \in Named(Hypotheses(c, "indirect")) :
        {Regression(l) : l \in Links(h)} \subseteq Named(StructuralRegressions(c))
  BY <1>1, <1>3
<1> QED
  BY <1>4 DEF EffectsRegressions

(* The constructs on a chain: its ends and what it goes by.                *)
LEMMA ChainNames ==
  ASSUME NEW h, h.via \in Seq(Named(h.via))
  PROVE  Named(Chain(h)) = {h.from, h.to} \cup Named(h.via)
<1>1. PICK via, S : via = h.via /\ S = {h.from, h.to} \cup Named(h.via)
  OBVIOUS
<1>2. via \in Seq(S) /\ <<h.from>> \in Seq(S) /\ <<h.to>> \in Seq(S) /\ Len(via) \in Nat
      /\ DOMAIN via = 1..Len(via)
  BY <1>1, SeqMonotonic, LenProperties
<1>3. PICK front : front = <<h.from>> \o via
  OBVIOUS
<1>4. /\ front \in Seq(S) /\ Len(front) = Len(via) + 1 /\ front[1] = h.from
      /\ \A k \in 1..Len(via) : front[k + 1] = via[k]
  BY <1>2, <1>3, ConcatProperties
<1>5. /\ Chain(h) \in Seq(S) /\ Len(Chain(h)) = Len(via) + 2
      /\ \A k \in 1..Len(via) + 1 : Chain(h)[k] = front[k]
      /\ Chain(h)[Len(via) + 2] = h.to
  BY <1>1, <1>2, <1>3, <1>4, ConcatProperties DEF Chain
<1>6. DOMAIN Chain(h) = 1..Len(via) + 2
  BY <1>5, LenProperties
<1>7. \A k \in 1..Len(via) : Chain(h)[k + 1] = via[k]
  BY <1>2, <1>4, <1>5
<1>8. Chain(h)[1] = h.from
  BY <1>2, <1>4, <1>5
<1>9. Named(Chain(h)) \subseteq S
  BY <1>5, <1>6 DEF Named
<1>10. S \subseteq Named(Chain(h))
  <2>1. \A k \in 1..Len(via) : via[k] \in Named(Chain(h))
    <3>1. \A k \in 1..Len(via) : k + 1 \in DOMAIN Chain(h)
      BY <1>2, <1>6
    <3> QED
      BY <1>7, <3>1 DEF Named
  <2>2. Named(h.via) \subseteq Named(Chain(h))
    <3>1. Named(h.via) = {via[k] : k \in 1..Len(via)}
      BY <1>1, <1>2 DEF Named
    <3> QED
      BY <2>1, <3>1
  <2>3. 1 \in DOMAIN Chain(h) /\ Len(via) + 2 \in DOMAIN Chain(h)
    BY <1>2, <1>6
  <2>4. h.from \in Named(Chain(h)) /\ h.to \in Named(Chain(h))
    BY <1>5, <1>8, <2>3 DEF Named
  <2> QED
    BY <1>1, <2>2, <2>4
<1> QED
  BY <1>1, <1>9, <1>10

-----------------------------------------------------------------------------
(* The rival model has the direct hypotheses, turned round.                *)
LEMMA TurnedRound ==
  ASSUME NEW h, DOMAIN h = {"id", "effect", "from", "to", "via", "sign"}, NEW g,
         g = [h EXCEPT !.from = h.to, !.to = h.from]
  PROVE  /\ DOMAIN g = DOMAIN h /\ g.from = h.to /\ g.to = h.from
         /\ g.effect = h.effect /\ g.via = h.via /\ g.sign = h.sign
OBVIOUS

LEMMA ReversedAre ==
  ASSUME NEW c, HypothesesWellFormed(c)
  PROVE  /\ HypothesesWellFormed(Reversed(c))
         /\ Named(StructuralRegressions(Reversed(c))) = DirectLinks(c)
<1>1. PICK direct, r : direct = Hypotheses(c, "direct") /\ r = Reversed(c)
  OBVIOUS
<1>2. /\ direct \in Seq(HypothesisSet(c))
      /\ Named(direct) = {h \in HypothesisSet(c) : h.effect = "direct"}
  BY <1>1, HypothesesAre
<1> DEFINE turn(h) == [h EXCEPT !.from = h.to, !.to = h.from]
           rs == [k \in DOMAIN direct |-> turn(direct[k])]
<1>3. "hypotheses" \in DOMAIN r /\ r.hypotheses = rs
  <2>1. "hypotheses" \in DOMAIN c
    BY DEF HypothesesWellFormed
  <2>2. r = [c EXCEPT !.hypotheses = rs, !.exogenous = c.endogenous, !.endogenous = c.exogenous]
    BY <1>1 DEF Reversed
  <2> HIDE DEF rs
  <2> QED
    BY <2>1, <2>2
<1>4. \A h \in Named(direct) :
        /\ DOMAIN turn(h) = {"id", "effect", "from", "to", "via", "sign"}
        /\ turn(h).from = h.to /\ turn(h).to = h.from
        /\ turn(h).effect = "direct" /\ turn(h).via = h.via /\ turn(h).sign = h.sign
        /\ h.via \in Seq(Named(h.via)) /\ h.sign \in {"positive", "negative"}
  BY <1>2, TurnedRound DEF HypothesesWellFormed
<1> HIDE DEF turn
<1>5. HypothesisSet(r) = {turn(h) : h \in Named(direct)}
  BY <1>3 DEF HypothesisSet, Named
<1>6. r.hypotheses \in Seq(HypothesisSet(r))
  <2>1. DOMAIN direct = 1..Len(direct) /\ Len(direct) \in Nat
    BY <1>2, LenProperties
  <2>2. rs \in [1..Len(direct) -> HypothesisSet(r)]
    BY <1>5, <2>1 DEF Named
  <2> HIDE DEF rs
  <2> QED
    BY <1>3, <2>1, <2>2
<1>7. HypothesesWellFormed(r)
  BY <1>3, <1>4, <1>5, <1>6, SMTT(30) DEF HypothesesWellFormed
<1>8. DirectLinks(r) = {<<g.from, g.to>> : g \in HypothesisSet(r)}
  <2>1. {g \in HypothesisSet(r) : g.effect = "direct"} = HypothesisSet(r)
    BY <1>4, <1>5
  <2> QED
    BY <2>1 DEF DirectLinks
<1>9. DirectLinks(c) = {<<h.from, h.to>> : h \in Named(direct)}
  BY <1>2 DEF DirectLinks
<1>10. {Regression(l) : l \in DirectLinks(r)} = DirectLinks(c)
  <2>1. ASSUME NEW x \in {Regression(l) : l \in DirectLinks(r)} PROVE x \in DirectLinks(c)
    <3>1. PICK l \in DirectLinks(r) : x = Regression(l)
      OBVIOUS
    <3>2. PICK g \in HypothesisSet(r) : l = <<g.from, g.to>>
      BY <1>8
    <3>3. PICK h \in Named(direct) : g = turn(h)
      BY <1>5
    <3>4. x = <<h.from, h.to>>
      BY <1>4, <3>1, <3>2, <3>3 DEF Regression
    <3> QED
      BY <1>9, <3>4
  <2>2. ASSUME NEW x \in DirectLinks(c) PROVE x \in {Regression(l) : l \in DirectLinks(r)}
    <3>1. PICK h \in Named(direct) : x = <<h.from, h.to>>
      BY <1>9
    <3>2. turn(h) \in HypothesisSet(r)
      BY <1>5
    <3>3. <<turn(h).from, turn(h).to>> \in DirectLinks(r)
      BY <1>8, <3>2
    <3>4. x = Regression(<<turn(h).from, turn(h).to>>)
      BY <1>4, <3>1 DEF Regression
    <3> QED
      BY <3>3, <3>4
  <2> QED
    BY <2>1, <2>2
<1> QED
  BY <1>1, <1>7, <1>10, RegressionsAre

-----------------------------------------------------------------------------
(* What a worker returns is a sequence, whatever is wrong with its keys.   *)
LEMMA NamedIsFinite ==
  ASSUME NEW S, NEW s \in Seq(S)
  PROVE  IsFiniteSet(Named(s))
<1>1. DOMAIN s = 1..Len(s) /\ Len(s) \in Nat
  BY LenProperties
<1>2. s \in [1..Len(s) -> Named(s)] /\ \A t \in Named(s) : \E k \in 1..Len(s) : s[k] = t
  BY <1>1, LenProperties DEF Named
<1>3. s \in Surjection(1..Len(s), Named(s))
  BY <1>2, Fun_IsSurj
<1>4. IsFiniteSet(1..Len(s))
  BY <1>1, FS_Interval
<1> QED
  BY <1>3, <1>4, FS_Surjection

LEMMA SetToSeqType ==
  ASSUME NEW S, IsFiniteSet(S)
  PROVE  SetToSeq(S) \in Seq(S)
<1>1. PICK I : I = 1..Cardinality(S)
  OBVIOUS
<1>2. Cardinality(S) \in Nat /\ ExistsBijection(I, S)
  BY <1>1, FS_CardinalityType
<1>3. PICK f : f \in Bijection(I, S)
  BY <1>2, Fun_ExistsBij
<1>4. f \in [I -> S] /\ \A a, b \in I : f[a] = f[b] => a = b
  BY <1>3, Fun_BijectionProperties
<1>5. IsInjective(f)
  <2>1. DOMAIN f = I
    BY <1>4
  <2> QED
    BY <1>4, <2>1 DEF IsInjective
<1> DEFINE D == [I -> S]
<1>6. SetToSeq(S) = CHOOSE g \in D : IsInjective(g)
  BY <1>1 DEF SetToSeq
<1>7. SetToSeq(S) \in D
  <2>1. f \in D
    BY <1>4
  <2> HIDE DEF D
  <2> QED
    BY <1>5, <1>6, <2>1, Zenon
<1> QED
  BY <1>1, <1>2, <1>7

LEMMA ReturnedType ==
  ASSUME NEW keys, IsFiniteSet(keys), NEW foreign, NEW rows \in Returned(keys, foreign)
  PROVE  rows \in Seq(keys \cup {foreign})
<1>1. PICK all, T : all = SetToSeq(keys) /\ T = keys \cup {foreign}
  OBVIOUS
<1>2. all \in Seq(T) /\ Len(all) \in Nat /\ DOMAIN all = 1..Len(all) /\ foreign \in T
      /\ \A k \in DOMAIN all : all[k] \in T
  <2>1. all \in Seq(keys)
    BY <1>1, SetToSeqType
  <2>2. all \in Seq(T)
    BY <1>1, <2>1, SeqMonotonic
  <2> QED
    BY <1>1, <2>2, LenProperties
<1>3. \/ rows = all \/ rows = Append(all, foreign)
      \/ \E k \in DOMAIN all : rows = Append(all, all[k])
      \/ \E k \in DOMAIN all : rows = RemoveAt(all, k)
  BY <1>1 DEF Returned
<1>4. ASSUME NEW k \in DOMAIN all PROVE RemoveAt(all, k) \in Seq(T)
  <2>1. SubSeq(all, 1, k - 1) \in Seq(T) /\ SubSeq(all, k + 1, Len(all)) \in Seq(T)
    <3>1. k \in Int /\ k - 1 \in Int /\ k + 1 \in Int /\ Len(all) \in Int
      BY <1>2
    <3>2. /\ \A i \in 1..(k - 1) : all[i] \in T
          /\ \A i \in (k + 1)..Len(all) : all[i] \in T
      BY <1>2, <3>1
    <3> QED
      BY <3>1, <3>2, SubSeqProperties
  <2> QED
    BY <2>1, ConcatProperties DEF RemoveAt
<1>5. \A x \in T : Append(all, x) \in Seq(T)
  BY <1>2, AppendProperties
<1> QED
  BY <1>1, <1>2, <1>3, <1>4, <1>5

LEMMA StructuralAnswersType ==
  ASSUME NEW c, HypothesesWellFormed(c), NEW a \in StructuralAnswers(c)
  PROVE  a.paths \in Seq(Named(StructuralRegressions(c)) \cup {ForeignPair})
<1>1. PICK pairs, T : pairs = Named(StructuralRegressions(c)) /\ T = pairs \cup {ForeignPair}
  OBVIOUS
<1>2. IsFiniteSet(pairs)
  <2>1. PICK hs : hs = Hypotheses(c, "direct")
    OBVIOUS
  <2>2. Len(hs) \in Nat /\ DOMAIN hs = 1..Len(hs)
    BY <2>1, HypothesesAre, LenProperties
  <2>3. StructuralRegressions(c) = [k \in DOMAIN hs |-> <<hs[k].to, hs[k].from>>]
    BY <2>1 DEF StructuralRegressions
  <2>4. StructuralRegressions(c) \in Seq(pairs)
    BY <1>1, <2>2, <2>3 DEF Named
  <2> QED
    BY <1>1, <2>4, NamedIsFinite
<1>3. SetToSeq(pairs) \in Seq(T)
  BY <1>1, <1>2, SetToSeqType, SeqMonotonic
<1>4. \A p \in Returned(pairs, ForeignPair) : p \in Seq(T)
  BY <1>1, <1>2, ReturnedType
<1>5. a.paths = SetToSeq(pairs) \/ \E p \in Returned(pairs, ForeignPair) : a.paths = p
  BY <1>1 DEF StructuralAnswers
<1> QED
  BY <1>1, <1>3, <1>4, <1>5

(* Paths that cover the regressions are as many as the direct hypotheses.  *)
LEMMA PathsCount ==
  ASSUME NEW c, HypothesesWellFormed(c), NEW T, NEW paths \in Seq(T),
         Covers(paths, Named(StructuralRegressions(c)))
  PROVE  Len(paths) = Cardinality(DirectLinks(c))
<1>1. Len(paths) \in Nat /\ DOMAIN paths = 1..Len(paths)
  BY LenProperties
<1>2. Named(paths) = {Regression(l) : l \in DirectLinks(c)}
  BY RegressionsAre DEF Covers
<1>3. \A l, m \in DirectLinks(c) : Regression(l) = Regression(m) => l = m
  BY DEF Regression, DirectLinks
<1> DEFINE g == [k \in 1..Len(paths) |->
                   CHOOSE l \in DirectLinks(c) : Regression(l) = paths[k]]
<1>4. \A k \in 1..Len(paths) : g[k] \in DirectLinks(c) /\ Regression(g[k]) = paths[k]
  <2>1. \A k \in 1..Len(paths) : \E l \in DirectLinks(c) : Regression(l) = paths[k]
    BY <1>1, <1>2 DEF Named
  <2> QED
    BY <2>1
<1>5. g \in [1..Len(paths) -> DirectLinks(c)]
  BY <1>4
<1> HIDE DEF g
<1>6. \A j, k \in 1..Len(paths) : g[j] = g[k] => j = k
  BY <1>1, <1>4 DEF Covers
<1>7. \A l \in DirectLinks(c) : \E k \in 1..Len(paths) : g[k] = l
  <2> SUFFICES ASSUME NEW l \in DirectLinks(c) PROVE \E k \in 1..Len(paths) : g[k] = l
    OBVIOUS
  <2>1. PICK k \in 1..Len(paths) : paths[k] = Regression(l)
    BY <1>1, <1>2 DEF Named
  <2> QED
    BY <1>3, <1>4, <2>1
<1>8. g \in Bijection(1..Len(paths), DirectLinks(c))
  BY <1>5, <1>6, <1>7, Fun_IsBij
<1> QED
  BY <1>1, <1>8, Fun_ExistsBij, FS_CountingElements

-----------------------------------------------------------------------------
(* The inductive invariant.                                                *)

Analysed == {"structural", "effects", "rival", "matrix", "done"}

(* A study revises nothing, and run_gate alone has no contract of its own. *)
CallerInv ==
  /\ caller \in {"stage", "gate"} /\ retries \in Retries /\ dictionary \in Dictionaries
  /\ caller = "stage" => version = 0 /\ pc # "bound"
  /\ caller = "gate" => /\ pc \in {"bound", "audit", "decide", "done", "halted"}
                        /\ contract = NoContract

(* Each version is audited once, and what is decided upon is its audit.    *)
AuditInv ==
  /\ pc \in {"settings", "extract", "validate", "bound", "audit"} => audits = version
  /\ pc \in {"decide"} \cup Analysed =>
       /\ audits = version + 1 /\ verdict.of = version
       /\ verdict.verdict = "approve" => verdict.meant = "approve"
  /\ pc \in Analysed => verdict.verdict = "approve"

SettingsInv ==
  caller = "stage" =>
    /\ pc \notin {"settings", "halted"} =>
         settings["node_a"].lineage # settings["node_c"].lineage
    /\ pc \notin {"settings", "extract", "halted"} => text = "text"

(* A contract is accepted because no validator refused it.                 *)
ContractInv ==
  /\ pc = "validate" => contract \in Contracts
  /\ Accepted => /\ contract \in Contracts
                 /\ Refused(contract, document, dictionary, MinDesigned) = "none"
  /\ failure = "V7" => /\ contract \in Contracts
                       /\ Refused(contract, document, dictionary, MinDesigned) = "V7"

(* What is reported of the structural model, of the effects (one estimate  *)
(* for all its rows) and of the rival.                                     *)
StructuralInv ==
  LET pairs == Named(StructuralRegressions(contract))
  IN  pc \in {"effects", "rival", "matrix", "done"} /\ caller = "stage" =>
        /\ structural.paths \in Seq(pairs \cup {ForeignPair})
        /\ Covers(structural.paths, pairs)
        /\ structural.r2 = Endogenous(contract)

Follow(e) ==
  /\ \A k \in DOMAIN effects.paths : effects.paths[k].block = e.edge[effects.paths[k].pair]
  /\ effects.rows = [k \in DOMAIN Indirect |-> Row(Indirect[k], e)]

EffectsInv ==
  pc \in {"rival", "matrix", "done"} /\ caller = "stage" =>
    EdgesOf(effects.paths) = EffectsRegressions(contract) /\ \E e \in Estimates : Follow(e)

RivalInv ==
  pc \in {"matrix", "done"} /\ caller = "stage" => Named(rival.paths) = DirectLinks(contract)

(* There is a matrix when a study is done, and not before.                 *)
MatrixInv == (pc # "done" \/ caller = "gate" => matrix = <<>>) /\ MatrixFollows

FindingsInv ==
  /\ TypeOK /\ CallerInv /\ AuditInv /\ SettingsInv /\ ContractInv
  /\ StructuralInv /\ EffectsInv /\ RivalInv /\ MatrixInv

-----------------------------------------------------------------------------
(* What is read of the contract and of the reports stays while they do.    *)
LEMMA ReadOfContract ==
  ASSUME contract' = contract
  PROVE  /\ Indirect' = Indirect /\ Estimates' = Estimates
         /\ \A h, e : Row(h, e)' = Row(h, e)
<1>1. Indirect' = Indirect
  BY DEF Indirect
<1>2. Estimates' = Estimates
  BY <1>1 DEF Estimates
<1>3. ASSUME NEW h, NEW e PROVE Row(h, e)' = Row(h, e)
  <2>1. EdgeOf(h, e)' = EdgeOf(h, e)
    BY DEF EdgeOf
  <2>2. TotalOf(h, e)' = TotalOf(h, e)
    BY DEF TotalOf
  <2> QED
    BY <2>1, <2>2 DEF Row
<1> QED
  BY <1>1, <1>2, <1>3

LEMMA ReadOfEffects ==
  ASSUME effects' = effects
  PROVE  \A h : Judged(h)' = Judged(h)
BY DEF Judged

-----------------------------------------------------------------------------
(* What the validators promise of a contract none of them refuses.         *)
LEMMA AcceptedBuilds ==
  ASSUME NEW c, HypothesesWellFormed(c), V4(c), V5(c), SecondOrderFits(c)
  PROVE  /\ Hypotheses(c, "direct") # <<>> => StructuralBuilds(c)
         /\ Hypotheses(c, "indirect") # <<>> => StructuralBuilds(c) /\ EffectsBuilds(c)
<1>1. Named(StructuralRegressions(c)) \subseteq Declared(c) \X Declared(c)
  <2>1. \A l \in DirectLinks(c) : l[1] \in Declared(c) /\ l[2] \in Declared(c)
    BY DEF V4, DirectLinks
  <2>2. \A l \in DirectLinks(c) : Regression(l) \in Declared(c) \X Declared(c)
    BY <2>1 DEF Regression
  <2> QED
    BY <2>2, RegressionsAre
<1>2. StructuralRegressions(c) # <<>> => StructuralBuilds(c)
  BY <1>1 DEF StructuralBuilds
<1>3. Hypotheses(c, "direct") # <<>> => StructuralBuilds(c)
  BY <1>2, RegressionsAre
<1>4. PICK indirect : indirect = Hypotheses(c, "indirect")
  OBVIOUS
<1>5. \A h \in Named(indirect) : h \in HypothesisSet(c) /\ h.effect = "indirect"
  BY <1>4, HypothesesAre
<1>6. \A h \in Named(indirect) :
        h.via # <<>> /\ {h.from, h.to} \cup Named(h.via) \subseteq Declared(c)
  BY <1>5 DEF V4
<1>7. \A h \in Named(indirect) : Named(Chain(h)) \subseteq Declared(c)
  <2>1. \A h \in Named(indirect) : h.via \in Seq(Named(h.via))
    BY <1>5 DEF HypothesesWellFormed
  <2>2. \A h \in Named(indirect) : Named(Chain(h)) = {h.from, h.to} \cup Named(h.via)
    BY <2>1, ChainNames
  <2> QED
    BY <1>6, <2>2
<1>8. indirect # <<>> => EffectsBuilds(c)
  <2>1. \A k \in DOMAIN indirect :
          indirect[k].via # <<>> /\ Named(Chain(indirect[k])) \subseteq Declared(c)
    BY <1>6, <1>7 DEF Named
  <2> QED
    BY <1>4, <2>1 DEF EffectsBuilds
<1>9. indirect # <<>> => StructuralRegressions(c) # <<>>
  <2> SUFFICES ASSUME indirect # <<>> PROVE StructuralRegressions(c) # <<>>
    OBVIOUS
  <2>1. PICK h : h \in Named(indirect)
    BY <1>4, HypothesesEmpty
  <2>2. Links(h) \subseteq DirectLinks(c)
    BY <1>5, <1>6, <2>1 DEF V5
  <2>3. <<Chain(h)[1], Chain(h)[1 + 1]>> \in Links(h)
    <3>1. Len(h.via) \in Nat
      BY <1>5, <2>1, LenProperties DEF HypothesesWellFormed
    <3>2. 1 \in 1..Len(h.via) + 1
      BY <3>1
    <3> QED
      BY <3>2 DEF Links
  <2>4. Named(StructuralRegressions(c)) # {}
    BY <2>2, <2>3, RegressionsAre
  <2> QED
    BY <2>4 DEF Named
<1> QED
  BY <1>2, <1>3, <1>4, <1>8, <1>9

LEMMA AcceptedIsSound ==
  ASSUME NEW c \in Contracts, NEW source, NEW dict \in Dictionaries,
         Refused(c, source, dict, MinDesigned) = "none"
  PROVE  /\ HypothesesWellFormed(c) /\ IdsDistinct(c)
         /\ EffectsRegressions(c) = Named(StructuralRegressions(c))
         /\ SecondOrderFits(c) /\ Hypotheses(c, "direct") # <<>> => StructuralBuilds(c)
         /\ SecondOrderFits(c) /\ Hypotheses(c, "indirect") # <<>>
              => StructuralBuilds(c) /\ EffectsBuilds(c)
         /\ \A i \in Instrument(c) :
              /\ i \in DOMAIN dict /\ dict[i] # {}
                   => dict[i] = (IF i \in c.reverse_coded THEN {Positive} ELSE {Negative})
              /\ i \in c.reverse_coded
                   => i \in source \/ (i \in DOMAIN dict /\ Positive \in dict[i])
<1>1. HypothesesWellFormed(c) /\ \A i \in DOMAIN dict : dict[i] \subseteq {Positive, Negative}
  BY FindingsAssumption
<1>2. V4(c) /\ V5(c) /\ Conflicts(c, dict) = {} /\ V7(c, source, dict)
  BY FirstRefusal
<1>3. IdsDistinct(c)
  BY <1>2 DEF V5
<1>4. EffectsRegressions(c) = Named(StructuralRegressions(c))
  BY <1>1, <1>2, ChainsAddNoEdge
<1>5. ASSUME NEW i \in Instrument(c), i \in DOMAIN dict, dict[i] # {}
      PROVE  dict[i] = (IF i \in c.reverse_coded THEN {Positive} ELSE {Negative})
  <2>1. /\ ~({Positive, Negative} \subseteq dict[i])
        /\ Positive \in dict[i] => i \in c.reverse_coded
        /\ Negative \in dict[i] => i \notin c.reverse_coded
    BY <1>2, <1>5 DEF Conflicts
  <2>2. dict[i] = {Positive} \/ dict[i] = {Negative}
    BY <1>1, <1>5, <2>1
  <2> QED
    BY <2>1, <2>2
<1>6. ASSUME NEW i \in Instrument(c), i \in c.reverse_coded
      PROVE  i \in source \/ (i \in DOMAIN dict /\ Positive \in dict[i])
  BY <1>2, <1>6 DEF V7, SourceReversed
<1> QED
  BY <1>1, <1>2, <1>3, <1>4, <1>5, <1>6, AcceptedBuilds

(* The class of an effect knows an indirect one when its interval leaves   *)
(* out zero, whatever the direct one is.                                   *)
LEMMA ClassIs ==
  ASSUME NEW direct, NEW indirect
  PROVE  /\ Classify(direct, indirect) \in {"complementary", "competitive", "indirect_only"}
              <=> indirect.ci # "spans"
         /\ Classify(direct, indirect) \in {"direct_only", "no_effect"}
              => indirect.ci = "spans"
BY DEF Classify, Significant

(* A hypothesis has a direct edge when its pair is a direct hypothesis.    *)
LEMMA DirectEdge ==
  ASSUME NEW c, HypothesesWellFormed(c), EffectsRegressions(c) = Named(StructuralRegressions(c)),
         NEW h
  PROVE  HasDirect(c, h) <=> <<h.from, h.to>> \in DirectLinks(c)
<1>1. EffectsRegressions(c) = {Regression(l) : l \in DirectLinks(c)}
  BY RegressionsAre
<1>2. <<h.from, h.to>> \in DirectLinks(c) => <<h.to, h.from>> \in EffectsRegressions(c)
  <2>1. Regression(<<h.from, h.to>>) = <<h.to, h.from>>
    BY DEF Regression
  <2> QED
    BY <1>1, <2>1
<1>3. ASSUME <<h.to, h.from>> \in EffectsRegressions(c)
      PROVE  <<h.from, h.to>> \in DirectLinks(c)
  <2>1. PICK l \in DirectLinks(c) : Regression(l) = <<h.to, h.from>>
    BY <1>1, <1>3
  <2>2. l = <<l[1], l[2]>>
    BY DEF DirectLinks
  <2>3. l[1] = h.from /\ l[2] = h.to
    BY <2>1 DEF Regression
  <2> QED
    BY <2>1, <2>2, <2>3
<1> QED
  BY <1>2, <1>3 DEF HasDirect

-----------------------------------------------------------------------------
(* What the invariant says of the states it holds in.                      *)
LEMMA AcceptedNow ==
  ASSUME FindingsInv, Accepted
  PROVE  /\ contract \in Contracts /\ HypothesesWellFormed(contract) /\ IdsDistinct(contract)
         /\ EffectsRegressions(contract) = Named(StructuralRegressions(contract))
<1>1. contract \in Contracts /\ dictionary \in Dictionaries
      /\ Refused(contract, document, dictionary, MinDesigned) = "none"
  BY DEF FindingsInv, ContractInv, CallerInv
<1> QED
  BY <1>1, AcceptedIsSound

LEMMA AcceptedFollows ==
  ASSUME FindingsInv
  PROVE  AcceptedContractHolds
<1>1. dictionary \in Dictionaries
  BY DEF FindingsInv, CallerInv
<1>2. ASSUME Accepted
      PROVE  /\ EffectsRegressions(contract) = Named(StructuralRegressions(contract))
             /\ SecondOrderFits(contract) /\ Hypotheses(contract, "direct") # <<>>
                  => StructuralBuilds(contract)
             /\ SecondOrderFits(contract) /\ Hypotheses(contract, "indirect") # <<>>
                  => StructuralBuilds(contract) /\ EffectsBuilds(contract)
             /\ \A i \in Instrument(contract) :
                  /\ i \in DOMAIN dictionary /\ dictionary[i] # {}
                       => dictionary[i] = (IF i \in contract.reverse_coded THEN {Positive}
                                                                         ELSE {Negative})
                  /\ i \in contract.reverse_coded
                       => i \in document \/ (i \in DOMAIN dictionary /\ Positive \in dictionary[i])
  <2>1. contract \in Contracts
        /\ Refused(contract, document, dictionary, MinDesigned) = "none"
    BY <1>2 DEF FindingsInv, ContractInv
  <2> QED
    BY <1>1, <2>1, AcceptedIsSound
<1>3. ASSUME failure = "V7", NEW i \in DOMAIN dictionary
      PROVE  /\ i \in Instrument(contract)
             /\ Positive \in dictionary[i] => i \in contract.reverse_coded
  <2>1. Refused(contract, document, dictionary, MinDesigned) = "V7"
    BY <1>3 DEF FindingsInv, ContractInv
  <2>2. Conflicts(contract, dictionary) = {}
    BY <2>1, FirstRefusal
  <2> QED
    BY <1>3, <2>2 DEF Conflicts
<1> QED
  BY <1>2, <1>3 DEF AcceptedContractHolds, Indirect

LEMMA GateFollows ==
  ASSUME FindingsInv
  PROVE  GateHolds
BY DEF FindingsInv, AuditInv, SettingsInv, Analysed, GateHolds

LEMMA RowIs ==
  ASSUME NEW h, NEW e, HypothesesWellFormed(contract),
         EffectsRegressions(contract) = Named(StructuralRegressions(contract))
  PROVE  /\ Row(h, e).hypothesis = h.id /\ Row(h, e).from = h.from /\ Row(h, e).to = h.to
         /\ Row(h, e).via = h.via /\ Row(h, e).indirect = e.chain[Chain(h)]
         /\ Row(h, e).direct # <<>> <=> <<h.from, h.to>> \in DirectLinks(contract)
         /\ Row(h, e).total # <<>> <=> <<h.from, h.to>> \in DirectLinks(contract)
         /\ Row(h, e).total # <<>> => Row(h, e).total[1] = e.total[Chain(h)]
         /\ Row(h, e).classification \in {"complementary", "competitive", "indirect_only"}
              <=> Row(h, e).indirect.ci # "spans"
         /\ Row(h, e).classification \in {"direct_only", "no_effect"}
              => Row(h, e).indirect.ci = "spans"
<1>1. PICK r, direct, total, indirect, class :
        /\ r = Row(h, e) /\ direct = EdgeOf(h, e) /\ total = TotalOf(h, e)
        /\ indirect = e.chain[Chain(h)] /\ class = Classify(direct, indirect)
  OBVIOUS
<1>2. r = [hypothesis |-> h.id, from |-> h.from, to |-> h.to, via |-> h.via,
           indirect |-> indirect, direct |-> direct, total |-> total, classification |-> class]
  BY <1>1 DEF Row
<1>3. /\ r.hypothesis = h.id /\ r.from = h.from /\ r.to = h.to /\ r.via = h.via
      /\ r.indirect = indirect /\ r.direct = direct /\ r.total = total
      /\ r.classification = class
  BY <1>2
<1>4. /\ class \in {"complementary", "competitive", "indirect_only"} <=> indirect.ci # "spans"
      /\ class \in {"direct_only", "no_effect"} => indirect.ci = "spans"
  BY <1>1, ClassIs
<1>5. /\ direct # <<>> <=> HasDirect(contract, h)
      /\ total # <<>> <=> HasDirect(contract, h)
      /\ total # <<>> => total[1] = e.total[Chain(h)]
  <2>1. direct # <<>> <=> HasDirect(contract, h)
    BY <1>1 DEF EdgeOf
  <2>2. /\ total # <<>> <=> HasDirect(contract, h)
        /\ total # <<>> => total[1] = e.total[Chain(h)]
    BY <1>1 DEF TotalOf
  <2> QED
    BY <2>1, <2>2
<1>6. HasDirect(contract, h) <=> <<h.from, h.to>> \in DirectLinks(contract)
  BY DirectEdge
<1> QED
  BY <1>1, <1>3, <1>4, <1>5, <1>6

LEMMA ReportsFollow ==
  ASSUME FindingsInv
  PROVE  ReportsMatch
<1>1. ASSUME pc \in {"effects", "rival", "matrix", "done"}, caller = "stage" PROVE Accepted
  BY <1>1 DEF Accepted
<1>2. ASSUME pc \in {"effects", "rival", "matrix", "done"}, caller = "stage"
      PROVE  /\ Named(structural.paths) = {Regression(l) : l \in DirectLinks(contract)}
             /\ Len(structural.paths) = Cardinality(DirectLinks(contract))
             /\ structural.r2 = {l[2] : l \in DirectLinks(contract)}
  <2>1. HypothesesWellFormed(contract)
    BY <1>1, <1>2, AcceptedNow
  <2>2. /\ structural.paths \in Seq(Named(StructuralRegressions(contract)) \cup {ForeignPair})
        /\ Covers(structural.paths, Named(StructuralRegressions(contract)))
        /\ structural.r2 = Endogenous(contract)
    BY <1>2 DEF FindingsInv, StructuralInv
  <2>3. Len(structural.paths) = Cardinality(DirectLinks(contract))
    BY <2>1, <2>2, PathsCount
  <2>4. Named(structural.paths) = Named(StructuralRegressions(contract))
    BY <2>2 DEF Covers
  <2> QED
    BY <2>1, <2>2, <2>3, <2>4, RegressionsAre
<1>3. ASSUME pc \in {"rival", "matrix", "done"}, caller = "stage"
      PROVE  /\ EdgesOf(effects.paths) = Named(structural.paths)
             /\ [k \in DOMAIN effects.rows |-> effects.rows[k].hypothesis]
                  = [k \in DOMAIN Indirect |-> Indirect[k].id]
             /\ \A k \in DOMAIN effects.rows :
                  LET r == effects.rows[k]
                  IN  /\ r.direct # <<>> <=> <<r.from, r.to>> \in DirectLinks(contract)
                      /\ r.total # <<>> <=> r.direct # <<>>
                      /\ r.classification \in {"complementary", "competitive", "indirect_only"}
                           <=> r.indirect.ci # "spans"
  <2>1. /\ HypothesesWellFormed(contract)
        /\ EffectsRegressions(contract) = Named(StructuralRegressions(contract))
    BY <1>1, <1>3, AcceptedNow
  <2>2. PICK e \in Estimates : Follow(e)
    BY <1>3 DEF FindingsInv, EffectsInv
  <2>3. EdgesOf(effects.paths) = Named(structural.paths)
    BY <1>3, <2>1 DEF FindingsInv, EffectsInv, StructuralInv, Covers
  <2>4. effects.rows = [k \in DOMAIN Indirect |-> Row(Indirect[k], e)]
    BY <2>2 DEF Follow
  <2>5. \A k \in DOMAIN Indirect : effects.rows[k] = Row(Indirect[k], e)
    BY <2>4
  <2>6. DOMAIN effects.rows = DOMAIN Indirect
    BY <2>4
  <2>7. \A k \in DOMAIN Indirect : effects.rows[k].hypothesis = Indirect[k].id
    <3>1. \A h : Row(h, e).hypothesis = h.id
      BY <2>1, RowIs
    <3> QED
      BY <2>5, <3>1
  <2>8. ASSUME NEW k \in DOMAIN effects.rows
        PROVE  LET r == effects.rows[k]
               IN  /\ r.direct # <<>> <=> <<r.from, r.to>> \in DirectLinks(contract)
                   /\ r.total # <<>> <=> r.direct # <<>>
                   /\ r.classification \in {"complementary", "competitive", "indirect_only"}
                        <=> r.indirect.ci # "spans"
    <3>1. PICK h, r : h = Indirect[k] /\ r = effects.rows[k]
      OBVIOUS
    <3>2. r = Row(h, e)
      BY <2>5, <2>6, <3>1
    <3>3. /\ r.direct # <<>> <=> <<r.from, r.to>> \in DirectLinks(contract)
          /\ r.total # <<>> <=> r.direct # <<>>
          /\ r.classification \in {"complementary", "competitive", "indirect_only"}
               <=> r.indirect.ci # "spans"
      <4>1. /\ r.from = h.from /\ r.to = h.to
            /\ r.direct # <<>> <=> <<h.from, h.to>> \in DirectLinks(contract)
            /\ r.total # <<>> <=> <<h.from, h.to>> \in DirectLinks(contract)
        BY <2>1, <3>2, RowIs
      <4>2. r.classification \in {"complementary", "competitive", "indirect_only"}
              <=> r.indirect.ci # "spans"
        BY <2>1, <3>2, RowIs
      <4> QED
        BY <4>1, <4>2
    <3> QED
      BY <3>1, <3>3
  <2> QED
    BY <2>3, <2>6, <2>7, <2>8
<1>4. pc \in {"matrix", "done"} /\ caller = "stage" => Named(rival.paths) = DirectLinks(contract)
  BY DEF FindingsInv, RivalInv
<1> QED
  BY <1>2, <1>3, <1>4 DEF ReportsMatch

-----------------------------------------------------------------------------
(* The parts of the invariant that are about what was said and accepted.   *)
SaidInv == CallerInv /\ AuditInv /\ SettingsInv /\ ContractInv

NotYet == {"settings", "extract", "validate", "bound", "audit", "decide", "structural", "halted"}

LEMMA InitInv ==
  ASSUME Init
  PROVE  FindingsInv
<1>1. Retries \subseteq Nat
  BY FindingsAssumption
<1>2. caller \in {"stage", "gate"} /\ pc = IF caller = "stage" THEN "settings" ELSE "bound"
  BY DEF Init
<1>3. matrix = <<>> /\ failure = "none" /\ contract = NoContract
  BY DEF Init
<1>4. TypeOK
  BY <1>1, <1>2, <1>3 DEF Init, TypeOK, Unread
<1>5. CallerInv /\ AuditInv /\ SettingsInv /\ ContractInv
  BY <1>2, <1>3 DEF Init, CallerInv, AuditInv, SettingsInv, ContractInv, Accepted, Analysed
<1>6. StructuralInv /\ EffectsInv /\ RivalInv
  BY <1>2 DEF StructuralInv, EffectsInv, RivalInv
<1>7. MatrixInv
  BY <1>3 DEF MatrixInv, MatrixFollows
<1> QED
  BY <1>4, <1>5, <1>6, <1>7 DEF FindingsInv

(* While nothing is reported there is nothing to say of the reports.       *)
LEMMA NothingReported ==
  ASSUME FindingsInv, matrix' = matrix, caller' = caller, pc # "done", failure' # "missing",
         pc' \in NotYet \/ caller = "gate"
  PROVE  StructuralInv' /\ EffectsInv' /\ RivalInv' /\ MatrixInv'
<1>1. matrix' = <<>>
  BY DEF FindingsInv, MatrixInv
<1>2. MatrixInv'
  BY <1>1 DEF MatrixInv, MatrixFollows
<1>3. caller' = "gate" \/ pc' \notin {"effects", "rival", "matrix", "done"}
  BY DEF NotYet
<1> QED
  BY <1>2, <1>3 DEF StructuralInv, EffectsInv, RivalInv

(* Halting keeps everything, whatever the reason.                          *)
LEMMA HaltsKeepWhatWasSaid ==
  ASSUME FindingsInv, NEW why, Halt(why), why # "none",
         pc \notin {"done", "halted"}, why = "V7" =>
           /\ contract \in Contracts
           /\ Refused(contract, document, dictionary, MinDesigned) = "V7"
  PROVE  TypeOK' /\ SaidInv'
<1>1. /\ pc' = "halted" /\ failure' = why /\ caller' = caller /\ settings' = settings
      /\ text' = text /\ document' = document /\ dictionary' = dictionary
      /\ retries' = retries /\ contract' = contract /\ version' = version
      /\ verdict' = verdict /\ audits' = audits /\ matrix' = matrix
  BY DEF Halt, inputs, gate, reports
<1>2. TypeOK'
  BY <1>1 DEF FindingsInv, TypeOK
<1>3. CallerInv'
  BY <1>1 DEF FindingsInv, CallerInv
<1>4. AuditInv' /\ SettingsInv'
  BY <1>1 DEF AuditInv, SettingsInv, Analysed
<1>5. ContractInv'
  BY <1>1 DEF ContractInv, Accepted
<1> QED
  BY <1>2, <1>3, <1>4, <1>5 DEF SaidInv

LEMMA HaltsKeep ==
  ASSUME FindingsInv, NEW why, Halt(why), why # "none", why # "missing",
         pc \notin {"done", "halted"}, why = "V7" =>
           /\ contract \in Contracts
           /\ Refused(contract, document, dictionary, MinDesigned) = "V7"
  PROVE  FindingsInv'
<1>1. TypeOK' /\ SaidInv'
  BY HaltsKeepWhatWasSaid
<1>2. pc' = "halted" /\ failure' = why /\ caller' = caller /\ matrix' = matrix
  BY DEF Halt, inputs, reports
<1>3. StructuralInv' /\ EffectsInv' /\ RivalInv' /\ MatrixInv'
  BY <1>2, NothingReported DEF NotYet
<1> QED
  BY <1>1, <1>3 DEF FindingsInv, SaidInv

-----------------------------------------------------------------------------
(* Each step keeps what was said and accepted.                             *)
LEMMA ExtractionKeeps ==
  ASSUME FindingsInv, Extraction
  PROVE  FindingsInv'
<1>1. \A c : Refused(c, document, dictionary, MinDesigned)
               \in {"none", "V1", "V2", "V3", "V4", "V5", "FR-204", "V7"}
  BY FirstRefusal
<1> USE DEF NotYet
<1>2. CASE LoadSettings
  <2>1. /\ pc = "settings" /\ Usable(settings) /\ pc' = "extract" /\ caller' = caller
        /\ settings' = settings /\ retries' = retries /\ contract' = contract
        /\ dictionary' = dictionary /\ failure' = failure /\ version' = version
        /\ verdict' = verdict /\ audits' = audits /\ matrix' = matrix
    BY <1>2 DEF LoadSettings, Goto, inputs, gate, reports
  <2>2. TypeOK'
    BY <2>1 DEF FindingsInv, TypeOK
  <2>3. CallerInv' /\ AuditInv' /\ SettingsInv'
    BY <2>1 DEF FindingsInv, CallerInv, AuditInv, SettingsInv, Analysed, Usable
  <2>4. ContractInv' /\ failure' = "none"
    BY <2>1 DEF FindingsInv, TypeOK, ContractInv, Accepted
  <2>5. StructuralInv' /\ EffectsInv' /\ RivalInv' /\ MatrixInv'
    BY <2>1, <2>4, NothingReported
  <2> QED
    BY <2>2, <2>3, <2>4, <2>5 DEF FindingsInv
<1>3. CASE SettingsRefused
  BY <1>3, HaltsKeep DEF SettingsRefused
<1>4. CASE InputRefused
  BY <1>4, HaltsKeep DEF InputRefused
<1>5. CASE ExtractFails
  <2>1. PICK f \in Fences, b \in {"ambiguous", "not_yaml", "not_mapping", "invalid"} :
          Halt(Unreadable(Unwrapped([fence |-> f, body |-> b])))
    BY <1>5 DEF ExtractFails
  <2>2. PICK why : why = Unreadable(Unwrapped([fence |-> f, body |-> b]))
    OBVIOUS
  <2>3. Unwrapped([fence |-> f, body |-> b])
          \in {"ambiguous", "not_yaml", "not_mapping", "invalid"}
    BY DEF Unwrapped
  <2>4. why \in {"FR-205", "FR-203", "schema"}
    BY <2>2, <2>3 DEF Unreadable
  <2>5. pc = "extract"
    BY <1>5 DEF ExtractFails
  <2> QED
    BY <2>1, <2>2, <2>4, <2>5, HaltsKeep
<1>6. CASE Extract
  <2>1. /\ pc = "extract" /\ Screened(text) /\ pc' = "validate" /\ caller' = caller
        /\ settings' = settings /\ text' = text /\ retries' = retries /\ contract' \in Contracts
        /\ dictionary' = dictionary /\ failure' = failure /\ version' = version
        /\ verdict' = verdict /\ audits' = audits /\ matrix' = matrix
    BY <1>6 DEF Extract, Goto, inputs, gate, reports
  <2>2. failure = "none" /\ matrix = <<>> /\ caller = "stage"
    BY <2>1 DEF FindingsInv, TypeOK, MatrixInv, CallerInv
  <2>3. TypeOK'
    BY <2>1, <2>2 DEF FindingsInv, TypeOK
  <2>4. CallerInv' /\ AuditInv' /\ SettingsInv'
    BY <2>1, <2>2 DEF FindingsInv, CallerInv, AuditInv, SettingsInv, Analysed, Screened
  <2>5. ContractInv'
    BY <2>1, <2>2 DEF ContractInv, Accepted
  <2>6. StructuralInv' /\ EffectsInv' /\ RivalInv' /\ MatrixInv'
    BY <2>1, <2>2, NothingReported
  <2> QED
    BY <2>3, <2>4, <2>5, <2>6 DEF FindingsInv
<1>7. CASE Accept
  <2>1. /\ pc = "validate" /\ pc' = "audit" /\ caller' = caller
        /\ Refused(contract, document, dictionary, MinDesigned) = "none"
        /\ settings' = settings /\ text' = text /\ document' = document
        /\ retries' = retries /\ contract' = contract
        /\ dictionary' = dictionary /\ failure' = failure /\ version' = version
        /\ verdict' = verdict /\ audits' = audits /\ matrix' = matrix
    BY <1>7 DEF Accept, Goto, inputs, gate, reports
  <2>2. failure = "none" /\ contract \in Contracts
    BY <2>1 DEF FindingsInv, TypeOK, ContractInv
  <2>3. TypeOK'
    BY <2>1 DEF FindingsInv, TypeOK
  <2>4. CallerInv' /\ AuditInv' /\ SettingsInv'
    BY <2>1 DEF FindingsInv, CallerInv, AuditInv, SettingsInv, Analysed
  <2>5. ContractInv'
    BY <2>1, <2>2 DEF ContractInv
  <2>6. StructuralInv' /\ EffectsInv' /\ RivalInv' /\ MatrixInv'
    BY <2>1, <2>2, NothingReported
  <2> QED
    BY <2>3, <2>4, <2>5, <2>6 DEF FindingsInv
<1>8. CASE Refuse
  <2>1. PICK why : why = Refused(contract, document, dictionary, MinDesigned)
    OBVIOUS
  <2>2. pc = "validate" /\ why # "none" /\ Halt(why)
    BY <1>8, <2>1 DEF Refuse
  <2>3. contract \in Contracts
    BY <2>2 DEF FindingsInv, ContractInv
  <2>4. why # "missing"
    BY <1>1, <2>1
  <2> QED
    BY <2>1, <2>2, <2>3, <2>4, HaltsKeep
<1> QED
  BY <1>2, <1>3, <1>4, <1>5, <1>6, <1>7, <1>8 DEF Extraction

LEMMA GateKeeps ==
  ASSUME FindingsInv, Gate
  PROVE  FindingsInv'
<1> USE DEF NotYet
<1>1. retries \in Nat /\ version \in 0..retries /\ caller \in {"stage", "gate"}
  BY FindingsAssumption DEF FindingsInv, CallerInv, TypeOK
<1>2. CASE Audit
  <2>1. /\ pc = "audit" /\ pc' = "decide" /\ audits' = audits + 1
        /\ caller' = caller /\ settings' = settings /\ text' = text /\ document' = document
        /\ retries' = retries /\ contract' = contract /\ dictionary' = dictionary
        /\ failure' = failure /\ version' = version /\ matrix' = matrix
    BY <1>2 DEF Audit, Goto, inputs, reports
  <2>2. PICK r \in Replies :
          verdict' = [verdict |-> ParseVerdict(r), of |-> version, meant |-> Meant(r)]
    BY <1>2 DEF Audit
  <2>3. PICK v, m : v = ParseVerdict(r) /\ m = Meant(r)
    OBVIOUS
  <2>4. v \in {"approve", "reject"} /\ (v = "approve" => m = "approve")
    BY <2>3 DEF ParseVerdict, Meant, Conforms, Replies
  <2>5. verdict'.verdict = v /\ verdict'.of = version /\ verdict'.meant = m
    BY <2>2, <2>3
  <2>6. audits = version /\ failure = "none"
    BY <2>1 DEF FindingsInv, AuditInv, TypeOK
  <2>7. TypeOK'
    BY <1>1, <2>1, <2>4, <2>5, <2>6 DEF FindingsInv, TypeOK
  <2>8. CallerInv' /\ SettingsInv'
    BY <2>1 DEF FindingsInv, CallerInv, SettingsInv
  <2>9. AuditInv'
    BY <2>1, <2>4, <2>5, <2>6 DEF AuditInv, Analysed
  <2>10. ContractInv'
    BY <2>1, <2>6 DEF FindingsInv, ContractInv, Accepted
  <2>11. StructuralInv' /\ EffectsInv' /\ RivalInv' /\ MatrixInv'
    BY <2>1, <2>6, NothingReported
  <2> QED
    BY <2>7, <2>8, <2>9, <2>10, <2>11 DEF FindingsInv
<1>3. ASSUME pc \in {"decide", "bound"}, pc' \in {"structural", "audit", "done"},
             pc' = "structural" => caller = "stage" /\ pc = "decide",
             pc' = "done" => caller = "gate" /\ pc = "decide",
             pc' = "audit" => caller = "gate",
             pc' \in {"structural", "done"} => version' = version /\ verdict.verdict = "approve",
             pc' = "audit" => version' \in 0..retries /\ audits = version' /\ verdict.of <= version',
             caller' = caller, settings' = settings, text' = text, document' = document,
             retries' = retries, contract' = contract, dictionary' = dictionary,
             failure' = failure, verdict' = verdict, audits' = audits, matrix' = matrix
      PROVE  FindingsInv'
  <2>1. failure = "none" /\ matrix = <<>>
    BY <1>3 DEF FindingsInv, TypeOK, MatrixInv
  <2>2. version' \in 0..retries /\ verdict.of \in 0..version'
    BY <1>1, <1>3 DEF FindingsInv, TypeOK
  <2>3. TypeOK'
    BY <1>3, <2>1, <2>2 DEF FindingsInv, TypeOK
  <2>4. CallerInv'
    BY <1>3 DEF FindingsInv, CallerInv
  <2>5. AuditInv'
    BY <1>3 DEF FindingsInv, AuditInv, Analysed
  <2>6. SettingsInv'
    BY <1>3 DEF FindingsInv, SettingsInv, CallerInv
  <2>7. ContractInv'
    BY <1>3, <2>1 DEF FindingsInv, ContractInv, CallerInv, Accepted
  <2>8. StructuralInv' /\ EffectsInv' /\ RivalInv' /\ MatrixInv'
    BY <1>3, <2>1, NothingReported
  <2> QED
    BY <2>3, <2>4, <2>5, <2>6, <2>7, <2>8 DEF FindingsInv
<1>4. CASE Gate1Passes
  BY <1>3, <1>4 DEF Gate1Passes, Goto, inputs, gate, reports
<1>5. CASE Gate1Rejects
  BY <1>5, HaltsKeep DEF Gate1Rejects
<1>6. CASE BoundRefused
  BY <1>6, HaltsKeep DEF BoundRefused
<1>7. CASE BoundHolds
  <2>1. /\ pc = "bound" /\ pc' = "audit" /\ caller = "gate" /\ audits = version
        /\ verdict.of \in 0..version
    BY <1>1, <1>7 DEF BoundHolds, Goto, FindingsInv, CallerInv, AuditInv, TypeOK
  <2>2. /\ caller' = caller /\ settings' = settings /\ text' = text /\ document' = document
        /\ retries' = retries /\ contract' = contract /\ dictionary' = dictionary
        /\ failure' = failure /\ version' = version /\ verdict' = verdict
        /\ audits' = audits /\ matrix' = matrix
    BY <1>7 DEF BoundHolds, inputs, gate, reports
  <2>3. verdict.of <= version'
    BY <1>1, <2>1, <2>2
  <2> QED
    BY <1>1, <1>3, <2>1, <2>2, <2>3
<1>8. CASE GateApproves
  BY <1>3, <1>8 DEF GateApproves, Goto, inputs, gate, reports
<1>9. CASE GateExhausts
  BY <1>9, HaltsKeep DEF GateExhausts
<1>10. CASE Revise
  <2>1. /\ pc = "decide" /\ pc' = "audit" /\ caller = "gate" /\ version # retries
        /\ version' = version + 1 /\ audits = version + 1 /\ verdict.of \in 0..version
    BY <1>10 DEF Revise, Goto, FindingsInv, AuditInv, TypeOK
  <2>2. /\ caller' = caller /\ settings' = settings /\ text' = text /\ document' = document
        /\ retries' = retries /\ contract' = contract /\ dictionary' = dictionary
        /\ failure' = failure /\ verdict' = verdict /\ audits' = audits /\ matrix' = matrix
    BY <1>10 DEF Revise, inputs, reports
  <2>3. version' \in 0..retries /\ audits = version' /\ verdict.of <= version'
    BY <1>1, <2>1
  <2> QED
    BY <1>3, <2>1, <2>2, <2>3
<1> QED
  BY <1>2, <1>4, <1>5, <1>6, <1>7, <1>8, <1>9, <1>10 DEF Gate

-----------------------------------------------------------------------------
LEMMA AnalysisKeepsWhatWasSaid ==
  ASSUME FindingsInv, pc \in {"structural", "effects", "rival", "matrix"},
         pc' \in {"effects", "rival", "matrix", "done"},
         inputs' = inputs, gate' = gate, contract' = contract, failure' = failure,
         DOMAIN matrix' \in {{}, DOMAIN contract.hypotheses}
  PROVE  TypeOK' /\ SaidInv'
<1>1. /\ caller' = caller /\ settings' = settings /\ text' = text /\ document' = document
      /\ dictionary' = dictionary /\ retries' = retries /\ version' = version
      /\ verdict' = verdict /\ audits' = audits
  BY DEF inputs, gate
<1>2. caller = "stage" /\ failure = "none"
  BY DEF FindingsInv, CallerInv, TypeOK
<1>3. TypeOK'
  BY <1>1 DEF FindingsInv, TypeOK
<1>4. CallerInv' /\ AuditInv' /\ SettingsInv'
  BY <1>1, <1>2 DEF FindingsInv, CallerInv, AuditInv, SettingsInv, Analysed
<1>5. ContractInv'
  BY <1>1, <1>2 DEF FindingsInv, ContractInv, Accepted
<1> QED
  BY <1>3, <1>4, <1>5 DEF SaidInv

LEMMA NoMatrixYet ==
  ASSUME matrix' = <<>>, failure' # "missing"
  PROVE  MatrixInv'
BY DEF MatrixInv, MatrixFollows

LEMMA StructuralStays ==
  ASSUME StructuralInv, pc \in {"effects", "rival", "matrix"}, caller' = caller,
         contract' = contract, structural' = structural
  PROVE  StructuralInv'
BY DEF StructuralInv

LEMMA FollowStays ==
  ASSUME contract' = contract, effects' = effects, NEW e
  PROVE  Follow(e)' <=> Follow(e)
<1>1. \A h : Row(h, e)' = Row(h, e)
  BY ReadOfContract
<1>2. Indirect' = Indirect
  BY ReadOfContract
<1> QED
  BY <1>1, <1>2 DEF Follow

LEMMA EffectsStay ==
  ASSUME EffectsInv, pc \in {"rival", "matrix"}, caller' = caller,
         contract' = contract, effects' = effects
  PROVE  EffectsInv'
<1>1. caller = "stage" => \E e \in Estimates : Follow(e)
  BY DEF EffectsInv
<1>2. caller = "stage" => \E e \in Estimates' : Follow(e)'
  BY <1>1, FollowStays, ReadOfContract
<1> QED
  BY <1>2 DEF EffectsInv

-----------------------------------------------------------------------------
(* The statistics the matrix is built on, once the effects are reported:   *)
(* one at most for a hypothesis, the one of its row for an indirect one,   *)
(* and none only for a total one without a direct edge.                    *)
LEMMA RowsAre ==
  ASSUME FindingsInv, pc = "matrix"
  PROVE  \E e : /\ e \in Estimates /\ Follow(e)
                /\ DOMAIN effects.rows = DOMAIN Indirect
                /\ \A k \in DOMAIN Indirect : effects.rows[k] = Row(Indirect[k], e)
<1>1. caller = "stage"
  BY DEF FindingsInv, CallerInv
<1>2. PICK e \in Estimates : Follow(e)
  BY <1>1 DEF FindingsInv, EffectsInv
<1>3. effects.rows = [k \in DOMAIN Indirect |-> Row(Indirect[k], e)]
  BY <1>2 DEF Follow
<1> QED
  BY <1>2, <1>3

LEMMA IndirectAre ==
  ASSUME FindingsInv, pc = "matrix"
  PROVE  /\ DOMAIN Indirect \subseteq Nat /\ IsFiniteSet(DOMAIN Indirect)
         /\ \A k \in DOMAIN Indirect :
              Indirect[k] \in HypothesisSet(contract) /\ Indirect[k].effect = "indirect"
         /\ Named(Indirect) = {h \in HypothesisSet(contract) : h.effect = "indirect"}
<1>1. HypothesesWellFormed(contract)
  BY AcceptedNow DEF Accepted, FindingsInv, CallerInv
<1>2. PICK hs : hs = Indirect
  OBVIOUS
<1>3. /\ hs \in Seq(HypothesisSet(contract))
      /\ Named(hs) = {h \in HypothesisSet(contract) : h.effect = "indirect"}
  BY <1>1, <1>2, HypothesesAre DEF Indirect
<1>4. DOMAIN hs = 1..Len(hs) /\ Len(hs) \in Nat
  BY <1>3, LenProperties
<1>5. DOMAIN hs \subseteq Nat /\ IsFiniteSet(DOMAIN hs)
  BY <1>4, FS_Interval
<1>6. \A k \in DOMAIN hs : hs[k] \in Named(hs)
  BY DEF Named
<1> QED
  BY <1>2, <1>3, <1>5, <1>6

LEMMA JudgedByOne ==
  ASSUME FindingsInv, pc = "matrix", NEW h \in HypothesisSet(contract),
         NEW b \in Judged(h), NEW d \in Judged(h)
  PROVE  b = d
<1>1. PICK e : /\ Follow(e)
               /\ DOMAIN effects.rows = DOMAIN Indirect
               /\ \A k \in DOMAIN Indirect : effects.rows[k] = Row(Indirect[k], e)
  BY RowsAre
<1>2. Accepted
  BY DEF FindingsInv, CallerInv, Accepted
<1>3. /\ HypothesesWellFormed(contract)
      /\ EffectsRegressions(contract) = Named(StructuralRegressions(contract))
  BY <1>2, AcceptedNow
<1>4. h.effect \in {"direct", "indirect", "total"}
  BY <1>3 DEF HypothesesWellFormed
<1>5. CASE h.effect = "direct"
  <2>1. Judged(h) = {effects.paths[k].block :
                       k \in {j \in DOMAIN effects.paths : effects.paths[j].pair = <<h.to, h.from>>}}
    BY <1>5 DEF Judged
  <2>2. \A k \in DOMAIN effects.paths : effects.paths[k].block = e.edge[effects.paths[k].pair]
    BY <1>1 DEF Follow
  <2>3. \A x \in Judged(h) : x = e.edge[<<h.to, h.from>>]
    BY <2>1, <2>2
  <2> QED
    BY <2>3
<1>6. CASE h.effect = "indirect"
  <2>1. Judged(h) = {effects.rows[k].indirect :
                       k \in {j \in DOMAIN effects.rows : effects.rows[j].from = h.from
                                /\ effects.rows[j].to = h.to /\ effects.rows[j].via = h.via}}
    BY <1>6 DEF Judged
  <2>2. ASSUME NEW k \in DOMAIN effects.rows, effects.rows[k].from = h.from,
               effects.rows[k].to = h.to, effects.rows[k].via = h.via
        PROVE  effects.rows[k].indirect = e.chain[Chain(h)]
    <3>1. PICK g : g = Indirect[k]
      OBVIOUS
    <3>2. effects.rows[k] = Row(g, e)
      BY <1>1, <3>1
    <3>3. /\ Row(g, e).from = g.from /\ Row(g, e).to = g.to /\ Row(g, e).via = g.via
          /\ Row(g, e).indirect = e.chain[Chain(g)]
      BY <1>3, RowIs
    <3>4. g.from = h.from /\ g.to = h.to /\ g.via = h.via
      BY <2>2, <3>2, <3>3
    <3>5. Chain(g) = Chain(h)
      BY <3>4 DEF Chain
    <3> QED
      BY <3>2, <3>3, <3>5
  <2>3. \A x \in Judged(h) : x = e.chain[Chain(h)]
    BY <2>1, <2>2
  <2> QED
    BY <2>3
<1>7. CASE h.effect = "total"
  <2> DEFINE at == {k \in DOMAIN effects.rows : effects.rows[k].from = h.from
                      /\ effects.rows[k].to = h.to /\ effects.rows[k].total # <<>>}
             last == {j \in at : \A i \in at : i <= j}
  <2>1. Judged(h) = {effects.rows[k].total[1] : k \in last}
    BY <1>7 DEF Judged
  <2>2. at \subseteq Nat
    BY <1>1, IndirectAre
  <2>3. \A j, k \in last : j = k
    BY <2>2
  <2> HIDE DEF last
  <2> QED
    BY <2>1, <2>3
<1> QED
  BY <1>4, <1>5, <1>6, <1>7

LEMMA JudgedByBlocks ==
  ASSUME FindingsInv, pc = "matrix", NEW h \in HypothesisSet(contract), NEW b \in Judged(h)
  PROVE  b.sign \in {-1, 0, 1}
<1>1. PICK e : /\ e \in Estimates /\ Follow(e)
               /\ DOMAIN effects.rows = DOMAIN Indirect
               /\ \A k \in DOMAIN Indirect : effects.rows[k] = Row(Indirect[k], e)
  BY RowsAre
<1>2. caller = "stage" /\ Accepted
  BY DEF FindingsInv, CallerInv, Accepted
<1>3. /\ HypothesesWellFormed(contract)
      /\ EffectsRegressions(contract) = Named(StructuralRegressions(contract))
  BY <1>2, AcceptedNow
<1>4. h.effect \in {"direct", "indirect", "total"}
  BY <1>3 DEF HypothesesWellFormed
<1>5. /\ \A x \in EffectsRegressions(contract) : e.edge[x] \in Blocks
      /\ \A g \in Named(Indirect) : e.chain[Chain(g)] \in Blocks /\ e.total[Chain(g)] \in Blocks
  <2>1. /\ e.edge \in [EffectsRegressions(contract) -> Blocks]
        /\ e.chain \in [{Chain(g) : g \in Named(Indirect)} -> Blocks]
        /\ e.total \in [{Chain(g) : g \in Named(Indirect)} -> Blocks]
    BY <1>1 DEF Estimates
  <2> QED
    BY <2>1
<1>6. CASE h.effect = "direct"
  <2>1. PICK k \in DOMAIN effects.paths : b = effects.paths[k].block
    BY <1>6 DEF Judged
  <2>2. effects.paths[k].pair \in EffectsRegressions(contract)
    BY <1>2 DEF FindingsInv, EffectsInv, EdgesOf
  <2>3. b = e.edge[effects.paths[k].pair]
    BY <1>1, <2>1 DEF Follow
  <2>4. b \in Blocks
    BY <1>5, <2>2, <2>3
  <2> QED
    BY <2>4, FindingsAssumption
<1>7. CASE h.effect = "indirect"
  <2>1. PICK k \in DOMAIN effects.rows : b = effects.rows[k].indirect
    BY <1>7 DEF Judged
  <2>2. PICK g : g = Indirect[k] /\ g \in Named(Indirect)
    BY <1>1, <2>1 DEF Named
  <2>3. effects.rows[k] = Row(g, e)
    BY <1>1, <2>1, <2>2
  <2>4. Row(g, e).indirect = e.chain[Chain(g)]
    BY <1>3, RowIs
  <2>5. b \in Blocks
    BY <1>5, <2>1, <2>2, <2>3, <2>4
  <2> QED
    BY <2>5, FindingsAssumption
<1>8. CASE h.effect = "total"
  <2>1. PICK k \in DOMAIN effects.rows :
          b = effects.rows[k].total[1] /\ effects.rows[k].total # <<>>
    BY <1>8 DEF Judged
  <2>2. PICK g : g = Indirect[k] /\ g \in Named(Indirect)
    BY <1>1, <2>1 DEF Named
  <2>3. effects.rows[k] = Row(g, e)
    BY <1>1, <2>1, <2>2
  <2>4. Row(g, e).total # <<>> => Row(g, e).total[1] = e.total[Chain(g)]
    BY <1>3, RowIs
  <2>5. b = e.total[Chain(g)]
    BY <2>1, <2>3, <2>4
  <2>6. b \in Blocks
    BY <1>5, <2>2, <2>5
  <2> QED
    BY <2>6, FindingsAssumption
<1> QED
  BY <1>4, <1>6, <1>7, <1>8

LEMMA JudgedAlike ==
  ASSUME NEW g, NEW h, g.effect = h.effect, g.from = h.from, g.to = h.to, g.via = h.via
  PROVE  Judged(g) = Judged(h)
BY DEF Judged

LEMMA JudgedByItsRow ==
  ASSUME FindingsInv, pc = "matrix", NEW h \in HypothesisSet(contract),
         NEW r \in DOMAIN effects.rows, effects.rows[r].hypothesis = h.id
  PROVE  /\ effects.rows[r].indirect \in Judged(h)
         /\ effects.rows[r].classification \in {"direct_only", "no_effect"}
              => effects.rows[r].indirect.ci = "spans"
<1>1. PICK e : /\ Follow(e)
               /\ DOMAIN effects.rows = DOMAIN Indirect
               /\ \A k \in DOMAIN Indirect : effects.rows[k] = Row(Indirect[k], e)
  BY RowsAre
<1>2. Accepted
  BY DEF FindingsInv, CallerInv, Accepted
<1>3. /\ HypothesesWellFormed(contract) /\ IdsDistinct(contract)
      /\ EffectsRegressions(contract) = Named(StructuralRegressions(contract))
  BY <1>2, AcceptedNow
<1>4. PICK g, row : g = Indirect[r] /\ row = effects.rows[r]
  OBVIOUS
<1>5. row = Row(g, e) /\ g \in HypothesisSet(contract) /\ g.effect = "indirect"
  BY <1>1, <1>4, IndirectAre
<1>6. /\ row.hypothesis = g.id /\ row.from = g.from /\ row.to = g.to /\ row.via = g.via
      /\ row.classification \in {"direct_only", "no_effect"} => row.indirect.ci = "spans"
  BY <1>3, <1>5, RowIs
<1>7. g = h
  <2>1. g.id = h.id
    BY <1>4, <1>6
  <2>2. PICK j, k \in DOMAIN contract.hypotheses :
          g = contract.hypotheses[j] /\ h = contract.hypotheses[k]
    BY <1>5 DEF HypothesisSet
  <2> QED
    BY <1>3, <2>1, <2>2 DEF IdsDistinct
<1>8. Judged(h) = {effects.rows[k].indirect :
                     k \in {j \in DOMAIN effects.rows : effects.rows[j].from = h.from
                              /\ effects.rows[j].to = h.to /\ effects.rows[j].via = h.via}}
  BY <1>5, <1>7 DEF Judged
<1>9. effects.rows[r].from = h.from /\ effects.rows[r].to = h.to /\ effects.rows[r].via = h.via
  BY <1>4, <1>6, <1>7
<1> QED
  BY <1>4, <1>6, <1>8, <1>9

LEMMA OnlyTotalsMissing ==
  ASSUME FindingsInv, pc = "matrix", NEW h \in HypothesisSet(contract), Judged(h) = {}
  PROVE  /\ h.effect = "total"
         /\ \A g \in Named(Indirect) : <<g.from, g.to>> = <<h.from, h.to>>
              => <<g.from, g.to>> \notin DirectLinks(contract)
<1>1. PICK e : /\ Follow(e)
               /\ DOMAIN effects.rows = DOMAIN Indirect
               /\ \A k \in DOMAIN Indirect : effects.rows[k] = Row(Indirect[k], e)
  BY RowsAre
<1>2. caller = "stage" /\ Accepted
  BY DEF FindingsInv, CallerInv, Accepted
<1>3. /\ HypothesesWellFormed(contract)
      /\ EffectsRegressions(contract) = Named(StructuralRegressions(contract))
  BY <1>2, AcceptedNow
<1>4. h.effect \in {"direct", "indirect", "total"}
  BY <1>3 DEF HypothesesWellFormed
<1>5. h.effect # "direct"
  <2> SUFFICES ASSUME h.effect = "direct" PROVE FALSE
    OBVIOUS
  <2>1. <<h.from, h.to>> \in DirectLinks(contract)
    BY DEF DirectLinks
  <2>2. <<h.to, h.from>> \in EffectsRegressions(contract)
    BY <1>3, <2>1, DirectEdge DEF HasDirect
  <2>3. EdgesOf(effects.paths) = EffectsRegressions(contract)
    BY <1>2 DEF FindingsInv, EffectsInv
  <2>4. PICK k \in DOMAIN effects.paths : effects.paths[k].pair = <<h.to, h.from>>
    BY <2>2, <2>3 DEF EdgesOf
  <2>5. effects.paths[k].block \in Judged(h)
    BY <2>4 DEF Judged
  <2> QED
    BY <2>5
<1>6. h.effect # "indirect"
  <2> SUFFICES ASSUME h.effect = "indirect" PROVE FALSE
    OBVIOUS
  <2>1. PICK k \in DOMAIN Indirect : h = Indirect[k]
    BY IndirectAre DEF Named
  <2>2. PICK row : row = effects.rows[k]
    OBVIOUS
  <2>3. row = Row(h, e)
    BY <1>1, <2>1, <2>2
  <2>4. row.from = h.from /\ row.to = h.to /\ row.via = h.via
    BY <1>3, <2>3, RowIs
  <2>5. row.indirect \in Judged(h)
    BY <1>1, <2>1, <2>2, <2>4 DEF Judged
  <2> QED
    BY <2>5
<1>7. ASSUME NEW g \in Named(Indirect), <<g.from, g.to>> = <<h.from, h.to>>,
             <<g.from, g.to>> \in DirectLinks(contract)
      PROVE  FALSE
  <2> DEFINE at == {k \in DOMAIN effects.rows : effects.rows[k].from = h.from
                      /\ effects.rows[k].to = h.to /\ effects.rows[k].total # <<>>}
             last == {j \in at : \A i \in at : i <= j}
  <2>1. Judged(h) = {effects.rows[k].total[1] : k \in last}
    BY <1>4, <1>5, <1>6 DEF Judged
  <2>2. PICK k \in DOMAIN Indirect : g = Indirect[k]
    BY <1>7 DEF Named
  <2>3. effects.rows[k] = Row(g, e)
    BY <1>1, <2>2
  <2>4. k \in at
    <3>1. g.from = h.from /\ g.to = h.to
      BY <1>7
    <3>2. Row(g, e).from = g.from /\ Row(g, e).to = g.to /\ Row(g, e).total # <<>>
      BY <1>3, <1>7, RowIs
    <3> QED
      BY <1>1, <2>2, <2>3, <3>1, <3>2
  <2>5. at \in SUBSET Nat /\ IsFiniteSet(at)
    <3>1. at \subseteq DOMAIN Indirect
      BY <1>1
    <3> HIDE DEF at
    <3>2. IsFiniteSet(at)
      BY <3>1, IndirectAre, FS_Subset
    <3> QED
      BY <3>1, <3>2, IndirectAre
  <2> HIDE DEF at
  <2>6. PICK j \in at : \A i \in at : i <= j
    BY <2>4, <2>5, LastPosition
  <2>7. j \in last
    BY <2>6
  <2> HIDE DEF last
  <2> QED
    BY <2>1, <2>7
<1> QED
  BY <1>4, <1>5, <1>6, <1>7

-----------------------------------------------------------------------------
LEMMA ReportStays ==
  ASSUME FindingsInv, pc \in {"structural", "effects", "rival"},
         matrix' = matrix, failure' = failure
  PROVE  MatrixInv' /\ matrix = <<>> /\ failure = "none" /\ caller = "stage"
<1>1. matrix = <<>> /\ failure = "none" /\ caller = "stage"
  BY DEF FindingsInv, MatrixInv, TypeOK, CallerInv
<1>2. matrix' = <<>> /\ failure' # "missing"
  BY <1>1
<1> QED
  BY <1>1, <1>2, NoMatrixYet

LEMMA StructuralKeeps ==
  ASSUME FindingsInv, RunStructural
  PROVE  FindingsInv'
<1>1. /\ pc = "structural" /\ pc' = "effects" /\ inputs' = inputs /\ gate' = gate
      /\ contract' = contract /\ failure' = failure /\ matrix' = matrix /\ caller' = caller
  BY DEF RunStructural, Goto, inputs
<1>2. MatrixInv' /\ matrix = <<>> /\ failure = "none" /\ caller = "stage"
  BY <1>1, ReportStays
<1>3. TypeOK' /\ SaidInv'
  BY <1>1, <1>2, AnalysisKeepsWhatWasSaid
<1>4. HypothesesWellFormed(contract)
  BY <1>1, <1>2, AcceptedNow DEF Accepted
<1>5. PICK a \in StructuralAnswers(contract) :
        /\ StructuralValid(contract, a)
        /\ structural' = [paths |-> a.paths, r2 |-> Named(a.r2)]
  BY DEF RunStructural
<1>6. structural'.paths = a.paths /\ structural'.r2 = Named(a.r2)
  BY <1>5
<1>7. Covers(a.paths, Named(StructuralRegressions(contract)))
      /\ Named(a.r2) = Endogenous(contract)
  BY <1>5 DEF StructuralValid, Covers
<1>8. a.paths \in Seq(Named(StructuralRegressions(contract)) \cup {ForeignPair})
  BY <1>4, StructuralAnswersType
<1>9. StructuralInv'
  BY <1>1, <1>6, <1>7, <1>8 DEF StructuralInv
<1>10. EffectsInv' /\ RivalInv'
  BY <1>1 DEF EffectsInv, RivalInv
<1> QED
  BY <1>2, <1>3, <1>9, <1>10 DEF FindingsInv, SaidInv

LEMMA EffectsKeep ==
  ASSUME FindingsInv, RunEffects
  PROVE  FindingsInv'
<1>1. /\ pc = "effects" /\ pc' = "rival" /\ inputs' = inputs /\ gate' = gate
      /\ contract' = contract /\ failure' = failure /\ matrix' = matrix /\ caller' = caller
      /\ structural' = structural
  BY DEF RunEffects, Goto, inputs
<1>2. MatrixInv' /\ matrix = <<>> /\ failure = "none" /\ caller = "stage"
  BY <1>1, ReportStays
<1>3. TypeOK' /\ SaidInv'
  BY <1>1, <1>2, AnalysisKeepsWhatWasSaid
<1>4. StructuralInv'
  BY <1>1, StructuralStays DEF FindingsInv
<1>5. PICK a \in EffectsKeys, e \in Estimates :
        /\ EffectsValid(a)
        /\ effects' =
             [paths |-> [k \in DOMAIN a.paths |->
                          [pair |-> a.paths[k], block |-> e.edge[a.paths[k]]]],
              rows |-> [k \in DOMAIN Indirect |-> Row(Indirect[k], e)],
              sums |-> Named(a.sums)]
  BY DEF RunEffects
<1>6. /\ effects'.paths = [k \in DOMAIN a.paths |->
                            [pair |-> a.paths[k], block |-> e.edge[a.paths[k]]]]
      /\ effects'.rows = [k \in DOMAIN Indirect |-> Row(Indirect[k], e)]
  BY <1>5
<1>7. Named(a.paths) = EffectsRegressions(contract)
  BY <1>5 DEF EffectsValid, Covers
<1>8. EdgesOf(effects'.paths) = EffectsRegressions(contract)
  <2>1. PICK paths : paths = effects'.paths
    OBVIOUS
  <2>2. DOMAIN paths = DOMAIN a.paths /\ \A k \in DOMAIN a.paths : paths[k].pair = a.paths[k]
    BY <1>6, <2>1
  <2>3. EdgesOf(paths) = Named(a.paths)
    BY <2>2 DEF EdgesOf, Named
  <2> QED
    BY <1>7, <2>1, <2>3
<1>9. Follow(e)'
  <2>1. \A k \in DOMAIN effects'.paths :
          effects'.paths[k].block = e.edge[effects'.paths[k].pair]
    BY <1>6
  <2>2. Indirect' = Indirect /\ \A h : Row(h, e)' = Row(h, e)
    BY <1>1, ReadOfContract
  <2> QED
    BY <1>6, <2>1, <2>2 DEF Follow
<1>10. e \in Estimates'
  BY <1>1, <1>5, ReadOfContract
<1>11. EffectsInv'
  BY <1>1, <1>8, <1>9, <1>10 DEF EffectsInv
<1>12. RivalInv'
  BY <1>1 DEF RivalInv
<1> QED
  BY <1>2, <1>3, <1>4, <1>11, <1>12 DEF FindingsInv, SaidInv

LEMMA RivalKeeps ==
  ASSUME FindingsInv, RunRival
  PROVE  FindingsInv'
<1>1. /\ pc = "rival" /\ pc' = "matrix" /\ inputs' = inputs /\ gate' = gate
      /\ contract' = contract /\ failure' = failure /\ matrix' = matrix /\ caller' = caller
      /\ structural' = structural /\ effects' = effects
  BY DEF RunRival, Goto, inputs
<1>2. MatrixInv' /\ matrix = <<>> /\ failure = "none" /\ caller = "stage"
  BY <1>1, ReportStays
<1>3. TypeOK' /\ SaidInv'
  BY <1>1, <1>2, AnalysisKeepsWhatWasSaid
<1>4. StructuralInv' /\ EffectsInv'
  BY <1>1, StructuralStays, EffectsStay DEF FindingsInv
<1>5. HypothesesWellFormed(contract)
  BY <1>1, <1>2, AcceptedNow DEF Accepted
<1>6. PICK a, aicFalls, bicFalls :
        /\ StructuralValid(Reversed(contract), a)
        /\ rival' = [paths |-> a.paths, preferred |-> aicFalls /\ bicFalls]
  BY DEF RunRival
<1>7. rival'.paths = a.paths
  BY <1>6
<1>8. Named(a.paths) = Named(StructuralRegressions(Reversed(contract)))
  BY <1>6 DEF StructuralValid, Covers
<1>9. Named(StructuralRegressions(Reversed(contract))) = DirectLinks(contract)
  BY <1>5, ReversedAre
<1>10. RivalInv'
  BY <1>1, <1>7, <1>8, <1>9 DEF RivalInv
<1> QED
  BY <1>2, <1>3, <1>4, <1>10 DEF FindingsInv, SaidInv

(* The matrix cannot be built: what is missing is a total hypothesis.      *)
LEMMA MissingKeeps ==
  ASSUME FindingsInv, MatrixFails
  PROVE  FindingsInv'
<1>1. /\ pc = "matrix" /\ pc' = "halted" /\ failure' = "missing" /\ matrix' = matrix
      /\ contract' = contract /\ Halt("missing") /\ caller' = caller
  BY DEF MatrixFails, Halt, reports, inputs
<1>2. matrix' = <<>>
  BY <1>1 DEF FindingsInv, MatrixInv
<1>3. TypeOK' /\ SaidInv'
  BY <1>1, HaltsKeepWhatWasSaid
<1>4. StructuralInv' /\ EffectsInv' /\ RivalInv'
  BY <1>1 DEF StructuralInv, EffectsInv, RivalInv
<1>5. PICK h \in HypothesisSet(contract) : Judged(h) = {}
  BY DEF MatrixFails
<1>6. /\ h.effect = "total"
      /\ \A g \in Named(Indirect) : <<g.from, g.to>> = <<h.from, h.to>>
           => <<g.from, g.to>> \notin DirectLinks(contract)
  BY <1>1, <1>5, OnlyTotalsMissing
<1>7. Indirect' = Indirect
  BY <1>1, ReadOfContract
<1>8. \E h1 \in HypothesisSet(contract') : h1.effect = "total" /\ \A g \in Named(Indirect') :
             <<g.from, g.to>> = <<h1.from, h1.to>> => <<g.from, g.to>> \notin DirectLinks(contract')
  BY <1>1, <1>6, <1>7
<1>9. MatrixFollows'
  BY <1>2, <1>8 DEF MatrixFollows
<1>10. MatrixInv'
  BY <1>1, <1>2, <1>9 DEF MatrixInv
<1> QED
  BY <1>3, <1>4, <1>10 DEF FindingsInv, SaidInv

(* The matrix says of each hypothesis whether the one statistic there is   *)
(* supports it.                                                            *)
LEMMA BuildKeeps ==
  ASSUME FindingsInv, BuildMatrix
  PROVE  FindingsInv'
<1>1. /\ pc = "matrix" /\ pc' = "done" /\ inputs' = inputs /\ gate' = gate
      /\ contract' = contract /\ failure' = failure /\ caller' = caller
      /\ structural' = structural /\ effects' = effects /\ rival' = rival
  BY DEF BuildMatrix, Goto, inputs
<1>2. failure = "none" /\ caller = "stage"
  BY <1>1 DEF FindingsInv, TypeOK, CallerInv
<1>3. matrix' = [k \in DOMAIN contract.hypotheses |->
        [hypothesis |-> contract.hypotheses[k].id,
         supported |-> \E b \in Judged(contract.hypotheses[k]) :
                          Supported(b, contract.hypotheses[k].sign)]]
  BY DEF BuildMatrix
<1>4. TypeOK' /\ SaidInv'
  <2>1. DOMAIN matrix' = DOMAIN contract.hypotheses
    BY <1>3
  <2> QED
    BY <1>1, <2>1, AnalysisKeepsWhatWasSaid
<1>5. StructuralInv' /\ EffectsInv'
  BY <1>1, StructuralStays, EffectsStay DEF FindingsInv
<1>6. RivalInv'
  BY <1>1 DEF FindingsInv, RivalInv
<1>7. \A k \in DOMAIN matrix' :
        /\ k \in DOMAIN contract.hypotheses
        /\ contract.hypotheses[k] \in HypothesisSet(contract)
        /\ matrix'[k].hypothesis = contract.hypotheses[k].id
        /\ matrix'[k].supported <=> \E b \in Judged(contract.hypotheses[k]) :
                                      Supported(b, contract.hypotheses[k].sign)
  BY <1>3 DEF HypothesisSet
<1>8. HypothesesWellFormed(contract)
  BY <1>1, <1>2, AcceptedNow DEF Accepted
<1>9. ASSUME NEW k \in DOMAIN matrix', matrix'[k].supported,
             NEW h, h = contract.hypotheses[k]
      PROVE  \E b \in Judged(h) : Supported(b, h.sign) /\ Judged(h) = {b}
  <2>1. h \in HypothesisSet(contract)
    BY <1>7, <1>9
  <2>2. PICK b \in Judged(h) : Supported(b, h.sign)
    BY <1>7, <1>9
  <2>3. \A d \in Judged(h) : d = b
    BY <1>1, <2>1, JudgedByOne
  <2> QED
    BY <2>2, <2>3
<1>10. ASSUME NEW k \in DOMAIN matrix', matrix'[k].supported,
              NEW h, h = contract.hypotheses[k]
       PROVE  /\ \A b \in Judged(h) : b.p # "marginal"
              /\ \A j \in DOMAIN matrix' : \A g : g = contract.hypotheses[j] =>
                   (matrix'[j].supported /\ g.effect = h.effect /\ g.via = h.via
                    /\ g.from = h.from /\ g.to = h.to => g.sign = h.sign)
              /\ \A r \in DOMAIN effects.rows :
                   effects.rows[r].hypothesis = matrix'[k].hypothesis
                   /\ effects.rows[r].classification \in {"direct_only", "no_effect"}
                     => effects.rows[r].indirect.p = "significant"
  <2>1. h \in HypothesisSet(contract) /\ matrix'[k].hypothesis = h.id
    BY <1>7, <1>10
  <2>2. PICK b \in Judged(h) : Supported(b, h.sign) /\ Judged(h) = {b}
    BY <1>9, <1>10
  <2>3. b.p # "marginal"
    BY <2>2 DEF Supported
  <2>4. ASSUME NEW j \in DOMAIN matrix', NEW g, g = contract.hypotheses[j],
               matrix'[j].supported, g.effect = h.effect, g.via = h.via,
               g.from = h.from, g.to = h.to
        PROVE  g.sign = h.sign
    <3>1. PICK d \in Judged(g) : Supported(d, g.sign) /\ Judged(g) = {d}
      BY <1>9, <2>4
    <3>2. Judged(g) = Judged(h)
      BY <2>4, JudgedAlike
    <3>3. d = b
      BY <2>2, <3>1, <3>2
    <3>4. g \in HypothesisSet(contract)
      BY <1>7, <2>4
    <3>5. g.sign \in {"positive", "negative"} /\ h.sign \in {"positive", "negative"}
      BY <1>8, <2>1, <3>4 DEF HypothesesWellFormed
    <3>6. b.sign \in {-1, 0, 1}
      BY <1>1, <2>1, <2>2, JudgedByBlocks
    <3> QED
      BY <2>2, <3>1, <3>3, <3>5, <3>6 DEF Supported
  <2>5. ASSUME NEW r \in DOMAIN effects.rows,
               effects.rows[r].hypothesis = matrix'[k].hypothesis,
               effects.rows[r].classification \in {"direct_only", "no_effect"}
        PROVE  effects.rows[r].indirect.p = "significant"
    <3>1. effects.rows[r].indirect \in Judged(h) /\ effects.rows[r].indirect.ci = "spans"
      BY <1>1, <2>1, <2>5, JudgedByItsRow
    <3>2. effects.rows[r].indirect = b
      BY <2>2, <3>1
    <3> QED
      BY <2>2, <3>1, <3>2 DEF Supported
  <2> QED
    BY <2>2, <2>3, <2>4, <2>5
<1>11. MatrixFollows'
  <2>1. \A h : Judged(h)' = Judged(h)
    BY <1>1, ReadOfEffects
  <2> QED
    BY <1>1, <1>2, <1>10, <2>1 DEF MatrixFollows
<1>12. MatrixInv'
  BY <1>1, <1>2, <1>11 DEF MatrixInv
<1> QED
  BY <1>4, <1>5, <1>6, <1>12 DEF FindingsInv, SaidInv

LEMMA AnalysisKeeps ==
  ASSUME FindingsInv, Analysis
  PROVE  FindingsInv'
<1>1. CASE StructuralRefused
  BY <1>1, HaltsKeep DEF StructuralRefused
<1>2. CASE StructuralFails
  BY <1>2, HaltsKeep DEF StructuralFails
<1>3. CASE EffectsRefused
  BY <1>3, HaltsKeep DEF EffectsRefused
<1>4. CASE EffectsFail
  BY <1>4, HaltsKeep DEF EffectsFail
<1>5. CASE RivalFails
  BY <1>5, HaltsKeep DEF RivalFails
<1> QED
  BY <1>1, <1>2, <1>3, <1>4, <1>5, StructuralKeeps, EffectsKeep, RivalKeeps, MissingKeeps,
     BuildKeeps DEF Analysis

LEMMA StutteringKeeps ==
  ASSUME FindingsInv, UNCHANGED vars
  PROVE  FindingsInv'
<1>1. /\ pc' = pc /\ caller' = caller /\ settings' = settings /\ text' = text
      /\ document' = document /\ dictionary' = dictionary /\ retries' = retries
      /\ contract' = contract /\ failure' = failure /\ version' = version
      /\ verdict' = verdict /\ audits' = audits /\ structural' = structural
      /\ effects' = effects /\ rival' = rival /\ matrix' = matrix
  BY DEF vars, inputs, gate, reports
<1>2. TypeOK' /\ CallerInv'
  BY <1>1 DEF FindingsInv, TypeOK, CallerInv
<1>3. AuditInv' /\ SettingsInv' /\ ContractInv'
  BY <1>1 DEF FindingsInv, AuditInv, SettingsInv, ContractInv, Accepted
<1>4. StructuralInv' /\ RivalInv'
  BY <1>1 DEF FindingsInv, StructuralInv, RivalInv
<1>5. EffectsInv'
  <2>1. \A e : Follow(e)' <=> Follow(e)
    BY <1>1, FollowStays
  <2>2. Estimates' = Estimates
    BY <1>1, ReadOfContract
  <2> QED
    BY <1>1, <2>1, <2>2 DEF FindingsInv, EffectsInv
<1>6. MatrixInv'
  <2>1. /\ \A h : Judged(h)' = Judged(h)
        /\ Indirect' = Indirect
    BY <1>1, ReadOfEffects, ReadOfContract
  <2> QED
    BY <1>1, <2>1 DEF FindingsInv, MatrixInv, MatrixFollows
<1> QED
  BY <1>2, <1>3, <1>4, <1>5, <1>6 DEF FindingsInv

LEMMA FindingsInvariant == Spec => []FindingsInv
<1>1. Init => FindingsInv
  BY InitInv
<1>2. FindingsInv /\ [Next]_vars => FindingsInv'
  BY ExtractionKeeps, GateKeeps, AnalysisKeeps, StutteringKeeps DEF Next
<1> QED
  BY <1>1, <1>2, PTL DEF Spec

-----------------------------------------------------------------------------
(* Each variable keeps its type: a gate never takes more cycles than its   *)
(* bound, and the work is halted exactly when there is a reason.           *)
THEOREM FindingsTypeCorrect == Spec => []TypeOK
<1>1. FindingsInv => TypeOK
  BY DEF FindingsInv
<1> QED
  BY <1>1, FindingsInvariant, PTL

(* Whatever contract the extraction node answers with, one that no         *)
(* validator refuses (validate_contract) has the same edges in the model   *)
(* of the effects as in the structural one, is refused by no payload for   *)
(* an unknown construct or an empty chain, and reverses an item exactly    *)
(* when a source says so and the dictionary does not say otherwise.        *)
THEOREM AcceptedContractsHold == Spec => []AcceptedContractHolds
<1>1. FindingsInv => AcceptedContractHolds
  BY AcceptedFollows
<1> QED
  BY <1>1, FindingsInvariant, PTL

(* What passes a gate (Gate1.execute, run_gate) was approved in so many    *)
(* words, by a reply that can be read in one way only, in an audit of the  *)
(* very version that passes, however many revisions the bound allows.      *)
THEOREM GatesHold == Spec => []GateHolds
<1>1. FindingsInv => GateHolds
  BY GateFollows
<1> QED
  BY <1>1, FindingsInvariant, PTL

(* The reports of the structural model, of the effects and of the rival    *)
(* are about the hypotheses of the contract and nothing else, however many *)
(* there are and however the answers of the workers came back.             *)
THEOREM ReportsAreMatched == Spec => []ReportsMatch
<1>1. FindingsInv => ReportsMatch
  BY ReportsFollow
<1> QED
  BY <1>1, FindingsInvariant, PTL

(* No statistic with a marginal p supports a hypothesis in the matrix      *)
(* (build_hypothesis_matrix), none supports two of opposite signs, and a   *)
(* hypothesis that has no statistic is a total one whose pair has no       *)
(* indirect hypothesis with a direct edge.                                 *)
THEOREM MatrixIsFollowed == Spec => []MatrixFollows
<1>1. FindingsInv => MatrixFollows
  BY DEF FindingsInv, MatrixInv
<1> QED
  BY <1>1, FindingsInvariant, PTL
=============================================================================
